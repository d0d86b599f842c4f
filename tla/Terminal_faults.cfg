\* Two drinks, lost and unreadable answers, power cuts.
SPECIFICATION Spec
CONSTANTS
    t1 = t1
    t2 = t2
    NoTx = NoTx
    Tx = {t1, t2}
    Refusable = {}
    Env = {"power_cut", "link_fails", "garbled"}
    MaxQueued = 3
SYMMETRY Symmetry
INVARIANTS
    HeadIsInFlight
    DurableBeforeSent
    DrinkNeverLost
    VoidHasItsPurchase
PROPERTY ImplementsLedger
