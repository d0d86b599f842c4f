\* Undo is tapped while the booking is being sent.
SPECIFICATION Spec
CONSTANTS
    t1 = t1
    t2 = t2
    NoTx = NoTx
    Tx = {t1, t2}
    Refusable = {}
    Env = {"early_undo"}
    MaxQueued = 2
INVARIANT DrinkNeverLost
