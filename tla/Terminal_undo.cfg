\* Two drinks, outages and power cuts, every answer read: undo is exact.
SPECIFICATION Spec
CONSTANTS
    t1 = t1
    t2 = t2
    NoTx = NoTx
    Tx = {t1, t2}
    Refusable = {}
    Env = {"power_cut"}
    MaxQueued = 3
SYMMETRY Symmetry
INVARIANTS
    UndoneIsReversed
