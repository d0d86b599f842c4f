\* One drink, everything the surroundings and the user can do except edits; the
\* power fails inside a flash write.
SPECIFICATION DeviceSpec
CONSTANTS
    t1 = t1
    t2 = t2
    NoTx = NoTx
    Tx = {t1}
    Refusable = {t1}
    Env = {"lock_busy", "throws", "link_fails", "garbled", "no_worker", "cut_in_write",
           "write_fails", "early_undo", "demo_failure"}
    MaxQueued = 2
INVARIANTS
    OutcomeBelongsToSlot
    WatchedResultIsFresh
    NoPurchaseWithItsVoid
    UndoHasRoom
PROPERTIES
    WaitEnds
