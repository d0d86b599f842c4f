\* An answer is lost, the booking is undone from the queue.
SPECIFICATION Spec
CONSTANTS
    t1 = t1
    t2 = t2
    NoTx = NoTx
    Tx = {t1}
    Refusable = {}
    Env = {"link_fails"}
    MaxQueued = 2
INVARIANT UndoneIsReversed
