\* An outage that ends, power cuts (which also lose answers), and catalog edits
\* that share the queue and the slot with a drink.
SPECIFICATION NetworkSpec
CONSTANTS
    t1 = t1
    t2 = t2
    NoTx = NoTx
    Tx = {t1}
    Refusable = {}
    Env = {"power_cut", "edits"}
    MaxQueued = 2
INVARIANTS
    TypeOK
    HeadIsInFlight
    DrinkNeverLost
PROPERTIES
    QueueDrains
    BookedGetsRecorded
