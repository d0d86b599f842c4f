\* The power fails after the catalog of the first sync is saved and before its
\* residents are.
SPECIFICATION Spec
CONSTANTS
    Build <- OneBuild
    Kind <- Kinds
    Item <- Items
    Defaults <- Names
    Served <- OneRevision
    MaxFaults = 1
    Env = {"power_cut"}
INVARIANT DefaultsOnlyUntilSync
