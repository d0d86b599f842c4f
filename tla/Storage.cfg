\* Every store saved and loaded through power cuts, failing writes, damaged
\* files and an update of the firmware.
SPECIFICATION SavingSpec
CONSTANTS
    Build <- Builds
    Kind <- Kinds
    Item <- Items
    Defaults <- Names
    Served <- TwoRevisions
    MaxFaults = 2
    Env = {"power_cut", "write_fails", "mount_fails", "damage", "update"}
INVARIANTS
    TypeOK
    CleanSurvivesCut
    FromBackendTells
    SomebodyToCharge
    SeedIsCurrent
PROPERTIES
    RestartRestores
    ImplementsQueueFile
    DirtyGetsSaved
