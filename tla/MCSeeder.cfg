\* Two faults and a request while the seeders run in the background.
CONSTANTS
    Seeds <- MCSeeds
    Await = FALSE
    MaxFaults = 2
    MaxActs = 1
SPECIFICATION Spec
INVARIANTS
    TypeOK
    NoSeedTwice
    BootHeals
PROPERTY
    SeedingEnds
CHECK_DEADLOCK FALSE
