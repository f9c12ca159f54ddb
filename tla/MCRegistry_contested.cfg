SPECIFICATION FairSpec
CONSTANTS
    p1 = p1  p2 = p2
    Nobody = Nobody  Nowhere = Nowhere
    Projects <- BothProjects  Paths <- AllPaths  Gone <- Vanished
    Procs <- TwoProcs
    Jobs <- ContestedJobs
    InitialFiles <- Registries
    MaxPolls = 1
    Stalls = TRUE
INVARIANTS
    LockHeld
    RecordedRunIsRunning
PROPERTIES
    RegistrationLasts
    KeepsBoundary
    Terminates
