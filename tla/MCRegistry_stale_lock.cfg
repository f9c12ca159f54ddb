SPECIFICATION Spec
CONSTANTS
    p1 = p1  p2 = p2
    Nobody = Nobody  Nowhere = Nowhere
    Projects <- BothProjects  Paths <- AllPaths  Gone <- Vanished
    Procs <- TwoProcs
    Jobs <- SameJob
    InitialFiles <- NoRegistry
    MaxPolls = 0
    Stalls = FALSE
INVARIANTS
    OneRecordedRun
