SPECIFICATION Spec
CONSTANTS
    r1 = r1  r2 = r2  p1 = p1  p2 = p2  A = A  B = B
    None = None  Partial = Partial
    Runs <- MCRuns  Calls <- MCCalls  Readers <- MCReaders  IDs <- MCIDs
    Checks <- MCChecks  Core = "technology-detection"  Plans <- MCPlans
    Sources <- MCSources  Ignored <- MCIgnored  Identity <- MCIdentity
    Verdict <- MCVerdict  Candidates <- MCCandidates
    MaxEdits = 1  MaxFaults = 1  MaxRecords = 2
SYMMETRY Symmetry
CHECK_DEADLOCK FALSE
INVARIANTS TrustedClosure RecordedLasts ReferencesHold
