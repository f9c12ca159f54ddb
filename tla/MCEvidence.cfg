SPECIFICATION EvidenceSpec
CONSTANTS
    r1 = r1  r2 = r2  b1 = b1
    None = None
    Runs <- MCRuns  Readers <- MCReaders
    Checks <- MCChecks  Core = "technology-detection"  Plans <- MCPlans
    Sources <- MCSources  Ignored <- MCIgnored  Identity <- MCIdentity
    Verdict <- MCVerdict
    MaxEdits = 2  MaxFaults = 2
CHECK_DEADLOCK FALSE
INVARIANTS SessionHonest AnswerNotOutrun
