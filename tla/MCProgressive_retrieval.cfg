SPECIFICATION Spec
CONSTANTS
    MaxResult = 12  MaxRequest = 5  MaxText = 3  MaxChecks = 3
    MaxFailureItems = 2  MaxFailureFindings = 2  MaxFailureEvidence = 2
    MaxFailurePage = 2  MaxFindingPage = 2  MaxEvidencePaths = 2
    MaxRawEvidence = 13  MaxRawChunk = 3  None = None
    Ids <- Four  Logs <- RawLogs  Reports <- Retrieved  Requests <- Asked
INVARIANTS
    NothingMissed
    RepliesTruthful
    LinesShownWhole
PROPERTIES
    RetrievalEnds
