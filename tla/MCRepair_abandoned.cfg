SPECIFICATION Spec
CONSTANTS
    old = old  new = new  binary = binary  none = none
    Absent = none
    Files <- MCFiles
    Contents <- MCContents
    Textual <- MCTextual
    Forbidden = {3}
    Proposals <- MCProposals
    OtherPatches <- MCOtherPatches
    HeadTree0 <- MCHeadTree
    Ignored = {3}
    Allowlists <- MCAllowlists
    InitialTrees <- MCCleanTree
    MaxEdits = 0
INVARIANTS
    NothingChangedIsTrue
