SPECIFICATION FairSpec
CONSTANTS
    old = old  new = new  binary = binary  none = none
    Absent = none
    Files <- MCFiles
    Contents <- MCContents
    Textual <- MCTextual
    Forbidden = {3}
    Proposals <- MCProposals
    OtherPatches <- MCOtherPatches
    HeadTree0 <- MCHeadTree
    Ignored = {3}
    Allowlists <- MCAllowlists
    InitialTrees <- MCTrees
    MaxEdits = 2
INVARIANTS
    PrefixOfPatch
    AllOrNothing
    SuccessIsProved
    ExitZeroIsProved
PROPERTIES
    KeepsPromise
    CancellationStopsWork
    Terminates
    CancellationSettles
