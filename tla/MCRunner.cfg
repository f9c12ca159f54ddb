SPECIFICATION FairSpec
CONSTANTS
    Root = root  Children = {child}
    Limit = 2  MaxBytes = 3  None = None
INVARIANTS
    OutputComplete
    TreeGone
PROPERTIES
    KeepsAnswer
    Returns
