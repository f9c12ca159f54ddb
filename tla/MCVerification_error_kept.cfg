SPECIFICATION MCSpec
CONSTANTS
    Checks <- Five  Resources <- Locks  Plans <- Selections
    Outcomes <- Verdicts  Limit = 2  None = None
    Projects <- Offered  Configs <- Policies  Coverage = 5
INVARIANTS
    ErrorStays
