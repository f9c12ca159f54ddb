SPECIFICATION WorkSpec
CONSTANTS
    MaxOutput = 2  MaxSequence = 5  None = None
    Journals <- Left  LineBytes = 2  MaxEvents = 7  Retained = 5  MaxFaults = 2
INVARIANTS
    LifecycleLossless
    NoLostWakeup
    CloseDrains
    JournalKeepsTail
PROPERTIES
    PublishCompletes
    CloseReturns
