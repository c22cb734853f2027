\* What the builder's docstrings say of statements that follow each other.
CONSTANTS
    Codes <- SmallCodes
    NoTarget = NoTarget
    Entry = 0
    Exit = 99
SPECIFICATION CodeSpec
INVARIANT SequencesFlow
CHECK_DEADLOCK FALSE
