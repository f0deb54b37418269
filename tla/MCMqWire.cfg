CONSTANTS
    Width = 5
    Chars = {1, 4, 22, 31}
    NameSize = 4
    MaxText = 2
    MaxSent = 2
SPECIFICATION Spec
INVARIANTS AloneIsExact AloneIsPassedOn NameIsExact
CHECK_DEADLOCK FALSE
