CONSTANTS
    Page = 2
    Objects <- Outputs
    IdentSpan = 1
    WordLen = 2
SPECIFICATION Spec
INVARIANT
    AllWritersAreListed
CHECK_DEADLOCK FALSE
