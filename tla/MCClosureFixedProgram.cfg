CONSTANTS
    a = a
    b = b
    c = c
    Names = {a, b}
    Elsewhere = Elsewhere
    Paths <- NoName
    Interps <- NoName
    Files <- AnyFile
    Programs <- FixedProgram
    Gap = 2
    Page = 2
SPECIFICATION Spec
INVARIANTS
    ObjectsApart
CHECK_DEADLOCK FALSE
