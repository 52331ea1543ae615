CONSTANTS
    a = a
    b = b
    c = c
    Names = {a, b}
    Elsewhere = Elsewhere
    Paths <- NoName
    Interps <- NoName
    Files <- AnyFile
    Programs <- AnyProgram
    Gap = 2
    Page = 2
SPECIFICATION Spec
INVARIANTS
    DependenciesFirst
CHECK_DEADLOCK FALSE
