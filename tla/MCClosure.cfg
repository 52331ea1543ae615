CONSTANTS
    a = a
    b = b
    c = c
    Names = {a, b, c}
    Elsewhere = Elsewhere
    Paths <- SomePaths
    Interps <- SomeInterps
    Files <- AnyFile
    Programs <- AnyProgram
    Gap = 2
    Page = 2
SPECIFICATION FairSpec
INVARIANTS
    AskedOnceByTheFirst
    ClosureIsReachable
    FailureIsTrue
    ObjectsApart
PROPERTIES
    LoadReturns
CHECK_DEADLOCK FALSE
