CONSTANTS
    Loads <- Observed
    Procs = {1, 2}
    Target = 1
    Endings <- EndsInP
    LoaderLike <- ContainsLd
SPECIFICATION Spec
CHECK_DEADLOCK FALSE
INVARIANTS
    LogIsReadBack
    VerdictsAreTrue
    ObjectsAreFiles
