CONSTANTS
    MaxU64 = 3
    Inputs <- UpToThreeSpans
    Probes <- SomeProbes
SPECIFICATION Spec
INVARIANTS
    AnswerIsExact
