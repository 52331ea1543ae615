CONSTANTS
    short = short
    long = long
    bad = bad
    Files = {short, long, bad}
    Sample = sample
    None = none
    Broken = {bad}
    FrameCount <- Lengths
    MaxOpens = 3
SPECIFICATION FairSpec
INVARIANTS
    TypeOK
    StageIsCurrent
    PanelsAgree
PROPERTIES
    PlaybackEnds
