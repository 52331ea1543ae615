CONSTANTS
    short = short
    long = long
    bad = bad
    Files = {short, long, bad}
    Sample = sample
    None = none
    Broken = {bad}
    FrameCount <- Lengths
    MaxOpens = 1
SPECIFICATION Spec
PROPERTIES
    SampleYields
