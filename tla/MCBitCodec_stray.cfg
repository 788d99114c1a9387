CONSTANTS
    Frames <- MCFrames
    MaxLens = {1, 2}
    TrailLens = {0, 7}
    LeadingStray = TRUE
SPECIFICATION Spec
INVARIANTS DecodeRecoversFrame
CHECK_DEADLOCK FALSE
