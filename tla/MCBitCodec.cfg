CONSTANTS
    Frames <- MCFrames
    MaxLens = {1, 2}
    TrailLens = {0, 7}
    LeadingStray = FALSE
SPECIFICATION Spec
INVARIANTS DecodeRecoversFrame DeserializeInBounds
CHECK_DEADLOCK FALSE
