CONSTANTS
    PROTOBUF_BUFFER_SIZE = 30
    Descriptors <- MCDescriptors
    Structs <- MCStructs
    Foreign <- MCForeign
    NoiseBytes <- MCNoiseBytes
    MaxParts = 2
    MaxForeign = 1
    MaxNoise = 4
    MaxVarint = 11
SPECIFICATION Spec
INVARIANTS
    TypeOK
    WholeDecodesToMerge
    CutIsFieldPrefix
    AcceptedRoundTrips
    FramesSeparate
    VarintReference
