SPECIFICATION Spec
CONSTANTS
    Configs <- MCConfigs
    Compressible = {0, 8}
    Diffable = {7}
    RangeBlocks = 7
    MaxRangeLength = 7
    DevicesFor <- MCDevicesFor
    MaxRestarts = 2
    CacheSize = 4
    CopyBuffer = 4
    OutputBuffer = 2
INVARIANTS
    PayloadMakesTarget
    MergesInPlace
    HostToolsAgree
    PayloadInstalls
    RangesAreExact
CHECK_DEADLOCK FALSE
