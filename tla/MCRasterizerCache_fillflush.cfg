\* Fills over several units, flushed from a unit past their first.
CONSTANTS
    NumAddr = 3
    PageSize = 2
    MaxSurfaces = 2
    ColorFormats <- MCOneColor
    DepthFormats = {}
    Strides = {1}
    Scales = {1, 2}
    Filters = {"NoFilter", "Linear"}
    Reinterpreters = {}
    RemoveThreshold = 1
    MaxTick = 100
    MaxVal = 100
    SkipCpuWrite = FALSE
    Regions <- MCRegions
    FillRegions <- MCWideFills
    TexAligns = {"8", "4", "1"}
        Transfers <- MCNoTransfers
    SkipTextureCopy = FALSE
    ProgramHack = FALSE
    TriggerAddrs = {}
    FallbackCalls = 1
    CubeFaces <- MCNoFaces
    CubeAlign = "8"
    ClearAllFlush = {}
VIEW MCView
INIT Init
NEXT Next
INVARIANT
    NoLostWrite
