\* A depth surface reinterpreted into a color surface it only partly covers with valid data.
CONSTANTS
    NumAddr = 3
    PageSize = 2
    MaxSurfaces = 2
    ColorFormats <- MCOneColor
    DepthFormats = {"D24S8"}
    Strides = {1}
    Scales = {1, 2}
    Filters = {"NoFilter", "Linear"}
    Reinterpreters <- MCReinterpreters
    RemoveThreshold = 1
    MaxTick = 100
    MaxVal = 100
    SkipCpuWrite = FALSE
    Regions <- MCRegions
    FillRegions <- MCNoFills
    TexAligns = {"8", "4", "1"}
        Transfers <- MCNoTransfers
    SkipTextureCopy = FALSE
    ProgramHack = FALSE
    TriggerAddrs = {}
    FallbackCalls = 1
    CubeFaces <- MCNoFaces
    CubeAlign = "8"
    ClearAllFlush = {}
VIEW MCView
INIT Init
NEXT Next
INVARIANT
    ValidIsLatest
