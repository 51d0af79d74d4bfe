\* A color and a depth format with no reinterpreter between them (a color
\* surface over a depth owner is filled by flushing and uploading), one
\* stride, single-unit fills: coherence of memory, surfaces, CPU reads and
\* texture samples, through texture copies and display transfers under the
\* title hack.
CONSTANTS
    NumAddr = 3
    PageSize = 2
    MaxSurfaces = 2
    ColorFormats <- MCOneColor
    DepthFormats = {"D24S8"}
    Strides = {1}
    Scales = {1}
    Filters = {"NoFilter"}
    Reinterpreters = {}
    RemoveThreshold = 1
    MaxTick = 100
    MaxVal = 100
    SkipCpuWrite = FALSE
    Regions <- MCStraddleRegions
    FillRegions <- MCUnitFills
    TexAligns = {"8", "4", "1"}
    Transfers <- MCTransfers
    SkipTextureCopy = FALSE
    ProgramHack = TRUE
    TriggerAddrs = {2}
    FallbackCalls = 1
    CubeFaces <- MCNoFaces
    CubeAlign = "8"
    ClearAllFlush = {TRUE}
VIEW MCView
INIT Init
NEXT Next
INVARIANTS
    NoLostWrite
    ValidIsLatest
    ReadSeesLatest
PROPERTIES
    ImplementsGuestMemory
