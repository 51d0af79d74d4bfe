\* Two formats and two strides (reinterpretation and the stride shortcut),
\* wide fills and skip_cpu_write: the cache's bookkeeping.
CONSTANTS
    NumAddr = 3
    PageSize = 2
    MaxSurfaces = 2
    ColorFormats <- MCOneColor
    DepthFormats = {"D24S8"}
    Strides = {1, 2}
    Scales = {1, 2}
    Filters = {"NoFilter", "Linear"}
    Reinterpreters <- MCReinterpreters
    RemoveThreshold = 1
    MaxTick = 100
    MaxVal = 100
    SkipCpuWrite = TRUE
    Regions <- MCRegions
    FillRegions <- MCWideFills
    TexAligns = {"8", "4", "1"}
    Transfers <- MCTransfers
    SkipTextureCopy = TRUE
    ProgramHack = TRUE
    TriggerAddrs = {2}
    FallbackCalls = 1
    CubeFaces <- MCOneFace
    CubeAlign = "8"
    ClearAllFlush = {}
VIEW MCShapeView
SPECIFICATION FairSpec
INVARIANTS
    TypeOK
    DirtyOwnerValid
    CacheBookkeeping
    SlotLifecycle
    CubeFacesLive
    FramebuffersLive
PROPERTIES
    SurfacesReclaimed
