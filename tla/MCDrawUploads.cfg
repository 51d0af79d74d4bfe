\* The texture-buffer path on a GLES driver without ARB_buffer_storage (as
\* on the Raspberry Pi): every Map maps afresh.  Lighting LUT 0 (2 units)
\* and fog (1) in a 6-unit LF buffer (max_size 3), the proctex noise LUT
\* in a 3-unit buffer, three one-unit uniform blocks in a 5-unit buffer
\* (max_size 3).  In each buffer a full upload leaves room for one partial
\* upload that does not wrap and the next one wraps, as in the real 64 KiB
\* LF buffer whose max_size is 49 KiB.
CONSTANTS
    Lighting = {0}
    ProcTex = {"noise"}
    Vals = {1, 2}
    TextureBufferPath = TRUE
    Persistent = FALSE
    Coherent = FALSE
    LfSize = 6
    TexSize = 3
    UniSize = 5
    VsPicaSize = 1
    VsSize = 1
    FsSize = 1
    Undef = Undef
    NoData = NoData
SPECIFICATION Spec
VIEW MCView
INVARIANT TypeOK DrawReadsLatest CachedLutOnGpu
