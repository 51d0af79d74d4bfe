\* The GLES fallback (no OES_texture_buffer): lighting LUT 0 and the
\* proctex noise LUT, which the fallback places on the same texels of
\* texture_buffer_lut_rg.
CONSTANTS
    Lighting = {0}
    ProcTex = {"noise"}
    Vals = {1, 2}
    TextureBufferPath = FALSE
    Persistent = FALSE
    Coherent = FALSE
    LfSize = 6
    TexSize = 3
    UniSize = 5
    VsPicaSize = 1
    VsSize = 1
    FsSize = 1
    Undef = Undef
    NoData = NoData
SPECIFICATION Spec
VIEW MCView
INVARIANT DrawReadsLatest
