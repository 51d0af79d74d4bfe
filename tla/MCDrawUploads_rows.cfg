\* The GLES fallback (no OES_texture_buffer): lighting LUT 8, placed on row
\* 2 of the 1024x2 texture_buffer_lut_rg, and the proctex difference LUT,
\* placed on row 1 of the 256x1 texture_buffer_lut_rgba.
CONSTANTS
    Lighting = {8}
    ProcTex = {"diff"}
    Vals = {1, 2}
    TextureBufferPath = FALSE
    Persistent = FALSE
    Coherent = FALSE
    LfSize = 6
    TexSize = 3
    UniSize = 5
    VsPicaSize = 1
    VsSize = 1
    FsSize = 1
    Undef = Undef
    NoData = NoData
SPECIFICATION Spec
VIEW MCView
INVARIANT DrawReadsLatest
