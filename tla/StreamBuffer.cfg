\* One persistent, non-coherent buffer (ARB_buffer_storage present, the
\* rasterizer's default prefer_coherent = false) of 7 units, requests of
\* 1 to 3 units with no alignment or an alignment of 2 or 4, so that
\* alignment padding, wraps on exact fit and wraps caused by padding occur.
CONSTANTS
    BufferSize = 7
    Persistent = TRUE
    Coherent = FALSE
    Undef = Undef
    Sizes = {1, 2, 3}
    Alignments = {0, 2, 4}
SPECIFICATION Spec
INVARIANT TypeOK
PROPERTY NoOverwrite
