---------------------------- MODULE StreamBuffer ----------------------------
(***************************************************************************)
(* OGLStreamBuffer (src/src/video_core/renderer_opengl/gl_stream_buffer.cpp):*)
(* a ring of BufferSize units that the rasterizer fills by Map(size,       *)
(* alignment) / write / Unmap(used).  A Map that would run past the end    *)
(* wraps to 0 and orphans the storage (GL_MAP_INVALIDATE_BUFFER_BIT): from *)
(* then on nothing written before is defined.  With ARB_buffer_storage the *)
(* buffer stays mapped (persistent); without it every Map maps             *)
(* [buffer_pos, end) afresh.  Writes of a non-coherent mapping reach the   *)
(* GPU only through the flush of Unmap.                                    *)
(*                                                                         *)
(* The operators work on a buffer record so that a client can hold several *)
(* buffers (DrawUploads); the spec below drives one buffer with arbitrary  *)
(* requests.                                                               *)
(***************************************************************************)
EXTENDS Integers

CONSTANTS
    BufferSize,   \* buffer_size, in units
    Persistent,   \* GLAD_GL_ARB_buffer_storage
    Coherent,     \* prefer_coherent (only with a persistent mapping)
    Undef,        \* contents of orphaned or never written storage
    Sizes,        \* request sizes a client may Map
    Alignments    \* alignments a client may ask for (0: none)

ASSUME /\ BufferSize \in Nat \ {0}
       /\ Persistent \in BOOLEAN /\ Coherent \in BOOLEAN
       /\ Coherent => Persistent
       /\ Sizes \subseteq 0..BufferSize /\ Alignments \subseteq 0..BufferSize

VARIABLE buf

Positions == 0..(BufferSize - 1)

\* Common::AlignUp
AlignUp(x, a) == ((x + a - 1) \div a) * a

\* The buffer as the constructor leaves it: nothing written, and a
\* persistent buffer mapped whole at offset 0.
\* live and last are history: the units published since the storage was
\* last orphaned, and those the last Unmap published.
Created ==
    [pos |-> 0, msize |-> 0, moff |-> 0, inv |-> FALSE, live |-> {}, last |-> {},
     cpu |-> [x \in Positions |-> Undef], gpu |-> [x \in Positions |-> Undef]]

\* Mutant: the wrap test is made before the alignment.
Map_AlignAfterWrap(b, size, align) ==
    LET wrap == b.pos + size > BufferSize
        p    == IF wrap THEN 0 ELSE IF align > 0 THEN AlignUp(b.pos, align) ELSE b.pos
        remap == wrap \/ ~Persistent
    IN [buf |-> [b EXCEPT !.pos = p, !.msize = size, !.inv = wrap,
                          !.live = IF wrap THEN {} ELSE @,
                          !.moff = IF remap THEN p ELSE @,
                          !.cpu = IF wrap THEN [x \in Positions |-> Undef] ELSE @,
                          !.gpu = IF wrap THEN [x \in Positions |-> Undef] ELSE @],
        ptr |-> p - (IF remap THEN p ELSE b.moff), offset |-> p, invalidate |-> wrap]

\* Map(size, alignment): align buffer_pos, wrap to 0 (orphaning the
\* storage) when the request would pass the end, and map [buffer_pos, end)
\* unless the persistent mapping can be kept.  Returns the buffer, the
\* pointer as an offset into the mapping, buffer_pos and the invalidate flag.
Map(b, size, align) ==
    LET p0   == IF align > 0 THEN AlignUp(b.pos, align) ELSE b.pos
        wrap == p0 + size > BufferSize
        p    == IF wrap THEN 0 ELSE p0
        remap == wrap \/ ~Persistent
    IN [buf |-> [b EXCEPT !.pos = p, !.msize = size, !.inv = wrap,
                          !.live = IF wrap THEN {} ELSE @,
                          !.moff = IF remap THEN p ELSE @,
                          !.cpu = IF wrap THEN [x \in Positions |-> Undef] ELSE @,
                          !.gpu = IF wrap THEN [x \in Positions |-> Undef] ELSE @],
        ptr |-> p - (IF remap THEN p ELSE b.moff), offset |-> p, invalidate |-> wrap]

\* memcpy(ptr + k, src, n): n units of content c written through the
\* mapping; a coherent mapping makes them visible at once.
Memcpy(b, ptr, k, n, c) ==
    LET At(x) == b.moff + ptr + k <= x /\ x < b.moff + ptr + k + n
    IN [b EXCEPT !.cpu = [x \in Positions |-> IF At(x) THEN c ELSE @[x]],
                 !.gpu = IF Coherent THEN [x \in Positions |-> IF At(x) THEN c ELSE @[x]] ELSE @]

\* The units the Unmap of size publishes: [buffer_pos, buffer_pos + size).
Published(b, size) == {x \in Positions : b.pos <= x /\ x < b.pos + size}

\* Mutant: buffer_pos is not advanced past what was written.
Unmap_NoAdvance(b, size) ==
    [b EXCEPT !.gpu = IF ~Coherent /\ size > 0
                      THEN [x \in Positions |-> IF x \in Published(b, size) THEN b.cpu[x] ELSE @[x]]
                      ELSE @,
              !.live = @ \cup Published(b, size), !.last = Published(b, size)]

Unmap(b, size) ==
    [b EXCEPT !.gpu = IF ~Coherent /\ size > 0
                      THEN [x \in Positions |-> IF x \in Published(b, size) THEN b.cpu[x] ELSE @[x]]
                      ELSE @,
              !.live = @ \cup Published(b, size), !.last = Published(b, size),
              !.pos = @ + size]

-----------------------------------------------------------------------------
(***************************************************************************)
(* A client that maps size units, writes the first used of them and        *)
(* unmaps used, as every user in gl_rasterizer.cpp does within one call.   *)
(***************************************************************************)

Init == buf = Created

MapWriteUnmap(size, align, used) ==
    LET m == Map(buf, size, align)
    IN /\ buf' = Unmap(Memcpy(m.buf, m.ptr, 0, used, m.offset), used)

Next == \E size \in Sizes, align \in Alignments, used \in 0..BufferSize :
            used <= size /\ MapWriteUnmap(size, align, used)

Spec == Init /\ [][Next]_buf
-----------------------------------------------------------------------------
(***************************************************************************)
(* Properties                                                              *)
(***************************************************************************)

TypeOK ==
    /\ buf.pos \in 0..BufferSize /\ buf.moff \in 0..BufferSize
    /\ buf.msize \in 0..BufferSize /\ buf.inv \in BOOLEAN

\* Data the GPU may still read is never written again until the storage is
\* orphaned: unless its Map wrapped, an Unmap publishes only units that no
\* Unmap published since the last wrap, whatever the sizes, alignments and
\* used counts of the requests before (buffer_pos only grows between
\* wraps, and Unmap flushes from buffer_pos).
NoOverwrite ==
    [][~buf'.inv => buf'.last \cap buf.live = {}]_buf
=============================================================================
