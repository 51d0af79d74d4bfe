---------------------------- MODULE DrawUploads ----------------------------
(***************************************************************************)
(* What RasterizerOpenGL::Draw uploads before it draws                     *)
(* (src/src/video_core/renderer_opengl/gl_rasterizer.cpp): the scissor    *)
(* uniforms, the procedural-texture LUTs (SyncAndUploadLUTs), the lighting *)
(* and fog LUTs (SyncAndUploadLUTsLF) and the uniform blocks               *)
(* (UploadUniforms), through three OGLStreamBuffers (StreamBuffer) or, on  *)
(* GLES without OES_texture_buffer, through 2D textures.                  *)
(*                                                                         *)
(* A LUT is uploaded only when it is marked dirty and its contents differ *)
(* from the copy the rasterizer cached (lut_data), or when the stream      *)
(* buffer wrapped; its position goes into the FS uniform block, which the *)
(* shader reads through the VSData/FSData/VSPicaData bindings.  A LUT's   *)
(* contents are a member of Vals; a unit of buffer or texture holds the   *)
(* pair <<lut, contents>> it was written with.                             *)
(*                                                                         *)
(* Units: in the stream buffers 1 KiB (128 Vec2f), so a lighting LUT is 2, *)
(* fog and the proctex noise/colour-map/alpha-map LUTs 1, the proctex      *)
(* colour and difference LUTs 4; the uniform blocks are counted in        *)
(* uniform_buffer_alignment units.  In the 2D textures 128 texels.         *)
(***************************************************************************)
EXTENDS Integers, FiniteSets, Sequences, SequencesExt

CONSTANTS
    Lighting,          \* indices of the lighting LUTs modelled (of 0..23)
    ProcTex,           \* proctex LUTs modelled
    Vals,              \* LUT contents and uniform values
    TextureBufferPath, \* !(is_gles && !GLAD_GL_OES_texture_buffer)
    Persistent, Coherent,
    LfSize, TexSize, UniSize,     \* texture_lf_buffer, texture_buffer, uniform_buffer
    VsPicaSize, VsSize, FsSize,   \* uniform_size_aligned_vs_pica, _vs, _fs
    Undef, NoData

ASSUME /\ Lighting \subseteq 0..23
       /\ ProcTex \subseteq {"noise", "color_map", "alpha_map", "lut", "diff"}
       /\ TextureBufferPath \in BOOLEAN

VARIABLES
    pica,        \* LUT contents in the PICA registers
    scissor_reg, \* the scissor the framebuffer helper computes for a draw
    vs_data,     \* vs_uniform_block_data.data
    vs_dirty,    \* vs_uniform_block_data.dirty
    vs_setup,    \* pica.vs_setup (VSPicaUniformData source)
    lut_data,    \* the rasterizer's cached copy of every LUT
    lut_dirty,   \* lighting_lut_dirty[i], fog_lut_dirty, proctex_*_dirty
    dirty_any,   \* lighting_lut_dirty_any
    fs,          \* fs_uniform_block_data: scissor, LUT offsets, dirty
    lf_buf, tex_buf, uni_buf,
    binding,     \* offset bound to each uniform binding point
    tex2d,       \* texture_buffer_lut_rg/_lf/_rgba of the fallback path
    stale_reads  \* history: what the last draw read that is not current

vars == <<pica, scissor_reg, vs_data, vs_dirty, vs_setup, lut_data, lut_dirty, dirty_any,
          fs, lf_buf, tex_buf, uni_buf, binding, tex2d, stale_reads>>

LightingLut(i) == <<"lighting", i>>
FogLut == <<"fog", 0>>
LFLuts == {LightingLut(i) : i \in Lighting} \cup {FogLut}
TexLuts == {<<p, 0>> : p \in ProcTex}
Luts == LFLuts \cup TexLuts

\* The loops' order: lighting index 0..23, then fog; noise, colour map,
\* alpha map, colour, difference.
LightingSeq == [k \in 1..Cardinality(Lighting) |-> LightingLut(SetToSortSeq(Lighting, <)[k])]
ProcSeq ==
    LET order == SelectSeq(<<"noise", "color_map", "alpha_map", "lut", "diff">>,
                           LAMBDA p : p \in ProcTex)
    IN [k \in 1..Len(order) |-> <<order[k], 0>>]

LutUnits(l) ==
    CASE l[1] = "lighting"        -> 2
      [] l[1] \in {"lut", "diff"} -> 4
      [] OTHER                    -> 1

\* max_size of the two Map calls, over the LUTs modelled.
LfMax == 2 * Cardinality(Lighting) + 1
TexMax == Cardinality(ProcTex \ {"lut", "diff"}) + 4 * Cardinality(ProcTex \cap {"lut", "diff"})
UniMax == VsPicaSize + VsSize + FsSize

LFB == INSTANCE StreamBuffer WITH BufferSize <- LfSize, buf <- lf_buf,
                                 Sizes <- {LfMax}, Alignments <- {1}
TXB == INSTANCE StreamBuffer WITH BufferSize <- TexSize, buf <- tex_buf,
                                 Sizes <- {TexMax}, Alignments <- {1}
UNB == INSTANCE StreamBuffer WITH BufferSize <- UniSize, buf <- uni_buf,
                                 Sizes <- {UniMax}, Alignments <- {1}

BufferOf(l) == IF l \in LFLuts THEN "lf_buf" ELSE "tex_buf"

St == [pica |-> pica, scissor_reg |-> scissor_reg, vs_data |-> vs_data, vs_dirty |-> vs_dirty,
       vs_setup |-> vs_setup, lut_data |-> lut_data, lut_dirty |-> lut_dirty,
       dirty_any |-> dirty_any, fs |-> fs, lf_buf |-> lf_buf, tex_buf |-> tex_buf,
       uni_buf |-> uni_buf, binding |-> binding, tex2d |-> tex2d, stale_reads |-> stale_reads]

Commit(st) ==
    /\ pica' = st.pica /\ scissor_reg' = st.scissor_reg /\ vs_data' = st.vs_data
    /\ vs_dirty' = st.vs_dirty /\ vs_setup' = st.vs_setup /\ lut_data' = st.lut_data
    /\ lut_dirty' = st.lut_dirty /\ dirty_any' = st.dirty_any /\ fs' = st.fs
    /\ lf_buf' = st.lf_buf /\ tex_buf' = st.tex_buf /\ uni_buf' = st.uni_buf
    /\ binding' = st.binding /\ tex2d' = st.tex2d /\ stale_reads' = st.stale_reads

-----------------------------------------------------------------------------
(***************************************************************************)
(* The fallback textures, as the constructor re-specifies them: lut_rg    *)
(* 1024x2, lut_lf 128x1, lut_rgba 256x1 (widths in blocks of 128 texels). *)
(* Placement(l) is where SyncAndUploadLUTs[LF] writes a LUT: lighting LUT *)
(* i at x = (i % 4) * 256, y = i / 4 of lut_rg; noise, colour map and     *)
(* alpha map at x = 0, 128, 256 of lut_rg; colour at row 0 and difference *)
(* at row 1 of lut_rgba; fog at 0 of lut_lf.                               *)
(***************************************************************************)
TexWidth == [rg |-> 8, lf |-> 1, rgba |-> 2]
TexHeight == [rg |-> 2, lf |-> 1, rgba |-> 1]
Cells == UNION {{<<t, r, x>> : r \in 0..(TexHeight[t] - 1), x \in 0..(TexWidth[t] - 1)} :
                t \in DOMAIN TexWidth}

Placement(l) ==
    CASE l[1] = "lighting"  -> [tex |-> "rg", row |-> l[2] \div 4, x |-> (l[2] % 4) * 2, n |-> 2]
      [] l[1] = "fog"       -> [tex |-> "lf", row |-> 0, x |-> 0, n |-> 1]
      [] l[1] = "noise"     -> [tex |-> "rg", row |-> 0, x |-> 0, n |-> 1]
      [] l[1] = "color_map" -> [tex |-> "rg", row |-> 0, x |-> 1, n |-> 1]
      [] l[1] = "alpha_map" -> [tex |-> "rg", row |-> 0, x |-> 2, n |-> 1]
      [] l[1] = "lut"       -> [tex |-> "rgba", row |-> 0, x |-> 0, n |-> 2]
      [] l[1] = "diff"      -> [tex |-> "rgba", row |-> 1, x |-> 0, n |-> 2]

\* The offset stored in the FS block: x_offset + y_offset * width.
PlacedOffset(l) == Placement(l).x + Placement(l).row * TexWidth[Placement(l).tex]

\* glTexSubImage2D of a rectangle outside the texture is GL_INVALID_VALUE
\* and writes nothing.
Fits(pl) == pl.row < TexHeight[pl.tex] /\ pl.x + pl.n <= TexWidth[pl.tex]
Covered(pl) == {<<pl.tex, pl.row, x>> : x \in pl.x..(pl.x + pl.n - 1)}
TexSubImage2D(t2d, pl, c) ==
    IF Fits(pl) THEN [k \in DOMAIN t2d |-> IF k \in Covered(pl) THEN c ELSE t2d[k]] ELSE t2d
-----------------------------------------------------------------------------
(***************************************************************************)
(* Buffer path.  An upload threads acc = [st, name, ptr, offset, inv,     *)
(* used] through the loops: the buffer Map returned, and bytes_used.       *)
(***************************************************************************)
BufMap(name, b, size) ==
    CASE name = "lf_buf"  -> LFB!Map(b, size, 1)
      [] name = "tex_buf" -> TXB!Map(b, size, 1)
      [] OTHER            -> UNB!Map(b, size, 1)

BufMemcpy(name, b, ptr, k, n, c) ==
    CASE name = "lf_buf"  -> LFB!Memcpy(b, ptr, k, n, c)
      [] name = "tex_buf" -> TXB!Memcpy(b, ptr, k, n, c)
      [] OTHER            -> UNB!Memcpy(b, ptr, k, n, c)

BufUnmap(name, b, size) ==
    CASE name = "lf_buf"  -> LFB!Unmap(b, size)
      [] name = "tex_buf" -> TXB!Unmap(b, size)
      [] OTHER            -> UNB!Unmap(b, size)

BeginUpload(st, name, m) ==
    [st |-> [st EXCEPT ![name] = m.buf], name |-> name, ptr |-> m.ptr, offset |-> m.offset,
     inv |-> m.invalidate, used |-> 0]

\* Unmap(bytes_used).
EndUpload(acc) == [acc.st EXCEPT ![acc.name] = BufUnmap(acc.name, @, acc.used)]

\* memcpy(buffer + bytes_used, ...); lut_offset = (offset + bytes_used) / size.
UploadLut(acc, l) ==
    [acc EXCEPT !.st = [@ EXCEPT !.lut_data[l] = acc.st.pica[l],
                                 ![acc.name] = BufMemcpy(acc.name, @, acc.ptr, acc.used, LutUnits(l),
                                                             <<l, acc.st.pica[l]>>),
                                 !.fs.off[l] = acc.offset + acc.used,
                                 !.fs.dirty = TRUE],
                !.used = @ + LutUnits(l)]

\* Mutant: the invalidate flag is not consulted, so a LUT equal to its
\* cached copy is not rewritten into the orphaned buffer.
SyncBufferLut_NoInvalidate(acc, l) ==
    IF acc.st.pica[l] # acc.st.lut_data[l] THEN UploadLut(acc, l) ELSE acc

\* if (new_data != lut_data || invalidate)
SyncBufferLut(acc, l) ==
    IF acc.st.pica[l] # acc.st.lut_data[l] \/ acc.inv THEN UploadLut(acc, l) ELSE acc

\* if (dirty || invalidate) { ...; dirty = false; }
SyncDirtyBufferLut(acc, l) ==
    IF acc.st.lut_dirty[l] \/ acc.inv
    THEN [SyncBufferLut(acc, l) EXCEPT !.st.lut_dirty[l] = FALSE]
    ELSE acc

SyncLightingBuffer(acc) ==
    IF acc.st.dirty_any \/ acc.inv
    THEN [FoldLeft(SyncDirtyBufferLut, acc, LightingSeq) EXCEPT !.st.dirty_any = FALSE]
    ELSE acc

(***************************************************************************)
(* Fallback path: glTexSubImage2D into the placement of the LUT.           *)
(***************************************************************************)
SyncTextureLut(st, l) ==
    IF st.pica[l] # st.lut_data[l]
    THEN [st EXCEPT !.lut_data[l] = st.pica[l],
                    !.tex2d = TexSubImage2D(@, Placement(l), <<l, st.pica[l]>>),
                    !.fs.off[l] = PlacedOffset(l),
                    !.fs.dirty = TRUE]
    ELSE st

SyncDirtyTextureLut(st, l) ==
    IF st.lut_dirty[l] THEN [SyncTextureLut(st, l) EXCEPT !.lut_dirty[l] = FALSE] ELSE st

SyncLightingTexture(st) ==
    IF st.dirty_any
    THEN [FoldLeft(SyncDirtyTextureLut, st, LightingSeq) EXCEPT !.dirty_any = FALSE]
    ELSE st

\* SyncAndUploadLUTsLF: nothing to do unless a lighting or the fog LUT is
\* dirty; the buffer path maps max_size, the fallback writes textures.
SyncAndUploadLUTsLF(st) ==
    CASE ~st.dirty_any /\ ~st.lut_dirty[FogLut] -> st
      [] TextureBufferPath ->
            EndUpload(SyncDirtyBufferLut(SyncLightingBuffer(
                BeginUpload(st, "lf_buf", BufMap("lf_buf", st.lf_buf, LfMax))), FogLut))
      [] OTHER -> SyncDirtyTextureLut(SyncLightingTexture(st), FogLut)

\* SyncAndUploadLUTs: the proctex LUTs, in the same way.
SyncAndUploadLUTs(st) ==
    CASE \A l \in TexLuts : ~st.lut_dirty[l] -> st
      [] TextureBufferPath ->
            EndUpload(FoldLeft(SyncDirtyBufferLut,
                               BeginUpload(st, "tex_buf", BufMap("tex_buf", st.tex_buf, TexMax)),
                               ProcSeq))
      [] OTHER -> FoldLeft(SyncDirtyTextureLut, st, ProcSeq)
-----------------------------------------------------------------------------
(***************************************************************************)
(* Uniform blocks.  A block in the uniform buffer holds what memcpy put   *)
(* there: the VS data, the FS data (scissor and LUT offsets) or the       *)
(* VSPicaUniformData built from pica.vs_setup.                             *)
(***************************************************************************)
VsBlock(st) == [kind |-> "vs", val |-> st.vs_data]
FsBlock(st) == [kind |-> "fs", scissor |-> st.fs.scissor, off |-> st.fs.off]
PicaBlock(st) == [kind |-> "pica", val |-> st.vs_setup]

\* memcpy a block at uniforms + used_bytes, glBindBufferRange it, advance.
UploadBlock(acc, point, size, c) ==
    [acc EXCEPT !.st = [@ EXCEPT !.uni_buf = BufMemcpy("uni_buf", @, acc.ptr, acc.used, size, c),
                                 !.binding[point] = acc.offset + acc.used],
                !.used = @ + size]

SyncVs(acc) ==
    IF acc.st.vs_dirty \/ acc.inv
    THEN [UploadBlock(acc, "VSData", VsSize, VsBlock(acc.st)) EXCEPT !.st.vs_dirty = FALSE]
    ELSE acc

\* Mutant: the FS block is rewritten only when dirty, not after a wrap.
SyncFs_NoInvalidate(acc) ==
    IF acc.st.fs.dirty
    THEN [UploadBlock(acc, "FSData", FsSize, FsBlock(acc.st)) EXCEPT !.st.fs.dirty = FALSE]
    ELSE acc

SyncFs(acc) ==
    IF acc.st.fs.dirty \/ acc.inv
    THEN [UploadBlock(acc, "FSData", FsSize, FsBlock(acc.st)) EXCEPT !.st.fs.dirty = FALSE]
    ELSE acc

SyncVsPica(acc, accelerate) ==
    IF accelerate THEN UploadBlock(acc, "VSPicaData", VsPicaSize, PicaBlock(acc.st)) ELSE acc

\* Mutant: uniform_size leaves out uniform_size_aligned_vs_pica.
UploadUniforms_NoPicaRoom(st, accelerate) ==
    IF ~accelerate /\ ~st.vs_dirty /\ ~st.fs.dirty THEN st
    ELSE EndUpload(SyncVsPica(SyncFs(SyncVs(
             BeginUpload(st, "uni_buf", BufMap("uni_buf", st.uni_buf, VsSize + FsSize)))), accelerate))

\* UploadUniforms(accelerate_draw): nothing unless a block must be synced;
\* then one Map of the three aligned sizes, VS, FS, VSPica, Unmap(used).
UploadUniforms(st, accelerate) ==
    IF ~accelerate /\ ~st.vs_dirty /\ ~st.fs.dirty THEN st
    ELSE EndUpload(SyncVsPica(SyncFs(SyncVs(
             BeginUpload(st, "uni_buf", BufMap("uni_buf", st.uni_buf, UniMax)))), accelerate))

\* Draw's scissor update: the FS block is dirtied only if the scissor changed.
SyncScissor(st) ==
    IF st.fs.scissor # st.scissor_reg
    THEN [st EXCEPT !.fs.scissor = st.scissor_reg, !.fs.dirty = TRUE]
    ELSE st

-----------------------------------------------------------------------------
(***************************************************************************)
(* What the shaders of a draw read: each uniform block at its binding in  *)
(* the uniform buffer as the GPU sees it, and each LUT at the offset the  *)
(* FS block read that way gives, in the stream buffer or, on the fallback *)
(* path, in the texture the LUT is uploaded to.                           *)
(***************************************************************************)
Block(st, point) ==
    IF st.binding[point] \in DOMAIN st.uni_buf.gpu THEN st.uni_buf.gpu[st.binding[point]] ELSE Undef

IsBlock(c, kind) == c # Undef /\ c.kind = kind

\* The LUT image at offset o, in the stream buffer or the texture of l.
ReadLutAt(st, l, o) ==
    IF TextureBufferPath
    THEN LET b == st[BufferOf(l)].gpu
         IN IF o + LutUnits(l) <= Cardinality(DOMAIN b)
            THEN [k \in 0..(LutUnits(l) - 1) |-> b[o + k]] ELSE Undef
    ELSE LET t == Placement(l).tex
             pl == [tex |-> t, row |-> o \div TexWidth[t], x |-> o % TexWidth[t],
                    n |-> Placement(l).n]
         IN IF Fits(pl) THEN [k \in 0..(pl.n - 1) |-> st.tex2d[<<t, pl.row, pl.x + k>>]]
            ELSE Undef

ReadLut(st, l) ==
    IF IsBlock(Block(st, "FSData"), "fs") THEN ReadLutAt(st, l, Block(st, "FSData").off[l])
    ELSE Undef

LutImage(l, v) ==
    [k \in 0..((IF TextureBufferPath THEN LutUnits(l) ELSE Placement(l).n) - 1) |-> <<l, v>>]

\* The parts of the draw's input that are not the guest's current state.
StaleReads(st, accelerate) ==
    {l \in Luts : ReadLut(st, l) # LutImage(l, st.pica[l])}
    \cup (IF Block(st, "VSData") = VsBlock(st) THEN {} ELSE {<<"binding", "VSData">>})
    \cup (IF IsBlock(Block(st, "FSData"), "fs") /\ Block(st, "FSData").scissor = st.scissor_reg
          THEN {} ELSE {<<"binding", "FSData">>})
    \cup (IF ~accelerate \/ Block(st, "VSPicaData") = PicaBlock(st) THEN {} ELSE {<<"binding", "VSPicaData">>})

-----------------------------------------------------------------------------
(***************************************************************************)
(* Actions                                                                 *)
(***************************************************************************)

\* The guest loads a LUT: the register write marks it dirty
\* (RasterizerAccelerated::NotifyPicaRegisterChanged).
WriteLut(l, v) ==
    /\ pica' = [pica EXCEPT ![l] = v]
    /\ lut_dirty' = [lut_dirty EXCEPT ![l] = TRUE]
    /\ dirty_any' = (dirty_any \/ l \in {LightingLut(i) : i \in Lighting})
    /\ UNCHANGED <<scissor_reg, vs_data, vs_dirty, vs_setup, lut_data, fs, lf_buf, tex_buf,
                   uni_buf, binding, tex2d, stale_reads>>

\* The guest changes what the framebuffer helper computes as scissor.
SetScissor(v) ==
    /\ scissor_reg' = v
    /\ UNCHANGED <<pica, vs_data, vs_dirty, vs_setup, lut_data, lut_dirty, dirty_any, fs,
                   lf_buf, tex_buf, uni_buf, binding, tex2d, stale_reads>>

\* A VS uniform changes: the accelerated rasterizer stores it and marks the
\* block dirty.
SetVsUniform(v) ==
    /\ vs_data' = v /\ vs_dirty' = TRUE
    /\ UNCHANGED <<pica, scissor_reg, vs_setup, lut_data, lut_dirty, dirty_any, fs,
                   lf_buf, tex_buf, uni_buf, binding, tex2d, stale_reads>>

\* The guest writes the vertex shader setup (no flag: it is synced on
\* every accelerated draw).
SetVsSetup(v) ==
    /\ vs_setup' = v
    /\ UNCHANGED <<pica, scissor_reg, vs_data, vs_dirty, lut_data, lut_dirty, dirty_any, fs,
                   lf_buf, tex_buf, uni_buf, binding, tex2d, stale_reads>>

Uploaded(st, accelerate) ==
    UploadUniforms(SyncAndUploadLUTsLF(SyncAndUploadLUTs(SyncScissor(st))), accelerate)

DrawWith(st, accelerate) == Commit([st EXCEPT !.stale_reads = StaleReads(st, accelerate)])

\* RasterizerOpenGL::Draw, from the scissor update to the draw call.
Draw(accelerate) == DrawWith(Uploaded(St, accelerate), accelerate)

Init ==
    /\ pica \in [Luts -> Vals]
    /\ scissor_reg \in Vals /\ vs_data \in Vals /\ vs_setup \in Vals
    /\ vs_dirty = TRUE
    /\ lut_data = [l \in Luts |-> NoData]
    /\ lut_dirty = [l \in Luts |-> TRUE] /\ dirty_any = TRUE
    /\ fs = [scissor |-> NoData, off |-> [l \in Luts |-> 0], dirty |-> TRUE]
    /\ lf_buf = LFB!Created /\ tex_buf = TXB!Created /\ uni_buf = UNB!Created
    /\ binding = [p \in {"VSData", "FSData", "VSPicaData"} |-> -1]
    /\ tex2d = [c \in Cells |-> Undef]
    /\ stale_reads = {}

Next ==
    \/ \E l \in Luts, v \in Vals : WriteLut(l, v)
    \/ \E v \in Vals : SetScissor(v) \/ SetVsUniform(v) \/ SetVsSetup(v)
    \/ \E accelerate \in BOOLEAN : Draw(accelerate)

Spec == Init /\ [][Next]_vars
-----------------------------------------------------------------------------
(***************************************************************************)
(* Properties                                                              *)
(***************************************************************************)

TypeOK ==
    /\ pica \in [Luts -> Vals] /\ lut_data \in [Luts -> Vals \cup {NoData}]
    /\ lut_dirty \in [Luts -> BOOLEAN] /\ dirty_any \in BOOLEAN /\ vs_dirty \in BOOLEAN
    /\ fs.dirty \in BOOLEAN
    /\ lf_buf.pos \in 0..LfSize /\ tex_buf.pos \in 0..TexSize /\ uni_buf.pos \in 0..UniSize
    /\ stale_reads \subseteq Luts \cup {<<"binding", p>> : p \in DOMAIN binding}

\* Every draw reads the guest's current state: each LUT at the offset the
\* bound FS block gives holds the PICA contents, and the VS, FS and (on an
\* accelerated draw) VSPica blocks at their bindings are current, across
\* any interleaving of register writes, skipped re-uploads of unchanged
\* LUTs, and wraps of the three stream buffers at different draws.
DrawReadsLatest == stale_reads = {}

\* The copy a LUT is compared with before it is skipped is what the GPU
\* holds at the LUT's offset: a LUT is only left out of an upload when the
\* GPU already has its contents where the FS block points.
CachedLutOnGpu ==
    \A l \in Luts : lut_data[l] # NoData => ReadLutAt(St, l, fs.off[l]) = LutImage(l, lut_data[l])
=============================================================================
