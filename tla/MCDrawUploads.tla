--------------------------- MODULE MCDrawUploads ---------------------------
(***************************************************************************)
(* State abstraction for checking DrawUploads.                             *)
(***************************************************************************)
EXTENDS DrawUploads

(***************************************************************************)
(* No step of the uploads tells two LUT contents apart except by equality *)
(* with the PICA contents of the same LUT (the skip test, and the reads   *)
(* the properties compare), and a register write can give a LUT either of *)
(* the two values of Vals.  So a stored image of LUT l matters only by    *)
(* whether it equals pica[l]; states equal under this view have the same  *)
(* futures up to renaming each LUT's values.  The CPU side of a mapping is *)
(* dead between draws (Unmap publishes only what the same call wrote), and *)
(* msize, inv, live and last are not read by DrawUploads.                  *)
(* A unit no pointer covers (neither the FS data's LUT offsets nor those   *)
(* of the FS block bound on the GPU, nor a uniform binding) is dead: a     *)
(* pointer only comes to a unit in the step that writes it.                *)
(***************************************************************************)
FsBlocks == {fs} \cup (IF IsBlock(Block(St, "FSData"), "fs") THEN {Block(St, "FSData")} ELSE {})
LiveUnits(name) ==
    UNION {{f.off[l] + k : k \in 0..(LutUnits(l) - 1)} : f \in FsBlocks,
                                                         l \in {m \in Luts : BufferOf(m) = name}}
ImageView(c) == IF c = Undef THEN Undef ELSE <<c[1], c[2] = pica[c[1]]>>
BufView(b, name) ==
    <<b.pos, b.moff, [x \in DOMAIN b.gpu |-> IF x \in LiveUnits(name) THEN ImageView(b.gpu[x]) ELSE Undef]>>
\* The same for the uniform values, each compared with its own source.
BlockView(c) ==
    CASE c = Undef        -> Undef
      [] c.kind = "vs"    -> <<"vs", c.val = vs_data>>
      [] c.kind = "pica"  -> <<"pica", c.val = vs_setup>>
      [] OTHER            -> <<"fs", c.scissor = scissor_reg, c.off>>
Evaluated == vars = vars
MCView ==
    <<[l \in Luts |-> IF lut_data[l] = NoData THEN NoData ELSE lut_data[l] = pica[l]],
      lut_dirty, dirty_any, vs_dirty, [fs EXCEPT !.scissor = @ = scissor_reg],
      BufView(lf_buf, "lf_buf"), BufView(tex_buf, "tex_buf"),
      <<uni_buf.pos, uni_buf.moff,
        [x \in DOMAIN uni_buf.gpu |-> IF \E p \in DOMAIN binding : binding[p] = x THEN BlockView(uni_buf.gpu[x]) ELSE Undef]>>,
      binding, [c \in DOMAIN tex2d |-> ImageView(tex2d[c])], stale_reads, Evaluated>>
=============================================================================
