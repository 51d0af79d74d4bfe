-------------------------- MODULE RasterizerCache --------------------------
(***************************************************************************)
(* The surface cache of the PICA rasterizer                                *)
(* (src/src/video_core/rasterizer_cache/rasterizer_cache.h).               *)
(*                                                                         *)
(* Guest memory is a few abstract units 1..NumAddr, grouped into pages of  *)
(* PageSize units.  A surface covers a contiguous range of units; its      *)
(* pixel contents are abstracted to one value per unit.  Every value a     *)
(* writer (CPU, draw, fill) produces is fresh, and the ghost variable      *)
(* `truth` remembers, per unit, the latest value the guest wrote, so that  *)
(* coherence is a comparison between a copy and `truth`.                   *)
(*                                                                         *)
(* The cache operations are state transformers over a record `st` that     *)
(* bundles the cache's members (slot_surfaces, page_table, cached_pages,   *)
(* dirty_regions, sentenced, frame_tick) with guest memory; nested calls   *)
(* of the code (ValidateSurface -> FlushRegion, InvalidateRegion ->        *)
(* FlushRegion -> UnregisterSurface) are composition of transformers, so   *)
(* one action runs a whole entry point of the cache, as the code does      *)
(* under the GPU thread.                                                   *)
(***************************************************************************)
EXTENDS Integers, Sequences, FiniteSets, SequencesExt

CONSTANTS
    NumAddr,         \* guest memory units 1..NumAddr
    PageSize,        \* units per page (BORKED3DS_PAGE_SIZE)
    MaxSurfaces,     \* slots of slot_surfaces the model may use
    ColorFormats,    \* pixel formats of SurfaceType::Color (sampleable)
    DepthFormats,    \* pixel formats of SurfaceType::Depth / DepthStencil
    Strides,         \* distinct row strides a request may carry
    Scales,          \* resolution scale factors the renderer may choose
    Filters,         \* texture filters; "NoFilter" pins textures to scale 1
    Reinterpreters,  \* <<src, dst>> format pairs runtime.Reinterpret supports
    RemoveThreshold, \* runtime.RemoveThreshold()
    MaxTick,         \* bound on frame_tick
    MaxVal,          \* bound on the number of fresh values written
    SkipCpuWrite,    \* Settings::values.skip_cpu_write
    Regions,         \* address ranges <<lo, hi>> requests may name
    FillRegions,     \* address ranges AccelerateFill may name
    TexAligns,       \* "8", "4" or "1": what min_width/min_height divide by
    ClearAllFlush,   \* the flush arguments ClearAll is called with
    Transfers,       \* <<source range, destination range>> of a GPU transfer
    SkipTextureCopy, \* Settings::values.skip_texture_copy
    ProgramHack,     \* program_id is the title the forced fallback is for
    TriggerAddrs,    \* the surface addresses that force the fallback
    FallbackCalls,   \* what forceFallBackToSW is set to (100)
    CubeFaces,       \* the ranges of the faces of the texture cube sampled
    CubeAlign        \* the TexAlign of the cube's faces, "8" or "4"

Formats == ColorFormats \cup DepthFormats

ASSUME /\ NumAddr \in Nat \ {0} /\ PageSize \in Nat \ {0}
       /\ MaxSurfaces \in Nat \ {0}
       /\ Reinterpreters \subseteq Formats \X Formats
       /\ "NoFilter" \in Filters /\ Scales \subseteq Nat \ {0}
       /\ \A r \in Regions : 1 <= r[1] /\ r[1] <= r[2] /\ r[2] <= NumAddr
       /\ FillRegions \subseteq Regions
       /\ TexAligns \subseteq {"8", "4", "1"}
       /\ ClearAllFlush \subseteq BOOLEAN
       /\ \A t \in Transfers : /\ 1 <= t[1][1] /\ t[1][1] <= t[1][2] /\ t[1][2] <= NumAddr
                              /\ 1 <= t[2][1] /\ t[2][1] <= t[2][2] /\ t[2][2] <= NumAddr
                              /\ t[1][2] - t[1][1] = t[2][2] - t[2][1]
                              /\ (t[1][1]..t[1][2]) \cap (t[2][1]..t[2][2]) = {}
       /\ SkipTextureCopy \in BOOLEAN /\ ProgramHack \in BOOLEAN
       /\ TriggerAddrs \subseteq 1..NumAddr /\ FallbackCalls \in Nat \ {0}
       /\ \A i \in DOMAIN CubeFaces : CubeFaces[i] \in Regions
       /\ \A i, j \in DOMAIN CubeFaces :
             i # j => (CubeFaces[i][1]..CubeFaces[i][2]) \cap (CubeFaces[j][1]..CubeFaces[j][2]) = {}
       /\ CubeAlign \in {"8", "4"}

Addr    == 1..NumAddr
PageOf(a) == (a - 1) \div PageSize
Pages   == {PageOf(a) : a \in Addr}
SlotIds == 1..MaxSurfaces
NULL    == 0                 \* SurfaceId{} / NULL_SURFACE_ID
Garbage == -1                \* contents of a texture nothing was written to
Val     == -1..MaxVal
FillScale == 65535           \* res_scale of a fill surface (u16 max)

\* A slot of slot_surfaces: live is FALSE for a free slot.
FreeSlot == [live |-> FALSE, reg |-> FALSE, lo |-> 1, hi |-> 1, fmt |-> "Invalid",
             type |-> "Invalid", stride |-> CHOOSE s \in Strides : TRUE,
             scale |-> 1, invalid |-> {}, data |-> [a \in Addr |-> Garbage],
             fill |-> 0]

\* The faces of the cube, and texture_cube_cache without its entry: a
\* TextureCube's face_ids are SurfaceId{} until looked up.
CubeIds == DOMAIN CubeFaces
NoCube == [live |-> FALSE, sid |-> NULL, face |-> [i \in CubeIds |-> NULL]]

TypeOfFormat(f) == IF f \in ColorFormats THEN "Color" ELSE "Depth"

Span(x) == x.lo..x.hi
Overlaps(s, lo, hi) == s.lo <= hi /\ lo <= s.hi
ParamsOf(s) == [lo |-> s.lo, hi |-> s.hi, fmt |-> s.fmt, type |-> s.type,
                stride |-> s.stride, scale |-> s.scale]
\* What a surface holds at unit a (a fill surface holds its fill value).
Holds(s, a) == IF s.type = "Fill" THEN s.fill ELSE s.data[a]

\* The maximal run of units around a with the same dirty owner: a segment
\* of the joining interval_map dirty_regions.
Segment(d, a) == {b \in Addr : \A c \in (IF a <= b THEN a..b ELSE b..a) : d[c] = d[a]}
\* The contiguous runs of a set of units.
RunsOf(S) == {{b \in S : (IF a <= b THEN a..b ELSE b..a) \subseteq S} : a \in S}
\* The first run of a set of units (validate_regions.begin()).
FirstRun(S) == LET m == Min(S) IN {b \in S : m..b \subseteq S}
\* The pages of [lo, hi] in ascending order (ForEachPage).
PageSeq(lo, hi) == [i \in 1..(PageOf(hi) - PageOf(lo) + 1) |-> PageOf(lo) + i - 1]

VARIABLES
    surfaces,        \* slot_surfaces: SlotIds -> surface record
    page_table,      \* page -> sequence of registered surface ids
    cached_pages,    \* page -> number of registered surfaces on it
    marked,          \* pages memory was told are rasterizer-cached
    dirty_regions,   \* unit -> surface id that owns the newest data, or NULL
    sentenced,       \* sequence of <<surface id, frame_tick>>
    frame_tick,
    force_fallback,  \* forceFallBackToSW
    cube,            \* texture_cube_cache's entry for the cube of CubeFaces
    fbs,             \* the attachments framebuffers holds a framebuffer for
    mem,             \* guest memory: unit -> value
    filter,          \* RasterizerCache::filter
    scale_factor,    \* resolution_scale_factor
    truth,           \* ghost: unit -> latest value the guest wrote
    next_val,        \* ghost: the last fresh value handed out
    sample           \* ghost: what this step's texture sample read, <<>> if none

vars == <<surfaces, page_table, cached_pages, marked, dirty_regions, sentenced,
          frame_tick, force_fallback, cube, fbs, mem, filter, scale_factor, truth, next_val, sample>>

St == [surf |-> surfaces, pt |-> page_table, cp |-> cached_pages, marked |-> marked,
       dirty |-> dirty_regions, sent |-> sentenced, tick |-> frame_tick, mem |-> mem,
       ff |-> force_fallback, cube |-> cube, fb |-> fbs]

Commit(st) ==
    /\ surfaces' = st.surf
    /\ page_table' = st.pt
    /\ cached_pages' = st.cp
    /\ marked' = st.marked
    /\ dirty_regions' = st.dirty
    /\ sentenced' = st.sent
    /\ frame_tick' = st.tick
    /\ mem' = st.mem
    /\ force_fallback' = st.ff
    /\ cube' = st.cube
    /\ fbs' = st.fb

FreeSlots(st) == {i \in SlotIds : ~st.surf[i].live}
-----------------------------------------------------------------------------
(***************************************************************************)
(* Surface predicates of SurfaceBase (surface_base.cpp, outside src/),     *)
(* modelled from the Matcher section of the specification.  All formats   *)
(* of the model have the same bits per pixel.                              *)
(***************************************************************************)
ExactMatch(s, p) ==
    s.fmt # "Invalid" /\ s.lo = p.lo /\ s.hi = p.hi /\ s.fmt = p.fmt /\ s.stride = p.stride
CanSubRect(s, p) ==
    s.fmt # "Invalid" /\ s.lo <= p.lo /\ p.hi <= s.hi /\ s.fmt = p.fmt /\ s.stride = p.stride
CanFill(s, iv) == s.type = "Fill" /\ iv \subseteq Span(s) /\ iv \cap s.invalid = {}
CanCopy(s, p, civ) ==
    \/ CanSubRect(s, [p EXCEPT !.lo = Min(civ), !.hi = Max(civ)])
    \/ CanFill(s, civ)
CanReinterpret(s, p) == s.fmt # "Invalid" /\ s.lo <= p.lo /\ p.hi <= s.hi
\* A source of a raw byte-range copy, whatever its format.
CanTexCopy(s, p) == s.fmt # "Invalid" /\ s.lo <= p.lo /\ p.hi <= s.hi
\* CheckFormatsBlittable: both color, or both depth.
FormatsBlittable(a, b) == TypeOfFormat(a) = TypeOfFormat(b)
\* GetCopyableInterval: the first longest valid run of s inside p.
CopyableInterval(s, p) ==
    LET rs == RunsOf((Span(p) \cap Span(s)) \ s.invalid)
    IN IF rs = {} THEN {}
       ELSE CHOOSE r \in rs : \A r2 \in rs :
              \/ Cardinality(r2) < Cardinality(r)
              \/ Cardinality(r2) = Cardinality(r) /\ Min(r) <= Min(r2)

-----------------------------------------------------------------------------
(***************************************************************************)
(* Lookup (rasterizer_cache.h)                                             *)
(***************************************************************************)

\* ForEachSurfaceInRegion: the registered surfaces overlapping [lo, hi], in
\* page order and page_table order, each once (the Picked flag).
SurfacesInRegion(st, lo, hi) ==
    LET ps   == PageSeq(lo, hi)
        hits == FlattenSeq([i \in 1..Len(ps) |->
                   SelectSeq(st.pt[ps[i]], LAMBDA id : Overlaps(st.surf[id], lo, hi))])
    IN FoldLeft(LAMBDA acc, id : IF Contains(acc, id) THEN acc ELSE Append(acc, id),
                <<>>, hits)

\* FindMatch<kind>(p, scale_match, vint): the best candidate, where a higher
\* res_scale wins, then a valid one, then a longer interval, then the first.
FindMatch(st, p, kind, scaleMatch, vint) ==
    LET Step(m, id) ==
          LET s       == st.surf[id]
              civ     == CopyableInterval(s, [p EXCEPT !.lo = Min(vint), !.hi = Max(vint)])
              matched == CASE kind = "Exact"       -> ExactMatch(s, p)
                           [] kind = "SubRect"     -> CanSubRect(s, p)
                           [] kind = "Copy"        -> civ \cap vint # {} /\ CanCopy(s, p, civ)
                           [] kind = "Reinterpret" -> civ \cap vint # {} /\ CanReinterpret(s, p)
                           [] kind = "TexCopy"     -> CanTexCopy(s, p)
              len     == Cardinality(IF kind \in {"Copy", "Reinterpret"} THEN civ ELSE Span(s))
              scaleOk == IF scaleMatch = "Exact" THEN p.scale = s.scale ELSE p.scale <= s.scale
              valid   == kind = "Copy" \/ vint \cap s.invalid = {}
              better  == \/ s.scale > m.scale
                         \/ s.scale = m.scale /\ valid /\ ~m.valid
                         \/ s.scale = m.scale /\ valid = m.valid /\ len > m.len
          IN IF matched /\ (scaleOk \/ scaleMatch = "Ignore" \/ s.type = "Fill") /\ better
             THEN [id |-> id, valid |-> valid, scale |-> s.scale, len |-> len]
             ELSE m
    IN FoldLeft(Step, [id |-> NULL, valid |-> FALSE, scale |-> 0, len |-> 0],
                SurfacesInRegion(st, p.lo, p.hi)).id

-----------------------------------------------------------------------------
(***************************************************************************)
(* Registration, page counts, surface lifetime                             *)
(***************************************************************************)

\* Mutant: the page count spans only the first page of the range.
UpdatePagesCachedCount_FirstPage(st, lo, hi, delta) ==
    LET ps  == {PageOf(lo)}
        cp2 == [p \in Pages |-> IF p \in ps THEN st.cp[p] + delta ELSE st.cp[p]]
    IN [st EXCEPT !.cp = cp2,
                  !.marked = IF delta > 0 THEN @ \cup {p \in ps : cp2[p] = delta}
                                          ELSE @ \ {p \in ps : st.cp[p] = -delta}]

\* UpdatePagesCachedCount: a page whose count goes 0 -> delta is marked
\* cached, one whose count goes -delta -> 0 is unmarked.
UpdatePagesCachedCount(st, lo, hi, delta) ==
    LET ps  == PageOf(lo)..PageOf(hi)
        cp2 == [p \in Pages |-> IF p \in ps THEN st.cp[p] + delta ELSE st.cp[p]]
    IN [st EXCEPT !.cp = cp2,
                  !.marked = IF delta > 0 THEN @ \cup {p \in ps : cp2[p] = delta}
                                          ELSE @ \ {p \in ps : st.cp[p] = -delta}]

\* page_table[p].push_back(id) for the pages of [lo, hi].
LinkPages(st, id, lo, hi) ==
    [st EXCEPT !.pt = [p \in Pages |-> IF p \in PageOf(lo)..PageOf(hi) THEN Append(@[p], id)
                                                                      ELSE @[p]]]
\* std::erase(page_table[p], id) for the pages of [lo, hi].
UnlinkPages(st, id, lo, hi) ==
    [st EXCEPT !.pt = [p \in Pages |-> IF p \in PageOf(lo)..PageOf(hi) THEN RemoveFirst(@[p], id)
                                                                      ELSE @[p]]]

\* Mutant: registration counts only the surface's first page.
RegisterSurface_FirstPageCount(st, id) ==
    LinkPages(UpdatePagesCachedCount([st EXCEPT !.surf[id].reg = TRUE],
                                     st.surf[id].lo, st.surf[id].lo, 1),
              id, st.surf[id].lo, st.surf[id].hi)

RegisterSurface(st, id) ==
    LinkPages(UpdatePagesCachedCount([st EXCEPT !.surf[id].reg = TRUE],
                                     st.surf[id].lo, st.surf[id].hi, 1),
              id, st.surf[id].lo, st.surf[id].hi)

\* RemoveTextureCubeFace: a surface that is a face of the cube (Tracked) is
\* no longer one; a cube left without faces is sentenced and dropped.
RemoveTextureCubeFace(st, id) ==
    LET c == [st.cube EXCEPT !.face = [i \in CubeIds |-> IF @[i] = id THEN NULL ELSE @[i]]]
    IN CASE ~st.cube.live \/ id \notin Range(st.cube.face) -> st
         [] Range(c.face) = {NULL} -> [st EXCEPT !.sent = Append(@, <<c.sid, st.tick>>),
                                                 !.cube = NoCube]
         [] OTHER -> [st EXCEPT !.cube = c]

\* Mutant: the surface is sentenced without RemoveTextureCubeFace.
SentenceOrErase_KeepCubeFace(st, id) ==
    IF st.surf[id].type # "Fill"
    THEN [st EXCEPT !.sent = Append(@, <<id, st.tick>>)]
    ELSE [st EXCEPT !.surf[id] = FreeSlot]

\* The end of UnregisterSurface: a fill surface is erased at once, any
\* other surface is sentenced at the current frame_tick.
SentenceOrErase(st, id) ==
    IF st.surf[id].type # "Fill"
    THEN [RemoveTextureCubeFace(st, id) EXCEPT !.sent = Append(@, <<id, st.tick>>)]
    ELSE [st EXCEPT !.surf[id] = FreeSlot]

\* Mutant: the surface is erased from the first page's list only.
UnregisterSurface_FirstPage(st, id) ==
    SentenceOrErase(
        UnlinkPages(UpdatePagesCachedCount([st EXCEPT !.surf[id].reg = FALSE],
                                           st.surf[id].lo, st.surf[id].hi, -1),
                    id, st.surf[id].lo, st.surf[id].lo), id)

UnregisterSurface(st, id) ==
    SentenceOrErase(
        UnlinkPages(UpdatePagesCachedCount([st EXCEPT !.surf[id].reg = FALSE],
                                           st.surf[id].lo, st.surf[id].hi, -1),
                    id, st.surf[id].lo, st.surf[id].hi), id)

\* A new slot_surfaces entry with params p.
NewSurface(p) ==
    [ParamsOf(FreeSlot) EXCEPT !.lo = p.lo, !.hi = p.hi, !.fmt = p.fmt, !.type = p.type,
                               !.stride = p.stride, !.scale = p.scale] @@
    [live |-> TRUE, reg |-> FALSE, invalid |-> {}, data |-> [a \in Addr |-> Garbage],
     fill |-> 0]
\* The sentenced entry CreateSurface recycles (0 for none).
RecycleIndex(st, p) == SelectInSeq(st.sent, LAMBDA e : ParamsOf(st.surf[e[1]]) = p)

\* Mutant: a recycled surface stays in sentenced.
CreateSurface_KeepSentenced(st, p) ==
    LET idx == RecycleIndex(st, p)
        id  == IF idx > 0 THEN st.sent[idx][1] ELSE Min(FreeSlots(st))
    IN [st |-> IF idx > 0 THEN [st EXCEPT !.surf[id].invalid = Span(p)]
               ELSE [st EXCEPT !.surf[id] = [NewSurface(p) EXCEPT !.invalid = Span(p)]],
        id |-> id]

\* CreateSurface: recycle the first sentenced surface with equal params,
\* else insert a new slot; either way the whole surface starts invalid.
CreateSurface(st, p) ==
    LET idx == RecycleIndex(st, p)
        id  == IF idx > 0 THEN st.sent[idx][1] ELSE Min(FreeSlots(st))
    IN [st |-> IF idx > 0 THEN [st EXCEPT !.sent = RemoveAt(@, idx),
                                          !.surf[id].invalid = Span(p)]
               ELSE [st EXCEPT !.surf[id] = [NewSurface(p) EXCEPT !.invalid = Span(p)]],
        id |-> id]

\* RemoveFramebuffers: drop every framebuffer with one of the surfaces
\* gone as an attachment.
RemoveFramebuffers(st, gone) == [st EXCEPT !.fb = @ \ gone]

\* Mutant: the age of a sentence is taken the wrong way round.
RunGarbageCollector_SwappedAge(st) ==
    LET t    == st.tick + 1
        Old(e) == e[2] - t > RemoveThreshold
        gone == {st.sent[i][1] : i \in {i \in 1..Len(st.sent) : Old(st.sent[i])}}
    IN [RemoveFramebuffers(st, gone) EXCEPT !.tick = t,
                  !.surf = [id \in SlotIds |-> IF id \in gone THEN FreeSlot ELSE @[id]],
                  !.sent = SelectSeq(@, LAMBDA e : ~Old(e))]

\* Mutant: the collector erases surfaces but not their framebuffers.
RunGarbageCollector_KeepFramebuffers(st) ==
    LET t    == st.tick + 1
        Old(e) == t - e[2] > RemoveThreshold
        gone == {st.sent[i][1] : i \in {i \in 1..Len(st.sent) : Old(st.sent[i])}}
    IN [st EXCEPT !.tick = t,
                  !.surf = [id \in SlotIds |-> IF id \in gone THEN FreeSlot ELSE @[id]],
                  !.sent = SelectSeq(@, LAMBDA e : ~Old(e))]

\* RunGarbageCollector: advance frame_tick and erase every surface
\* sentenced more than RemoveThreshold ticks ago, with its framebuffers.
RunGarbageCollector(st) ==
    LET t    == st.tick + 1
        Old(e) == t - e[2] > RemoveThreshold
        gone == {st.sent[i][1] : i \in {i \in 1..Len(st.sent) : Old(st.sent[i])}}
    IN [RemoveFramebuffers(st, gone) EXCEPT !.tick = t,
                  !.surf = [id \in SlotIds |-> IF id \in gone THEN FreeSlot ELSE @[id]],
                  !.sent = SelectSeq(@, LAMBDA e : ~Old(e))]
-----------------------------------------------------------------------------
(***************************************************************************)
(* Moving data between guest memory and surfaces                           *)
(***************************************************************************)

\* DownloadSurface: write the surface's contents over iv back to memory.
DownloadSurface(st, id, iv) ==
    [st EXCEPT !.mem = [a \in Addr |-> IF a \in iv THEN st.surf[id].data[a] ELSE @[a]]]

\* DownloadFillSurface: dest_ptr points at the first flushed unit, but the
\* loop starts at the offset of that unit from the start of the surface
\* (start_offset) and stops at the flushed length, so only the units at
\* least start_offset past the flush start receive the fill value.
DownloadFillSurface(st, id, iv) ==
    LET s     == st.surf[id]
        start == Min(iv)
        off   == start - s.lo
    IN [st EXCEPT !.mem = [a \in Addr |-> IF a \in iv /\ a - start >= off THEN s.fill
                                           ELSE @[a]]]

\* UploadSurface: decode guest memory over iv into the surface.
UploadSurface(st, id, iv) ==
    [st EXCEPT !.surf[id].data = [a \in Addr |-> IF a \in iv THEN st.mem[a] ELSE @[a]]]

\* CopySurface: clear from a fill surface, else copy (scaling dst up first).
CopySurface(st, src, dst, civ) ==
    LET s == st.surf[src]
        d == st.surf[dst]
    IN IF s.type = "Fill"
       THEN [st EXCEPT !.surf[dst].data = [a \in Addr |-> IF a \in civ THEN s.fill ELSE @[a]]]
       ELSE [st EXCEPT !.surf[dst].scale = IF s.scale > d.scale THEN s.scale ELSE @,
                       !.surf[dst].data = [a \in Addr |-> IF a \in civ THEN s.data[a] ELSE @[a]]]

\* dirty_regions.erase(units).
ClearDirty(st, units) ==
    [st EXCEPT !.dirty = [a \in Addr |-> IF a \in units THEN NULL ELSE @[a]]]

\* FlushRegion(lo, hi, owner): download every dirty segment overlapping
\* [lo, hi] (only owner's, when one is given); a small request (size <= 8,
\* from the CPU) downloads the whole segment, any other only its overlap.
\* The flushed units stop being dirty.
FlushRegion(st, lo, hi, owner, small) ==
    LET req    == lo..hi
        segs   == {Segment(st.dirty, a) :
                     a \in {a \in Addr : st.dirty[a] # NULL /\ Segment(st.dirty, a) \cap req # {}
                                         /\ (owner = NULL \/ st.dirty[a] = owner)}}
        Part(g) == IF small THEN g ELSE g \cap req
        Down(acc, g) ==
            IF st.surf[st.dirty[Min(g)]].type = "Fill"
            THEN DownloadFillSurface(acc, st.dirty[Min(g)], Part(g))
            ELSE DownloadSurface(acc, st.dirty[Min(g)], Part(g))
    IN ClearDirty(FoldLeft(Down, st, SetToSortSeq(segs, LAMBDA x, y : Min(x) < Min(y))),
                  UNION {Part(g) : g \in segs})

\* Mutant: a CPU invalidation leaves the previous owners in dirty_regions.
ReleaseRegion_KeepCpuDirty(r, lo, hi, owner) ==
    FoldLeft(UnregisterSurface,
             [r.st EXCEPT !.dirty = [a \in Addr |-> IF a \in lo..hi /\ owner # NULL THEN owner
                                                    ELSE @[a]]],
             r.rm)

\* The end of InvalidateRegion: the region is owned by owner (or by
\* nobody), then the surfaces collected for removal are unregistered.
ReleaseRegion(r, lo, hi, owner) ==
    FoldLeft(UnregisterSurface,
             [r.st EXCEPT !.dirty = [a \in Addr |-> IF a \in lo..hi THEN owner ELSE @[a]]],
             r.rm)

\* The loop of InvalidateRegion over the other surfaces of the region: for
\* a small CPU write each is flushed and removed (or left alone under
\* skip_cpu_write); otherwise it is invalidated over the region and removed
\* once fully invalid.
InvalidateOthers(st, lo, hi, owner, small) ==
    LET Visit(acc, id) ==
            LET s   == acc.st.surf[id]
                inv == s.invalid \cup (Span(s) \cap lo..hi)
            IN IF owner = NULL /\ small
               THEN IF SkipCpuWrite THEN acc
                    ELSE [st |-> FlushRegion(acc.st, s.lo, s.hi, id, FALSE),
                          rm |-> Append(acc.rm, id)]
               ELSE [st |-> [acc.st EXCEPT !.surf[id].invalid = inv],
                     rm |-> IF inv = Span(s) THEN Append(acc.rm, id) ELSE acc.rm]
    IN ReleaseRegion(FoldLeft(Visit, [st |-> st, rm |-> <<>>],
                              SelectSeq(SurfacesInRegion(st, lo, hi), LAMBDA id : id # owner)),
                     lo, hi, owner)

\* InvalidateRegion(lo, hi, owner): the owner (if any) becomes valid over
\* the region, then the other surfaces are invalidated and the region
\* released.
InvalidateRegion(st, lo, hi, owner, small) ==
    InvalidateOthers(IF owner # NULL THEN [st EXCEPT !.surf[owner].invalid = @ \ lo..hi]
                     ELSE st,
                     lo, hi, owner, small)

\* Every surface unregistered page by page, from the back of each page's
\* list, then frame_tick jumped by RemoveThreshold and garbage collected,
\* which erases them all.
UnregisterPages(st) ==
    RunGarbageCollector(
        [FoldLeft(LAMBDA acc, p : FoldLeft(UnregisterSurface, acc, Reverse(acc.pt[p])),
                  st, PageSeq(1, NumAddr))
         EXCEPT !.tick = @ + RemoveThreshold])

\* Mutant: surfaces are unregistered without flushing them first.
UnregisterAll_NoFlush(st) == UnregisterPages(st)

\* UnregisterAll: flush everything, then unregister and erase every surface.
UnregisterAll(st) == UnregisterPages(FlushRegion(st, 1, NumAddr, NULL, FALSE))

\* ClearAll(flush): flush everything when asked, unmark the counted pages
\* in memory, and drop cached_pages, dirty_regions and page_table "without
\* really looking at" the surfaces, which stay in slot_surfaces, flagged
\* registered and never sentenced.
ClearAllSt(st, flush) ==
    LET f == IF flush THEN FlushRegion(st, 1, NumAddr, NULL, FALSE) ELSE st
    IN [f EXCEPT !.marked = @ \ {p \in Pages : f.cp[p] > 0},
                 !.cp = [p \in Pages |-> 0],
                 !.dirty = [a \in Addr |-> NULL],
                 !.pt = [p \in Pages |-> <<>>]]
-----------------------------------------------------------------------------
(***************************************************************************)
(* Validation                                                              *)
(***************************************************************************)

\* ValidateByReinterpretation with rid the Reinterpret match: a match
\* copies its copyable interval and succeeds when the runtime has a
\* reinterpreter for the pair of formats; with no match, it reports success
\* without copying when the first dirty segment of the interval belongs to
\* a surface of another stride (the texture-aliasing shortcut).
ReinterpretFrom(st, id, p, iv, rid) ==
    LET src   == st.surf[rid]
        dst   == st.surf[id]
        civ   == CopyableInterval(src, p)
        owned == {a \in iv : st.dirty[a] # NULL}
        ok    == <<src.fmt, dst.fmt>> \in Reinterpreters
        scale == IF src.scale > dst.scale THEN src.scale ELSE dst.scale
    IN CASE rid # NULL /\ civ \cap iv = {} -> [ok |-> FALSE, st |-> st]
         [] rid # NULL /\ ok ->
              [ok |-> TRUE,
               st |-> [st EXCEPT !.surf[id].scale = scale,
                                 !.surf[id].data = [a \in Addr |-> IF a \in civ THEN src.data[a]
                                                                    ELSE @[a]]]]
         [] rid # NULL -> [ok |-> FALSE, st |-> [st EXCEPT !.surf[id].scale = scale]]
         [] OTHER -> [ok |-> owned # {} /\ st.surf[st.dirty[Min(owned)]].stride # dst.stride,
                      st |-> st]

ValidateByReinterpretation(st, id, p, iv) ==
    ReinterpretFrom(st, id, p, iv, FindMatch(st, p, "Reinterpret", "Ignore", iv))

RECURSIVE ValidateLoop(_, _, _)

\* Mutant: the slow path uploads without flushing the run first.
ValidateNoCopy_NoFlush(st, id, regions, iv, r) ==
    IF r.ok THEN ValidateLoop([r.st EXCEPT !.surf[id].invalid = @ \ iv], id, regions \ iv)
    ELSE ValidateLoop([UploadSurface(r.st, id, iv) EXCEPT !.surf[id].invalid = @ \ iv],
                      id, regions \ iv)

\* A run with no Copy match: r is the outcome of ValidateByReinterpretation;
\* if it failed, the run is flushed from the cache and uploaded from memory.
ValidateNoCopy(st, id, regions, iv, r) ==
    IF r.ok THEN ValidateLoop([r.st EXCEPT !.surf[id].invalid = @ \ iv], id, regions \ iv)
    ELSE ValidateLoop([UploadSurface(FlushRegion(r.st, Min(iv), Max(iv), NULL, FALSE), id, iv)
                       EXCEPT !.surf[id].invalid = @ \ iv],
                      id, regions \ iv)

\* A run with a Copy match cid: its copyable interval civ is copied.
ValidateByCopy(st, id, regions, cid, civ) ==
    ValidateLoop([CopySurface(st, cid, id, civ) EXCEPT !.surf[id].invalid = @ \ civ],
                 id, regions \ civ)

ValidateRun(st, id, regions, iv, p, cid) ==
    IF cid # NULL /\ cid # id THEN ValidateByCopy(st, id, regions, cid, CopyableInterval(st.surf[cid], p))
    ELSE ValidateNoCopy(st, id, regions, iv, ValidateByReinterpretation(st, id, p, iv))

\* ValidateSurface(id, lo, hi): until no unit of [lo, hi] is invalid, take
\* the first invalid run and fill it from a Copy match, else by
\* reinterpretation, else by flushing the run and uploading it from memory.
ValidateLoop(st, id, regions) ==
    IF regions = {} THEN st
    ELSE LET iv == FirstRun(regions)
             p  == [ParamsOf(st.surf[id]) EXCEPT !.lo = Min(iv), !.hi = Max(iv)]
         IN ValidateRun(st, id, regions, iv, p, FindMatch(st, p, "Copy", "Ignore", iv))

ValidateSurface(st, id, lo, hi) ==
    IF st.surf[id].type = "Fill" THEN st
    ELSE ValidateLoop(st, id, st.surf[id].invalid \cap lo..hi)
-----------------------------------------------------------------------------
(***************************************************************************)
(* Surface requests.  Each returns [st |-> new state, id |-> surface].     *)
(***************************************************************************)

\* A surface CreateSurface returned, registered.
Registered(c) == [st |-> RegisterSurface(c.st, c.id), id |-> c.id]
\* Validation of the request when load is set.
LoadIf(r, p, load) ==
    IF load THEN [r EXCEPT !.st = ValidateSurface(r.st, r.id, p.lo, p.hi)] ELSE r

\* GetSurface: an exact match mid, else a new registered surface;
\* validated over the whole request when load is set.
GetSurfaceFrom(st, p, load, mid) ==
    LoadIf(IF mid # NULL THEN [st |-> st, id |-> mid] ELSE Registered(CreateSurface(st, p)),
           p, load)

GetSurface(st, p, scaleMatch, load) ==
    GetSurfaceFrom(st, p, load, FindMatch(st, p, "Exact", scaleMatch, Span(p)))

\* GetSurfaceSubRect with no SubRect match at the requested scale: lid is
\* one at any scale; a surface with its params at the requested scale
\* supersedes it; with none, GetSurface.
SupersedeFrom(st, p, scaleMatch, load, lid) ==
    IF lid = NULL THEN GetSurface(st, p, scaleMatch, load)
    ELSE LoadIf(Registered(CreateSurface(st, [ParamsOf(st.surf[lid]) EXCEPT !.scale = p.scale])),
                p, load)

\* GetSurfaceSubRect: sid is the encompassing surface at the requested scale.
SubRectFrom(st, p, scaleMatch, load, sid) ==
    CASE sid # NULL            -> LoadIf([st |-> st, id |-> sid], p, load)
      [] scaleMatch = "Ignore" -> GetSurface(st, p, scaleMatch, load)
      [] OTHER -> SupersedeFrom(st, p, scaleMatch, load,
                                FindMatch(st, p, "SubRect", "Ignore", Span(p)))

GetSurfaceSubRect(st, p, scaleMatch, load) ==
    SubRectFrom(st, p, scaleMatch, load, FindMatch(st, p, "SubRect", scaleMatch, Span(p)))

\* The temporary surface tmp of a retiled texture p, sentenced at once and
\* blitted from the encompassing surface src.
RetileInto(src, p, tmp) ==
    [st |-> [tmp.st EXCEPT !.sent = Append(@, <<tmp.id, tmp.st.tick>>),
                           !.surf[tmp.id].data =
                              [a \in Addr |-> IF a \in Span(p) THEN src.st.surf[src.id].data[a]
                                              ELSE @[a]]],
     id |-> tmp.id]

Retile(src, p) ==
    RetileInto(src, p, CreateSurface(src.st, [p EXCEPT !.scale = src.st.surf[src.id].scale]))

\* Mutant: an aligned texture is looked up without being loaded.
GetTextureSurface_NoLoad(st, p, align) ==
    CASE align = "1" -> [st |-> st, id |-> NULL]
      [] align = "8" -> GetSurface(st, p, "Ignore", FALSE)
      [] OTHER       -> Retile(GetSurfaceSubRect(st, p, "Ignore", TRUE), p)

\* GetTextureSurface(info): textures whose smallest level is not 8-aligned
\* but 4-aligned are blitted from an encompassing surface into a temporary
\* surface that is sentenced at once; unaligned ones sample nothing.
GetTextureSurface(st, p, align) ==
    CASE align = "1" -> [st |-> st, id |-> NULL]
      [] align = "8" -> GetSurface(st, p, "Ignore", TRUE)
      [] OTHER       -> Retile(GetSurfaceSubRect(st, p, "Ignore", TRUE), p)
-----------------------------------------------------------------------------
(***************************************************************************)
(* Actions: the entry points the emulator drives.                          *)
(***************************************************************************)

\* Inputs of the actions.
Regs(r) == [lo |-> r[1], hi |-> r[2]]
FreshVal == next_val + 1
CanWrite == FreshVal <= MaxVal
\* Room for n more surfaces: a request creates at most one surface, a
\* retiled texture one more (the temporary), a fill one.
HasRoom(n) == Cardinality(FreeSlots(St)) >= n
\* A guest write of a fresh value to units.
WriteTruth(units) ==
    /\ truth' = [a \in Addr |-> IF a \in units THEN FreshVal ELSE truth[a]]
    /\ next_val' = FreshVal

\* A CPU write of [lo, hi] (one page): memory invalidates the rasterizer
\* cache first when the page is marked cached (FlushMode::Invalidate), then
\* stores.  small is a write of at most 8 bytes.  (memory.cpp)
StoreMem(st, q) ==
    [st EXCEPT !.mem = [a \in Addr |-> IF a \in Span(q) THEN FreshVal ELSE @[a]]]

CpuWrite(r, small) ==
    /\ CanWrite
    /\ Commit(StoreMem(IF PageOf(r[1]) \in marked THEN InvalidateRegion(St, r[1], r[2], NULL, small)
                       ELSE St,
                       Regs(r)))
    /\ WriteTruth(Span(Regs(r)))
    /\ UNCHANGED <<filter, scale_factor>> /\ sample' = <<>>

\* A CPU read of [lo, hi] (one page): memory flushes the cache first when
\* the page is marked cached (FlushMode::Flush).  (memory.cpp)
CpuRead(r, small) ==
    /\ PageOf(r[1]) \in marked
    /\ Commit(FlushRegion(St, r[1], r[2], NULL, small))
    /\ UNCHANGED <<filter, scale_factor, truth, next_val>> /\ sample' = <<>>

\* The draw's writes: the units in touched of surface id get a fresh value.
Paint(st, id, touched) ==
    [st EXCEPT !.surf[id].data = [a \in Addr |-> IF a \in touched THEN FreshVal ELSE @[a]]]

\* The render target g, validated over the viewport vp, its framebuffer
\* looked up or created (framebuffers.try_emplace), drawn into, and then
\* owning the viewport (InvalidateRegion with owner, as the framebuffer
\* does when it is released).
DrawInto(g, vp, touched) ==
    InvalidateRegion(Paint([ValidateSurface(g.st, g.id, vp[1], vp[2]) EXCEPT !.fb = @ \cup {g.id}],
                           g.id, touched),
                     vp[1], vp[2], g.id, FALSE)

\* A draw into one render target of format fmt covering r with viewport v:
\* the target is found with GetSurfaceSubRect(Exact) and the units in
\* touched are written.
Draw(r, v, fmt, stride, touched) ==
    /\ HasRoom(1) /\ CanWrite
    /\ Commit(DrawInto(GetSurfaceSubRect(St, [lo |-> r[1], hi |-> r[2], fmt |-> fmt,
                                               type |-> TypeOfFormat(fmt), stride |-> stride,
                                               scale |-> scale_factor],
                                         "Exact", FALSE),
                       v, touched))
    /\ WriteTruth(touched)
    /\ UNCHANGED <<filter, scale_factor>> /\ sample' = <<>>

\* The texture t returned by GetTextureSurface for the units q: the state
\* it leaves, and what is read from it (nothing for the null surface).
Sampled(t, q) ==
    /\ Commit(t.st)
    /\ sample' = IF t.id = NULL THEN <<>> ELSE [a \in Span(q) |-> Holds(t.st.surf[t.id], a)]

\* Sampling a texture of [lo, hi] with GetTextureSurface.
SampleTexture(r, fmt, stride, align) ==
    /\ HasRoom(IF align = "4" THEN 2 ELSE 1)
    /\ Sampled(GetTextureSurface(St, [lo |-> r[1], hi |-> r[2], fmt |-> fmt, type |-> "Color",
                                      stride |-> stride,
                                      scale |-> IF filter # "NoFilter" THEN scale_factor ELSE 1],
                                 align),
               Regs(r))
    /\ UNCHANGED <<filter, scale_factor, truth, next_val>>

\* The fill surface AccelerateFill inserts over q.
FillSurface(q) ==
    [NewSurface([lo |-> q.lo, hi |-> q.hi, fmt |-> "Invalid", type |-> "Fill",
                 stride |-> FreeSlot.stride, scale |-> FillScale]) EXCEPT !.fill = FreshVal]

\* AccelerateFill: insert a fill surface over [lo, hi], register it and let
\* it own the region.
AccelerateFill(r) ==
    /\ HasRoom(1) /\ CanWrite
    /\ Commit(InvalidateRegion(RegisterSurface([St EXCEPT !.surf[Min(FreeSlots(St))] =
                                                   FillSurface(Regs(r))],
                                               Min(FreeSlots(St))),
                               r[1], r[2], Min(FreeSlots(St)), FALSE))
    /\ WriteTruth(Span(Regs(r)))
    /\ UNCHANGED <<filter, scale_factor>> /\ sample' = <<>>

-----------------------------------------------------------------------------
(***************************************************************************)
(* GPU transfers: AccelerateTextureCopy and AccelerateDisplayTransfer,     *)
(* with the caller's software copy when they return false.  A transfer     *)
(* moves unit src.lo + i to dst.lo + i; both ranges have one format, so    *)
(* no conversion happens.  The requests are well formed: the size and gap  *)
(* checks at the top of AccelerateTextureCopy pass.                        *)
(***************************************************************************)

\* A transfer request of the given format and stride over range r.  A
\* texture copy's request has no format ("Invalid"); a display transfer's
\* formats come from the GPU's framebuffer formats, which are color formats.
TransferReq(r, fmt, stride) ==
    [lo |-> r[1], hi |-> r[2], fmt |-> fmt,
     type |-> IF fmt = "Invalid" THEN "Invalid" ELSE TypeOfFormat(fmt),
     stride |-> stride, scale |-> 1]
Shifted(src, dst, a) == a - dst.lo + src.lo

\* The GPU copy or blit: the destination surface's units of dst receive the
\* source surface's units of src.
BlitInto(st, sid, did, src, dst) ==
    [st EXCEPT !.surf[did].data =
        [a \in Addr |-> IF a \in Span(dst) THEN Holds(st.surf[sid], Shifted(src, dst, a))
                        ELSE @[a]]]

\* The GPU writes dst through the destination surface, which then owns it.
BlitAndOwn(st, sid, did, src, dst) ==
    InvalidateRegion(BlitInto(st, sid, did, src, dst), dst.lo, dst.hi, did, FALSE)

\* The title hack: the fallback is forced while forceFallBackToSW is set or
\* when either surface starts at one of the problematic addresses.
Forced(st, sid, did) ==
    /\ ProgramHack
    /\ \/ st.ff > 0
       \/ st.surf[sid].lo \in TriggerAddrs \/ st.surf[did].lo \in TriggerAddrs

\* A request's outcome: the cache's state, and FALSE for a fallback.
Outcome(st, ok) == [st |-> st, ok |-> ok]

\* The destination of AccelerateTextureCopy: the source surface's params at
\* dst, looked up with GetSurfaceSubRect(Upscale) without loading.
TexCopyDst(st, sid, dst) ==
    GetSurfaceSubRect(st, [dst EXCEPT !.fmt = st.surf[sid].fmt, !.type = st.surf[sid].type,
                                      !.scale = st.surf[sid].scale],
                      "Upscale", FALSE)

\* AccelerateTextureCopy once both surfaces are found: the title hack's
\* forced fallback (which leaves the counter as it is), else the copy.
TexCopyFrom(st, sid, did, src, dst) ==
    IF Forced(st, sid, did) THEN Outcome(st, FALSE)
    ELSE Outcome(BlitAndOwn(st, sid, did, src, dst), TRUE)

\* GetTexCopySurface: a TexCopy match, validated over the request.
GetTexCopySurface(st, p) ==
    LET mid == FindMatch(st, p, "TexCopy", "Ignore", Span(p))
    IN [st |-> IF mid # NULL THEN ValidateSurface(st, mid, p.lo, p.hi) ELSE st, id |-> mid]

\* The forced fallback of a display transfer counts down forceFallBackToSW,
\* or sets it when it was clear.
CountFallback(st) == [st EXCEPT !.ff = IF @ > 0 THEN @ - 1 ELSE FallbackCalls]

\* AccelerateDisplayTransfer once both surfaces are found: the forced
\* fallback, the blittability check, else the blit.
DisplayTransferFrom(st, sid, did, src, dst) ==
    CASE Forced(st, sid, did) -> Outcome(CountFallback(st), FALSE)
      [] ~FormatsBlittable(st.surf[sid].fmt, st.surf[did].fmt) -> Outcome(st, FALSE)
      [] OTHER -> Outcome(BlitAndOwn(st, sid, did, src, dst), TRUE)

\* The caller's software transfer after a FALSE: flush the source,
\* invalidate the destination, copy guest memory.
SoftwareTransfer(st, src, dst) ==
    [InvalidateRegion(FlushRegion(st, src.lo, src.hi, NULL, FALSE), dst.lo, dst.hi, NULL, FALSE)
        EXCEPT !.mem = [a \in Addr |-> IF a \in Span(dst) THEN @[Shifted(src, dst, a)] ELSE @[a]]]

\* The guest's view of a transfer: dst holds what src held.
CopyTruth(src, dst) ==
    /\ truth' = [a \in Addr |-> IF a \in Span(dst) THEN truth[Shifted(src, dst, a)]
                                ELSE truth[a]]
    /\ UNCHANGED next_val

\* A GPU transfer request: accelerated, else done in software.
Transfer(o, src, dst) ==
    /\ Commit(IF o.ok THEN o.st ELSE SoftwareTransfer(o.st, src, dst))
    /\ CopyTruth(src, dst)
    /\ UNCHANGED <<filter, scale_factor>> /\ sample' = <<>>

\* AccelerateTextureCopy.  Each lookup's result is bound once, as the code
\* binds its locals.  Without a source surface the copy is skipped
\* (reported done) under skip_texture_copy, else left to the caller.
TextureCopy(src, dst) ==
    /\ HasRoom(1)
    /\ \E m \in {GetTexCopySurface(St, src)} :
          \/ m.id = NULL /\ Transfer(Outcome(m.st, SkipTextureCopy), src, dst)
          \/ /\ m.id # NULL
             /\ \E d \in {TexCopyDst(m.st, m.id, dst)} :
                   \E o \in {TexCopyFrom(d.st, m.id, d.id, src, dst)} : Transfer(o, src, dst)

\* AccelerateDisplayTransfer: the source is looked up and loaded, the
\* destination is looked up at the source's scale without loading.  Each
\* lookup is taken while a slot is free for the surface it may create.
DisplayTransfer(src, dst) ==
    /\ HasRoom(1)
    /\ \E s \in {GetSurfaceSubRect(St, src, "Ignore", TRUE)} :
       /\ Cardinality(FreeSlots(s.st)) >= 1
       /\ \E d \in {GetSurfaceSubRect(s.st, [dst EXCEPT !.scale = s.st.surf[s.id].scale],
                                       "Upscale", FALSE)} :
             \E o \in {DisplayTransferFrom(d.st, s.id, d.id, src, dst)} : Transfer(o, src, dst)

-----------------------------------------------------------------------------
(***************************************************************************)
(* Texture cubes: GetTextureCube for the one TextureCubeConfig of the     *)
(* model (faces CubeFaces, format, width and levels fixed, so one entry of *)
(* texture_cube_cache), and RemoveTextureCubeFace above.  The cube's      *)
(* layer for face i is kept in the cube surface's data at face i's units.  *)
(***************************************************************************)

CubeFormat == CHOOSE f \in ColorFormats : TRUE
CubeStride == CHOOSE s \in Strides : TRUE
FaceUnits(i) == CubeFaces[i][1]..CubeFaces[i][2]
CubeUnits == UNION {FaceUnits(i) : i \in CubeIds}

\* The TextureInfo of a face: the config's format and stride at the face's
\* address, at the scale GetTextureSurface gives textures.
CubeFaceReq(i) ==
    [lo |-> CubeFaces[i][1], hi |-> CubeFaces[i][2], fmt |-> CubeFormat, type |-> "Color",
     stride |-> CubeStride, scale |-> IF filter # "NoFilter" THEN scale_factor ELSE 1]

\* A new entry's face_ids: GetTextureSurface for every face, in face order.
LookupFaces(st) ==
    LET Step(acc, i) ==
          LET t == GetTextureSurface(acc.st, CubeFaceReq(i), CubeAlign)
          IN [st |-> t.st, face |-> [acc.face EXCEPT ![i] = t.id]]
    IN FoldLeft(Step, [st |-> st, face |-> NoCube.face], [i \in CubeIds |-> i])

\* cube_params: a Texture surface at the first face's address, at the
\* largest res_scale of the faces.
CubeParams(f) ==
    [lo |-> CubeFaces[1][1], hi |-> CubeFaces[1][2], fmt |-> CubeFormat, type |-> "Texture",
     stride |-> CubeStride, scale |-> Max({1} \cup {f.st.surf[f.face[i]].scale : i \in CubeIds})]

\* The loop of GetTextureCube: every face the entry still has is copied, as
\* it is, into its layer.  The code skips a face whose modification_tick
\* the entry recorded at its last copy; a surface's texels change only
\* with a new modification_tick (SurfaceBase, outside src/), so the copy
\* skipped is one that would write what the layer already holds.
RefreshCube(st) ==
    LET c == st.cube
    IN [st EXCEPT !.surf[c.sid].data =
          [a \in Addr |-> LET is == {i \in CubeIds : c.face[i] # NULL /\ a \in FaceUnits(i)}
                          IN IF is = {} THEN @[a]
                             ELSE st.surf[c.face[CHOOSE i \in is : TRUE]].data[a]]]

\* The cube as sampled: the state GetTextureCube leaves, and its layers.
SampledCube(st) ==
    /\ Commit(st)
    /\ sample' = [a \in CubeUnits |-> st.surf[st.cube.sid].data[a]]
    /\ UNCHANGED <<filter, scale_factor, truth, next_val>>

\* BindTextureCube: GetTextureCube, then the cube is sampled.  An existing
\* entry is refreshed; a new one looks its faces up and creates the cube
\* surface (CreateSurface, never registered), each while a slot is free
\* for what it may create.
BindTextureCube ==
    \/ /\ cube.live
       /\ \E r \in {RefreshCube(St)} : SampledCube(r)
    \/ /\ ~cube.live /\ CubeFaces # <<>>
       /\ HasRoom(Len(CubeFaces) * (IF CubeAlign = "4" THEN 2 ELSE 1))
       /\ \E f \in {LookupFaces(St)} :
             /\ Cardinality(FreeSlots(f.st)) >= 1
             /\ \E c \in {CreateSurface(f.st, CubeParams(f))} :
                   \E r \in {RefreshCube([c.st EXCEPT !.cube = [live |-> TRUE, sid |-> c.id,
                                                                 face |-> f.face]])} :
                      SampledCube(r)

\* A settings change at a frame boundary unregisters everything.
UnregisterAllIf(changed, st) == IF changed THEN UnregisterAll(st) ELSE st
\* The frame's state, committed while frame_tick is within its bound.
FrameCommit(st) == st.tick <= MaxTick /\ Commit(st)

\* TickFrame: collect garbage; a new texture filter, then a new resolution
\* scale, each unregister everything.
TickFrame(nf, ns) ==
    /\ FrameCommit(UnregisterAllIf(ns # scale_factor,
                                   UnregisterAllIf(nf # filter, RunGarbageCollector(St))))
    /\ filter' = nf
    /\ scale_factor' = ns
    /\ UNCHANGED <<truth, next_val>> /\ sample' = <<>>

\* RasterizerOpenGL::ClearAll, called from outside the cache.
ClearAll(flush) ==
    /\ Commit(ClearAllSt(St, flush))
    /\ UNCHANGED <<filter, scale_factor, truth, next_val>> /\ sample' = <<>>

Init ==
    /\ surfaces = [id \in SlotIds |-> FreeSlot]
    /\ page_table = [p \in Pages |-> <<>>]
    /\ cached_pages = [p \in Pages |-> 0]
    /\ marked = {}
    /\ dirty_regions = [a \in Addr |-> NULL]
    /\ sentenced = <<>>
    /\ frame_tick = 0
    /\ force_fallback = 0
    /\ cube = NoCube
    /\ fbs = {}
    /\ mem = [a \in Addr |-> 0]
    /\ filter \in Filters
    /\ scale_factor \in Scales
    /\ truth = mem
    /\ next_val = 0
    /\ sample = <<>>

OnePage(r) == PageOf(r[1]) = PageOf(r[2])
\* A draw writes every unit of its viewport or none; a partly covered
\* viewport is a draw with a smaller viewport.
DrawnUnits(v) == {{}, v[1]..v[2]}

Next ==
    \/ \E r \in Regions, small \in BOOLEAN :
          OnePage(r) /\ (small => r[1] = r[2]) /\ (CpuWrite(r, small) \/ CpuRead(r, small))
    \/ \E r, v \in Regions, fmt \in Formats, stride \in Strides :
          \E touched \in DrawnUnits(v) :
             r[1] <= v[1] /\ v[2] <= r[2] /\ Draw(r, v, fmt, stride, touched)
    \/ \E r \in Regions, fmt \in ColorFormats, stride \in Strides, align \in TexAligns :
          SampleTexture(r, fmt, stride, align)
    \/ \E r \in FillRegions : AccelerateFill(r)
    \/ \E nf \in Filters, ns \in Scales : TickFrame(nf, ns)
    \/ \E flush \in ClearAllFlush : ClearAll(flush)
    \/ BindTextureCube
    \/ \E t \in Transfers, stride \in Strides :
          \/ TextureCopy(TransferReq(t[1], "Invalid", stride), TransferReq(t[2], "Invalid", stride))
          \/ \E fmt \in ColorFormats :
                DisplayTransfer(TransferReq(t[1], fmt, stride), TransferReq(t[2], fmt, stride))

Spec == Init /\ [][Next]_vars

\* The renderer calls TickFrame once per presented frame, whatever the
\* guest does, so a frame tick cannot be postponed forever.  Nothing else
\* is assumed to happen: the guest may stop drawing or touching memory.
\* TickFrame is the only step that advances frame_tick, and its only guard
\* is the tick bound, so FrameAdvance is enabled exactly when TickFrame is
\* and a step of Next is a FrameAdvance step exactly when it is a
\* TickFrame step: weak fairness of FrameAdvance is weak fairness of
\* TickFrame, stated without TickFrame's unregistering in the ENABLED.
FrameAdvance == frame_tick < MaxTick /\ frame_tick' = frame_tick + 1
FairSpec == Spec /\ WF_frame_tick(FrameAdvance)
-----------------------------------------------------------------------------
(***************************************************************************)
(* Properties                                                              *)
(***************************************************************************)

Surface == [live : BOOLEAN, reg : BOOLEAN, lo : Addr, hi : Addr,
            fmt : Formats \cup {"Invalid"}, type : {"Color", "Depth", "Fill", "Texture", "Invalid"},
            stride : Strides, scale : Scales \cup {FillScale}, invalid : SUBSET Addr,
            data : [Addr -> Val], fill : Val]

TypeOK ==
    /\ surfaces \in [SlotIds -> Surface]
    /\ page_table \in [Pages -> Seq(SlotIds)]
    /\ cached_pages \in [Pages -> Nat]
    /\ marked \subseteq Pages
    /\ dirty_regions \in [Addr -> SlotIds \cup {NULL}]
    /\ sentenced \in Seq(SlotIds \X (0..MaxTick))
    /\ frame_tick \in 0..MaxTick
    /\ force_fallback \in 0..FallbackCalls
    /\ fbs \subseteq SlotIds
    /\ cube \in [live : BOOLEAN, sid : SlotIds \cup {NULL}, face : [CubeIds -> SlotIds \cup {NULL}]]
    /\ mem \in [Addr -> Val] /\ truth \in [Addr -> Val]
    /\ filter \in Filters /\ scale_factor \in Scales
    /\ next_val \in 0..MaxVal

\* No write is lost: where no surface owns a unit (dirty_regions), guest
\* memory holds the latest value written there; where one does, that
\* surface holds it.  Breaks if InvalidateRegion, FlushRegion or the
\* downloads leave ownership and data out of step.
NoLostWrite ==
    \A a \in Addr :
        IF dirty_regions[a] = NULL THEN mem[a] = truth[a]
        ELSE Holds(surfaces[dirty_regions[a]], a) = truth[a]

\* A surface the lookups can reach: page_table lists it.
Linked(id) == \E p \in Pages : \E i \in 1..Len(page_table[p]) : page_table[p][i] = id

\* Every unit a surface the lookups can reach considers valid holds the
\* latest value written there: validation (copy, reinterpretation,
\* flush-then-upload) and invalidation keep the valid regions current.
ValidIsLatest ==
    \A id \in SlotIds :
        Linked(id) =>
            \A a \in Span(surfaces[id]) \ surfaces[id].invalid :
                Holds(surfaces[id], a) = truth[a]

\* A CPU read of any unit, small or large, returns the latest value: the
\* page is marked cached whenever a surface owns data on it, and the flush
\* it triggers writes that data back (memory.cpp + FlushRegion).
ReadSeesLatest ==
    \A a \in Addr, small \in BOOLEAN :
        (IF PageOf(a) \in marked THEN FlushRegion(St, a, a, NULL, small) ELSE St).mem[a]
            = truth[a]

\* Guest memory as the emulator sees it through the cache: the dirty owner
\* of a unit holds its data, guest memory holds the rest (what FlushRegion
\* would write back).
CoherentView ==
    [a \in Addr |-> IF dirty_regions[a] = NULL THEN mem[a]
                    ELSE Holds(surfaces[dirty_regions[a]], a)]

GuestMem == INSTANCE GuestMemory
                WITH Units <- Addr, MaxFresh <- MaxVal,
                     data <- CoherentView, last <- next_val, read <- sample

\* The cache implements a single coherent memory: from the initial state,
\* every step either writes a fresh value to some units of the view
\* (CPU store, draw, fill), or returns in a texture sample exactly what the
\* view holds, or leaves the view unchanged.  Flushes, uploads, copies,
\* reinterpretation, collection and ClearAll move data about without
\* changing what any unit holds (GetTextureSurface, FlushRegion,
\* InvalidateRegion, ValidateSurface, ClearAll).
ImplementsGuestMemory == GuestMem!Spec

\* The owner of every dirty unit is a live registered surface valid there,
\* the precondition FlushRegion asserts ("Region owner has invalid
\* regions") and the reason the garbage collector may erase unregistered
\* surfaces.
DirtyOwnerValid ==
    \A a \in Addr :
        dirty_regions[a] # NULL =>
            LET s == surfaces[dirty_regions[a]]
            IN s.live /\ s.reg /\ a \in Span(s) \ s.invalid

\* page_table lists each registered surface once on every page it covers
\* and nothing else, cached_pages counts those entries, and exactly the
\* pages with a non-zero count were marked cached in memory
\* (RegisterSurface, UnregisterSurface, UpdatePagesCachedCount).
CacheBookkeeping ==
    \A p \in Pages :
        /\ cached_pages[p] = Len(page_table[p])
        /\ (p \in marked) <=> cached_pages[p] > 0
        /\ \A id \in SlotIds :
              LET s == surfaces[id]
              IN Cardinality({i \in 1..Len(page_table[p]) : page_table[p][i] = id})
                   = IF s.live /\ s.reg /\ PageOf(s.lo) <= p /\ p <= PageOf(s.hi) THEN 1 ELSE 0

\* The surface texture_cube_cache holds for the live cube entry.
CubeHeld(id) == cube.live /\ cube.sid = id

\* Every live surface is exactly one of registered, held as the cube
\* entry's surface, or sentenced once, and whatever is sentenced or held
\* is live: surfaces are neither leaked nor erased while in use
\* (UnregisterSurface, CreateSurface's recycling, RunGarbageCollector,
\* GetTextureSurface's temporary surfaces, RemoveTextureCubeFace
\* sentencing the cube surface with its last face).
SlotLifecycle ==
    \A id \in SlotIds :
        LET n == Cardinality({i \in 1..Len(sentenced) : sentenced[i][1] = id})
        IN /\ surfaces[id].live =>
                 Cardinality({k \in {"reg", "held", "sent"} :
                                \/ k = "reg" /\ surfaces[id].reg
                                \/ k = "held" /\ CubeHeld(id)
                                \/ k = "sent" /\ n = 1}) = 1
           /\ n <= 1
           /\ (n = 1 \/ CubeHeld(id)) => surfaces[id].live

\* Every face the cube entry still lists names a live surface that covers
\* the face, so GetTextureCube's copy reads that face's texels: a face
\* surface that is unregistered, sentenced and erased or recycled has
\* first been dropped from face_ids (UnregisterSurface's
\* RemoveTextureCubeFace, GetTextureSurface's choice of surface).
CubeFacesLive ==
    cube.live =>
        \A i \in CubeIds : cube.face[i] # NULL =>
            LET s == surfaces[cube.face[i]]
            IN s.live /\ s.type # "Fill" /\ FaceUnits(i) \subseteq s.lo..s.hi
\* Surfaces do not leak: a live surface that the lookups can no longer
\* reach (unregistered and sentenced, a temporary texture, or anything
\* else page_table dropped, but not the cube entry's surface, which
\* texture_cube_cache holds) is eventually erased from slot_surfaces or
\* recycled into the page table, as the lifecycle Registered -> Sentenced ->
\* Erased promises, given only that frames keep being ticked
\* (UnregisterSurface, RunGarbageCollector, CreateSurface's recycling).
SurfacesReclaimed ==
    \A id \in SlotIds :
        (surfaces[id].live /\ ~Linked(id) /\ ~CubeHeld(id))
            ~> (~surfaces[id].live \/ Linked(id) \/ CubeHeld(id))

\* Every framebuffer the cache keeps has a live color or depth surface as
\* its attachment: a slot is never erased, and so never reused, while a
\* framebuffer still names it (RunGarbageCollector's RemoveFramebuffers,
\* UnregisterSurface erasing fill surfaces at once, CreateSurface's
\* recycling, ClearAll leaving surfaces in place).
FramebuffersLive ==
    \A id \in fbs : surfaces[id].live /\ surfaces[id].type \in {"Color", "Depth"}
=============================================================================
