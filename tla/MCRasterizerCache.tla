------------------------- MODULE MCRasterizerCache -------------------------
(***************************************************************************)
(* Model values for RasterizerCache: three units on two pages (one page    *)
(* shared by two units, so surfaces share and straddle pages) and two     *)
(* surface slots.                                                          *)
(***************************************************************************)
EXTENDS RasterizerCache

\* Page 0 holds units 1 and 2, page 1 unit 3.  <<1, 2>> fills page 0,
\* <<1, 3>> straddles both pages, <<2, 2>> lies inside a surface of page 0
\* without starting it, <<3, 3>> is page 1 alone; the single units are the
\* ranges small CPU accesses use.
MCRegions == {<<1, 2>>, <<1, 3>>, <<2, 2>>, <<3, 3>>}
\* Single-unit fills: a fill is always flushed from its first unit.
MCUnitFills == {<<2, 2>>, <<3, 3>>}
\* Fills over several units, flushed from their middle by <<2, 2>>.
MCWideFills == {<<1, 3>>, <<1, 2>>}
MCNoFills == {}
\* The coherence run's ranges: a surface over both pages, and one unit of
\* each page (a surface starting inside page 0, and page 1).
MCStraddleRegions == {<<1, 3>>, <<2, 2>>, <<3, 3>>}
MCOneColor == {"RGBA8"}
MCReinterpreters == {<<"D24S8", "RGBA8">>}
\* Transfers between the unit inside page 0's surfaces and page 1, both ways.
MCTransfers == {<<<<3, 3>>, <<2, 2>>>>, <<<<2, 2>>, <<3, 3>>>>}
MCNoTransfers == {}
(***************************************************************************)
(* The state as the cache's control sees it.  No guard of the cache reads  *)
(* a pixel value, values only move between copies of the same unit, and  *)
(* every written value is fresh, so a copy of a unit matters only by      *)
(* whether it equals truth there; the collector only reads how old a      *)
(* sentence is.  States equal under this view have the same futures up to *)
(* renaming values and shifting ticks, and the coherence properties       *)
(* compare copies with truth only.  MaxVal and MaxTick are set far above  *)
(* what the graph's depth can consume, so they never cut a behaviour.     *)
(***************************************************************************)
Current(v) == [a \in Addr |-> v = truth[a]]
SurfaceView(s) == [s EXCEPT !.data = [a \in Addr |-> s.data[a] = truth[a]],
                            !.fill = Current(s.fill)]
\* The faces of the texture cube: none, or one face at the last unit.
MCNoFaces == <<>>
MCOneFace == <<<<3, 3>>>>
\* TLC builds functions lazily and, under a VIEW, never needs their values
\* before it writes the state to its disk queue; comparing the state with
\* itself makes it compute them.
\* A sentence's age is compared with RemoveThreshold only, and only grows,
\* so ages past RemoveThreshold + 1 are told apart by nothing.
SentenceAges ==
    [i \in 1..Len(sentenced) |->
        <<sentenced[i][1], IF frame_tick - sentenced[i][2] > RemoveThreshold
                           THEN RemoveThreshold + 1 ELSE frame_tick - sentenced[i][2]>>]
\* What a step's sample read, unit by unit: whether it is what the unit
\* holds.  A read step changes only sample; without this component it
\* would be a stutter of the view, and TLC would not check the
\* refinement on it.
SampleView == [a \in DOMAIN sample |-> sample[a] = CoherentView[a]]
Evaluated == <<surfaces, mem, truth, sample>> = <<surfaces, mem, truth, sample>>
MCView ==
    <<[id \in SlotIds |-> SurfaceView(surfaces[id])], page_table, cached_pages, marked,
      dirty_regions, SentenceAges,
      [a \in Addr |-> mem[a] = truth[a]], filter, scale_factor, force_fallback, cube,
      SampleView, Evaluated>>
\* No guard reads fbs, so MCView leaves it out; the bookkeeping view keeps it.
\* For properties of the bookkeeping alone, which no value reaches, the
\* values are dropped altogether.
MCShapeView ==
    <<[id \in SlotIds |-> [surfaces[id] EXCEPT !.data = {}, !.fill = {}]], page_table,
      cached_pages, marked, dirty_regions,
      SentenceAges,
      filter, scale_factor, force_fallback, cube, fbs, Evaluated>>
=============================================================================
