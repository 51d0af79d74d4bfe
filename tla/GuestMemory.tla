---------------------------- MODULE GuestMemory ----------------------------
(***************************************************************************)
(* What the rasterizer cache promises the rest of the emulator: guest     *)
(* memory, as the CPU and the GPU see it through the cache, is a single   *)
(* memory.  A write (a CPU store, a draw, a fill) puts a fresh value into *)
(* some units; a transfer copies a range of units to another; a texture   *)
(* sample returns what the units hold; nothing else                       *)
(* changes what they hold, however the cache moves data between guest    *)
(* memory and its surfaces.  RasterizerCache refines this module under    *)
(* the mapping that reads each unit from its dirty owner or from memory.  *)
(***************************************************************************)
EXTENDS Naturals

CONSTANTS
    Units,     \* the units of guest memory, consecutive integers
    MaxFresh   \* bound on the number of writes

VARIABLES
    data,      \* unit -> the value it holds
    last,      \* the last fresh value handed out
    read       \* what this step read: unit -> value, empty if it read nothing

vars == <<data, last, read>>

Init ==
    /\ data = [u \in Units |-> 0]
    /\ last = 0
    /\ read = <<>>

\* A write of a fresh value to some units (none, for a draw that writes
\* nothing of its viewport): every unit keeps its value or takes the new one.
Write ==
    /\ last < MaxFresh
    /\ last' = last + 1
    /\ DOMAIN data' = Units
    /\ \A u \in Units : data'[u] \in {data[u], last'}
    /\ read' = <<>>

\* A copy of the units lo..hi to the units starting at to.
Copy ==
    /\ \E lo, hi, to \in Units :
          /\ lo <= hi /\ to + (hi - lo) \in Units
          /\ data' = [u \in Units |-> IF u \in to..to + (hi - lo) THEN data[u - to + lo]
                                      ELSE data[u]]
    /\ last' = last /\ read' = <<>>

\* A read of some units returns what they hold; a step that reads nothing
\* and changes nothing is a read of no units.
Read ==
    /\ DOMAIN read' \subseteq Units
    /\ \A u \in DOMAIN read' : read'[u] = data[u]
    /\ UNCHANGED <<data, last>>

Next == Write \/ Copy \/ Read

Spec == Init /\ [][Next]_vars

=============================================================================
