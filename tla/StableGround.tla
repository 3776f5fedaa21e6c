---------------------------- MODULE StableGround ----------------------------
(***************************************************************************)
(* What the layout engine promises the map: ground a node stands on does   *)
(* not move under it.  Nodes come, go and move between pools as they like  *)
(* (`seen'); the map answers with `ground', the slots it has, and `seats', *)
(* the pairs <<node, slot>> of who stands where.  Which vacancy a node     *)
(* without a seat is given is left open.                                   *)
(***************************************************************************)
EXTENDS Integers

CONSTANTS Nodes, Place, Away

VARIABLES seen, ground, seats

PlaceOf(k) == [zone |-> k.zone, pool |-> k.pool]

Init ==
  /\ seen = [n \in Nodes |-> Away]
  /\ ground = {}
  /\ seats = {}

Move ==
  /\ seen' \in [Nodes -> Place \cup {Away}]
  /\ UNCHANGED <<ground, seats>>

(* A node that is still where its seat is keeps it. *)
SeatsKept == \A s \in seats : seen[s[1]] = PlaceOf(s[2]) => s \in seats'

(* Seats are on the map, where their node is, and nobody shares one. *)
SeatsSound ==
  /\ \A s \in seats' : s[2] \in ground' /\ seen[s[1]] = PlaceOf(s[2])
  /\ \A s, t \in seats' : s[1] = t[1] \/ s[2] = t[2] => s = t

(* No ground is given up, and new ground is taken beyond all of its zone. *)
GroundGrows ==
  /\ ground \subseteq ground'
  /\ \A k \in ground' \ ground :
        /\ \E s \in seats' : s[2] = k
        /\ \A j \in ground : j.zone = k.zone => j.ordinal < k.ordinal

Settle ==
  /\ UNCHANGED seen
  /\ SeatsKept
  /\ SeatsSound
  /\ GroundGrows

(* Compaction gives up exactly the ground nobody stands on. *)
Compact ==
  /\ ground' = {s[2] : s \in seats}
  /\ UNCHANGED <<seen, seats>>

Next == Move \/ Settle \/ Compact

Spec == Init /\ [][Next]_<<seen, ground, seats>>
=============================================================================
