------------------------------- MODULE Layout -------------------------------
(***************************************************************************)
(* The slot assignment behind the world map                                *)
(* (crates/kubernation-core/src/state/layout.rs), driven the way the world *)
(* loop drives it (build_carrying in crates/kubernation/src/net.rs): every *)
(* tick observes the cluster's nodes, assigns them to slots starting from  *)
(* the previous tick's layout, stamps what changed, and the result becomes *)
(* the next tick's prior.  Between ticks an operator may compact the map.  *)
(*                                                                         *)
(* assign_layout is one pure call.  Its loops are written here as one      *)
(* action per iteration, so that what holds inside the loop can be stated  *)
(* and proved; `phase' says where in the call a tick is.                   *)
(***************************************************************************)
EXTENDS Integers

CONSTANTS
  Nodes,      (* node names, numbered in the order (fnv1a64(name), name)      *)
  Zones,      (* zone names, numbered in string order                        *)
  Pools,      (* pool names, numbered in string order                        *)
  MaxOrdinal, (* u16::MAX, the last ordinal a zone can hand out              *)
  Times       (* instants the caller's clock may show when a tick is stamped *)

ASSUME LayoutAssumption ==
  /\ Nodes \subseteq Nat
  /\ Zones \subseteq Nat
  /\ Pools \subseteq Nat
  /\ Times \subseteq Nat
  /\ MaxOrdinal \in Nat

VARIABLES
  slots,     (* the layout's slots: a function from slot keys to slot states *)
  zoneOrd,   (* zone |-> continent ordinal                                   *)
  prior,     (* the slots of the layout this tick started from               *)
  observed,  (* where each node is seen this tick, or Away                   *)
  unplaced,  (* nodes the assignment loop has not reached yet                *)
  phase      (* "idle" between ticks, else the loop that is running          *)

vars == <<slots, zoneOrd, prior, observed, unplaced, phase>>

-----------------------------------------------------------------------------
(* Data.  None stands for Rust's None in every optional field.             *)

None == -1

Place == [zone : Zones, pool : Pools]
Away  == [zone |-> None, pool |-> None]

SlotKey == [zone : Zones, pool : Pools, ordinal : 0..MaxOrdinal]

SlotState == [occupant   : Nodes \cup {None},
              last       : Nodes \cup {None},
              vacatedAt  : Times \cup {None},
              occupiedAt : Times \cup {None}]

PlaceOf(k) == [zone |-> k.zone, pool |-> k.pool]

(* The derived Ord of SlotKey: by zone, then pool, then ordinal. *)
Before(j, k) ==
  \/ j.zone < k.zone
  \/ j.zone = k.zone /\ j.pool < k.pool
  \/ j.zone = k.zone /\ j.pool = k.pool /\ j.ordinal < k.ordinal

(* slot_of: the first slot in key order that n occupies. *)
SlotOf(l, n, k) ==
  /\ k \in DOMAIN l
  /\ l[k].occupant = n
  /\ \A j \in DOMAIN l : l[j].occupant = n => ~Before(j, k)

(* home_of: the first slot in key order whose last occupant was n. *)
HomeOf(l, n, k) ==
  /\ k \in DOMAIN l
  /\ l[k].last = n
  /\ \A j \in DOMAIN l : l[j].last = n => ~Before(j, k)

Vacant(l, k) == k \in DOMAIN l /\ l[k].occupant = None

(* Mutant: a slot nobody ever held counts as taken from somebody. *)
ChangedHandsFirstSighting(held, taking) == held # taking

(* changed_hands: a different node takes ground its predecessor held. *)
ChangedHands(held, taking) == held # None /\ held # taking

(* Mutant: re-occupied ground keeps the time of its last vacancy. *)
SeatedStillVacatedAt(s, n) ==
  [occupant |-> n, last |-> n, vacatedAt |-> s.vacatedAt,
   occupiedAt |-> IF ChangedHands(s.last, n) THEN None ELSE s.occupiedAt]

(* place: seat n on a slot in state s, clearing the stamp if it changes hands. *)
Seated(s, n) ==
  [occupant   |-> n,
   last       |-> n,
   vacatedAt  |-> None,
   occupiedAt |-> IF ChangedHands(s.last, n) THEN None ELSE s.occupiedAt]

NewSlot == [occupant |-> None, last |-> None, vacatedAt |-> None, occupiedAt |-> None]

(* Mutant: `saturating_add', which hands out the last ordinal twice. *)
NextOrdinalSaturating(l, z, o) ==
  LET zone == {k \in DOMAIN l : k.zone = z}
  IN  /\ o \in 0..MaxOrdinal
      /\ \A k \in zone : k.ordinal < o \/ o = MaxOrdinal
      /\ o = 0 \/ \E k \in zone : k.ordinal = o - 1 \/ k.ordinal = MaxOrdinal

(* Mutant: an empty zone has no highest ordinal, hence no next one. *)
NextOrdinalNeedsNeighbour(l, z, o) ==
  /\ o \in 0..MaxOrdinal
  /\ \A k \in DOMAIN l : k.zone = z => k.ordinal < o
  /\ \E k \in DOMAIN l : k.zone = z /\ k.ordinal = o - 1

(* next_ordinal: o is one above the highest ordinal of any pool of zone z. *)
NextOrdinal(l, z, o) ==
  /\ o \in 0..MaxOrdinal
  /\ \A k \in DOMAIN l : k.zone = z => k.ordinal < o
  /\ o = 0 \/ \E k \in DOMAIN l : k.zone = z /\ k.ordinal = o - 1

Present == {n \in Nodes : observed[n] # Away}

-----------------------------------------------------------------------------
Init ==
  /\ slots = [k \in {} |-> NewSlot]
  /\ zoneOrd = [z \in {} |-> 0]
  /\ prior = slots
  /\ observed = [n \in Nodes |-> Away]
  /\ unplaced = {}
  /\ phase = "idle"

(* Mutant: a prior slot stays occupied until somebody else is placed on it. *)
VacatedNever(s) == s

Vacated(s) == [s EXCEPT !.occupant = None]

(* A tick begins: every prior slot is kept, vacant until someone is placed. *)
Observe(obs) ==
  /\ phase = "idle"
  /\ phase' = "zones"
  /\ observed' = obs
  /\ prior' = slots
  /\ slots' = [k \in DOMAIN slots |-> Vacated(slots[k])]
  /\ UNCHANGED <<zoneOrd, unplaced>>

FreshZones == {observed[n].zone : n \in Present} \ DOMAIN zoneOrd

(* Mutant: a zone without slots has given its continent ordinal back. *)
AddZoneAmongLive(z, o) ==
  LET live == {y \in DOMAIN zoneOrd : \E k \in DOMAIN slots : k.zone = y}
  IN  /\ phase = "zones"
      /\ z \in FreshZones
      /\ \A y \in FreshZones : z <= y
      /\ \A y \in live : zoneOrd[y] < o
      /\ o = 0 \/ \E y \in live : zoneOrd[y] = o - 1
      /\ zoneOrd' = [y \in DOMAIN zoneOrd \cup {z} |-> IF y = z THEN o ELSE zoneOrd[y]]
      /\ UNCHANGED <<slots, prior, observed, unplaced, phase>>

(* The lowest fresh zone takes the next continent ordinal. *)
AddZone(z, o) ==
  /\ phase = "zones"
  /\ z \in FreshZones
  /\ \A y \in FreshZones : z <= y
  /\ \A y \in DOMAIN zoneOrd : zoneOrd[y] < o
  /\ o = 0 \/ \E y \in DOMAIN zoneOrd : zoneOrd[y] = o - 1
  /\ zoneOrd' = [y \in DOMAIN zoneOrd \cup {z} |-> IF y = z THEN o ELSE zoneOrd[y]]
  /\ UNCHANGED <<slots, prior, observed, unplaced, phase>>

(* Mutant: a node that moved to another zone or pool drags its slot along. *)
KeepsAnywhere(n, k) == n \in Present /\ SlotOf(prior, n, k)

Keeps(n, k) ==
  /\ n \in Present
  /\ SlotOf(prior, n, k)
  /\ PlaceOf(k) = observed[n]

(* 1. CARRY: a node still in its slot's zone and pool keeps the slot. *)
Carry ==
  /\ phase = "zones"
  /\ FreshZones = {}
  /\ phase' = "place"
  /\ slots' = [k \in DOMAIN slots |->
                 IF Keeps(prior[k].occupant, k)
                   THEN Seated(slots[k], prior[k].occupant)
                   ELSE slots[k]]
  /\ unplaced' = {n \in Present : \A k \in DOMAIN prior : ~Keeps(n, k)}
  /\ UNCHANGED <<zoneOrd, prior, observed>>

(* The loop over the nodes that kept no slot runs in hash order. *)
Turn(n) ==
  /\ phase = "place"
  /\ n \in unplaced
  /\ \A m \in unplaced : n <= m

Seat(n, k) ==
  /\ slots' = [j \in DOMAIN slots \cup {k} |->
                 IF j = k THEN Seated(IF k \in DOMAIN slots THEN slots[k] ELSE NewSlot, n)
                          ELSE slots[j]]
  /\ unplaced' = unplaced \ {n}
  /\ UNCHANGED <<zoneOrd, prior, observed, phase>>

(* Mutant: no RECLAIM, every unplaced node takes the lowest vacancy. *)
OwnGroundForgotten(n, k) == FALSE

OwnGround(n, k) ==
  /\ HomeOf(prior, n, k)
  /\ PlaceOf(k) = observed[n]
  /\ Vacant(slots, k)

Reusable(n, k) == Vacant(slots, k) /\ PlaceOf(k) = observed[n]

(* 2a. RECLAIM: the node's own former slot, still vacant and in its pool. *)
Reclaim(n, k) ==
  /\ Turn(n)
  /\ OwnGround(n, k)
  /\ Seat(n, k)

(* 2b. REUSE: otherwise the lowest vacancy of the node's zone and pool. *)
Reuse(n, k) ==
  /\ Turn(n)
  /\ \A j \in DOMAIN prior : ~OwnGround(n, j)
  /\ Reusable(n, k)
  /\ \A j \in DOMAIN slots : Reusable(n, j) => k.ordinal <= j.ordinal
  /\ Seat(n, k)

NothingVacant(n) ==
  /\ \A j \in DOMAIN prior : ~OwnGround(n, j)
  /\ \A j \in DOMAIN slots : ~Reusable(n, j)

(* 3. APPEND: a new slot at the next ordinal free anywhere in the zone. *)
Extend(n, o) ==
  /\ Turn(n)
  /\ NothingVacant(n)
  /\ NextOrdinal(slots, observed[n].zone, o)
  /\ Seat(n, [zone |-> observed[n].zone, pool |-> observed[n].pool, ordinal |-> o])

(* The zone has handed out its last ordinal: the node stays off the map. *)
LeaveUnplaced(n) ==
  /\ Turn(n)
  /\ NothingVacant(n)
  /\ \A o \in 0..MaxOrdinal : ~NextOrdinal(slots, observed[n].zone, o)
  /\ unplaced' = unplaced \ {n}
  /\ UNCHANGED <<slots, zoneOrd, prior, observed, phase>>

(* Who the slot belonged to when the tick started. *)
HeldBefore(k) == IF k \in DOMAIN prior THEN prior[k].last ELSE None

(* stamp_successions, then stamp_vacancies, with one reading of the clock. *)
Stamp(now) ==
  /\ phase = "place"
  /\ unplaced = {}
  /\ phase' = "idle"
  /\ slots' = [k \in DOMAIN slots |->
       [slots[k] EXCEPT
          !.occupiedAt = IF slots[k].occupant # None
                            /\ ChangedHands(HeldBefore(k), slots[k].occupant)
                         THEN now ELSE @,
          !.vacatedAt  = IF slots[k].occupant = None /\ @ = None THEN now ELSE @]]
  /\ UNCHANGED <<zoneOrd, prior, observed, unplaced>>

(* compact: ghost ground is released, occupied ground is not renumbered. *)
Compact ==
  /\ phase = "idle"
  /\ slots' = [k \in {j \in DOMAIN slots : slots[j].occupant # None} |-> slots[k]]
  /\ UNCHANGED <<zoneOrd, prior, observed, unplaced, phase>>

PlaceOne ==
  \E n \in unplaced :
    \/ \E k \in DOMAIN slots : Reclaim(n, k) \/ Reuse(n, k)
    \/ \E o \in 0..MaxOrdinal : Extend(n, o)
    \/ LeaveUnplaced(n)

Next ==
  \/ \E obs \in [Nodes -> Place \cup {Away}] : Observe(obs)
  \/ \E z \in Zones, o \in 0..MaxOrdinal : AddZone(z, o)
  \/ Carry
  \/ PlaceOne
  \/ \E now \in Times : Stamp(now)
  \/ Compact

Spec == Init /\ [][Next]_vars

-----------------------------------------------------------------------------
(* The layout the rest of the program sees: a tick in progress is invisible. *)
Published == IF phase = "idle" THEN slots ELSE prior

Occupied(l) == {k \in DOMAIN l : l[k].occupant # None}

TickEnds == phase = "place" /\ phase' = "idle"

(* Occupied ground remembers its occupant and is not dated as vacant. *)
WellFormed(l) ==
  /\ DOMAIN l \subseteq SlotKey
  /\ \A k \in DOMAIN l :
       /\ l[k] \in SlotState
       /\ l[k].occupant # None => l[k].last = l[k].occupant /\ l[k].vacatedAt = None

(* Every variable holds what the Rust types allow, and every slot what the
   field comments of SlotState say of an occupied one. *)
TypeOK ==
  /\ slots = [k \in DOMAIN slots |-> slots[k]] /\ WellFormed(slots)
  /\ prior = [k \in DOMAIN prior |-> prior[k]] /\ WellFormed(prior)
  /\ zoneOrd = [z \in DOMAIN zoneOrd |-> zoneOrd[z]]
  /\ DOMAIN zoneOrd \subseteq Zones
  /\ \A z \in DOMAIN zoneOrd : zoneOrd[z] \in 0..MaxOrdinal
  /\ observed \in [Nodes -> Place \cup {Away}]
  /\ unplaced \subseteq Nodes
  /\ phase \in {"idle", "zones", "place"}

(* A node stands on at most one slot, at every point of the assignment: CARRY,
   RECLAIM, REUSE and APPEND never seat the same node twice, whatever moved. *)
OneSlotPerNode ==
  \A j, k \in DOMAIN slots :
    slots[j].occupant # None /\ slots[j].occupant = slots[k].occupant => j = k

(* No two slots are drawn on the same ground: the map places a slot by its
   zone's continent ordinal and its own ordinal alone, so that pair is unique
   although slots are keyed by pool as well and compaction leaves gaps. *)
NoTwoSlotsShareGround ==
  \A j, k \in DOMAIN slots :
    /\ j.zone \in DOMAIN zoneOrd
    /\ zoneOrd[j.zone] = zoneOrd[k.zone] /\ j.ordinal = k.ordinal => j = k

(* A node leaves the assignment loop without a slot only when nothing in its
   zone and pool is vacant and its zone has handed out the last ordinal:
   nobody is dropped, and no live node is evicted to make room. *)
SeatedUnlessZoneExhausted ==
  phase = "place" =>
    \A n \in Present \ unplaced :
      \/ \E k \in DOMAIN slots : slots[k].occupant = n /\ PlaceOf(k) = observed[n]
      \/ /\ \A k \in DOMAIN slots : ~Reusable(n, k)
         /\ \E k \in DOMAIN slots : k.zone = observed[n].zone /\ k.ordinal = MaxOrdinal

(* Over a whole tick, a node that is still in its slot's zone and pool stands
   where it stood, whatever arrived, left or moved around it. *)
SurvivorsStay ==
  [][TickEnds => \A k \in Occupied(prior) :
       PlaceOf(k) = observed[prior[k].occupant]
         => k \in DOMAIN slots' /\ slots'[k].occupant = prior[k].occupant]_vars

(* Nodes that went away together do not swap ground when they come back
   together: if each node the tick has to place has exactly one former slot,
   vacant and in its pool, each gets its own. *)
HomesOf(n) == {k \in DOMAIN prior : prior[k].last = n}
Returner(n) ==
  \E k \in HomesOf(n) : HomesOf(n) = {k} /\ PlaceOf(k) = observed[n] /\ Vacant(prior, k)
ToPlace == {n \in Present : \A k \in DOMAIN prior : ~Keeps(n, k)}

ReturnersDoNotSwap ==
  [][TickEnds /\ (\A n \in ToPlace : Returner(n)) =>
       \A n \in ToPlace : \A k \in HomesOf(n) : slots'[k].occupant = n]_vars

(* The two timestamps mean what they say.  After a tick, an occupied slot is
   stamped as changing hands exactly when another node held it last - also if
   it stood empty for many ticks in between - and keeps its age otherwise; a
   vacancy keeps the time it began, and occupied ground carries none. *)
StampsAreHonest ==
  [][TickEnds => \A k \in DOMAIN slots' :
       LET before == IF k \in DOMAIN prior THEN prior[k] ELSE NewSlot
           after  == slots'[k]
       IN  IF after.occupant = None
             THEN /\ after.occupiedAt = before.occupiedAt
                  /\ after.vacatedAt # None
                  /\ before.vacatedAt # None => after.vacatedAt = before.vacatedAt
             ELSE /\ after.vacatedAt = None
                  /\ IF before.last \in {None, after.occupant}
                       THEN after.occupiedAt = before.occupiedAt
                       ELSE after.occupiedAt \in Times]_vars

(* The engine implements the promise of StableGround: whatever RECLAIM, REUSE,
   APPEND and compaction do, a tick never moves a node that stayed, never gives
   two nodes one slot, and only ever adds ground beyond the end of a zone. *)
Seats(l) == {<<l[k].occupant, k>> : k \in Occupied(l)}

Stable == INSTANCE StableGround WITH
  seen   <- observed,
  ground <- DOMAIN Published,
  seats  <- Seats(Published)

KeepsGroundStable == Stable!Spec
=============================================================================
