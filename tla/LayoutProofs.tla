---------------------------- MODULE LayoutProofs ----------------------------
(***************************************************************************)
(* Proofs about Layout for every set of nodes, zones and pools and every     *)
(* last ordinal, in two parts.                                               *)
(*                                                                           *)
(* The inductive invariant IInv adds to the safety properties the facts that *)
(* connect the layout under construction (`slots') with the one the tick     *)
(* started from (`prior'), phase by phase.                                   *)
(*                                                                           *)
(* TickInv adds to IInv what every slot under construction owes to the slot  *)
(* the tick started from, which is what it takes to show what a tick does to *)
(* the nodes it has to place and to the timestamps, and in the end that      *)
(* Layout implements StableGround.                                           *)
(***************************************************************************)
EXTENDS Layout, TLAPS, WellFoundedInduction

(* At most one slot per node, in any layout. *)
Distinct(l) ==
  \A j, k \in DOMAIN l :
    l[j].occupant # None /\ l[j].occupant = l[k].occupant => j = k

(* Ordinals are unique within a zone, across its pools. *)
OrdinalsDistinct(l) ==
  \A j, k \in DOMAIN l : j.zone = k.zone /\ j.ordinal = k.ordinal => j = k

ZonesKnown ==
  /\ \A k \in DOMAIN slots : k.zone \in DOMAIN zoneOrd
  /\ \A y, z \in DOMAIN zoneOrd : zoneOrd[y] = zoneOrd[z] => y = z

(* While the zones are numbered, the layout is the prior one, vacated. *)
ZonesPhase ==
  phase = "zones" =>
    /\ DOMAIN slots = DOMAIN prior
    /\ \A k \in DOMAIN slots : slots[k].occupant = None

(* While nodes are placed, those still to be placed hold nothing, nobody away
   holds anything, and whoever may keep a slot has been carried. *)
PlacePhase ==
  phase = "place" =>
    /\ DOMAIN prior \subseteq DOMAIN slots
    /\ unplaced \subseteq Present
    /\ \A n \in Present : observed[n].zone \in DOMAIN zoneOrd
    /\ \A k \in DOMAIN slots : slots[k].occupant \notin unplaced
    /\ \A k \in Occupied(prior) :
         PlaceOf(k) = observed[prior[k].occupant]
           => slots[k].occupant = prior[k].occupant

IInv ==
  /\ TypeOK
  /\ Distinct(slots) /\ Distinct(prior)
  /\ OrdinalsDistinct(slots)
  /\ ZonesKnown
  /\ ZonesPhase
  /\ PlacePhase
  /\ phase # "place" => unplaced = {}

-----------------------------------------------------------------------------
(* Records of natural numbers: what the solvers need to know of the data.    *)

LEMMA NoneNotNat == None \notin Nat
  BY DEF None

(* A slot's place is a place, and no place is Away. *)
LEMMA PlaceFacts ==
  ASSUME NEW k \in SlotKey
  PROVE  /\ PlaceOf(k) \in Place
         /\ PlaceOf(k) # Away
         /\ PlaceOf(k).zone = k.zone
         /\ ~Before(k, k)
  <1>1. k.zone \in Nat /\ k.pool \in Nat /\ k.ordinal \in Nat
    <2>1. k.zone \in Zones /\ k.pool \in Pools /\ k.ordinal \in 0..MaxOrdinal
      BY DEF SlotKey
    <2>2. k.zone \in Nat /\ k.pool \in Nat
      BY <2>1, LayoutAssumption
    <2>3. k.ordinal \in Nat
      BY <2>1, LayoutAssumption
    <2> QED
      BY <2>2, <2>3
  <1>2. PlaceOf(k) \in Place /\ PlaceOf(k).zone = k.zone
    BY DEF PlaceOf, Place, SlotKey
  <1>3. Away.zone = -1
    BY DEF Away, None
  <1>4. ~Before(k, k)
    BY <1>1 DEF Before
  <1> QED
    BY <1>1, <1>2, <1>3, <1>4

(* A node that is observed is observed at a place. *)
LEMMA PresentFacts ==
  ASSUME TypeOK, NEW n \in Present
  PROVE  /\ n \in Nodes /\ n # None
         /\ observed[n] \in Place
         /\ observed[n].zone \in Zones
  BY LayoutAssumption DEF TypeOK, Present, Place, None

LEMMA SeatedFacts ==
  ASSUME NEW s \in SlotState, NEW n \in Nodes
  PROVE  /\ Seated(s, n) \in SlotState
         /\ Seated(s, n).occupant = n
         /\ Seated(s, n).last = n
         /\ Seated(s, n).vacatedAt = None
  BY DEF Seated, SlotState

LEMMA NewSlotFacts == NewSlot \in SlotState /\ NewSlot.occupant = None
  BY DEF NewSlot, SlotState

-----------------------------------------------------------------------------
LEMMA InitInv == Init => IInv
  <1> SUFFICES ASSUME Init PROVE IInv
    OBVIOUS
  <1>1. TypeOK
    BY DEF Init, TypeOK, WellFormed
  <1>2. QED
    BY <1>1 DEF Init, IInv, Distinct, OrdinalsDistinct, ZonesKnown, ZonesPhase, PlacePhase

(* A tick begins on a vacated copy of the layout. *)
LEMMA ObserveInv ==
  ASSUME IInv, NEW obs \in [Nodes -> Place \cup {Away}], Observe(obs)
  PROVE  IInv'
  <1> USE DEF IInv, Observe
  <1>1. DOMAIN slots' = DOMAIN slots /\ DOMAIN prior' = DOMAIN slots
    OBVIOUS
  <1>2. \A k \in DOMAIN slots : slots'[k] = Vacated(slots[k])
    OBVIOUS
  <1>3. ASSUME NEW s \in SlotState
        PROVE  Vacated(s) \in SlotState /\ Vacated(s).occupant = None
    BY DEF Vacated, SlotState
  <1>4. WellFormed(slots)'
    BY <1>1, <1>2, <1>3 DEF TypeOK, WellFormed
  <1>5. TypeOK'
    <2>1. slots' = [k \in DOMAIN slots' |-> slots'[k]]
      BY <1>1
    <2>2. prior' = [k \in DOMAIN prior' |-> prior'[k]] /\ WellFormed(prior)'
      BY DEF TypeOK, WellFormed
    <2>3. QED
      BY <1>4, <2>1, <2>2 DEF TypeOK
  <1>6. \A k \in DOMAIN slots' : slots'[k].occupant = None
    BY <1>1, <1>2, <1>3 DEF TypeOK, WellFormed
  <1>7. Distinct(slots)' /\ Distinct(prior)'
    BY <1>6 DEF Distinct
  <1>8. OrdinalsDistinct(slots)' /\ ZonesKnown'
    BY <1>1 DEF OrdinalsDistinct, ZonesKnown
  <1>9. ZonesPhase' /\ PlacePhase' /\ unplaced' = {}
    BY <1>1, <1>6 DEF ZonesPhase, PlacePhase
  <1> QED
    BY <1>5, <1>7, <1>8, <1>9

(* A fresh zone gets an ordinal above all others. *)
LEMMA AddZoneInv ==
  ASSUME IInv, NEW z \in Zones, NEW o \in 0..MaxOrdinal, AddZone(z, o)
  PROVE  IInv'
  <1> USE DEF IInv, AddZone
  <1>1. z \notin DOMAIN zoneOrd
    BY DEF FreshZones
  <1>2. DOMAIN zoneOrd' = DOMAIN zoneOrd \cup {z}
    OBVIOUS
  <1>3. \A y \in DOMAIN zoneOrd : zoneOrd'[y] = zoneOrd[y] /\ zoneOrd[y] < o
    BY <1>1
  <1>4. zoneOrd'[z] = o
    OBVIOUS
  <1>5. TypeOK'
    BY <1>2, <1>3, <1>4 DEF TypeOK, WellFormed
  <1>6. ZonesKnown'
    <2>1. \A k \in DOMAIN slots' : k.zone \in DOMAIN zoneOrd'
      BY <1>2 DEF ZonesKnown
    <2>2. ASSUME NEW x \in DOMAIN zoneOrd', NEW y \in DOMAIN zoneOrd', zoneOrd'[x] = zoneOrd'[y]
          PROVE  x = y
      <3>1. \A w \in DOMAIN zoneOrd : zoneOrd'[w] # o
        BY <1>3, LayoutAssumption DEF TypeOK
      <3>2. QED
        BY <1>2, <1>3, <1>4, <2>2, <3>1 DEF ZonesKnown
    <2>3. QED
      BY <2>1, <2>2 DEF ZonesKnown
  <1>7. Distinct(slots)' /\ Distinct(prior)' /\ OrdinalsDistinct(slots)'
    BY DEF Distinct, OrdinalsDistinct
  <1>8. ZonesPhase' /\ PlacePhase' /\ unplaced' = {}
    BY DEF ZonesPhase, PlacePhase
  <1> QED
    BY <1>5, <1>6, <1>7, <1>8

(* With at most one slot per node, the first slot of a node is its slot. *)
LEMMA KeepsItsSlot ==
  ASSUME IInv, NEW k \in DOMAIN prior, prior[k].occupant \in Nodes,
         PlaceOf(k) = observed[prior[k].occupant]
  PROVE  Keeps(prior[k].occupant, k)
  <1> DEFINE n == prior[k].occupant
  <1>1. k \in SlotKey
    BY DEF IInv, TypeOK, WellFormed
  <1>2. n \in Present
    BY <1>1, PlaceFacts DEF Present
  <1>3. \A j \in DOMAIN prior : prior[j].occupant = n => j = k
    BY NoneNotNat, LayoutAssumption DEF IInv, Distinct
  <1>4. ~Before(k, k)
    BY <1>1, PlaceFacts
  <1>5. QED
    BY <1>2, <1>3, <1>4 DEF Keeps, SlotOf

(* CARRY seats exactly the nodes that are still where their slot is. *)
LEMMA CarryInv ==
  ASSUME IInv, Carry
  PROVE  IInv'
  <1> DEFINE n(k) == prior[k].occupant
  <1>1. /\ DOMAIN slots' = DOMAIN slots /\ DOMAIN slots = DOMAIN prior
        /\ \A k \in DOMAIN slots :
             slots'[k] = IF Keeps(n(k), k) THEN Seated(slots[k], n(k)) ELSE slots[k]
        /\ slots' = [k \in DOMAIN slots' |-> slots'[k]]
    BY DEF Carry, IInv, ZonesPhase
  <1>2. \A k \in DOMAIN slots : slots[k].occupant = None /\ slots[k] \in SlotState
    BY DEF Carry, IInv, ZonesPhase, TypeOK, WellFormed
  <1>3. ASSUME NEW k \in DOMAIN slots, Keeps(n(k), k)
        PROVE  /\ n(k) \in Present /\ n(k) \in Nodes /\ n(k) # None
               /\ slots'[k] \in SlotState
               /\ slots'[k].occupant = n(k)
               /\ slots'[k].last = n(k)
               /\ slots'[k].vacatedAt = None
    <2>1. n(k) \in Present
      BY <1>3 DEF Keeps
    <2>2. n(k) \in Nodes /\ n(k) # None
      BY <2>1, PresentFacts DEF IInv
    <2>3. QED
      BY <1>1, <1>2, <1>3, <2>1, <2>2, SeatedFacts
  <1>4. ASSUME NEW k \in DOMAIN slots, ~Keeps(n(k), k)
        PROVE  slots'[k] = slots[k]
    BY <1>1, <1>4
  <1>5. TypeOK'
    <2>1. WellFormed(slots)'
      BY <1>1, <1>2, <1>3, <1>4 DEF IInv, TypeOK, WellFormed
    <2>2. unplaced' \subseteq Nodes
      BY DEF Carry, Present
    <2>3. QED
      BY <1>1, <2>1, <2>2 DEF Carry, IInv, TypeOK, WellFormed
  <1>6. Distinct(slots)'
    <2> SUFFICES ASSUME NEW j \in DOMAIN slots, NEW k \in DOMAIN slots,
                        slots'[j].occupant # None, slots'[j].occupant = slots'[k].occupant
                 PROVE  j = k
      BY <1>1 DEF Distinct
    <2>1. Keeps(n(j), j) /\ Keeps(n(k), k)
      BY <1>2, <1>4
    <2>2. n(j) = n(k) /\ n(j) # None
      BY <1>3, <2>1
    <2>3. QED
      BY <1>1, <2>2 DEF IInv, Distinct
  <1>7. Distinct(prior)' /\ OrdinalsDistinct(slots)' /\ ZonesKnown'
    BY <1>1 DEF Carry, IInv, Distinct, OrdinalsDistinct, ZonesKnown
  <1>8. PlacePhase'
    <2>1. DOMAIN prior' \subseteq DOMAIN slots' /\ unplaced' \subseteq Present'
      BY <1>1 DEF Carry, Present
    <2>2. \A m \in Present' : observed'[m].zone \in DOMAIN zoneOrd'
      BY DEF Carry, FreshZones, Present
    <2>3. \A k \in DOMAIN slots' : slots'[k].occupant \notin unplaced'
      <3> SUFFICES ASSUME NEW k \in DOMAIN slots, slots'[k].occupant \in unplaced'
                   PROVE  FALSE
        BY <1>1
      <3>1. CASE Keeps(n(k), k)
        BY <1>1, <1>3, <3>1 DEF Carry
      <3>2. CASE ~Keeps(n(k), k)
        <4>1. None \in Nodes
          BY <1>2, <1>4, <3>2 DEF Carry, Present
        <4>2. QED
          BY <4>1, NoneNotNat, LayoutAssumption
      <3> QED
        BY <3>1, <3>2
    <2>4. \A k \in Occupied(prior)' :
            PlaceOf(k) = observed'[prior'[k].occupant]
              => slots'[k].occupant = prior'[k].occupant
      <3> SUFFICES ASSUME NEW k \in DOMAIN prior, n(k) # None, PlaceOf(k) = observed[n(k)]
                   PROVE  slots'[k].occupant = n(k)
        BY DEF Carry, Occupied
      <3>1. n(k) \in Nodes
        BY DEF IInv, TypeOK, WellFormed, SlotState
      <3>2. QED
        BY <1>1, <1>3, <3>1, KeepsItsSlot
    <2> QED
      BY <2>1, <2>2, <2>3, <2>4 DEF PlacePhase
  <1> QED
    BY <1>5, <1>6, <1>7, <1>8 DEF Carry, IInv, ZonesPhase

(* Seating a node that holds nothing, on a vacancy or beyond its zone's end. *)
LEMMA SeatInv ==
  ASSUME IInv, phase = "place", NEW n \in unplaced, NEW k \in SlotKey,
         PlaceOf(k) = observed[n],
         \/ Vacant(slots, k)
         \/ \A j \in DOMAIN slots : j.zone = k.zone => j.ordinal < k.ordinal,
         Seat(n, k)
  PROVE  IInv'
  <1> DEFINE s == IF k \in DOMAIN slots THEN slots[k] ELSE NewSlot
  <1>1. /\ DOMAIN slots' = DOMAIN slots \cup {k}
        /\ slots'[k] = Seated(s, n)
        /\ \A j \in DOMAIN slots : j # k => slots'[j] = slots[j]
        /\ slots' = [j \in DOMAIN slots' |-> slots'[j]]
        /\ unplaced' = unplaced \ {n}
    BY DEF Seat
  <1>2. n \in Present /\ n \in Nodes /\ n # None
    BY PresentFacts DEF IInv, PlacePhase
  <1>3. s \in SlotState
    BY NewSlotFacts DEF IInv, TypeOK, WellFormed
  <1>4. /\ slots'[k] \in SlotState
        /\ slots'[k].occupant = n
        /\ slots'[k].last = n
        /\ slots'[k].vacatedAt = None
    BY <1>1, <1>2, <1>3, SeatedFacts
  <1>5. \A j \in DOMAIN slots : slots[j].occupant # n
    BY DEF IInv, PlacePhase
  <1>6. k.ordinal \in Nat
    <2>1. k.ordinal \in 0..MaxOrdinal
      BY DEF SlotKey
    <2>2. QED
      BY <2>1, LayoutAssumption
  <1>7. k \in DOMAIN slots => slots[k].occupant = None
    BY <1>6 DEF Vacant
  <1>8. TypeOK'
    <2>1. WellFormed(slots)'
      BY <1>1, <1>4 DEF IInv, TypeOK, WellFormed
    <2>2. QED
      BY <1>1, <2>1 DEF Seat, IInv, TypeOK
  <1>9. Distinct(slots)'
    <2> SUFFICES ASSUME NEW i \in DOMAIN slots', NEW j \in DOMAIN slots',
                        slots'[i].occupant # None, slots'[i].occupant = slots'[j].occupant
                 PROVE  i = j
      BY DEF Distinct
    <2>1. CASE i = k \/ j = k
      BY <1>1, <1>4, <1>5, <2>1
    <2>2. CASE i # k /\ j # k
      BY <1>1, <2>2 DEF IInv, Distinct
    <2> QED
      BY <2>1, <2>2
  <1>10. OrdinalsDistinct(slots)'
    <2>1. \A j \in DOMAIN slots : j.zone = k.zone /\ j.ordinal = k.ordinal => j = k
      <3>1. CASE Vacant(slots, k)
        BY <3>1 DEF Vacant, IInv, OrdinalsDistinct
      <3>2. CASE \A j \in DOMAIN slots : j.zone = k.zone => j.ordinal < k.ordinal
        BY <1>6, <3>2
      <3> QED
        BY <3>1, <3>2
    <2>2. QED
      BY <1>1, <2>1 DEF IInv, OrdinalsDistinct
  <1>11. ZonesKnown'
    <2>1. k.zone \in DOMAIN zoneOrd
      BY <1>2, PlaceFacts DEF IInv, PlacePhase
    <2>2. QED
      BY <1>1, <2>1 DEF Seat, IInv, ZonesKnown
  <1>12. PlacePhase'
    <2>1. \A j \in DOMAIN slots' : slots'[j].occupant \notin unplaced'
      BY <1>1, <1>4 DEF IInv, PlacePhase
    <2>2. \A j \in Occupied(prior) :
            PlaceOf(j) = observed[prior[j].occupant]
              => slots'[j].occupant = prior[j].occupant
      <3> SUFFICES ASSUME NEW j \in Occupied(prior),
                          PlaceOf(j) = observed[prior[j].occupant]
                   PROVE  slots'[j].occupant = prior[j].occupant
        OBVIOUS
      <3>1. slots[j].occupant = prior[j].occupant /\ j \in DOMAIN slots
        BY DEF IInv, PlacePhase, Occupied
      <3>2. j # k
        BY <1>7, <3>1 DEF Occupied
      <3>3. QED
        BY <1>1, <3>1, <3>2
    <2>3. QED
      BY <1>1, <2>1, <2>2 DEF Seat, IInv, PlacePhase, Present, Occupied
  <1> QED
    BY <1>8, <1>9, <1>10, <1>11, <1>12 DEF Seat, IInv, ZonesPhase, Distinct

(* One iteration of the placement loop. *)
LEMMA PlaceOneInv ==
  ASSUME IInv, PlaceOne
  PROVE  IInv'
  <1> PICK n \in unplaced :
        \/ \E k \in DOMAIN slots : Reclaim(n, k) \/ Reuse(n, k)
        \/ \E o \in 0..MaxOrdinal : Extend(n, o)
        \/ LeaveUnplaced(n)
    BY DEF PlaceOne
  <1>1. CASE \E k \in DOMAIN slots : Reclaim(n, k) \/ Reuse(n, k)
    <2> PICK k \in DOMAIN slots : Reclaim(n, k) \/ Reuse(n, k)
      BY <1>1
    <2>1. /\ phase = "place" /\ Seat(n, k)
          /\ Vacant(slots, k) /\ PlaceOf(k) = observed[n]
      BY DEF Reclaim, Reuse, Turn, OwnGround, Reusable
    <2>2. k \in SlotKey
      BY DEF IInv, TypeOK, WellFormed
    <2>3. QED
      BY <2>1, <2>2, SeatInv
  <1>2. CASE \E o \in 0..MaxOrdinal : Extend(n, o)
    <2> PICK o \in 0..MaxOrdinal : Extend(n, o)
      BY <1>2
    <2> DEFINE k == [zone |-> observed[n].zone, pool |-> observed[n].pool, ordinal |-> o]
    <2>1. /\ phase = "place" /\ Seat(n, k)
          /\ \A j \in DOMAIN slots : j.zone = k.zone => j.ordinal < k.ordinal
      BY DEF Extend, Turn, NextOrdinal
    <2>2. observed[n] \in Place
      BY PresentFacts DEF IInv, PlacePhase, Extend, Turn
    <2>3. k \in SlotKey /\ PlaceOf(k) = observed[n]
      BY <2>2 DEF Place, SlotKey, PlaceOf
    <2>4. QED
      BY <2>1, <2>3, SeatInv
  <1>3. CASE LeaveUnplaced(n)
    <2> USE <1>3 DEF LeaveUnplaced, IInv
    <2>1. TypeOK' /\ Distinct(slots)' /\ Distinct(prior)' /\ OrdinalsDistinct(slots)'
      BY DEF TypeOK, WellFormed, Distinct, OrdinalsDistinct
    <2>2. ZonesKnown' /\ ZonesPhase'
      BY DEF ZonesKnown, ZonesPhase
    <2>3. PlacePhase' /\ phase' = "place"
      BY DEF PlacePhase, Present, Turn, Occupied
    <2> QED
      BY <2>1, <2>2, <2>3
  <1> QED
    BY <1>1, <1>2, <1>3

(* The stamps change no occupant and no key. *)
LEMMA StampFacts ==
  ASSUME IInv, NEW now \in Times, Stamp(now)
  PROVE  /\ DOMAIN slots' = DOMAIN slots
         /\ \A k \in DOMAIN slots : slots'[k].occupant = slots[k].occupant
         /\ TypeOK'
  <1>1. /\ DOMAIN slots' = DOMAIN slots
        /\ slots' = [k \in DOMAIN slots' |-> slots'[k]]
        /\ UNCHANGED <<zoneOrd, prior, observed, unplaced>>
        /\ phase' = "idle"
    BY DEF Stamp
  <1>2. ASSUME NEW k \in DOMAIN slots
        PROVE  /\ slots'[k].occupant = slots[k].occupant
               /\ slots'[k].last = slots[k].last
               /\ slots'[k] \in SlotState
               /\ slots[k].occupant # None => slots'[k].vacatedAt = slots[k].vacatedAt
    <2>1. slots[k] \in SlotState
      BY DEF IInv, TypeOK, WellFormed
    <2> DEFINE t == IF slots[k].occupant # None /\ ChangedHands(HeldBefore(k), slots[k].occupant)
                      THEN now ELSE slots[k].occupiedAt
               u == IF slots[k].occupant = None /\ slots[k].vacatedAt = None
                      THEN now ELSE slots[k].vacatedAt
    <2>2. slots'[k] = [slots[k] EXCEPT !.occupiedAt = t, !.vacatedAt = u]
      BY DEF Stamp
    <2>3. t \in Times \cup {None} /\ u \in Times \cup {None}
      BY <2>1 DEF SlotState
    <2>4. slots[k].occupant # None => u = slots[k].vacatedAt
      OBVIOUS
    <2> HIDE DEF t, u
    <2> QED
      BY <2>1, <2>2, <2>3, <2>4 DEF SlotState
  <1>3. WellFormed(slots)'
    BY <1>1, <1>2 DEF IInv, TypeOK, WellFormed
  <1>4. TypeOK'
    <2>1. WellFormed(prior)'
      BY <1>1 DEF IInv, TypeOK, WellFormed
    <2>2. QED
      BY <1>1, <1>3, <2>1 DEF IInv, TypeOK
  <1> QED
    BY <1>1, <1>2, <1>4

LEMMA StampInv ==
  ASSUME IInv, NEW now \in Times, Stamp(now)
  PROVE  IInv'
  <1>0. /\ DOMAIN slots' = DOMAIN slots
        /\ \A k \in DOMAIN slots : slots'[k].occupant = slots[k].occupant
        /\ TypeOK'
    BY StampFacts
  <1>a. UNCHANGED <<zoneOrd, prior, observed, unplaced>> /\ unplaced = {} /\ phase' = "idle"
    BY DEF Stamp
  <1>1. Distinct(slots)' /\ Distinct(prior)' /\ OrdinalsDistinct(slots)'
    BY <1>0, <1>a DEF IInv, Distinct, OrdinalsDistinct
  <1>2. ZonesKnown' /\ ZonesPhase' /\ PlacePhase'
    BY <1>0, <1>a DEF IInv, ZonesKnown, ZonesPhase, PlacePhase
  <1> QED
    BY <1>0, <1>1, <1>2, <1>a DEF IInv

(* Compaction only removes keys. *)
LEMMA CompactInv ==
  ASSUME IInv, Compact
  PROVE  IInv'
  <1>1. /\ DOMAIN slots' \subseteq DOMAIN slots
        /\ \A k \in DOMAIN slots' : slots'[k] = slots[k]
        /\ slots' = [k \in DOMAIN slots' |-> slots'[k]]
    BY DEF Compact
  <1>2. TypeOK'
    BY <1>1 DEF Compact, IInv, TypeOK, WellFormed
  <1>3. Distinct(slots)' /\ Distinct(prior)' /\ OrdinalsDistinct(slots)'
    BY <1>1 DEF Compact, IInv, Distinct, OrdinalsDistinct
  <1>4. ZonesKnown' /\ ZonesPhase' /\ PlacePhase'
    BY <1>1 DEF Compact, IInv, ZonesKnown, ZonesPhase, PlacePhase
  <1> QED
    BY <1>2, <1>3, <1>4 DEF Compact, IInv

LEMMA NextInv == IInv /\ [Next]_vars => IInv'
  <1> SUFFICES ASSUME IInv, [Next]_vars PROVE IInv'
    OBVIOUS
  <1>1. CASE \E obs \in [Nodes -> Place \cup {Away}] : Observe(obs)
    BY <1>1, ObserveInv
  <1>2. CASE \E z \in Zones, o \in 0..MaxOrdinal : AddZone(z, o)
    BY <1>2, AddZoneInv
  <1>3. CASE Carry
    BY <1>3, CarryInv
  <1>4. CASE PlaceOne
    BY <1>4, PlaceOneInv
  <1>5. CASE \E now \in Times : Stamp(now)
    BY <1>5, StampInv
  <1>6. CASE Compact
    BY <1>6, CompactInv
  <1>7. CASE UNCHANGED vars
    BY <1>7 DEF vars, IInv, TypeOK, WellFormed, Distinct, OrdinalsDistinct, ZonesKnown,
                ZonesPhase, PlacePhase, Present, Occupied
  <1> QED
    BY <1>1, <1>2, <1>3, <1>4, <1>5, <1>6, <1>7 DEF Next

(* IInv holds in every state of every behaviour. *)
THEOREM Inductive == Spec => []IInv
  BY InitInv, NextInv, PTL DEF Spec

-----------------------------------------------------------------------------
(* Every slot is well formed, whatever the nodes do: the type invariant of the
   assignment holds for any number of nodes, zones and pools. *)
THEOREM TypeCorrect == Spec => []TypeOK
  <1>1. IInv => TypeOK
    BY DEF IInv
  <1> QED
    BY <1>1, Inductive, PTL

(* No node ever stands on two slots (CARRY, RECLAIM, REUSE and APPEND). *)
THEOREM OneSlot == Spec => []OneSlotPerNode
  <1>1. IInv => OneSlotPerNode
    BY DEF IInv, Distinct, OneSlotPerNode
  <1> QED
    BY <1>1, Inductive, PTL

(* No two slots are drawn on the same ground: a zone's continent ordinal and a
   slot's own ordinal identify the slot without its pool. *)
THEOREM GroundIsUnique == Spec => []NoTwoSlotsShareGround
  <1>1. IInv => NoTwoSlotsShareGround
    BY DEF IInv, OrdinalsDistinct, ZonesKnown, NoTwoSlotsShareGround
  <1> QED
    BY <1>1, Inductive, PTL

(* A tick never moves a node that is still where its slot is. *)
THEOREM SurvivorsStand == Spec => SurvivorsStay
  <1> DEFINE Kept == TickEnds => \A k \in Occupied(prior) :
                       PlaceOf(k) = observed[prior[k].occupant]
                         => k \in DOMAIN slots' /\ slots'[k].occupant = prior[k].occupant
  <1>1. IInv /\ [Next]_vars => [Kept]_vars
    <2> SUFFICES ASSUME IInv, Next, TickEnds,
                        NEW k \in Occupied(prior), PlaceOf(k) = observed[prior[k].occupant]
                 PROVE  k \in DOMAIN slots' /\ slots'[k].occupant = prior[k].occupant
      OBVIOUS
    <2>1. PICK now \in Times : Stamp(now)
      BY DEF Next, TickEnds, Observe, AddZone, Carry, PlaceOne, Reclaim, Reuse, Extend,
             LeaveUnplaced, Seat, Compact
    <2>2. k \in DOMAIN slots /\ slots[k].occupant = prior[k].occupant
      BY DEF IInv, PlacePhase, TickEnds, Occupied
    <2>3. QED
      BY <2>1, <2>2, StampFacts
  <1> QED
    BY <1>1, Inductive, PTL DEF Spec, SurvivorsStay

-----------------------------------------------------------------------------
(* The slot as the tick found it. *)
Found(k) == IF k \in DOMAIN prior THEN prior[k] ELSE NewSlot

(* During a tick a slot is vacant as it was found but for its occupant, or has had
   one node seated on it. *)
EachSlotFromItsPrior ==
  /\ phase = "zones" => \A k \in DOMAIN slots : slots[k] = Vacated(prior[k])
  /\ phase = "place" =>
       \A k \in DOMAIN slots :
         IF slots[k].occupant = None THEN slots[k] = Vacated(Found(k))
         ELSE slots[k] = Seated(Found(k), slots[k].occupant)

(* Whoever is seated is seated in its zone and pool. *)
SeatedWhereSeen ==
  phase = "place" =>
    \A k \in Occupied(slots) : PlaceOf(k) = observed[slots[k].occupant]

(* Ground taken in a tick is stood on, and beyond all its zone had. *)
NewGroundIsBeyond ==
  phase = "place" =>
    \A k \in DOMAIN slots \ DOMAIN prior :
      /\ slots[k].occupant # None
      /\ \A j \in DOMAIN prior : j.zone = k.zone => j.ordinal < k.ordinal

(* If everybody to be placed has one home, vacant and in its pool, those placed
   are at home and the homes of the others are free. *)
ReturnersGoHome ==
  phase = "place" =>
    /\ unplaced \subseteq ToPlace
    /\ (\A n \in ToPlace : Returner(n)) =>
         \A n \in ToPlace : \A k \in HomesOf(n) :
           IF n \in unplaced THEN Vacant(slots, k)
           ELSE k \in DOMAIN slots /\ slots[k].occupant = n

TickInv ==
  /\ IInv
  /\ EachSlotFromItsPrior
  /\ SeatedWhereSeen
  /\ NewGroundIsBeyond
  /\ SeatedUnlessZoneExhausted
  /\ ReturnersGoHome

-----------------------------------------------------------------------------
(* The least-number principle, from the well-foundedness of the naturals. *)
LEMMA LeastNatural ==
  ASSUME NEW T, T \subseteq Nat, T # {}
  PROVE  \E x \in T : \A y \in T : x <= y
  <1> DEFINE R == OpToRel(<, Nat)
  <1>1. IsWellFoundedOn(R, Nat)
    BY NatLessThanWellFounded DEF OpToRel
  <1>2. R = {ss \in Nat \X Nat : ss[1] < ss[2]}
    BY DEF OpToRel
  <1> HIDE DEF R
  <1>3. PICK x \in T : \A y \in T : ~(<<y, x>> \in R)
    BY <1>1, WFMin
  <1>4. \A y \in T : ~(y < x)
    BY <1>2, <1>3
  <1> QED
    BY <1>4

(* next_ordinal finds none only in a zone that has handed out its last. *)
LEMMA NextOrdinalUnlessExhausted ==
  ASSUME NEW l, DOMAIN l \subseteq SlotKey, NEW z,
         \A o \in 0..MaxOrdinal : ~NextOrdinal(l, z, o)
  PROVE  \E k \in DOMAIN l : k.zone = z /\ k.ordinal = MaxOrdinal
  <1> DEFINE zone == {k \in DOMAIN l : k.zone = z}
             beyond == {o \in 0..MaxOrdinal : \A k \in zone : k.ordinal < o}
  <1> SUFFICES ASSUME \A k \in zone : k.ordinal # MaxOrdinal PROVE FALSE
    OBVIOUS
  <1>1. MaxOrdinal \in Nat /\ \A k \in zone : k.ordinal \in 0..MaxOrdinal
    BY LayoutAssumption DEF SlotKey
  <1>2. MaxOrdinal \in beyond
    BY <1>1
  <1>3. PICK o \in beyond : \A x \in beyond : o <= x
    <2>1. beyond \subseteq Nat /\ beyond # {}
      BY <1>1, <1>2
    <2> HIDE DEF beyond
    <2> QED
      BY <2>1, LeastNatural
  <1>4. o = 0 \/ \E k \in zone : k.ordinal = o - 1
    <2>1. CASE o # 0
      <3>1. o - 1 \notin beyond /\ o - 1 \in 0..MaxOrdinal
        BY <1>1, <1>3, <2>1
      <3>2. PICK k \in zone : ~(k.ordinal < o - 1)
        BY <3>1
      <3>3. k.ordinal < o
        BY <1>3
      <3> QED
        BY <1>1, <1>3, <3>2, <3>3
    <2> QED
      BY <2>1
  <1>5. NextOrdinal(l, z, o)
    BY <1>3, <1>4 DEF NextOrdinal
  <1> QED
    BY <1>3, <1>5

(* Vacating forgets the occupant and nothing that seating looks at. *)
LEMMA VacatedFacts ==
  ASSUME NEW s \in SlotState, NEW n
  PROVE  /\ Vacated(s).occupant = None
         /\ Vacated(s).last = s.last
         /\ Vacated(s).occupiedAt = s.occupiedAt
         /\ Vacated(s).vacatedAt = s.vacatedAt
         /\ Seated(Vacated(s), n) = Seated(s, n)
  <1>1. /\ Vacated(s).occupant = None
        /\ Vacated(s).last = s.last
        /\ Vacated(s).occupiedAt = s.occupiedAt
        /\ Vacated(s).vacatedAt = s.vacatedAt
    BY DEF Vacated, SlotState
  <1> QED
    BY <1>1 DEF Seated

(* What a tick starts from does not change while it runs. *)
LEMMA SamePrior ==
  ASSUME UNCHANGED <<prior, observed>>
  PROVE  /\ ToPlace' = ToPlace /\ Present' = Present
         /\ \A n : HomesOf(n)' = HomesOf(n)
         /\ \A n : Returner(n)' <=> Returner(n)
         /\ \A k : Found(k)' = Found(k)
  <1>1. \A n, k : Keeps(n, k)' <=> Keeps(n, k)
    BY DEF Keeps, SlotOf, Present
  <1>2. ToPlace' = ToPlace /\ Present' = Present
    BY <1>1 DEF ToPlace, Present
  <1>3. \A n : HomesOf(n)' = HomesOf(n)
    BY DEF HomesOf
  <1>4. \A n : Returner(n)' <=> Returner(n)
    BY <1>3 DEF Returner, Vacant
  <1> QED
    BY <1>2, <1>3, <1>4 DEF Found

(* The own ground of a node that returns is its one home. *)
LEMMA OwnGroundIsHome ==
  ASSUME TickInv, phase = "place", NEW n \in unplaced, \A m \in ToPlace : Returner(m)
  PROVE  \E h \in DOMAIN prior : /\ HomesOf(n) = {h}
                                 /\ OwnGround(n, h)
  <1>1. n \in ToPlace
    BY DEF TickInv, ReturnersGoHome
  <1>2. PICK h \in HomesOf(n) : HomesOf(n) = {h} /\ PlaceOf(h) = observed[n]
    BY <1>1 DEF Returner
  <1>3. h \in DOMAIN prior /\ h \in SlotKey /\ prior[h].last = n
    BY DEF HomesOf, TickInv, IInv, TypeOK, WellFormed
  <1>4. HomeOf(prior, n, h)
    BY <1>2, <1>3, PlaceFacts DEF HomeOf, HomesOf
  <1>5. Vacant(slots, h)
    BY <1>1 DEF TickInv, ReturnersGoHome
  <1> QED
    BY <1>2, <1>3, <1>4, <1>5 DEF OwnGround

-----------------------------------------------------------------------------
LEMMA TickInit == Init => TickInv
  BY InitInv DEF Init, TickInv, EachSlotFromItsPrior, SeatedWhereSeen, NewGroundIsBeyond,
                 SeatedUnlessZoneExhausted, ReturnersGoHome

(* Outside the placement loop most of it is trivial. *)
LEMMA TickNotPlacing ==
  ASSUME IInv', phase' # "place", EachSlotFromItsPrior'
  PROVE  TickInv'
  BY DEF TickInv, SeatedWhereSeen, NewGroundIsBeyond, SeatedUnlessZoneExhausted,
         ReturnersGoHome

LEMMA CarryTick ==
  ASSUME TickInv, Carry
  PROVE  TickInv'
  <1>0. /\ IInv /\ phase = "zones" /\ phase' = "place" /\ DOMAIN slots = DOMAIN prior
        /\ UNCHANGED <<zoneOrd, prior, observed>>
        /\ \A k \in DOMAIN slots : slots[k] = Vacated(prior[k])
        /\ \A k \in DOMAIN prior : k \in SlotKey /\ prior[k] \in SlotState
    BY DEF TickInv, IInv, Carry, EachSlotFromItsPrior, ZonesPhase, TypeOK, WellFormed
  <1>1. IInv'
    BY <1>0, CarryInv
  <1>2. /\ DOMAIN slots' = DOMAIN prior
        /\ \A k \in DOMAIN prior :
             slots'[k] = IF Keeps(prior[k].occupant, k)
                           THEN Seated(Vacated(prior[k]), prior[k].occupant)
                           ELSE Vacated(prior[k])
    BY <1>0 DEF Carry
  <1>3. ASSUME NEW k \in DOMAIN prior, Keeps(prior[k].occupant, k)
        PROVE  /\ slots'[k] = Seated(prior[k], prior[k].occupant)
               /\ slots'[k].occupant = prior[k].occupant
               /\ prior[k].occupant \in Nodes /\ prior[k].occupant # None
               /\ PlaceOf(k) = observed[prior[k].occupant]
    <2>1. /\ prior[k].occupant \in Present /\ PlaceOf(k) = observed[prior[k].occupant]
      BY <1>3 DEF Keeps
    <2>2. prior[k].occupant \in Nodes /\ prior[k].occupant # None
      BY <1>0, <2>1, PresentFacts DEF IInv
    <2>3. slots'[k] = Seated(prior[k], prior[k].occupant)
      BY <1>0, <1>2, <1>3, VacatedFacts
    <2> QED
      BY <2>1, <2>2, <2>3 DEF Seated
  <1>4. ASSUME NEW k \in DOMAIN prior, ~Keeps(prior[k].occupant, k)
        PROVE  slots'[k] = Vacated(prior[k]) /\ slots'[k].occupant = None
    BY <1>0, <1>2, <1>4, VacatedFacts
  <1>5. EachSlotFromItsPrior'
    BY <1>0, <1>2, <1>3, <1>4 DEF EachSlotFromItsPrior, Found
  <1>6. SeatedWhereSeen'
    BY <1>0, <1>2, <1>3, <1>4 DEF SeatedWhereSeen, Occupied
  <1>7. NewGroundIsBeyond'
    BY <1>0, <1>2 DEF NewGroundIsBeyond
  <1>8. unplaced' = {n \in Present : \A k \in DOMAIN prior : ~Keeps(n, k)}
    BY DEF Carry
  <1>9. SeatedUnlessZoneExhausted'
    <2> SUFFICES ASSUME NEW n \in Present, n \notin unplaced'
                 PROVE  \E k \in DOMAIN slots' :
                          slots'[k].occupant = n /\ PlaceOf(k) = observed[n]
      BY <1>0, SamePrior DEF SeatedUnlessZoneExhausted
    <2>1. PICK k \in DOMAIN prior : Keeps(n, k)
      BY <1>8
    <2>2. prior[k].occupant = n
      BY <2>1 DEF Keeps, SlotOf
    <2> QED
      BY <1>2, <1>3, <2>1, <2>2
  <1>10. ReturnersGoHome'
    <2>1. unplaced' = ToPlace /\ ToPlace' = ToPlace
      BY <1>0, <1>8, SamePrior DEF ToPlace
    <2>2. ASSUME NEW n \in ToPlace, Returner(n), NEW k \in HomesOf(n)
          PROVE  Vacant(slots', k)
      <3>1. Vacant(prior, k)
        BY <2>2 DEF Returner
      <3> QED
        BY <1>2, <1>3, <1>4, <3>1 DEF Vacant
    <2> QED
      BY <1>0, <2>1, <2>2, SamePrior DEF ReturnersGoHome, Vacant
  <1> QED
    BY <1>1, <1>5, <1>6, <1>7, <1>9, <1>10 DEF TickInv

(* Seating a node, at home if everybody is to go home. *)
LEMMA SeatTick ==
  ASSUME TickInv, phase = "place", NEW n \in unplaced, NEW k \in SlotKey,
         PlaceOf(k) = observed[n],
         \/ Vacant(slots, k)
         \/ \A j \in DOMAIN slots : j.zone = k.zone => j.ordinal < k.ordinal,
         (\A m \in ToPlace : Returner(m)) => k \in HomesOf(n),
         Seat(n, k)
  PROVE  TickInv'
  <1>0. /\ IInv /\ IInv' /\ phase' = "place" /\ UNCHANGED <<zoneOrd, prior, observed>>
        /\ DOMAIN prior \subseteq DOMAIN slots /\ unplaced' = unplaced \ {n}
        /\ \A j \in DOMAIN slots : j \in SlotKey
        /\ \A j \in DOMAIN prior : j \in SlotKey /\ prior[j] \in SlotState
    BY SeatInv DEF TickInv, IInv, PlacePhase, Seat, TypeOK, WellFormed
  <1>1. /\ DOMAIN slots' = DOMAIN slots \cup {k}
        /\ slots'[k] = Seated(IF k \in DOMAIN slots THEN slots[k] ELSE NewSlot, n)
        /\ \A j \in DOMAIN slots : j # k => slots'[j] = slots[j]
        /\ slots'[k].occupant = n
    BY DEF Seat, Seated
  <1>2. n \in Present /\ n \in Nodes /\ n # None /\ observed[n] = PlaceOf(k)
    BY <1>0, PresentFacts DEF IInv, PlacePhase
  <1>3. \/ k \in DOMAIN slots /\ slots[k].occupant = None
        \/ /\ k \notin DOMAIN slots
           /\ \A j \in DOMAIN slots : j.zone = k.zone => j.ordinal < k.ordinal
    <2>1. k.ordinal \in Nat
      BY LayoutAssumption DEF SlotKey
    <2> QED
      BY <2>1 DEF Vacant
  <1>4. slots'[k] = Seated(Found(k), n)
    <2>1. CASE k \in DOMAIN slots
      <3>1. slots[k] = Vacated(Found(k))
        BY <1>3, <2>1 DEF TickInv, EachSlotFromItsPrior
      <3>2. Found(k) \in SlotState
        BY <1>0, NewSlotFacts DEF Found
      <3> QED
        BY <1>1, <2>1, <3>1, <3>2, VacatedFacts
    <2>2. CASE k \notin DOMAIN slots
      BY <1>0, <1>1, <2>2 DEF Found
    <2> QED
      BY <2>1, <2>2
  <1>5. EachSlotFromItsPrior'
    BY <1>0, <1>1, <1>2, <1>4, SamePrior DEF TickInv, EachSlotFromItsPrior
  <1>6. SeatedWhereSeen'
    BY <1>0, <1>1, <1>2 DEF TickInv, SeatedWhereSeen, Occupied
  <1>7. NewGroundIsBeyond'
    BY <1>0, <1>1, <1>2, <1>3 DEF TickInv, NewGroundIsBeyond
  <1>8. SeatedUnlessZoneExhausted'
    <2> SUFFICES ASSUME NEW m \in Present, m \notin unplaced'
                 PROVE  \/ \E j \in DOMAIN slots' :
                             slots'[j].occupant = m /\ PlaceOf(j) = observed[m]
                        \/ /\ \A j \in DOMAIN slots' : ~Reusable(m, j)'
                           /\ \E j \in DOMAIN slots' : j.zone = observed[m].zone
                                                       /\ j.ordinal = MaxOrdinal
      BY <1>0, SamePrior DEF SeatedUnlessZoneExhausted
    <2>1. CASE m = n
      BY <1>1, <1>2, <2>1
    <2>2. CASE m # n
      <3>1. m \in Present \ unplaced /\ m # None
        BY <1>0, <2>2, NoneNotNat, LayoutAssumption DEF Present
      <3>2. CASE \E j \in DOMAIN slots : slots[j].occupant = m /\ PlaceOf(j) = observed[m]
        BY <1>1, <1>3, <3>1, <3>2
      <3>3. CASE /\ \A j \in DOMAIN slots : ~Reusable(m, j)
                 /\ \E j \in DOMAIN slots : j.zone = observed[m].zone
                                            /\ j.ordinal = MaxOrdinal
        <4>1. \A j \in DOMAIN slots' : ~Reusable(m, j)'
          BY <1>0, <1>1, <1>2, <3>3 DEF Reusable, Vacant
        <4> QED
          BY <1>1, <3>3, <4>1
      <3> QED
        BY <3>1, <3>2, <3>3 DEF TickInv, SeatedUnlessZoneExhausted
    <2> QED
      BY <2>1, <2>2
  <1>9. ReturnersGoHome'
    <2>1. unplaced' \subseteq ToPlace /\ n \in ToPlace
      BY <1>0 DEF TickInv, ReturnersGoHome
    <2>2. ASSUME \A m \in ToPlace : Returner(m), NEW m \in ToPlace, NEW j \in HomesOf(m)
          PROVE  IF m \in unplaced' THEN Vacant(slots', j)
                 ELSE j \in DOMAIN slots' /\ slots'[j].occupant = m
      <3>1. k \in HomesOf(n) /\ (j = k => m = n)
        BY <2>2 DEF HomesOf
      <3>2. CASE m = n
        <4>1. j = k
          BY <2>2, <3>1, <3>2 DEF Returner
        <4> QED
          BY <1>0, <1>1, <3>2, <4>1
      <3>3. CASE m # n
        <4>1. j # k /\ (m \in unplaced' <=> m \in unplaced)
          BY <1>0, <3>1, <3>3
        <4>2. IF m \in unplaced THEN Vacant(slots, j)
              ELSE j \in DOMAIN slots /\ slots[j].occupant = m
          BY <2>2 DEF TickInv, ReturnersGoHome
        <4> QED
          BY <1>1, <4>1, <4>2 DEF Vacant
      <3> QED
        BY <3>2, <3>3
    <2> QED
      BY <1>0, <2>1, <2>2, SamePrior DEF ReturnersGoHome, Vacant
  <1> QED
    BY <1>0, <1>5, <1>6, <1>7, <1>8, <1>9 DEF TickInv

(* One iteration of the placement loop: whoever returns finds its own ground, so
   the other three branches are not taken by one that does. *)
LEMMA PlaceOneTick ==
  ASSUME TickInv, PlaceOne
  PROVE  TickInv'
  <1> PICK n \in unplaced :
        \/ \E k \in DOMAIN slots : Reclaim(n, k) \/ Reuse(n, k)
        \/ \E o \in 0..MaxOrdinal : Extend(n, o)
        \/ LeaveUnplaced(n)
    BY DEF PlaceOne
  <1>0. phase = "place" /\ IInv /\ DOMAIN slots \subseteq SlotKey
    BY DEF Reclaim, Reuse, Extend, LeaveUnplaced, Turn, TickInv, IInv, TypeOK, WellFormed
  <1>1. ASSUME NEW k \in DOMAIN slots, Reclaim(n, k)
        PROVE  TickInv'
    <2>1. Seat(n, k) /\ OwnGround(n, k) /\ Vacant(slots, k) /\ PlaceOf(k) = observed[n]
      BY <1>1 DEF Reclaim, OwnGround
    <2>2. k \in HomesOf(n)
      BY <2>1 DEF OwnGround, HomeOf, HomesOf
    <2> QED
      BY <1>0, <2>1, <2>2, SeatTick
  <1>2. (\E h \in DOMAIN prior : OwnGround(n, h)) \/ ~(\A m \in ToPlace : Returner(m))
    BY <1>0, OwnGroundIsHome
  <1>3. ASSUME NEW k \in DOMAIN slots, Reuse(n, k)
        PROVE  TickInv'
    <2>1. Seat(n, k) /\ Vacant(slots, k) /\ PlaceOf(k) = observed[n]
      BY <1>3 DEF Reuse, Reusable
    <2>2. ~(\A m \in ToPlace : Returner(m))
      BY <1>2, <1>3 DEF Reuse
    <2> QED
      BY <1>0, <2>1, <2>2, SeatTick
  <1>4. ASSUME NEW o \in 0..MaxOrdinal, Extend(n, o)
        PROVE  TickInv'
    <2> DEFINE k == [zone |-> observed[n].zone, pool |-> observed[n].pool, ordinal |-> o]
    <2>1. /\ Seat(n, k)
          /\ \A j \in DOMAIN slots : j.zone = k.zone => j.ordinal < k.ordinal
      BY <1>4 DEF Extend, NextOrdinal
    <2>2. observed[n] \in Place
      BY <1>0, PresentFacts DEF IInv, PlacePhase
    <2>3. k \in SlotKey /\ PlaceOf(k) = observed[n]
      BY <2>2 DEF Place, SlotKey, PlaceOf
    <2>4. ~(\A m \in ToPlace : Returner(m))
      BY <1>2, <1>4 DEF Extend, NothingVacant
    <2> HIDE DEF k
    <2> QED
      BY <1>0, <2>1, <2>3, <2>4, SeatTick
  <1>5. CASE LeaveUnplaced(n)
    <2>1. /\ UNCHANGED <<slots, zoneOrd, prior, observed, phase>>
          /\ unplaced' = unplaced \ {n} /\ NothingVacant(n)
      BY <1>5 DEF LeaveUnplaced
    <2>2. IInv'
      BY <1>0, PlaceOneInv
    <2>3. EachSlotFromItsPrior' /\ SeatedWhereSeen' /\ NewGroundIsBeyond'
      BY <1>0, <2>1, SamePrior DEF TickInv, EachSlotFromItsPrior, SeatedWhereSeen,
                                   Occupied, NewGroundIsBeyond
    <2>4. SeatedUnlessZoneExhausted'
      <3>1. \E k \in DOMAIN slots : k.zone = observed[n].zone /\ k.ordinal = MaxOrdinal
        BY <1>0, <1>5, NextOrdinalUnlessExhausted DEF LeaveUnplaced
      <3> QED
        BY <1>0, <2>1, <3>1, SamePrior
        DEF TickInv, SeatedUnlessZoneExhausted, NothingVacant, Reusable, Vacant
    <2>5. ReturnersGoHome'
      BY <1>0, <1>2, <2>1, SamePrior DEF TickInv, ReturnersGoHome, NothingVacant
    <2> QED
      BY <2>2, <2>3, <2>4, <2>5 DEF TickInv
  <1> QED
    BY <1>1, <1>3, <1>4, <1>5

LEMMA TickNext == TickInv /\ [Next]_vars => TickInv'
  <1> SUFFICES ASSUME TickInv, [Next]_vars PROVE TickInv'
    OBVIOUS
  <1>0. IInv /\ IInv'
    BY NextInv DEF TickInv
  <1>1. ASSUME NEW obs \in [Nodes -> Place \cup {Away}], Observe(obs)
        PROVE  TickInv'
    <2>1. EachSlotFromItsPrior' /\ phase' # "place"
      BY <1>1 DEF Observe, EachSlotFromItsPrior
    <2> QED
      BY <1>0, <2>1, TickNotPlacing
  <1>2. ASSUME NEW z \in Zones, NEW o \in 0..MaxOrdinal, AddZone(z, o)
        PROVE  TickInv'
    <2>1. EachSlotFromItsPrior' /\ phase' # "place"
      BY <1>2 DEF AddZone, TickInv, EachSlotFromItsPrior
    <2> QED
      BY <1>0, <2>1, TickNotPlacing
  <1>3. CASE (\E now \in Times : Stamp(now)) \/ Compact
    <2>1. phase' = "idle"
      BY <1>3 DEF Stamp, Compact
    <2> QED
      BY <1>0, <2>1, TickNotPlacing DEF EachSlotFromItsPrior
  <1>4. CASE UNCHANGED vars
    <2>1. UNCHANGED <<slots, zoneOrd, prior, observed, unplaced, phase>>
      BY <1>4 DEF vars
    <2>2. EachSlotFromItsPrior' /\ SeatedWhereSeen' /\ NewGroundIsBeyond'
      BY <2>1, SamePrior DEF TickInv, EachSlotFromItsPrior, SeatedWhereSeen, Occupied,
                             NewGroundIsBeyond
    <2>3. SeatedUnlessZoneExhausted' /\ ReturnersGoHome'
      BY <2>1, SamePrior DEF TickInv, SeatedUnlessZoneExhausted, Reusable, Vacant,
                             ReturnersGoHome
    <2> QED
      BY <1>0, <2>2, <2>3 DEF TickInv
  <1> QED
    BY <1>1, <1>2, <1>3, <1>4, CarryTick, PlaceOneTick DEF Next

(* What a tick owes to its prior layout holds at every point of it. *)
THEOREM TickInductive == Spec => []TickInv
  BY TickInit, TickNext, PTL DEF Spec

-----------------------------------------------------------------------------
(* The end of a tick, slot by slot: whoever is seated stays, ground that was new
   is stood on, and the clock is written where it is due (stamp_successions and
   stamp_vacancies). *)
LEMMA TickEndsWithStamp ==
  ASSUME Next, TickEnds
  PROVE  \E now \in Times : Stamp(now)
  BY DEF Next, TickEnds, Observe, AddZone, Carry, PlaceOne, Reclaim, Reuse, Extend,
         LeaveUnplaced, Seat, Compact

LEMMA StampedFacts ==
  ASSUME TickInv, NEW now \in Times, Stamp(now)
  PROVE  /\ DOMAIN slots' = DOMAIN slots
         /\ \A k \in DOMAIN slots :
              /\ slots'[k].occupant = slots[k].occupant
              /\ slots'[k].occupiedAt =
                   IF slots[k].occupant # None /\ ChangedHands(HeldBefore(k), slots[k].occupant)
                     THEN now ELSE slots[k].occupiedAt
              /\ slots'[k].vacatedAt =
                   IF slots[k].occupant = None /\ slots[k].vacatedAt = None
                     THEN now ELSE slots[k].vacatedAt
  <1>1. ASSUME NEW k \in DOMAIN slots
        PROVE  /\ slots'[k].occupant = slots[k].occupant
               /\ slots'[k].occupiedAt =
                    IF slots[k].occupant # None /\ ChangedHands(HeldBefore(k), slots[k].occupant)
                      THEN now ELSE slots[k].occupiedAt
               /\ slots'[k].vacatedAt =
                    IF slots[k].occupant = None /\ slots[k].vacatedAt = None
                      THEN now ELSE slots[k].vacatedAt
    <2> DEFINE t == IF slots[k].occupant # None /\ ChangedHands(HeldBefore(k), slots[k].occupant)
                      THEN now ELSE slots[k].occupiedAt
               u == IF slots[k].occupant = None /\ slots[k].vacatedAt = None
                      THEN now ELSE slots[k].vacatedAt
    <2>1. slots[k] \in SlotState
      BY DEF TickInv, IInv, TypeOK, WellFormed
    <2>2. slots'[k] = [slots[k] EXCEPT !.occupiedAt = t, !.vacatedAt = u]
      BY DEF Stamp
    <2> HIDE DEF t, u
    <2>3. /\ slots'[k].occupant = slots[k].occupant
          /\ slots'[k].occupiedAt = t /\ slots'[k].vacatedAt = u
      BY <2>1, <2>2 DEF SlotState
    <2> QED
      BY <2>3 DEF t, u
  <1> QED
    BY <1>1 DEF Stamp

-----------------------------------------------------------------------------
(* A node leaves the placement loop without a slot only when nothing in its zone
   and pool is vacant and the zone has handed out the last ordinal there is. *)
THEOREM NobodyIsDropped == Spec => []SeatedUnlessZoneExhausted
  <1>1. TickInv => SeatedUnlessZoneExhausted
    BY DEF TickInv
  <1> QED
    BY <1>1, TickInductive, PTL

(* Nodes that went away together and come back together, each with one former slot
   that is vacant and in its pool, are each back on their own ground (RECLAIM). *)
THEOREM ReturnersReturn == Spec => ReturnersDoNotSwap
  <1> DEFINE Home == TickEnds /\ (\A n \in ToPlace : Returner(n)) =>
                       \A n \in ToPlace : \A k \in HomesOf(n) : slots'[k].occupant = n
  <1>1. TickInv /\ [Next]_vars => [Home]_vars
    <2> SUFFICES ASSUME TickInv, Next, TickEnds, \A n \in ToPlace : Returner(n),
                        NEW n \in ToPlace, NEW k \in HomesOf(n)
                 PROVE  slots'[k].occupant = n
      OBVIOUS
    <2>1. PICK now \in Times : Stamp(now)
      BY TickEndsWithStamp
    <2>2. n \notin unplaced
      BY <2>1 DEF Stamp
    <2>3. k \in DOMAIN slots /\ slots[k].occupant = n
      BY <2>2 DEF TickInv, ReturnersGoHome, TickEnds
    <2> QED
      BY <2>1, <2>3, StampedFacts
  <1> QED
    BY <1>1, TickInductive, PTL DEF Spec, ReturnersDoNotSwap

(* The stamps of a tick: a slot changes hands exactly when another node held it
   last, and otherwise keeps its age; a vacancy keeps the time it began. *)
THEOREM StampsHonest == Spec => StampsAreHonest
  <1> DEFINE Honest ==
        TickEnds => \A k \in DOMAIN slots' :
          LET before == IF k \in DOMAIN prior THEN prior[k] ELSE NewSlot
              after  == slots'[k]
          IN  IF after.occupant = None
                THEN /\ after.occupiedAt = before.occupiedAt
                     /\ after.vacatedAt # None
                     /\ before.vacatedAt # None => after.vacatedAt = before.vacatedAt
                ELSE /\ after.vacatedAt = None
                     /\ IF before.last \in {None, after.occupant}
                          THEN after.occupiedAt = before.occupiedAt
                          ELSE after.occupiedAt \in Times
  <1>1. TickInv /\ [Next]_vars => [Honest]_vars
    <2> SUFFICES ASSUME TickInv, Next, TickEnds, NEW k \in DOMAIN slots'
                 PROVE  IF slots'[k].occupant = None
                          THEN /\ slots'[k].occupiedAt = Found(k).occupiedAt
                               /\ slots'[k].vacatedAt # None
                               /\ Found(k).vacatedAt # None
                                    => slots'[k].vacatedAt = Found(k).vacatedAt
                          ELSE /\ slots'[k].vacatedAt = None
                               /\ IF Found(k).last \in {None, slots'[k].occupant}
                                    THEN slots'[k].occupiedAt = Found(k).occupiedAt
                                    ELSE slots'[k].occupiedAt \in Times
      BY DEF Found
    <2>1. PICK now \in Times : Stamp(now)
      BY TickEndsWithStamp
    <2>2. k \in DOMAIN slots /\ phase = "place"
      BY <2>1, StampedFacts DEF Stamp
    <2>3. now # None /\ Found(k) \in SlotState /\ HeldBefore(k) = Found(k).last
      <3>1. now # None
        BY LayoutAssumption, NoneNotNat
      <3>2. Found(k) \in SlotState
        BY NewSlotFacts DEF Found, TickInv, IInv, TypeOK, WellFormed
      <3>3. HeldBefore(k) = Found(k).last
        BY DEF HeldBefore, Found, NewSlot
      <3> QED
        BY <3>1, <3>2, <3>3
    <2>4. CASE slots[k].occupant = None
      <3>1. slots[k] = Vacated(Found(k))
        BY <2>2, <2>4 DEF TickInv, EachSlotFromItsPrior
      <3>2. /\ slots[k].occupiedAt = Found(k).occupiedAt
            /\ slots[k].vacatedAt = Found(k).vacatedAt
        BY <2>3, <3>1, VacatedFacts
      <3> QED
        BY <2>1, <2>2, <2>3, <2>4, <3>2, StampedFacts
    <2>5. CASE slots[k].occupant # None
      <3>1. slots[k] = Seated(Found(k), slots[k].occupant)
        BY <2>2, <2>5 DEF TickInv, EachSlotFromItsPrior
      <3>2. /\ slots[k].occupiedAt = IF ChangedHands(Found(k).last, slots[k].occupant)
                                       THEN None ELSE Found(k).occupiedAt
            /\ slots[k].vacatedAt = None
        BY <3>1 DEF Seated
      <3> QED
        BY <2>1, <2>2, <2>3, <2>5, <3>2, StampedFacts DEF ChangedHands
    <2> QED
      BY <2>4, <2>5
  <1> QED
    BY <1>1, TickInductive, PTL DEF Spec, StampsAreHonest

-----------------------------------------------------------------------------
(* Ground and seats as the rest of the program sees them change only when a tick
   ends and when the map is compacted. *)
LEMMA TickIsInvisible ==
  ASSUME phase' # "idle", prior' = IF phase = "idle" THEN slots ELSE prior
  PROVE  DOMAIN Published' = DOMAIN Published /\ Seats(Published)' = Seats(Published)
  <1>1. Published' = Published
    BY DEF Published
  <1> QED
    BY <1>1 DEF Seats, Occupied

(* The end of a tick settles: seats are kept, sound, and new ground is beyond. *)
LEMMA StampSettles ==
  ASSUME TickInv, NEW now \in Times, Stamp(now)
  PROVE  Stable!Settle
  <1>0. /\ phase = "place" /\ phase' = "idle" /\ UNCHANGED <<prior, observed>>
        /\ Published = prior /\ Published' = slots'
        /\ DOMAIN prior \subseteq DOMAIN slots /\ DOMAIN slots' = DOMAIN slots
        /\ \A k \in DOMAIN slots : slots'[k].occupant = slots[k].occupant
    BY StampedFacts DEF Stamp, Published, TickInv, IInv, PlacePhase
  <1>1. Seats(Published)' = Seats(slots)
    BY <1>0 DEF Seats, Occupied
  <1>2. Seats(Published) = Seats(prior)
    BY <1>0
  <1>3. Stable!SeatsKept
    <2> SUFFICES ASSUME NEW s \in Seats(prior), observed[s[1]] = PlaceOf(s[2])
                 PROVE  s \in Seats(slots)
      BY <1>1, <1>2 DEF Stable!SeatsKept, Stable!PlaceOf, PlaceOf
    <2>1. PICK k \in Occupied(prior) : s = <<prior[k].occupant, k>>
      BY DEF Seats
    <2>2. k \in DOMAIN slots /\ slots[k].occupant = prior[k].occupant
      BY <1>0, <2>1 DEF TickInv, IInv, PlacePhase, Occupied
    <2> QED
      BY <2>1, <2>2 DEF Seats, Occupied
  <1>4. Stable!SeatsSound
    <2>1. ASSUME NEW s \in Seats(slots)
          PROVE  s[2] \in DOMAIN slots /\ observed[s[1]] = PlaceOf(s[2])
      BY <1>0 DEF Seats, Occupied, TickInv, SeatedWhereSeen
    <2>2. ASSUME NEW s \in Seats(slots), NEW t \in Seats(slots), s[1] = t[1] \/ s[2] = t[2]
          PROVE  s = t
      BY <2>2 DEF Seats, Occupied, TickInv, IInv, Distinct
    <2> QED
      BY <1>0, <1>1, <2>1, <2>2 DEF Stable!SeatsSound, Stable!PlaceOf, PlaceOf
  <1>5. Stable!GroundGrows
    <2> SUFFICES ASSUME NEW k \in DOMAIN slots, k \notin DOMAIN prior
                 PROVE  /\ \E s \in Seats(slots) : s[2] = k
                        /\ \A j \in DOMAIN prior : j.zone = k.zone => j.ordinal < k.ordinal
      BY <1>0, <1>1 DEF Stable!GroundGrows
    <2>1. <<slots[k].occupant, k>> \in Seats(slots)
      BY <1>0 DEF TickInv, NewGroundIsBeyond, Seats, Occupied
    <2> QED
      BY <1>0, <2>1 DEF TickInv, NewGroundIsBeyond
  <1> QED
    BY <1>0, <1>3, <1>4, <1>5 DEF Stable!Settle

LEMMA CompactCompacts ==
  ASSUME Compact
  PROVE  Stable!Compact
  <1>1. /\ Published = slots /\ Published' = slots' /\ UNCHANGED observed
        /\ DOMAIN slots' = Occupied(slots)
        /\ \A k \in Occupied(slots) : slots'[k] = slots[k]
    BY DEF Compact, Published, Occupied
  <1>2. Seats(Published)' = Seats(slots)
    BY <1>1 DEF Seats, Occupied
  <1>3. Occupied(slots) = {s[2] : s \in Seats(slots)}
    <2>1. ASSUME NEW k \in Occupied(slots)
          PROVE  k \in {s[2] : s \in Seats(slots)}
      <3>1. <<slots[k].occupant, k>> \in Seats(slots)
        BY DEF Seats
      <3> QED
        BY <3>1
    <2>2. \A s \in Seats(slots) : s[2] \in Occupied(slots)
      BY DEF Seats
    <2> QED
      BY <2>1, <2>2
  <1> QED
    BY <1>1, <1>2, <1>3 DEF Stable!Compact

(* Every step of the engine is a step of StableGround or none: the nodes move when
   they are observed, the map settles when the tick is stamped, and what RECLAIM,
   REUSE and APPEND do in between is not seen.  So no tick moves a node that
   stayed, seats two on one slot, gives ground up or takes it but at the end of
   a zone, and compaction gives up exactly what nobody stands on. *)
THEOREM Implements == Spec => KeepsGroundStable
  <1>1. Init => Stable!Init
    BY DEF Init, Stable!Init, Published, Seats, Occupied
  <1>2. TickInv /\ [Next]_vars =>
          [Stable!Next]_<<observed, DOMAIN Published, Seats(Published)>>
    <2> SUFFICES ASSUME TickInv, [Next]_vars
                 PROVE  \/ Stable!Next
                        \/ UNCHANGED <<observed, DOMAIN Published, Seats(Published)>>
      OBVIOUS
    <2>1. ASSUME NEW obs \in [Nodes -> Place \cup {Away}], Observe(obs)
          PROVE  Stable!Move
      <3>1. phase' # "idle" /\ (prior' = IF phase = "idle" THEN slots ELSE prior)
        BY <2>1 DEF Observe
      <3> QED
        BY <2>1, <3>1, TickIsInvisible DEF Observe, Stable!Move
    <2>2. CASE (\E z \in Zones, o \in 0..MaxOrdinal : AddZone(z, o)) \/ Carry \/ PlaceOne
      <3>1. phase # "idle" /\ phase' # "idle" /\ UNCHANGED <<prior, observed>>
        BY <2>2 DEF AddZone, Carry, PlaceOne, Reclaim, Reuse, Extend, LeaveUnplaced, Turn,
                    Seat
      <3> QED
        BY <3>1, TickIsInvisible
    <2>3. CASE UNCHANGED vars
      <3>1. Published' = Published /\ UNCHANGED observed
        BY <2>3 DEF vars, Published
      <3> QED
        BY <3>1 DEF Seats, Occupied
    <2> QED
      BY <2>1, <2>2, <2>3, StampSettles, CompactCompacts DEF Next, Stable!Next
  <1> QED
    BY <1>1, <1>2, TickInductive, PTL DEF Spec, KeepsGroundStable, Stable!Spec
=============================================================================
