-------------------------------- MODULE Parts --------------------------------
(***************************************************************************)
(* Four parts that share no state: the windows, the map of the world, the    *)
(* attention queue, and the file of a saved map.  Each behaviour follows     *)
(* one of them, chosen at the start; the others stay as they began.          *)
(***************************************************************************)
EXTENDS Naturals, FiniteSets, Sequences

CONSTANTS
  None,
  (* Geography *)
  Nodes, Zones, Cities, PATCH_W, OCEAN_GAP, ISLAND_W, ISLAND_GAP, ISLAND_CAP,
  CITY_COL0, CITY_COLS, CITY_COLS_WIDE, COAST_CAP, EXTENT_CLASSES, Spreads, Surveys,
  (* Attention *)
  Workloads, Pods, NodeNames, Owners, PodStates, Events,
  (* LayoutFile *)
  Inodes

(* Workloads are numbered in the order of their keys; a province has at least one
   column to settle in, and a size class at least one row. *)
ASSUME GeographyAssumption ==
  /\ IsFiniteSet(Cities) /\ Cities = 1..Cardinality(Cities)
  /\ CITY_COLS \in Nat \ {0} /\ CITY_COLS_WIDE \in Nat \ {0}
  /\ EXTENT_CLASSES \in Seq(Nat)

(* The measures of the map (world.rs:23-28, 453-454, 507): both bands of columns lie
   within a province, every size class leaves a row to settle on and none is taller
   than the last, an island is wide enough for its column of camps. *)
ASSUME MeasuresAssumption ==
  /\ IsFiniteSet(Nodes) /\ Nodes \subseteq Nat /\ IsFiniteSet(Zones) /\ Zones \subseteq Nat
  /\ None \notin Nat
  /\ {PATCH_W, OCEAN_GAP, ISLAND_W, ISLAND_GAP, ISLAND_CAP, CITY_COL0, COAST_CAP} \subseteq Nat
  /\ CITY_COL0 + CITY_COLS <= PATCH_W /\ CITY_COL0 + CITY_COLS_WIDE <= PATCH_W
  /\ ISLAND_W > 2
  /\ Len(EXTENT_CLASSES) >= 2
  /\ \A i \in DOMAIN EXTENT_CLASSES :
       EXTENT_CLASSES[i] \in 2..EXTENT_CLASSES[Len(EXTENT_CLASSES)]

(* Zones have ordinals of their own, which is what the layout engine sees to. *)
ASSUME SurveysAssumption ==
  \A s \in Surveys :
    /\ s.zoneOf \in [Nodes -> Zones] /\ s.zoneOrd \in [Zones -> Nat] /\ s.last \in Nat
    /\ \A y, z \in Zones : s.zoneOrd[y] = s.zoneOrd[z] => y = z
    /\ {s.col, s.row, s.ns, s.exposed} \subseteq [Cities -> Nat]

(* Pods are numbered in the order of the store, and a Job is nobody's workload. *)
ASSUME AttentionAssumption ==
  /\ Pods \subseteq Nat /\ None \notin Pods
  /\ \A w \in Workloads : w[1] # "Job"

(* There is always a file that neither name nor saver holds. *)
ASSUME InodesAssumption ==
  /\ None \notin Inodes
  /\ \A a, b, c \in Inodes \cup {None} : \E i \in Inodes : i \notin {a, b, c}

VARIABLES
  part,
  (* Window *)
  up, selected, snap, switches, sent, input, took,
  (* Geography *)
  survey, seat, class, ghosts, pods,
  (* Attention *)
  owner, tails, jobs, rows, tiles, warned, verdict, insecure, exposed,
  (* LayoutFile *)
  alive, dir, data, durable, at, fd, overlapped

windowVars    == <<up, selected, snap, switches, sent, input, took>>
geographyVars == <<survey, seat, class, ghosts, pods>>
attentionVars ==
  <<owner, tails, jobs, rows, tiles, warned, verdict, insecure, exposed>>
fileVars      == <<alive, dir, data, durable, at, fd, overlapped>>
vars == <<part, windowVars, geographyVars, attentionVars, fileVars>>

Wi == INSTANCE Window
Ge == INSTANCE Geography
At == INSTANCE Attention WITH Nodes <- NodeNames
Fi == INSTANCE LayoutFile

-----------------------------------------------------------------------------
Init ==
  /\ part \in {"window", "geography", "attention", "file"}
  /\ Wi!Init /\ Ge!Init /\ At!Init /\ Fi!Init
  /\ part # "geography" => survey = CHOOSE s \in Surveys : TRUE
  /\ part # "attention" => owner = CHOOSE o \in Owners : TRUE

Next ==
  /\ UNCHANGED part
  /\ \/ part = "window" /\ Wi!Next /\ UNCHANGED <<geographyVars, attentionVars, fileVars>>
     \/ part = "geography" /\ Ge!Next /\ UNCHANGED <<windowVars, attentionVars, fileVars>>
     \/ part = "attention" /\ At!Next /\ UNCHANGED <<windowVars, geographyVars, fileVars>>
     \/ part = "file" /\ Fi!Next /\ UNCHANGED <<windowVars, geographyVars, attentionVars>>

Spec == Init /\ [][Next]_vars

-----------------------------------------------------------------------------
(* Window: no confirmation or editor outlives what it belongs to. *)
NothingIsOrphaned == Wi!NothingIsOrphaned

(* Window: Esc closes what was opened on top, one at a time. *)
EscPeelsTheTop == Wi!EscPeelsTheTop

(* Window: a click while a confirmation is up goes to the confirmation. *)
ConfirmsOwnTheClick == Wi!ConfirmsOwnTheClick

(* Geography: what stands at the cell of a workload is that workload. *)
EveryCityHasItsCell == part = "geography" => Ge!EveryCityHasItsCell

(* Geography: a city is where it would be without its neighbour. *)
StrangersMoveNobody == part = "geography" => Ge!StrangersMoveNobody

(* Attention: what is in trouble is in one line. *)
EveryTroubleHasItsLine == part = "attention" => At!EveryTroubleHasItsLine

(* LayoutFile: whenever the process is gone the saved map is whole, unless two
   saves overlapped. *)
CrashNeverTruncates == Fi!CrashNeverTruncates
=============================================================================
