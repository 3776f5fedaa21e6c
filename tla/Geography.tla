----------------------------- MODULE Geography -----------------------------
(***************************************************************************)
(* The map of the world (state/world.rs): from the layout's slots to cells.  *)
(* A zone is a continent in the column of its durable ordinal, a node a      *)
(* province in the band of its slot, a workload a city on the province that  *)
(* hosts most of its pods - or an encampment on its namespace's island when  *)
(* it has none - and its Ingresses (gates) and Services (harbors) moor in    *)
(* the strip of water east of the continent.                                 *)
(*                                                                           *)
(* The world is rebuilt from nothing at every change, so it is a state       *)
(* function here; the variables are what it is built from.  Zones, nodes,    *)
(* workloads and namespaces are numbers in the order the code sorts them in. *)
(* What does not change (zones, hashes, exposure) is drawn from CONSTANT     *)
(* Surveys once.  How a node gets its slot is the business of Layout: here a *)
(* node takes any ordinal of its zone that no node of the zone holds.        *)
(***************************************************************************)
EXTENDS Integers, SequencesExt, FiniteSetsExt

CONSTANTS
  Nodes, Zones, Cities,
  PATCH_W, OCEAN_GAP,     (* the width of a continent, and of the water      *)
  ISLAND_W, ISLAND_GAP, ISLAND_CAP,
  CITY_COL0,              (* westmost column of a settlement                 *)
  CITY_COLS,              (* columns of the preferred band                   *)
  CITY_COLS_WIDE,         (* columns of the overflow band                    *)
  COAST_CAP,              (* moorings offered per city                       *)
  EXTENT_CLASSES,         (* heights of a province, smallest first           *)
  Spreads,                (* bound: where the pods of a workload may stand   *)
  Surveys,                (* bound: the unchanging data that is tried        *)
  None

VARIABLES
  survey,  (* zoneOf a node, zoneOrd of a zone, last ordinal of a zone; of a
              workload: its hashes col and row, namespace ns, and how many
              Ingresses and Services expose it                             *)
  seat,    (* of a live node: its ordinal, None when the layout has no room  *)
  class,   (* of a live node: its size class, from its reported memory       *)
  ghosts,  (* the ground of departed nodes: <<zone, ordinal>>                *)
  pods     (* of a listed workload: how many of its pods stand on a node     *)

vars == <<survey, seat, class, ghosts, pods>>

-----------------------------------------------------------------------------
(* Continents and provinces. *)
SLOT_STRIDE == Last(EXTENT_CLASSES)
SlotRow(ordinal) == 1 + ordinal * SLOT_STRIDE

Live      == DOMAIN seat
Seated    == {n \in Live : seat[n] # None}
Zoned(z)  == {n \in Seated : survey.zoneOf[n] = z}
Height(n) == EXTENT_CLASSES[class[n]]
West(z)   == survey.zoneOrd[z] * (PATCH_W + OCEAN_GAP)

(* Mutant: provinces stacked by their own height. *)
StackedByHeight(n) == 1 + seat[n] * Height(n)
Top(n)  == SlotRow(seat[n])
Rows(n) == Max({1, Height(n) - 1})

(* A workload stands where the plurality of its pods does; ties break on the
   order of the nodes. *)
Listed   == DOMAIN pods
Hosts(c) == {n \in Live : pods[c][n] > 0}
Home(c) ==
  IF Hosts(c) = {} THEN None
  ELSE CHOOSE n \in Hosts(c) : \A m \in Hosts(c) :
         \/ pods[c][n] > pods[c][m]
         \/ pods[c][n] = pods[c][m] /\ n <= m
Sited(n) == {c \in Listed : Home(c) = n}

-----------------------------------------------------------------------------
(* The cells a city tries: from the column and row of its hashes down the rows,
   then east, in a band of the given width. *)
Band(c, rows, span) ==
  [i \in 1..(span * rows) |->
     <<CITY_COL0 + (((survey.col[c] % CITY_COLS) + ((i - 1) \div rows)) % span),
       (survey.row[c] + i - 1) % rows>>]

Preferred(c, rows) == Head(Band(c, rows, CITY_COLS))

CityCell(c, rows, taken) ==
  LET cells == Band(c, rows, CITY_COLS) \o Band(c, rows, CITY_COLS_WIDE)
      free  == {i \in DOMAIN cells : cells[i] \notin taken}
  IN  cells[IF free = {} THEN 1 ELSE Min(free)]

(* Mutant: a city's row is its index among its siblings. *)
SettledByIndex(n, cities) ==
  [c \in cities |-> <<CITY_COL0 + (survey.col[c] % CITY_COLS),
                      Cardinality({d \in cities : d < c}) % Rows(n)>>]

(* The cities of a province settle in their order. *)
Settled(n, cities) ==
  LET upTo[c \in 0..Max(Cities)] ==
        IF c = 0 THEN <<>>
        ELSE IF c \notin cities THEN upTo[c - 1]
        ELSE LET at == upTo[c - 1] IN
             [d \in DOMAIN at \cup {c} |->
                IF d = c THEN CityCell(c, Rows(n), Range(at)) ELSE at[d]]
  IN  upTo[Max(Cities)]

OnGround(cell, n) == <<West(survey.zoneOf[n]) + cell[1], Top(n) + 1 + cell[2]>>
Places(n) == LET at == Settled(n, Sited(n)) IN [c \in Sited(n) |-> OnGround(at[c], n)]
Cell(c)   == Places(Home(c))[c]

-----------------------------------------------------------------------------
(* The markers of a city, its gates before its harbors: the first COAST_CAP are
   offered a mooring: the first free column of the strip, province by province
   and city by city, or none. *)
Exposure(z) ==
  UNION {LET at == Places(n) IN
         UNION {{[node |-> n, of |-> c, no |-> i, y |-> at[c][2]] :
                  i \in 1..Min({COAST_CAP, survey.exposed[c]})}
                : c \in Sited(n)} : n \in Zoned(z)}

Sooner(d, e) ==
  \/ d.node < e.node
  \/ d.node = e.node /\ d.of < e.of
  \/ d.node = e.node /\ d.of = e.of /\ d.no < e.no

Coast(z) ==
  LET all == Exposure(z)
      column(e) == Cardinality({d \in all : d.y = e.y /\ Sooner(d, e)})
  IN  {[x |-> West(z) + PATCH_W + column(e), entry |-> e] :
         e \in {d \in all : column(d) < OCEAN_GAP}}

OnMap == {survey.zoneOf[n] : n \in Live}

-----------------------------------------------------------------------------
(* South of all land, an island for every namespace with encampments. *)
Bottom ==
  Max({1} \cup {Top(n) + Height(n) : n \in Seated}
          \cup {SlotRow(g[2]) + EXTENT_CLASSES[2] : g \in {h \in ghosts : h[1] \in OnMap}})

Landless == {c \in Listed : Home(c) = None}
Isles    == {survey.ns[c] : c \in Landless}
Camps(s) == {c \in Landless : survey.ns[c] = s}
CampNo(c) == Cardinality({d \in Camps(survey.ns[c]) : d <= c})

IslandY    == Bottom + 2
IslandX(s) == 1 + Cardinality({r \in Isles : r < s}) * (ISLAND_W + ISLAND_GAP)
IslandH(s) == 2 + Min({Cardinality(Camps(s)), ISLAND_CAP + 1})

(* structure_pos of a workload without land; beyond the cap it has none. *)
Camp(c) == <<IslandX(survey.ns[c]) + 2, IslandY + CampNo(c)>>
Shown   == {c \in Landless : CampNo(c) <= ISLAND_CAP}

(* The extent of the map, beyond which nothing is hit or framed. *)
Width ==
  2 + Max({West(z) + PATCH_W : z \in OnMap} \cup {PATCH_W : z \in {0} \ OnMap}
              \cup {IslandX(s) + ISLAND_W : s \in Isles}
              \cup UNION {{b.x + 1 : b \in Coast(z)} : z \in OnMap})
Depth ==
  2 + Max({Bottom} \cup {IslandY + IslandH(s) : s \in Isles})

-----------------------------------------------------------------------------
(* What stands at a cell (region_at): on the first province whose band it is in
   a city's own cell goes before the ring of another. *)
Near(a, b) == a - b \in {-1, 0, 1}

(* Mutant: the first city whose ring the cell is in. *)
RingFirst(n, x, y) ==
  LET at   == Places(n)
      ring == {c \in Sited(n) : Near(x, at[c][1]) /\ Near(y, at[c][2])}
  IN  IF ring # {} THEN <<"city", Min(ring)>> ELSE <<"province", n>>

InProvince(n, x, y) ==
  LET at   == Places(n)
      own  == {c \in Sited(n) : at[c] = <<x, y>>}
      ring == {c \in Sited(n) : Near(x, at[c][1]) /\ Near(y, at[c][2])}
  IN  IF own # {} THEN <<"city", Min(own)>>
      ELSE IF ring # {} THEN <<"city", Min(ring)>>
      ELSE <<"province", n>>

OnIsland(s, y) ==
  LET here == {c \in Camps(s) \cap Shown : IslandY + CampNo(c) = y}
  IN  IF here # {} THEN <<"structure", Min(here)>> ELSE <<"island", s>>

RegionAt(x, y) ==
  LET bands == {n \in Seated : LET w == West(survey.zoneOf[n]) IN
                  x \in w..(w + PATCH_W - 1) /\ y \in Top(n)..(Top(n) + Height(n) - 1)}
      first == {n \in bands : \A m \in bands : survey.zoneOf[n] <= survey.zoneOf[m]}
      isles == {s \in Isles : /\ x \in IslandX(s)..(IslandX(s) + ISLAND_W - 1)
                              /\ y \in IslandY..(IslandY + IslandH(s) - 1)}
  IN  IF bands # {} THEN InProvince(Min(first), x, y)
      ELSE IF isles # {} THEN OnIsland(Min(isles), y)
      ELSE <<"ocean", None>>

-----------------------------------------------------------------------------
(* What the cluster does.  A workload's pods come, go and move; it is listed or
   not (created, deleted, hidden by the namespace filter). *)
Held(z) == {seat[n] : n \in Zoned(z)}

NodeArrives(n) ==
  LET z    == survey.zoneOf[n]
      free == (0..survey.last) \ Held(z)
  IN  /\ n \notin Live
      /\ \E o \in IF free = {} THEN {None} ELSE free, k \in DOMAIN EXTENT_CLASSES :
           /\ seat' = [m \in Live \cup {n} |-> IF m = n THEN o ELSE seat[m]]
           /\ class' = [m \in Live \cup {n} |-> IF m = n THEN k ELSE class[m]]
           /\ ghosts' = ghosts \ {<<z, o>>}
      /\ UNCHANGED <<survey, pods>>

NodeLeaves(n) ==
  /\ n \in Live
  /\ seat' = [m \in Live \ {n} |-> seat[m]]
  /\ class' = [m \in Live \ {n} |-> class[m]]
  /\ ghosts' = ghosts \cup {<<survey.zoneOf[n], seat[n]>> : m \in Seated \cap {n}}
  /\ pods' = [c \in Listed |-> [pods[c] EXCEPT ![n] = 0]]
  /\ UNCHANGED survey

Resize(n) ==
  /\ n \in Live
  /\ \E k \in DOMAIN EXTENT_CLASSES : class' = [class EXCEPT ![n] = k]
  /\ UNCHANGED <<survey, seat, ghosts, pods>>

Schedule(c) ==
  /\ \E s \in Spreads :
       pods' = [d \in Listed \cup {c} |->
                  IF d = c THEN [n \in Nodes |-> IF n \in Live THEN s[n] ELSE 0] ELSE pods[d]]
  /\ UNCHANGED <<survey, seat, class, ghosts>>

Unlist(c) ==
  /\ c \in Listed
  /\ pods' = [d \in Listed \ {c} |-> pods[d]]
  /\ UNCHANGED <<survey, seat, class, ghosts>>

Compact ==
  /\ ghosts # {} /\ ghosts' = {}
  /\ UNCHANGED <<survey, seat, class, pods>>

Init ==
  /\ survey \in Surveys
  /\ seat = <<>> /\ class = <<>> /\ ghosts = {} /\ pods = <<>>

Next ==
  \/ \E n \in Nodes : NodeArrives(n) \/ NodeLeaves(n) \/ Resize(n)
  \/ \E c \in Cities : Schedule(c) \/ Unlist(c)
  \/ Compact

Spec == Init /\ [][Next]_vars

-----------------------------------------------------------------------------
Crowded(n) == Cardinality(Sited(n)) > Rows(n) * CITY_COLS_WIDE

(* "Two settlements on one cell means ... a workload with no clickable cell
   anywhere on the map" (world.rs:460-463); "two markers on one cell is worse"
   (world.rs:812); "a short width puts real land outside bounds" (world.rs:967-969).
   What stands at the cell of a listed workload is that workload, whatever its
   neighbours' rings, siblings, sizes, ghosts and zones - unless its province has
   more settlements than cells, or its node no ground -, every marker has water
   of its own, and all of it lies within the map. *)
EveryCityHasItsCell ==
  LET width == Width depth == Depth
      In(x, y) == x < width /\ y < depth
      coast == UNION {Coast(z) : z \in OnMap}
  IN  /\ \A n \in Seated : ~Crowded(n) =>
           LET at == Places(n) IN
             \A c \in Sited(n) : /\ RegionAt(at[c][1], at[c][2]) = <<"city", c>>
                                 /\ In(at[c][1], at[c][2])
      /\ \A c \in Shown : /\ RegionAt(Camp(c)[1], Camp(c)[2]) = <<"structure", c>>
                           /\ In(Camp(c)[1], Camp(c)[2])
      /\ \A a \in coast :
           /\ RegionAt(a.x, a.entry.y) = <<"ocean", None>> /\ In(a.x, a.entry.y)
           /\ \A b \in coast : <<a.x, a.entry.y>> = <<b.x, b.entry.y>> => a = b

Clash(n, cities) ==
  \E c, d \in cities : c # d /\ Preferred(c, Rows(n)) = Preferred(d, Rows(n))

(* "Hashing makes the row a property of the workload's identity, so a stranger's
   arrival cannot shift it" (world.rs:435-436): were the settlement d not there,
   the others on the province would be where they are, unless they settle after it
   and two of those which settle up to them want one cell. *)
StrangersMoveNobody ==
  \A n \in Seated : \A d \in Sited(n) :
    LET with    == Settled(n, Sited(n))
        without == Settled(n, Sited(n) \ {d})
    IN  \A c \in Sited(n) \ {d} :
          with[c] # without[c] => d < c /\ Clash(n, {e \in Sited(n) : e <= c})
=============================================================================
