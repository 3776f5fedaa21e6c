------------------------------- MODULE Window -------------------------------
(***************************************************************************)
(* What is open in the window (crates/kubernation/src/main.rs), and who gets *)
(* the input.  main.rs keeps one Option or bool per overlay and goes through *)
(* all of them once a frame: first the keys, in one order, then the map, the *)
(* docked column and the drill-down, then the menu bar, then every overlay   *)
(* in drawing order, each with its own hand-written list of the others that  *)
(* must be closed before it takes the input.                                 *)
(*                                                                           *)
(* A frame brings one key or one click.  It is a fold of the handlers, in    *)
(* the order of the code, over what the frame has done so far: a handler     *)
(* sees what the ones before it opened or closed, except that an overlay     *)
(* opened in this very frame never takes its opening click (the *_just_      *)
(* opened flags), which a click's frame tells by what was up before it.      *)
(* Where a click lands inside an overlay is a choice of what it does there;  *)
(* what a key asks for is there (a context to switch to, a concern that has  *)
(* a place on the map and a pod to tail, an object to inspect).              *)
(***************************************************************************)
EXTENDS Integers, Sequences, FiniteSetsExt

VARIABLES
  up,        (* what is open: windows, confirmations, and text editors       *)
  selected,  (* something on the map is selected                             *)
  snap,      (* the world loop has published a snapshot                      *)
  switches,  (* context switches under way: connecting, and in the mailbox   *)
  sent,      (* a commit was sent whose outcome has not been shown           *)
  input,     (* history: the last key or click, "none" for a step outside    *)
  took       (* history: the windows which were given that click             *)

vars == <<up, selected, snap, switches, sent, input, took>>

-----------------------------------------------------------------------------
(* The full-screen windows.  The browser's table, the log's filter, the Oracle's
   settings field and the city's image field are states of their windows. *)
Screens == {"almanac", "advisor", "charter", "about", "oracle", "annals",
            "workloads", "chaos", "browser"}
Confirms == {"evict", "commit", "drill"}
Pickers  == {"picker", "nsPicker"}
Editors  == {"table", "logFilter", "oracleField", "imageEdit"}

Elements == Screens \cup Confirms \cup Pickers \cup Editors
              \cup {"inspector", "menu", "log", "plan", "panel"}

Open(u, these) == u \cap these # {}

Typing(u) == Open(u, {"imageEdit", "oracleField", "workloads"})
               \/ {"log", "logFilter"} \subseteq u

(* Closing a window takes the state of its editor with it. *)
Owns == [w \in {"browser", "log", "oracle", "panel"} |->
          CASE w = "browser" -> {"browser", "table"}
            [] w = "log" -> {"log", "logFilter"}
            [] w = "oracle" -> {"oracle", "oracleField"}
            [] w = "panel" -> {"panel", "imageEdit"}]
Of(w)     == IF w \in DOMAIN Owns THEN Owns[w] ELSE {w}

(* The menu bar takes clicks, and keeps a dropdown open. *)
MenuLive(u) == ~Open(u, Pickers \cup Screens \cup Confirms \cup {"plan", "panel", "log"})
Framed(u)   == IF MenuLive(u) THEN u ELSE u \ {"menu"}

(* World navigation, by key and by click on the map.  The list is not that of the
   bar: a confirmation other than the drill's, or the inspector, does not suspend it. *)
NavFree(u) ==
  ~Open(u, Pickers \cup Screens \cup {"drill", "panel", "plan", "menu", "log"})

(* The docked column takes clicks: here it is the namespace picker that is missing. *)
ColumnFree(u) ==
  ~Open(u, {"picker", "panel", "plan", "log", "menu", "inspector"} \cup Screens \cup Confirms)

-----------------------------------------------------------------------------
(* The keys.  A handler maps what is open and selected in a frame, with what was
   typed into at its start, to the same after it. *)
Frame == [up |-> up, selected |-> selected, switches |-> switches, sent |-> sent,
          took |-> {}, opened |-> {}]

Set(f, u)    == [f EXCEPT !.up = u]
Toggle(f, w) == Set(f, IF w \in f.up THEN f.up \ {w} ELSE f.up \cup {w})

(* The one place where the context picker sends its row. *)
Switched(f) ==
  [f EXCEPT !.up = ((@ \ {"picker"}) \ {"panel"}) \ Of("log"), !.selected = FALSE,
            !.switches = IF @ < 2 THEN @ + 1 ELSE @]

KeyAlmanac(f) ==
  IF ~Open(f.up, {"log", "panel"} \cup (Screens \ {"almanac"})) /\ ~Typing(f.up)
  THEN Toggle(f, "almanac") ELSE f

(* Neither `typing' nor the log, the inspector, the menu or a confirmation. *)
KeyPlan(f) ==
  IF snap /\ ~Open(f.up, {"panel"} \cup Screens \cup Pickers)
  THEN Toggle(f, "plan") ELSE f

KeyAnnals(f) ==
  IF /\ snap /\ ~Typing(f.up)
     /\ ~Open(f.up, {"log", "panel", "inspector", "plan"} \cup Pickers \cup (Screens \ {"annals"}))
  THEN Toggle(f, "annals") ELSE f

KeyWorkloads(f) ==
  IF /\ snap /\ ~Typing(f.up)
     /\ ~Open(f.up, {"log", "panel", "inspector", "plan"} \cup Pickers \cup Screens)
  THEN Set(f, f.up \cup {"workloads"}) ELSE f

KeyBrowser(f) == IF f.up = {} THEN Set(f, {"browser"}) ELSE f

KeyInspect(f) ==
  IF /\ snap /\ ~Typing(f.up) /\ "panel" \in f.up
     /\ ~Open(f.up, {"log", "inspector", "plan"} \cup Screens \cup Confirms)
  THEN Set(f, f.up \cup {"inspector"}) ELSE f

(* The order in which Esc looks for something to close; a variant with the
   browser before the inspector drawn over it. *)
EscOrderBrowserFirst ==
  <<"drill", "commit", "evict", "chaos", "almanac", "advisor", "charter", "about",
    "oracleField", "oracle", "annals", "workloads", "table", "browser", "inspector",
    "plan", "nsPicker", "picker", "logFilter", "log", "imageEdit", "menu", "panel">>
EscOrder ==
  <<"drill", "commit", "evict", "chaos", "almanac", "advisor", "charter", "about",
    "oracleField", "oracle", "annals", "workloads", "inspector", "table", "browser",
    "plan", "nsPicker", "picker", "logFilter", "log", "imageEdit", "menu", "panel">>

FirstOpen(order, u) == order[Min({i \in DOMAIN order : order[i] \in u})]

KeyEscape(f) ==
  IF f.up = {} THEN f ELSE Set(f, f.up \ {FirstOpen(EscOrder, f.up)})

(* The log overlay's own keys. *)
KeyLogSlash(f) ==
  IF "log" \in f.up THEN Set(f, f.up \cup {"logFilter"}) ELSE f
KeyLogEnter(f) == Set(f, f.up \ {"logFilter"})

KeyPickerC(f)     == Set(f, f.up \ {"picker"})
KeyPickerEnter(f) == IF snap /\ "picker" \in f.up THEN Switched(f) ELSE f
KeyNsEnter(f)     == Set(f, f.up \ {"nsPicker"})

Nav(f) == snap /\ NavFree(f.up)

KeyNavC(f) == IF Nav(f) THEN Set(f, f.up \cup {"picker"}) ELSE f
KeyNavCity(f) == IF Nav(f) THEN [f EXCEPT !.selected = TRUE] ELSE f
KeyNavNext(f) ==
  IF Nav(f) THEN [f EXCEPT !.up = @ \cup {"panel"}, !.selected = TRUE] ELSE f
KeyNavEnter(f) ==
  IF Nav(f) /\ f.selected THEN Set(f, f.up \cup {"panel"}) ELSE f

KeyTail(f) ==
  IF snap /\ f.up \subseteq {"panel"} THEN Set(f, f.up \cup {"log"}) ELSE f

(* The image field reads its Enter when the city is drawn. *)
KeyImageEnter(f) ==
  IF snap /\ "plan" \notin f.up THEN Set(f, f.up \ {"imageEdit"}) ELSE f

Keys == {"F1", "/", "t", "h", "o", ":", "y", "esc", "c", "]", "n", "enter", "l"}

(* What the handlers make of a key, in the order of the frame. *)
Handle(k, f) ==
  CASE k = "F1" -> KeyAlmanac(f)
    [] k = "/"  -> LET g == KeyAlmanac(f) IN KeyLogSlash(g)
    [] k = "t"  -> KeyPlan(f)
    [] k = "h"  -> KeyAnnals(f)
    [] k = "o"  -> KeyWorkloads(f)
    [] k = ":"  -> KeyBrowser(f)
    [] k = "y"  -> KeyInspect(f)
    [] k = "esc" -> KeyEscape(f)
    [] k = "c"  -> KeyNavC(KeyPickerC(f))
    [] k = "]"  -> KeyNavCity(f)
    [] k = "n"  -> KeyNavNext(f)
    [] k = "enter" -> KeyImageEnter(KeyNavEnter(KeyNsEnter(KeyPickerEnter(KeyLogEnter(f)))))
    [] k = "l"  -> KeyTail(f)

Ends(f, i) ==
  /\ up' = Framed(f.up) /\ selected' = f.selected /\ switches' = f.switches
  /\ sent' = f.sent /\ took' = f.took /\ input' = i
  /\ UNCHANGED snap

Press(k) == Ends(Handle(k, Frame), k)

-----------------------------------------------------------------------------
(* The clicks.  A click is on a row of the column that names something placed on
   the map, elsewhere in the column, on the menu bar, or in the middle.  Each
   receiver maps a frame to the frames the click may leave. *)
Places == {"row", "column", "bar", "middle"}

Took(f, w) == [f EXCEPT !.took = @ \cup {w}]

(* The map: what is there is selected, and its drill-down opens; `opened' is
   panel_just_opened. *)
OnMap(at, f) ==
  LET Shown(p) == {[Took(f, "map") EXCEPT !.selected = s, !.up = @ \cup p, !.opened = p] :
                     s \in BOOLEAN}
  IN  IF at = "middle" /\ Nav(f)
      THEN {Took(f, "map")} \cup Shown({}) \cup Shown({"panel"})
      ELSE {f}

(* The column: a concern (focus_concern) or an affected dependent; it leaves
   panel_just_opened alone. *)
OnColumn(at, f) ==
  IF at = "row" /\ snap /\ ColumnFree(f.up)
  THEN {[Took(f, "column") EXCEPT !.selected = s, !.up = @ \cup {"panel"}] :
          s \in {TRUE, f.selected}}
  ELSE {f}

(* The drill-down closes on a click outside its frame, which is docked beside the
   column; inside, a pod's row opens the log, the inspector or the eviction. *)
PanelTakesUnderConfirm(f) ==   (* a variant without the gate for the eviction *)
  snap /\ "panel" \in f.up /\ f.opened = {} /\ ~Open(f.up, {"plan", "log", "inspector"})
PanelTakes(f) ==
  snap /\ "panel" \in f.up /\ f.opened = {} /\ ~Open(f.up, {"plan", "log", "evict", "inspector"})

OnPanel(at, f) ==
  LET g == Took(f, "panel")
      closed == Set(g, (f.up \ Of("panel")) \ Of("log"))
  IN  IF ~PanelTakes(f) THEN {f}
      ELSE IF at # "middle" THEN {closed}
      ELSE {g, closed, Set(g, f.up \cup {"imageEdit"})}
             \cup {Set(g, f.up \cup {w}) :
                     w \in IF "imageEdit" \in f.up THEN {} ELSE {"log", "inspector", "evict"}}

(* The End-of-Turn review. *)
OnPlan(f) ==
  IF snap /\ "plan" \in f.up /\ ~Open(f.up, {"commit", "drill"})
  THEN LET g == Took(f, "plan")
       IN  {g, Set(g, f.up \cup {"commit"}), Set(g, f.up \ {"plan"})}
  ELSE {f}

(* The log overlay: a container's tab, and nothing else. *)
OnLog(f) == {IF snap /\ "log" \in f.up THEN Took(f, "log") ELSE f}

MenuItems == (Screens \ {"browser"}) \cup Pickers \cup {"plan"}

OnBar(at, f) ==
  IF ~MenuLive(f.up) \/ (at # "bar" /\ "menu" \notin f.up) THEN {f}
  ELSE LET g == Took(Set(f, f.up \ {"menu"}), "menu")
       IN  {g, Set(g, f.up \cup {"menu"})}
             \cup {Set(g, g.up \cup {w}) :
                     w \in IF "menu" \notin f.up THEN {}
                           ELSE IF snap THEN MenuItems ELSE MenuItems \ {"picker"}}

(* A click outside the pickers' rows does nothing. *)
OnPicker(f) ==
  IF "picker" \notin f.up THEN {f}
  ELSE LET g == Took(f, "picker") IN {g} \cup (IF snap THEN {Switched(g)} ELSE {})
OnNsPicker(f) ==
  IF "nsPicker" \notin f.up THEN {f}
  ELSE LET g == Took(f, "nsPicker") IN {g, Set(g, f.up \ {"nsPicker"})}

(* What a click may do in a full-screen window, besides closing it. *)
OnScreen(w, f) ==
  LET g == Took(f, w)
      closed == Set(g, f.up \ Of(w))
  IN  IF w \notin f.up THEN {f}
      ELSE {g, closed} \cup
        CASE w = "almanac" -> {[closed EXCEPT !.selected = s] : s \in IF snap THEN BOOLEAN ELSE {}}
          [] w = "oracle" -> {Set(g, f.up \cup {"oracleField"}), Set(g, f.up \ {"oracleField"}),
                              [g EXCEPT !.selected = TRUE]}
          [] w = "workloads" ->
               IF snap THEN {[closed EXCEPT !.up = @ \cup {"panel"}, !.selected = s] :
                               s \in {TRUE, f.selected}}
                       ELSE {}
          [] OTHER -> {}

OnChaosUnderConfirm(f) ==   (* a variant without the gate for the drill *)
  IF "chaos" \in f.up /\ snap
  THEN LET g == Took(f, "chaos")
       IN  {g, Set(g, f.up \ {"chaos"}), Set(g, f.up \cup {"drill"})}
  ELSE {f}
OnChaos(f) ==
  IF "chaos" \in f.up /\ snap /\ "drill" \notin f.up
  THEN LET g == Took(f, "chaos")
       IN  {g, Set(g, f.up \ {"chaos"}), Set(g, f.up \cup {"drill"})}
  ELSE {f}

OnInspector(f) ==
  IF "inspector" \notin f.up THEN {f}
  ELSE LET g == Took(f, "inspector") IN {g, Set(g, f.up \ {"inspector"})}

(* The browser is not drawn, and takes nothing, under the inspector. *)
OnBrowser(f) ==
  IF "browser" \in f.up /\ "inspector" \notin f.up
  THEN LET g == Took(f, "browser")
       IN  {g, Set(g, f.up \ Of("browser")), Set(g, f.up \ {"table"})}
             \cup {Set(g, f.up \cup {IF "table" \in f.up THEN "inspector" ELSE "table"})}
  ELSE {f}

(* The three confirmations: yes, no, or neither. *)
OnConfirm(w, f) ==
  IF w \notin f.up THEN {f}
  ELSE LET g == Took(f, w)
       IN  {g, Set(g, f.up \ {w}),
            [g EXCEPT !.up = @ \ {w}, !.sent = IF w = "commit" THEN TRUE ELSE @]}

(* The receivers in the order of the frame. *)
Receivers ==
  <<"map", "column", "panel", "plan", "log", "menu", "picker", "nsPicker", "almanac",
    "advisor", "charter", "about", "oracle", "annals", "workloads", "chaos", "inspector",
    "browser", "evict", "commit", "drill">>

(* A window opened in this frame does not take its opening click. *)
React(w, at, f) ==
  IF w \notin {"map", "column", "panel", "menu"} \cup up THEN {f}
  ELSE CASE w = "map" -> OnMap(at, f)
         [] w = "column" -> OnColumn(at, f)
         [] w = "panel" -> OnPanel(at, f)
         [] w = "plan" -> OnPlan(f)
         [] w = "log" -> OnLog(f)
         [] w = "menu" -> OnBar(at, f)
         [] w = "picker" -> OnPicker(f)
         [] w = "nsPicker" -> OnNsPicker(f)
         [] w = "chaos" -> OnChaos(f)
         [] w = "inspector" -> OnInspector(f)
         [] w = "browser" -> OnBrowser(f)
         [] w \in Confirms -> OnConfirm(w, f)
         [] OTHER -> OnScreen(w, f)

(* What the frame may be once the first receivers have had the click. *)
Passed(at) ==
  LET by[i \in 0..Len(Receivers)] ==
        IF i = 0 THEN {Frame} ELSE UNION {React(Receivers[i], at, g) : g \in by[i - 1]}
  IN  by[Len(Receivers)]

Click(at) == \E f \in Passed(at) : Ends(f, at)

-----------------------------------------------------------------------------
(* What the other side does.  A commit whose every row succeeded closes the
   review that shows it; a refused or partial one stays up. *)
Outside == input' = "none" /\ took' = {} /\ UNCHANGED selected

TurnApplied ==
  /\ snap /\ sent /\ "plan" \in up
  /\ up' = Framed(up \ {"plan"}) /\ sent' = FALSE
  /\ Outside /\ UNCHANGED <<snap, switches>>
TurnRefused ==
  /\ sent /\ sent' = FALSE
  /\ Outside /\ UNCHANGED <<up, snap, switches>>

(* The old cluster's snapshot stays up while the loop connects to the new one. *)
SnapshotGoes ==
  /\ snap /\ switches > 0
  /\ snap' = FALSE /\ switches' = switches - 1
  /\ Outside /\ UNCHANGED <<up, sent>>
SwitchFails ==
  /\ switches > 0 /\ switches' = switches - 1
  /\ Outside /\ UNCHANGED <<up, sent, snap>>
SnapshotComes ==
  /\ ~snap /\ snap' = TRUE
  /\ Outside /\ UNCHANGED <<up, sent, switches>>

Init ==
  /\ up = {} /\ selected = FALSE /\ snap = FALSE /\ switches = 0 /\ sent = FALSE
  /\ input = "none" /\ took = {}

Next ==
  \/ \E k \in Keys : Press(k)
  \/ \E at \in Places : Click(at)
  \/ TurnApplied \/ TurnRefused
  \/ SnapshotGoes \/ SwitchFails \/ SnapshotComes

Spec == Init /\ [][Next]_vars

-----------------------------------------------------------------------------
(* How the overlays lie over one another, the topmost first. *)
DrawOrder ==
  <<"drill", "commit", "evict", "inspector", "browser", "chaos", "workloads", "annals",
    "oracle", "about", "charter", "advisor", "almanac", "nsPicker", "picker", "menu",
    "log", "plan", "panel">>
Topmost(u) == FirstOpen(DrawOrder, u)

(* "`Esc' closes the topmost overlay" (README:502): a press of Esc closes one
   thing, the window drawn over all the others or the editor in it, except that
   it takes the review from under a log overlay. *)
EscPeelsTheTop ==
  [][input' = "esc" /\ up # {} =>
       \E w \in {Topmost(up)} \cup (IF {"log", "plan"} \subseteq up THEN {"plan"} ELSE {}) :
         \E gone \in Of(w) : up' = up \ {gone}]_vars

(* While the confirmation of an eviction or of a drill is up nothing under it is
   given a click: what the operator confirms or refuses does nothing else.  The
   exception is a commit's confirmation that lost its review, under which the
   map, and all that opens from it, is live. *)
ConfirmsOwnTheClick ==
  [][\A w \in {"evict", "drill"} :
       w \in up /\ "commit" \notin up => took' \subseteq {w}]_vars

(* The confirmation of an eviction stands on the drill-down its pod was seen in,
   that of a drill on the console which planned it, an editor in its window;
   a table and the log's filter too.  (The confirmation of a commit does not
   stand on its review: `t' closes the review under it.) *)
NothingIsOrphaned ==
  /\ up \subseteq Elements
  /\ "evict" \in up => "panel" \in up
  /\ "drill" \in up => "chaos" \in up
  /\ \A w \in DOMAIN Owns : Open(up, Of(w)) => w \in up

(* focus_concern is "the single path both the `N' key and a click on the column's
   ATTENTION section take, so keyboard and mouse can't drift" and opens the
   concern's drill-down (main.rs:652-655): a click taken by a row of the column
   leaves a drill-down open. *)
ConcernClickOpens ==
  [][input' = "row" /\ "column" \in took' => "panel" \in up']_vars
=============================================================================
