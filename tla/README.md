# A verification project for KuberNation

KuberNation draws a Kubernetes cluster as a world map and lets an operator act
on it. This directory holds TLA+ models of the parts of it that keep state over
time or decide what the operator sees, TLC configurations that check them on
small instances, and proofs checked by TLAPS. Every definition names the code it
stands for in `PROJECT.json` (`map`); line numbers refer to this commit.

## 1. Inventory

### Processes and what they share

* **The window** (`crates/kubernation/src/main.rs`, `oracle.rs`, `panels.rs`,
  ...): one thread, one iteration per frame. It draws the last published
  snapshot and turns clicks and keys into *requests*.
* **The world loop** (`net.rs`, thread `kn-net`): a loop of 250 ms ticks on a
  multi-threaded tokio runtime. Each iteration takes requests from mailboxes,
  awaits some of them inline, and, if the world has changed, builds models and
  publishes a snapshot.
* **Spawned tasks** of the same runtime: watches and their readiness, the
  liveness probe, the OpenCost poller, Oracle consults, port-forwards.
* **Shared state** is `struct Net`: some forty `Mutex` and atomic fields, each
  locked by itself. There is no lock over two of them, so whatever relates two
  fields is a protocol.
* **The cluster** changes on its own and is seen late, through the watches.
* **Files**: one saved map per kubeconfig context, preferences, profiles. The
  process may be killed at any moment.

### Components, their state and operations, and what makes them correct

| component | state | operations | correct when | module |
|---|---|---|---|---|
| layout engine (`state/layout.rs`) | slots, zone ordinals | `assign_layout`, stamps, `compact` | ground never moves under a node that stayed; no node on two slots, no two slots on one ground; nobody dropped while there is room; stamps are honest | `Layout` |
| saved map (`layout_store.rs`, `net.rs`, `main.rs`) | file per context, `prior_hot`, `saved_layout`, `layout_ident` | load, save on cadence / switch / compaction / exit | no ground of another cluster arrives silently; no file of another cluster is overwritten; what changed is saved in the end | `LayoutStore` |
| one save (`layout_io.rs`) | the map's file and a temporary one | remove, create, write, sync, rename | a crash leaves a whole map | `LayoutFile` |
| Game Day (`state/chaos.rs`, `actions.rs::run_chaos`) | `chaos_req`, `chaos_session`, a dialog, the cluster | plan, confirm, run, restore by hand / timer / switch / quit | a fault a drill left can be undone, and an undo never reaches another cluster | `ChaosDrill` |
| planned turn (`state/planned.rs`, `actions.rs::commit_interventions`) | staged changes, mailbox, outcome, Annals | stage, review, confirm, dry-run, write, report | nothing is written unless every dry-run passed; the report is true; a commit is answered | `Turn` |
| evictions and probes (`actions.rs`, `net.rs`) | verdict caches, dialog, mailbox | probe, confirm, evict, forget on switch | no verdict outlives its cluster; the record is true; a window learns its verdict | `Access` |
| resource browser (`browse.rs`, `net.rs`) | kinds, request, rows | discover, list, back, switch | no rows of another cluster; an open table is answered | `Browser` |
| port-forwards (`portforward.rs`, `net.rs`) | private handles and their public mirror | start, stop, reap, switch | handles and mirror agree; a tunnel ends for a reason, and in the end | `Forwards` |
| probe, poller, readiness (`net.rs`, `opencost.rs`, `watch.rs`) | `conn`, `conn_gen`, costs, `ready_hot` | probe, poll, sync, switch | banner, costs and map come to be about the current cluster | `Connection` |
| Oracle (`oracle.rs`, `net.rs`) | request, stream buffers, reply cache, generation | consult, stream, cancel, retry, endpoint change | an outdated reply is never shown; a pending consult ends | `OracleConsult` |
| overlays (`main.rs`, `menu.rs`, `city.rs`) | one Option or bool per overlay | keys, clicks, outcomes, snapshots | Esc peels the top; a confirmation owns the click and stands on what it confirms | `Window` |
| SLO tracker (`state/slo.rs`) | ring of samples, target | record, prune, resolve, verdict | an alert rests on more than a blip | `Slo` |
| world map (`state/world.rs`) | none, built from a snapshot | site, settle, moor, hit-test | every workload has a cell that opens it, and strangers do not move it | `Geography` |
| attention queue (`state/attention.rs`, `net.rs`) | none, built from a snapshot | detect, aggregate, merge | every trouble in exactly one line, as severe as it is | `Attention` |
| timeline, annals, advisors, posture, cost, pair | none | folds over a snapshot | not modelled | |
| drawing, camera, preferences, vendored miniquad, scripts, site | | | not modelled | |

### What is hard

Two threads that share many separately locked fields; a switch that clears some
of them and not others; a cluster that is seen late; awaits inside the loop of
up to 25 seconds during which requests queue up; aborted tasks that go on to
their next await; undo information that lives in memory only; files shared by
successive processes and by two threads; overlays with hand-written lists of each
other; a map that must be stable over any history of nodes. `PROJECT.json` lists
each hazard at its line under `hazards`, with the properties that cover it, or why
none does.

## 2. Modules

| module | models | abstraction |
|---|---|---|
| `StableGround` | nothing: it is what the layout engine promises | who stands where, and which ground exists |
| `GatedTurn` | nothing: it is what a commit promises | the turn in hand; the mailboxes, dry-runs and patches are out of sight |
| `Layout` | `layout.rs`, driven by `build_carrying`; refines `StableGround` | node, zone and pool names are numbers in the order the code sorts them |
| `LayoutStore` | the map across ticks, switches, processes | a map is, per cluster, bare, occupied or ghost ground |
| `LayoutFile` | the steps of one save, by two threads | a file is an inode with its data empty, half, whole or torn |
| `ChaosDrill` | a drill from its dialog to its undo | a drill is at most one lasting change to one resource |
| `Turn` | a change from its staging to the Annals; refines `GatedTurn` | a change is a target and a value |
| `OracleConsult` | a consult from the button to the reply | a prompt is a model value; a reply is the task that gave it and whether it succeeded |
| `Browser`, `Access`, `Forwards` | three features that ask the loop and survive a switch | kinds, pods and ports are model values; content is tagged with its cluster |
| `MCSession` | composes the last three for TLC | they share the cluster connected to |
| `Connection` | what a switch leaves running | a task is where it is in its loop, and whether it was aborted |
| `Window` | who gets a key or a click | a frame is a fold of the handlers; pixels are a choice |
| `Slo` | one workload's ring and verdict | the ring is its length and the ages of its down samples |
| `Geography` | `build_world` and `region_at` | names and hashes are numbers; the layout gives any free ordinal |
| `Attention` | `attention::build` and the loop's merge | an object is what the detectors read off it |
| `Parts` | composes `Window`, `Geography`, `Attention`, `LayoutFile` | a disjoint sum: they share nothing |
| `MCParts` | the instance of `Parts` for TLC | |
| `LayoutProofs`, `LayoutStoreProofs`, `ChaosProofs`, `TurnProofs`, `ConsultProofs`, `SessionProofs`, `SloProofs`, `PartsProofs` | the theorems about `Layout` (and its refinement), `LayoutStore`, `ChaosDrill`, `Turn` (and its refinement), `OracleConsult`, `MCSession`, `Slo`, `Parts` | section 4 |

`LayoutStore`, `ChaosDrill`, `Turn`, `OracleConsult`, `Connection` and the parts of
`MCSession` are views of one world loop: the state they model is disjoint but for
the switch, which each has, with the awaits it contains. `LayoutStore` uses the
engine through two of its effects only (a tick keeps prior ground and makes it
occupied or ghost; compaction drops the ghosts), and takes a save as one step,
which is what `LayoutFile` is about. `Geography` takes from the engine only that a
zone's nodes hold different ordinals (`NoTwoSlotsShareGround`). `Attention` reads
the verdict `Slo` computes.

### Layout

`assign_layout` is one call. Its loops are one action per iteration (`AddZone`;
`Carry`; then `Reclaim`, `Reuse`, `Extend` or `LeaveUnplaced` for one node at a
time, in hash order), because what holds *inside* the loop is what makes the
result right: it is the invariant that is proved. `Observe` starts a tick with
any observation, `Stamp` ends it with both stamps, and `Compact` may happen
between ticks, as in the world loop. A tick in progress is invisible to the rest
of the program (`Published`).

Node numbers stand for the order `(fnv1a64(name), name)` in which nodes are
placed; zones and pools for string order, in which slot keys are sorted.
`MaxOrdinal` stands for `u16::MAX`. `AddZone` computes `m + 1` like the code but
is not enabled beyond `MaxOrdinal`, where the code's unchecked addition panics or
wraps (65,536 zones).

### LayoutStore and LayoutFile

`net` is the program counter of the world loop, with the points of a context
switch at which another thread can see a difference: after the outgoing map was
saved, after the incoming one was loaded and named in `layout_ident`, after the
old snapshot was cleared. `gui` is that of the save on exit, which reads
`layout_ident` and the snapshot in two steps. `Stop` ends the process at any
point: it is both a kill and the end of an exit. `Repoint` is the operator's
kubeconfig changing under the program, the reason for fingerprints; a fingerprint
may always be unreadable. Every save may fail. `told` and `straddled` are history
variables: whether a map was ever restored with a warning, and whether a save on
exit ever overlapped a switch. Beyond either event `NoSilentForeignGround`
promises nothing: the first is what the warning says, the second is a race the
model reaches and `hazards` lists.

`LayoutFile` has one action per call of `save` and `write_then_sync`, a write in
two halves, for each of the two savers; each call but the removal may fail. A kill
keeps what was written, a loss of power only what was synced; the directory is
taken to be as durable as its last change, which the code does not force
(`rename` without a sync of the directory), so power loss right after a rename
may bring back the map before, which is whole too. `overlapped` records that one
saver began while the other was at it.

### ChaosDrill and Turn

In `ChaosDrill`, `state` is the truth in each cluster, `seen` what the watch has
shown. `job` is the await of the world loop: while it is set nothing else in the
loop happens, and the window goes on. `WriteStep` is separate from the end of the
run, and a run may end without it (refused by a dry-run, failed, timed out).
`Captured` names the resources whose undo is the value seen at planning (scale,
image); the others are undone to a fixed value. `lost` is a history variable that
records, with a reason, each fault whose undo is gone. A step that lands in the
cluster after its timeout is not modelled. `Stop` stands for the 27-second
backstop of the quit as well as for a kill.

In `Turn`, `job` is the commit the loop is awaiting: it dry-runs each change in
turn, and only if all passed writes each. A write may fail, or take effect while
its answer is lost; `written` is the history of what took effect, and where.
Whether the review shows a change as in force already depends on the watch, and
may be anything.

`GatedTurn` is what is left when the mailboxes, the review and the dry-runs are out of
sight: a turn is given up whole or passes its gate whole, then each of its changes is
tried once on the cluster it was taken up on, and what is reported was written. `Turn`
refines it (`KeepsTheGate`), with `TheCommit` as the mapping.

### Browser, Access, Forwards, Connection

Each has the switch as two steps around its await, and a mailbox as a variable
that holds one request. Browser's list and store are two steps, as its check of
the current request is. A probe's verdict and a table's rows carry the cluster
they came from as history, to say what the window shows under whose name.
`Forwards` keeps handles and mirror as two variables; the system may give out a
port again. `Connection` gives every connection tasks of its own: aborted ones go
on to their next await, so an old probe, poll or Ready may land after the switch.

### Window

A frame brings one key or one click, and is a fold of the handlers in the order
of the code over what the frame has done so far. Which overlay excludes which is
written in each handler as in the source, not derived from a rule. Where inside
an overlay a click lands is a choice of what it does there.

### OracleConsult

Three threads share the caches: the window (`Consult`, `Poll`, `Cancel`, `Close`,
`Activate`, `SaveActive`), the world loop (`Take`, `Launch`, `Switch`) and one task
per request (`Check` or `Orphan`, then `Store`). A hash is a prompt and the
endpoint it was rendered for; a stream buffer is named by the task that owns it,
because a task writes its own buffer whatever the map of buffers says by then.
`Retry` is `Consult` with an error on screen. The check of the generation and the
store are two steps, as are the loop's reading of it and the spawning.
`since`, `dropped`, `overtaken` and `crossed` are history variables. The last two
record that a generation ended inside one of the two split steps; the model
reaches both, and the properties say what holds without them.

### Slo, Geography, Attention

`Slo` has the code's own windows and thresholds (thousandths and tenths replace
floating point; the instances avoid ties). `Geography` and `Attention` are state
functions of a snapshot; their variables are the snapshot, and every step changes
one thing in it, so that all combinations are met. What is checked is the result
of the whole pipeline: siting, settling, mooring, extents and the hit test
together; folding, covering and the merge together.

## 3. Runs

| run | bounds | shows |
|---|---|---|
| `layout` | 3 nodes, 1 zone, 2 pools, ordinals 0-2, one instant | placement and the refinement. Three nodes are the least for two returners and a newcomer; three ordinals are used up over a history, so a zone is exhausted; two pools share the ordinals |
| `layout_zones` | 2 nodes, 2 zones, 1 pool, ordinals 0-1, 2 instants | uniqueness of ground across zones, and stamps |
| `store` | 1 context, repointed between 2 clusters | identity and saving. Two contexts with two clusters were checked as well (10 million states, safety only) and add no case: files of different contexts never meet |
| `chaos` | 2 clusters, 1 captured and 1 fixed resource, 2 drills | undo. Two drills are the least for one to replace, or be planned during, the other; a third adds another link to the same chain |
| `consult` | 2 prompts, 2 endpoints, cache of 1, 3 consults, 1 change of generation | replies and waiting. Two consults of a prompt around a cancel are what confuses a task of the old generation with the new; the third meets what they leave behind; with a cache of one, the second prompt empties it |
| `turn` | 2 targets, 2 staged, 2 commits, 1 switch | the gate, the report, the record, the answer. Two changes are the least for one to be refused after another passed; two commits, for one to wait behind another |
| `session` | 2 clusters, 2 kinds, 1 pod, 2 ports, 1 eviction, 2 starts, 1 switch | a late answer against a current one, a port given out again, a probe across the switch |
| `connection` | 2 clusters, 1 switch, 1 outage | one switch leaves a probe, a poller and a Ready of the old cluster behind; one outage makes the verdicts differ |
| `slo` | 240 samples, windows and thresholds of the code, budgets 1% and 5%, at most 2 dips in the ring | every age of two dips in every length of ring: each alone or together in each window |
| `parts` | windows: all of them; map: 2 nodes, 3 workloads, 6 surveys, provinces of 1 or 2 rows and 3 columns, 2 berths; queue: 2 pods of 5 kinds, 1 workload, 1 Job, 1 node; file: 2 savers, 4 inodes | four parts in one run, see below |
| `turn_lost` | as `turn` | **violation**: a commit's outcome clears what it did not apply |
| `window_concern` | as the windows of `parts` | **violation**: the click that opens a drill-down closes it |

The bounds of `parts`: two provinces are the least for one to run into the other
or for two zones to be out of order; three workloads are more than a column
holds, so the probe, the overflow band and a full strip of water occur; two pods
are the least to be aggregated, and five kinds of pod are one of each class
`pod_state` and the detectors tell apart in effect (critical, failed, unscheduled,
flapping, leaving); four inodes are both names and both savers.

Each passing run is also the ground on which mutants of the model are tried:
`PROJECT.json` pairs every property with a plausible bug (defined beside the
operator it changes, marked *Mutant*) that makes it fail.

Deadlock is checked except in `chaos`, where a quit ends the session for good.
The type invariants of `LayoutStore`, `ChaosDrill`, `OracleConsult` and `Turn` are
proved (section 4); no run lists them.

### Properties

* `OneSlotPerNode`, `SeatedUnlessZoneExhausted`: invariants inside the
  assignment loop. The second says that a node is left off only when nothing in
  its zone and pool is vacant *and* the zone has handed out its last ordinal.
* `SurvivorsStay`, `ReturnersDoNotSwap`, `StampsAreHonest`: they relate the whole
  tick's input to its output.
* `NoTwoSlotsShareGround`: the map draws a slot at (zone ordinal, ordinal),
  without its pool.
* `KeepsGroundStable`: the refinement. It also says where new ground may be:
  beyond all existing ground of its zone.
* `NoSilentForeignGround`, `NoMapOverwrittenByAnotherCluster`: identity of the
  saved map, in memory and on disk. `UnsavedMapIsSaved`: the cadence save.
* `CrashNeverTruncates`: whenever the process is gone the map on disk is whole.
* `StrandedOnlyForCause`: the complete list of ways in which a drill can strand
  a cluster. `UnattendedRestoresStayHome`, `AutoRestoreFires`: what the timer
  and the switch do on their own.
* `KeepsTheGate`, `TheReportIsTrue`, `NoPhantomSuspects`: a turn is gated as a
  whole and each of its changes tried once (the refinement of `GatedTurn`), and
  neither the review nor the Annals claim a write that did not happen. `EveryCommitAnswered`: liveness across switches.
* `ShownReplyIsCurrent`, `PendingEnds`: the reply on screen answers the prompt
  waited for, asked after it was last given up; a consult ends but for a complete
  list of causes.
* `Browser...`, `Access...`, `Forwards...`: content and verdicts are the current
  cluster's; the record of evictions is true; handles and mirror are in lock-step;
  windows are answered and dead forwards taken down (liveness).
* `BannerSettles`, `CostsSettle`, `MapSettles`: whatever an old task stored late is
  in the end replaced by what is true of the cluster connected to.
* `EscPeelsTheTop`, `ConfirmsOwnTheClick`, `NothingIsOrphaned`: modality of the
  overlays, with the exceptions the guards allow named in each.
* `BurnIsNoBlip`, `VerdictFollowsTheSample`: a burn alert rests on two bad samples
  with one of them fresh; a good sample never makes the verdict worse.
* `EveryCityHasItsCell`: the cell a listed workload is drawn at resolves to it;
  every marker has water of its own; all of it lies within the map.
  `StrangersMoveNobody`: a settlement is where it would be without its neighbour,
  unless the neighbour settles before it and two cities want one cell.
* `EveryTroubleHasItsLine`: no trouble is dropped, counted twice, understated, or
  separated from the log that explains it, by the folds and masks of the queue.

### Fairness

* `LayoutStore`: the world loop never stops and finishes a switch it began (weak
  fairness of its steps). Strong fairness of a cadence tick whose write
  succeeds: the SLO sample marks the world as changed every 8th tick, and a save
  is due every 20th, so every 40th tick rebuilds and may save even in a quiet
  cluster; a disk that refuses every write for ever is excluded. Nothing is
  assumed of the operator, of the cluster's nodes, or of kills.
* `ChaosDrill`: the loop takes what is in its mailboxes and every await ends,
  each being under a timeout. The timer's deadline passes in the end, since
  ticks go on. No fairness for the operator or the watch.
* `OracleConsult`: frames are drawn, the loop takes requests, and every call ends:
  `consult_stream` waits for headers under the profile's timeout and for each
  frame under an idle timeout, and stops at a size limit.
* `Turn`: the loop keeps running, and every call it awaits ends under the client's
  time limits.
* `Browser`, `Access`, `Forwards`: the same; strong fairness where one tick of the
  loop serves a switch before a mailbox, so that a request may be overtaken by
  switches but not for ever. An open window draws frames.
* `Connection`: every task is a loop whose awaits have time limits and is polled as
  long as it lives; the loop completes a switch and publishes a ready world.
* `Layout`, `Window`, `Slo`, `Geography`, `Attention` and `LayoutFile` have no
  liveness property and state no fairness.

### What the code does differently from what it says

Two disagreements have a run and a finding:

1. A fully applied outcome clears the whole staged turn, whatever was staged since
   the confirmation (`turn_lost`; `main.rs:2786`).
2. A click on a row of the ATTENTION column opens a drill-down that the same click
   closes (`window_concern`; `main.rs:2711`).

Others were met while modelling. The models behave as the code does, and the
properties name them as exceptions where they bear on one:

* `home_of` finds the first slot a node held last, not the one in the pool it
  returns to (`layout.rs:101-103` promises its own ground back).
* A compaction marks the map as saved even if nothing was written
  (`net.rs:2506`), and the save on exit, which writes the layout of the last
  snapshot, may write the released ground back (`main.rs:3979`).
* A save of the world loop that overlaps the save on exit shares its temporary
  name: the exit may rename the file the loop has just created, empty, over the
  map, and end the process. `layout_io.rs:6-8` says a crash cannot truncate a map;
  `CrashNeverTruncates` holds if saves do not overlap.
* The end of any run replaces the live drill session, including undo steps nobody
  has taken yet (`net.rs:2228`; the README says a drill never strands the cluster).
* A failed consult is cached like an answer, so *Retry* on an unchanged prompt
  does not ask again (`net.rs:1745`); saving the active profile with another
  endpoint may send it a prompt rendered for the old one (`oracle.rs:1227`).
* A switch leaves the mailboxes for evictions, commits and forwards in place: what
  was confirmed for one cluster may be done to the next.
* The real writes of a turn are not undone when a later one fails; the README of
  the repository calls a commit all-or-nothing, which is true of the gate only.
* An eviction is a request to the eviction API, where that README speaks of a real
  `DELETE`.
* Keys `t` and F1 open over a confirmation's owner, and Esc takes the review from
  under an open log.
* A browser left open across a switch waits until it is closed. Stopping a forward
  by its local port may stop another that was given the port again.
* With 8 to 100 samples and the default target a single bad sample is *Breached*,
  although `slo.rs:29-31` says a blip stays quiet; scaling a workload to zero erases
  its exhausted budget; `BURN_LONG_MIN` never decides, because a shorter ring that
  passes the other tests is already *Breached*. With a full ring a single fresh dip
  is a burn alarm at targets from 99.2% to 99.5%, and *Breached* above
  (`BlipAlarmsInBetween`): `slo.rs:33-36` admits it, but from about 99.5% on only.
* The loop lets *any* line about a workload mask its budget alarm, also a weaker one
  (`net.rs:2581` says "stronger"). A completed Job is quiet, but its failed pods are
  critical lines of their own (`attention.rs:326`). A workload's line covers events
  about its name whatever their kind (`attention.rs:751`).
* A gate is dropped when an earlier city's harbors have taken the water of its row,
  although "external exposure is never what falls" (`world.rs:839-840`). The row of
  a slot overflows `u16` from ordinal 7,282 on; a zone without an ordinal falls back
  to its index, which may be another zone's column.

## 4. Proofs

All theorems hold for every value of the constants that satisfies the named
assumptions; TLC evaluates these on every run. Each module below states its
inductive invariant as a conjunction of named parts, proves one lemma per action
and combines them in `Inductive`; an invariant of a run follows from it by
propositional logic, and an action property from one look at the step. The type
invariants of `Layout`, `LayoutStore`, `ChaosDrill`, `Turn` and `OracleConsult`
are theorems `TypeCorrect`.

| module | theorem | property | for any |
|---|---|---|---|
| `LayoutProofs` | `OneSlot`, `GroundIsUnique` | `OneSlotPerNode`, `NoTwoSlotsShareGround` | nodes, zones, pools, instants, `MaxOrdinal` |
| | `SurvivorsStand`, `ReturnersReturn`, `StampsHonest` | `SurvivorsStay`, `ReturnersDoNotSwap`, `StampsAreHonest` | |
| | `NobodyIsDropped` | `SeatedUnlessZoneExhausted` | |
| | `Implements` | `KeepsGroundStable`: the refinement of `StableGround` | |
| `LayoutStoreProofs` | `OwnGroundOnly`, `ForeignMapsSurvive` | `NoSilentForeignGround`, `NoMapOverwrittenByAnotherCluster` | contexts, clusters |
| `TurnProofs` | `GateFirst`, `ReportIsTrue`, `AnnalsAreTrue` | `NothingWrittenBeforeTheGate`, `TheReportIsTrue`, `NoPhantomSuspects` | clusters, targets, values, length of turn |
| | `Implements` | `KeepsTheGate`: the refinement of `GatedTurn` | |
| `ChaosProofs` | `NoSilentStranding`, `RestoresStayHome` | `StrandedOnlyForCause`, `UnattendedRestoresStayHome` | clusters, resources, number of drills |
| `ConsultProofs` | `RepliesAreCurrent` | `ShownReplyIsCurrent` | prompts, endpoints, cache size, number of consults |
| `SessionProofs` | `RowsAreOfThisCluster` | `BrowserNothingFromAnotherCluster` | clusters, kinds |
| | `EvictionsHonest` | `AccessEvictionsAreHonest` | clusters, pods |
| | `ListAndHandlesAgree`, `OneTunnel`, `EndsOnlyForAReason` | `ForwardsLockStep`, `ForwardsOneTunnelToTheRightCluster`, `ForwardsEndForAReason` | clusters, pods, ports |
| `SloProofs` | `VerdictIsMonotone` | `VerdictFollowsTheSample` | windows, thresholds, budgets, rings |
| | `QuietOnABlip` | `BurnIsNoBlip` | the same, and budgets that satisfy `BlipIsTold` |
| `PartsProofs` | `MapSurvivesCrashes` | `CrashNeverTruncates` | number of inodes |
| | `TroubleIsShownOnce` | `EveryTroubleHasItsLine` | pods, workloads, Jobs, nodes, events |
| | `NeighboursMoveNobody` | `StrangersMoveNobody` | nodes, workloads, hashes, columns, size classes |
| | `EveryCityStands` | `EveryCityHasItsCell` | nodes, zones, ordinals, size classes, workloads, namespaces, hashes, exposures |
| | `NobodyIsOrphaned` | `NothingIsOrphaned` | (`Window` has no constants) |
| | `EscClosesTheTop`, `ClicksAreOwned` | `EscPeelsTheTop`, `ConfirmsOwnTheClick` | |

### The arguments

* **The assignment loop** (`IInv`). `OneSlotPerNode` alone is not inductive. In
  the middle of the loop it must be known that a node still to be placed occupies
  no slot, that the prior layout was itself free of double seats (or CARRY would
  copy them), that two slots of a zone never share an ordinal whatever their
  pools, that ordinals of zones are distinct, that every zone with slots has one,
  and that every node CARRY kept still sits where it sat.
* **A tick against its prior layout** (`TickInv`). What the whole tick promises
  needs a second invariant that relates the slots at every point of the loop to
  the prior ones: each slot is its prior one with whoever left taken off and whoever
  came put on (`EachSlotFromItsPrior`), whoever is seated sits in the zone and pool
  it was observed in (`SeatedWhereSeen`), new ground is beyond all prior ground of
  its zone (`NewGroundIsBeyond`), a node left off had nowhere to go, and when
  everybody still to be placed has one home, each is at home or its home is still
  free (`ReturnersGoHome`). This is the part of RECLAIM that hash order
  threatens. TLC checked `TickInv` on both instances of `Layout` before it was
  proved.
* **Refinement**. `Published` is the map between ticks. `Observe`, `Stamp` and
  `Compact` each map to a step of `StableGround`, the steps of the loop to a
  stutter; the proof reads off `TickInv` that a tick's outcome is one the abstract
  map allows.
* **The saved map**. `FileIsOurs`, `MapsAreOurs`, `FilesAreOurs` and `ExitIsOurs`
  say of each place a map can be in whose it is, at each point of a switch and an
  exit. The overwriting of foreign maps is an action property and needs
  `FileIsOurs`: what stands under the loop's name does not contradict its
  fingerprint.
* **A commit**. Before the gate nothing is written and no row reported; behind it
  every change has passed and each row marked ok is a write that took effect here
  (`GateHolds`, `WritesAreHere`). `TypeOK` carries that a turn has one change per
  target, which staging, taking back and committing preserve.
  `KeepsTheGate` maps the awaited commit to the abstract one (`TheCommit`): a turn to
  the set of its changes, its cursor to what is left to try. Because no change is twice
  in a turn (`NoChangeTwice`), a cursor that advances by one tries exactly one change
  and leaves the others. Staging, reviewing and the mailboxes map to stutters; a switch
  starts only between commits, since the loop awaits them.
* **A drill**. `NoSilentStranding` needs that every drill on its way carries the
  undo of what it is about to hurt (`DrillsAreUndoable`), that what a run has
  written is there, and that a captured undo which would restore a fault is
  already on record (`SessionIsHere`).
* **A consult**. The caches know nothing of generations. The invariant says that
  whoever ends a generation empties what it gives up, so a cached reply belongs to
  no generation given up since its prompt was, and the same of a buffer, unless its
  task is still streaming and will find at its check that it was overtaken. All of
  it is conditional on `~overtaken`, as the property is.
* **The session**. One invariant per part, with what the loop is awaiting for it;
  a part that is not followed is as it began.
* **The SLO verdict**. The windows are slices of one ring, so a new sample shifts
  what each counts by at most one at either end. `VerdictIsMonotone` compares the
  counts before and after by arithmetic on cardinalities and products.
  `BurnIsNoBlip` is *not* true at every target: `QuietOnABlip` has the hypothesis
  `BlipIsTold` (a dip in a full ring is a breach anyway, or the long window does not
  confirm it), the run's budgets satisfy it, and `BlipAlarmsInBetween` proves that
  wherever it fails a blip does alarm. Hypothesis and converse together draw the
  line: with the code's constants, budgets of 5 to 8 thousandths.
* **One save**. Whoever saves holds the temporary file alone, and how far it is
  says what is in it (`TempIsTheSavers`); the map's file is whole and durable
  (`MapIsWhole`).
* **The attention queue** has no invariant: `Queue` is a function of the snapshot,
  and the theorem is about every snapshot of the types of the model. One lemma per
  detector says what its lines are about and what they cover.
* **Settlements**. `Settled` folds over the workloads in the order of their keys.
  Two facts about the fold, that it is the preferred cells if nobody clashes and
  that what settles later does not matter, are proved by induction on the workload,
  see below.
* **The map of the world**. `EveryCityHasItsCell` is about the whole pipeline, from
  seats and size classes to the hit test. `GeoInv` says what the layout promises it
  (`SeatsApart`: no two nodes on one slot; `GhostsOK`: vacated ground lies in a zone), and
  is inductive over nodes, ghosts and pods coming and going. The rest is geometry of
  one snapshot, in the order of the code: a city's cell lies on its own province
  (`CityCellInside`) and is nobody else's while the wide band has room
  (`CityCellFree`, by pigeonhole, which is the property's condition on crowding);
  strips of zones are apart by multiples of a strip's width and provinces of a strip by
  multiples of a slot's stride (`StripsApart`, `ProvincesApart`), so that the hit
  test finds one province and one city in it (`CityAtItsCell`). Encampments are
  numbered along their island's rows by how many come before them (`CampNoIs`),
  islands lie south of all land and beside each other (`NoLandBelow`, `IslandsApart`).
  A marker's berth is water, and its own, because the greedy mooring takes a city's
  berths before a later city's (`SoonerTakesMore`, `BerthsApart`, `BerthIsWater`).
  Last, all of it is within the extent that is computed from it (`WidthIs`,
  `DepthIs`).
* **The windows** (`Fit`). What a handler may open is written in its own list of what
  must be closed, so `NothingIsOrphaned` is not inductive by itself: the invariant has
  to say of each window what may be open beside it (`Beside`), besides what it stands
  on (`Standing`). TLC enumerated the 49 sets that a session reaches and showed that
  `Fit` describes these and is inductive from all of them, before it was proved. Each key and each receiver of a
  click has a lemma; the frame's fold is an induction over the 21 receivers. Between
  two of them `Fit` may fail: under the namespace picker a row of the column opens a
  drill-down (`Crossed`), which the next receiver closes with the same click
  (`PanelUncrosses`). `EscClosesTheTop` compares the two hand-written orders, Esc's
  and the drawing's, on the sets that fit. `ClicksAreOwned` follows the click past all
  receivers before the confirmation (`OthersPass`) and after it.

### Assumptions

* `LayoutAssumption`: nodes, zones, pools and instants are sets of naturals (they
  are numbered in the order the code sorts them).
* `StoreAssumption`, `TurnAssumption`, `ChaosAssumption`, `ConsultAssumption`,
  `SloAssumption`: `None` is none of the values it is told from, bounds are
  naturals. `NoneAssumption` (`ChaosDrill`, `Turn`): `None` is no record.
* `WindowsAssumption` (`Slo`): the windows fit in the ring, a slow burn waits for no
  more than the long window, and its threshold is above 1, as `slo.rs:47-90` has it.
* `GeographyAssumption` (`Parts`): finitely many workloads, numbered in key order;
  a province has at least one column. `AttentionAssumption`: pods are numbered in
  the store's order; no workload is of kind *Job*. `InodesAssumption`: there is
  always a fresh inode.
* `MeasuresAssumption` (`Parts`): nodes and zones are finitely many; measures are
  naturals, both bands of columns lie within a province, each size class leaves a row
  to settle on and none is taller than the last, an island is wider than its column of
  camps, as the constants of `world.rs` have it. `SurveysAssumption`: a zone's ordinal
  is its own (which `LayoutProofs` proves of the engine), hashes and namespaces are
  naturals.
* Of `MCSession` and the `Window` nothing more is assumed; the bounds of the counters
  (`MaxDrills`, `MaxConsults`, `MaxStaged`, ...) are arbitrary naturals, so no
  result depends on how small they are for TLC.

### What is not proved

* Liveness, because fairness and ENABLED are out of the prover's reach:
  `UnsavedMapIsSaved`, `AutoRestoreFires`, `PendingEnds`, `EveryCommitAnswered`,
  `BrowserAnsweredUnlessOrphaned`, `AccessVerdictsArrive`, `ForwardsGoneEnd`,
  `BannerSettles`, `CostsSettle`, `MapSettles`.
* Nothing else that the passing runs check: the invariants, action properties and the
  refinement are all theorems.

Induction. The library's induction theorems take an operator as a parameter, which
the provers cannot instantiate, but its least-element theorem for well-founded
relations (`WFMin`) takes a set. `LeastNatural` derives the least-number principle
from it and `UpFromZero` induction over a set of numbers up to a bound, which is
what `NobodyIsDropped` (an ordinal is left unless the last was handed out), the
least pod of a line in the attention queue and the recursion of `Settled` need, and the numbering of camps, the greedy mooring, finite bounds and the frame of
the window as well. A recursive function is unfolded once by constructing it up to each
number (`UpToIs`, `ByIs`).

## 5. Plan

The modules planned are written, and every safety property of the passing runs is
proved. What is left:

1. What `Connection`'s liveness rests on, as invariants: who may still store.
2. The parts listed below that have state of their own: the log tail, the timeline,
   the SLO settings file.

## 6. Not modelled

* Advisors, posture, cost, pair, blast radius, diagnosis, timeline and disruption
  budgets: folds over one snapshot into text and rows, without state, order or
  interleaving, and covered by unit tests.
* Drawing, camera, scrolling, text fields and preferences keep only view state.
* Of the parts modelled: the log tail (checked and stored like a browser's table),
  the SLO settings file, scope chips, model discovery and the arming of a remote
  endpoint in the Oracle, the warm cluster's queue and the lines of claims,
  Ingresses and Services, DaemonSets and custom resources on the map, and files of
  the map that are of a newer version, unreadable, or shared by two contexts.
* The Kubernetes client library, the watch protocol, the file system and the clock
  are the environment. Vendored miniquad, packaging, the churn scripts and the
  site are not part of the program's logic.
