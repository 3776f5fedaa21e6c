----------------------------- MODULE ChaosDrill -----------------------------
(***************************************************************************)
(* Game Day: a drill injects a real fault into the hot cluster and records   *)
(* how to undo it (plan_chaos in state/chaos.rs); the world loop of net.rs   *)
(* runs it, keeps the one live session, and undoes it on demand, after a     *)
(* timer, before a context switch, and - asked by main.rs - before quitting. *)
(*                                                                           *)
(* A resource is one thing a drill changes (a workload's replicas or image,  *)
(* whether a node may be scheduled on, a deny-all policy).  It is "sound" as *)
(* the operator had it, or "hurt" as a drill left it.  Evictions leave       *)
(* nothing to undo: a drill without a change stands for them.                *)
(***************************************************************************)
EXTENDS Naturals

CONSTANTS
  Clusters,   (* the clusters the operator may switch between              *)
  Resources,  (* the things a drill may change in a cluster                *)
  Captured,   (* those whose undo is the value observed at planning        *)
  MaxDrills,  (* bound: drills planned in one run of the program           *)
  None        (* an absent Option, or an empty list of steps               *)

ASSUME ChaosAssumption ==
  /\ Captured \subseteq Resources
  /\ MaxDrills \in Nat

VARIABLES
  state,      (* the real state of every resource of every cluster         *)
  seen,       (* what the watch has shown of the hot cluster's resources   *)
  hot,        (* the cluster the world loop is connected to                *)
  gui,        (* "up", "quitting" or "down"                                *)
  pending,    (* pending_chaos: the run awaiting its confirmation          *)
  chaosReq,   (* the mailbox chaos_req                                     *)
  switchReq,  (* the mailbox `switch'                                      *)
  session,    (* chaos_session, or None                                    *)
  job,        (* the steps the world loop is awaiting, or None             *)
  drills,     (* drills planned so far                                     *)
  lost        (* history: faults nobody will undo, with the reason         *)

vars == <<state, seen, hot, gui, pending, chaosReq, switchReq, session, job, drills, lost>>

-----------------------------------------------------------------------------
Setting == {"sound", "hurt"}
Change  == [res : Resources, to : Setting]
Changes == Change \cup {None}

(* steps and restore hold at most one change that outlives the drill. *)
Run == [steps : Changes, restore : Changes, auto : BOOLEAN, isRestore : BOOLEAN]
Session == [restore : Changes, armed : BOOLEAN, on : Clusters]

(* Why the world loop is running steps, and whether they took effect yet. *)
Job == [why : {"run", "auto", "switch"}, run : Run, written : BOOLEAN,
        to : Clusters \cup {None}]

(* An absent Option is not a present one. *)
ASSUME NoneAssumption == None \notin Change \cup Run \cup Session \cup Job

Reasons == {"superseded", "failed", "captured", "ended"}

Up == gui \in {"up", "quitting"}
Restorable == session # None /\ session.restore # None

(* A run that puts things back, asked for by hand, by quitting, or unasked. *)
Restoring(change) == [steps |-> change, restore |-> None, auto |-> FALSE, isRestore |-> TRUE]

(* The undo plan_chaos records: a cordon or a policy is always removed, a scale
   or an image goes back to what the watch showed. *)
UndoOf(r) == [res |-> r, to |-> IF r \in Captured THEN seen[r] ELSE "sound"]

Lost(change, why) == IF change = None THEN {} ELSE {<<hot, change.res, why>>}

Init ==
  /\ state = [c \in Clusters |-> [r \in Resources |-> "sound"]]
  /\ seen = [r \in Resources |-> "sound"]
  /\ hot \in Clusters
  /\ gui = "up"
  /\ pending = None /\ chaosReq = None /\ switchReq = None
  /\ session = None /\ job = None
  /\ drills = 0
  /\ lost = {}

-----------------------------------------------------------------------------
(* The watch catches up with one resource. *)
Watch(r) ==
  /\ Up
  /\ seen' = [seen EXCEPT ![r] = state[hot][r]]
  /\ UNCHANGED <<state, hot, gui, pending, chaosReq, switchReq, session, job, drills, lost>>

(* The console plans a reversible drill, or one that only kills pods. *)
PlanDrill(r, auto) ==
  /\ Up /\ pending = None
  /\ drills < MaxDrills
  /\ drills' = drills + 1
  /\ pending' = [steps |-> [res |-> r, to |-> "hurt"], restore |-> UndoOf(r),
                 auto |-> auto, isRestore |-> FALSE]
  /\ UNCHANGED <<state, seen, hot, gui, chaosReq, switchReq, session, job, lost>>

PlanKill ==
  /\ Up /\ pending = None
  /\ drills < MaxDrills
  /\ drills' = drills + 1
  /\ pending' = [steps |-> None, restore |-> None, auto |-> FALSE, isRestore |-> FALSE]
  /\ UNCHANGED <<state, seen, hot, gui, chaosReq, switchReq, session, job, lost>>

(* The scorecard's Restore button. *)
PlanRestore ==
  /\ Up /\ pending = None
  /\ Restorable
  /\ pending' = Restoring(session.restore)
  /\ UNCHANGED <<state, seen, hot, gui, chaosReq, switchReq, session, job, drills, lost>>

Confirm ==
  /\ Up /\ pending # None
  /\ chaosReq' = pending
  /\ pending' = None
  /\ UNCHANGED <<state, seen, hot, gui, switchReq, session, job, drills, lost>>

Cancel ==
  /\ Up /\ pending # None
  /\ pending' = None
  /\ UNCHANGED <<state, seen, hot, gui, chaosReq, switchReq, session, job, drills, lost>>

(* The context picker opens only while nothing awaits confirmation. *)
RequestSwitch(c) ==
  /\ Up /\ pending = None
  /\ switchReq' = c
  /\ UNCHANGED <<state, seen, hot, gui, pending, chaosReq, session, job, drills, lost>>

-----------------------------------------------------------------------------
(* The world loop takes a run from its mailbox ... *)
StartRun ==
  /\ Up /\ job = None
  /\ chaosReq # None
  /\ job' = [why |-> "run", run |-> chaosReq, written |-> FALSE, to |-> None]
  /\ chaosReq' = None
  /\ UNCHANGED <<state, seen, hot, gui, pending, switchReq, session, drills, lost>>

(* ... or refuses it: a step touches what the live world says is protected. *)
Refuse ==
  /\ Up /\ job = None
  /\ chaosReq # None
  /\ chaosReq' = None
  /\ UNCHANGED <<state, seen, hot, gui, pending, switchReq, session, job, drills, lost>>

(* A step reaches the cluster.  run_chaos may end without: a dry-run or the
   step itself may fail, and the whole is given 25 seconds. *)
WriteStep ==
  /\ Up /\ job # None
  /\ ~job.written /\ job.run.steps # None
  /\ state' = [state EXCEPT ![hot][job.run.steps.res] = job.run.steps.to]
  /\ job' = [job EXCEPT !.written = TRUE]
  /\ UNCHANGED <<seen, hot, gui, pending, chaosReq, switchReq, session, drills, lost>>

(* A restore that did not take effect. *)
FailedUndo == IF job.written THEN {} ELSE Lost(job.run.steps, "failed")

(* What the new session cannot undo although a drill did it. *)
Superseded ==
  IF ~Restorable THEN {}
  ELSE IF job.run.isRestore /\ job.run.steps = session.restore THEN {}
  ELSE Lost(session.restore, "superseded")

(* An undo that puts a fault back, because it was planned during one. *)
Miscaptured ==
  UNION {Lost(change, "captured") :
           change \in {x \in {job.run.restore, IF job.run.isRestore THEN job.run.steps ELSE None} :
                         x # None /\ x.to = "hurt"}}

(* Mutant: the undo is armed or recorded, not both. *)
NewSessionUnlessArmed(run) ==
  [restore |-> IF run.auto THEN None ELSE run.restore,
   armed |-> run.auto /\ run.restore # None, on |-> hot]

NewSession(run) ==
  [restore |-> run.restore, armed |-> run.auto /\ run.restore # None, on |-> hot]

(* The new session replaces the old one, whatever either still had to undo. *)
EndRun ==
  /\ Up /\ job # None /\ job.why = "run"
  /\ session' = NewSession(job.run)
  /\ job' = None
  /\ lost' = lost \cup Superseded \cup Miscaptured
                  \cup (IF job.run.isRestore THEN FailedUndo ELSE {})
  /\ UNCHANGED <<state, seen, hot, gui, pending, chaosReq, switchReq, drills>>

(* The deadline of an armed session has passed. *)
StartAutoRestore ==
  /\ Up /\ job = None
  /\ Restorable /\ session.armed
  /\ job' = [why |-> "auto", run |-> Restoring(session.restore),
             written |-> FALSE, to |-> None]
  /\ UNCHANGED <<state, seen, hot, gui, pending, chaosReq, switchReq, session, drills, lost>>

(* Mutant: the restore runs, and the session is left as it was. *)
UndoneNot(s) == s

Undone(s) == [s EXCEPT !.restore = None, !.armed = FALSE]

EndAutoRestore ==
  /\ Up /\ job # None /\ job.why = "auto"
  /\ session' = Undone(session)
  /\ job' = None
  /\ lost' = lost \cup FailedUndo
  /\ UNCHANGED <<state, seen, hot, gui, pending, chaosReq, switchReq, drills>>

(* A switch undoes the live drill first, with the client it is leaving. *)
StartSwitch ==
  /\ Up /\ job = None
  /\ switchReq # None
  /\ job' = [why |-> "switch",
             run |-> Restoring(IF Restorable THEN session.restore ELSE None),
             written |-> FALSE, to |-> switchReq]
  /\ switchReq' = None
  /\ UNCHANGED <<state, seen, hot, gui, pending, chaosReq, session, drills, lost>>

(* Mutant: the session of the cluster being left stays live. *)
SessionAfterSwitchKept == session

SessionAfterSwitch == None

EndSwitch ==
  /\ Up /\ job # None /\ job.why = "switch"
  /\ hot' = job.to
  /\ seen' = state[job.to]
  /\ chaosReq' = None
  /\ session' = SessionAfterSwitch
  /\ job' = None
  /\ lost' = lost \cup FailedUndo
  /\ UNCHANGED <<state, gui, pending, switchReq, drills>>

SwitchFails ==
  /\ Up /\ job = None
  /\ switchReq # None
  /\ switchReq' = None
  /\ UNCHANGED <<state, seen, hot, gui, pending, chaosReq, session, job, drills, lost>>

-----------------------------------------------------------------------------
(* Whatever was still to be undone, or was being done, ends with the process. *)
Abandoned ==
  {<<hot, r, "ended">> : r \in {x \in Resources :
     \/ Restorable /\ session.restore.res = x
     \/ job # None /\ job.run.steps # None /\ job.run.steps.res = x}}

Exit ==
  /\ gui' = "down"
  /\ pending' = None /\ chaosReq' = None /\ switchReq' = None
  /\ session' = None /\ job' = None
  /\ lost' = lost \cup Abandoned
  /\ UNCHANGED <<state, seen, hot, drills>>

(* Quitting with something to undo asks the world loop to, and waits. *)
QuitRestoring ==
  /\ gui = "up"
  /\ Restorable
  /\ gui' = "quitting"
  /\ chaosReq' = Restoring(session.restore)
  /\ UNCHANGED <<state, seen, hot, pending, switchReq, session, job, drills, lost>>

(* It looks at the session alone: not at a run requested or in progress. *)
QuitAtOnce == gui = "up" /\ ~Restorable /\ Exit

QuitRestored == gui = "quitting" /\ ~Restorable /\ Exit

(* The backstop of 27 seconds, or the process is killed. *)
Stop == Up /\ Exit

Next ==
  \/ \E r \in Resources : Watch(r)
  \/ \E r \in Resources, auto \in BOOLEAN : PlanDrill(r, auto)
  \/ PlanKill \/ PlanRestore \/ Confirm \/ Cancel
  \/ \E c \in Clusters : RequestSwitch(c)
  \/ StartRun \/ Refuse \/ WriteStep \/ EndRun
  \/ StartAutoRestore \/ EndAutoRestore
  \/ StartSwitch \/ EndSwitch \/ SwitchFails
  \/ QuitRestoring \/ QuitAtOnce \/ QuitRestored \/ Stop

(* The world loop never stops; every await in it is bounded by a timeout. *)
Fairness ==
  /\ WF_vars(StartRun) /\ WF_vars(EndRun)
  /\ WF_vars(StartSwitch) /\ WF_vars(EndSwitch)
  /\ WF_vars(StartAutoRestore) /\ WF_vars(EndAutoRestore)

Spec == Init /\ [][Next]_vars /\ Fairness

-----------------------------------------------------------------------------
TypeOK ==
  /\ state \in [Clusters -> [Resources -> Setting]]
  /\ seen \in [Resources -> Setting]
  /\ hot \in Clusters
  /\ gui \in {"up", "quitting", "down"}
  /\ pending \in Run \cup {None} /\ chaosReq \in Run \cup {None}
  /\ switchReq \in Clusters \cup {None}
  /\ session \in Session \cup {None}
  /\ session # None /\ session.armed => session.restore # None
  /\ job \in Job \cup {None}
  /\ drills \in 0..MaxDrills
  /\ lost \subseteq Clusters \X Resources \X Reasons

Undoes(change, r) == change = [res |-> r, to |-> "sound"]

(* What the world loop is still doing about a resource of the hot cluster. *)
BeingChanged(r) == job # None /\ job.run.steps # None /\ job.run.steps.res = r

(* These are all the ways a drill can strand a cluster: every fault a drill
   left behind can still be undone by the live session, or is being worked on,
   or its undo failed, was planned while the fault was already there, was
   replaced by the session of a later run, or ended with the process.  Neither
   a switch, a refusal, a cancelled dialog nor a late timer loses one. *)
StrandedOnlyForCause ==
  \A c \in Clusters, r \in Resources :
    state[c][r] = "hurt" =>
      \/ \E why \in Reasons : <<c, r, why>> \in lost
      \/ c = hot /\ session # None /\ Undoes(session.restore, r)
      \/ c = hot /\ BeingChanged(r)

(* A restore nobody confirmed - by the timer, or on switching away - runs on
   the cluster its drill was run on, never on the next one. *)
UnattendedRestoresStayHome ==
  [][job = None /\ job' # None /\ job'.why \in {"auto", "switch"} /\ job'.run.steps # None
       => session.on = hot]_vars

(* An armed drill is undone, or at least tried, or replaced by another one. *)
Armed == Restorable /\ session.armed
AutoRestoreFires == Armed ~> ~Armed
=============================================================================
