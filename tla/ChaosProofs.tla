----------------------------- MODULE ChaosProofs -----------------------------
(***************************************************************************)
(* Proofs about ChaosDrill, for any clusters, resources and bound on drills: *)
(* no fault is stranded but for a recorded cause, and an unattended restore  *)
(* runs on the cluster of its drill.  The inductive invariant adds what the   *)
(* run in progress has written, what an unattended restore is a restore of,  *)
(* and that every drill on its way knows the undo of what it will hurt.      *)
(***************************************************************************)
EXTENDS ChaosDrill, TLAPS

(* A drill that hurts something carries the undo of it. *)
Undoable(run) ==
  run # None /\ ~run.isRestore /\ run.steps # None =>
    run.restore # None /\ run.restore.res = run.steps.res

DrillsAreUndoable ==
  Undoable(pending) /\ Undoable(chaosReq) /\ (job # None => Undoable(job.run))

(* What the run in progress has written is there. *)
WrittenIsThere ==
  job # None /\ job.written =>
    job.run.steps # None /\ state[hot][job.run.steps.res] = job.run.steps.to

(* An unattended restore puts back what the live session says. *)
UnattendedUndoesTheSession ==
  job # None /\ job.why # "run" =>
    /\ job.run.steps = IF Restorable THEN session.restore ELSE None
    /\ job.why = "auto" => session # None
    /\ job.why = "switch" => job.to \in Clusters

(* The session is the connected cluster's, and if its undo would put a fault back
   that is on record. *)
SessionIsHere ==
  session # None =>
    /\ session.on = hot
    /\ session.restore # None /\ session.restore.to = "hurt" =>
         <<hot, session.restore.res, "captured">> \in lost

IInv ==
  /\ TypeOK
  /\ DrillsAreUndoable
  /\ WrittenIsThere
  /\ UnattendedUndoesTheSession
  /\ SessionIsHere
  /\ StrandedOnlyForCause

-----------------------------------------------------------------------------
(* The records the loop and the window make. *)
LEMMA ChangeFacts ==
  ASSUME NEW r \in Resources, NEW to \in Setting
  PROVE  /\ [res |-> r, to |-> to] \in Change /\ [res |-> r, to |-> to] # None
         /\ [res |-> r, to |-> to].res = r /\ [res |-> r, to |-> to].to = to
  BY NoneAssumption DEF Change

LEMMA RunFields ==
  ASSUME NEW run \in Run
  PROVE  /\ run # None /\ run.auto \in BOOLEAN /\ run.isRestore \in BOOLEAN
         /\ run.steps \in Changes /\ run.restore \in Changes
         /\ run.steps # None => run.steps.res \in Resources /\ run.steps.to \in Setting
         /\ run.restore # None => run.restore.res \in Resources /\ run.restore.to \in Setting
  BY NoneAssumption DEF Run, Changes, Change

LEMMA RestoringFacts ==
  ASSUME NEW change \in Changes
  PROVE  /\ Restoring(change) \in Run /\ Restoring(change) # None
         /\ Restoring(change).steps = change /\ Restoring(change).restore = None
         /\ Restoring(change).isRestore /\ Undoable(Restoring(change))
  <1>1. None \in Changes
    BY DEF Changes
  <1>2. /\ Restoring(change).steps = change /\ Restoring(change).restore = None
        /\ Restoring(change).isRestore
    BY DEF Restoring
  <1>3. Restoring(change) \in Run
    BY <1>1 DEF Run, Restoring
  <1> QED
    BY <1>2, <1>3, NoneAssumption DEF Undoable

LEMMA JobFields ==
  ASSUME NEW j \in Job
  PROVE  /\ j.why \in {"run", "auto", "switch"} /\ j.run \in Run /\ j.written \in BOOLEAN
         /\ j.to \in Clusters \cup {None}
  BY DEF Job

LEMMA SessionFields ==
  ASSUME NEW s \in Session
  PROVE  s # None /\ s.restore \in Changes /\ s.armed \in BOOLEAN /\ s.on \in Clusters
  BY NoneAssumption DEF Session

(* A fault is put on record under the cluster connected to. *)
LEMMA LostFacts ==
  ASSUME hot \in Clusters, NEW change \in Changes, NEW why \in Reasons
  PROVE  /\ Lost(change, why) \subseteq Clusters \X Resources \X Reasons
         /\ change # None => <<hot, change.res, why>> \in Lost(change, why)
  BY DEF Lost, Changes, Change

(* What a failed undo, a replaced session and a fault captured as an undo record. *)
LEMMA RecordsTyped ==
  ASSUME TypeOK, job # None
  PROVE  /\ FailedUndo \subseteq Clusters \X Resources \X Reasons
         /\ Superseded \subseteq Clusters \X Resources \X Reasons
         /\ Miscaptured \subseteq Clusters \X Resources \X Reasons
  <1>1. /\ job.run.steps \in Changes /\ job.run.restore \in Changes /\ hot \in Clusters
        /\ {"failed", "superseded", "captured"} \subseteq Reasons
    BY RunFields, JobFields DEF TypeOK, Reasons
  <1>2. Restorable => session.restore \in Changes
    BY SessionFields DEF TypeOK, Restorable
  <1>3. \A x \in Changes : Lost(x, "captured") \subseteq Clusters \X Resources \X Reasons
    BY <1>1, LostFacts
  <1>4. Miscaptured \subseteq Clusters \X Resources \X Reasons
    <2>1. ASSUME NEW l \in Miscaptured PROVE l \in Clusters \X Resources \X Reasons
      <3>1. PICK x \in {job.run.restore, IF job.run.isRestore THEN job.run.steps ELSE None} :
              x # None /\ l \in Lost(x, "captured")
        BY <2>1 DEF Miscaptured
      <3> QED
        BY <1>1, <1>3, <3>1
    <2> QED
      BY <2>1
  <1> QED
    BY <1>1, <1>2, <1>4, LostFacts DEF FailedUndo, Superseded

(* What the loop is at: a run, or an unattended restore of the live session. *)
LEMMA FailedUndoFacts ==
  ASSUME TypeOK, job # None, ~job.written, job.run.steps # None
  PROVE  <<hot, job.run.steps.res, "failed">> \in FailedUndo
  BY RunFields, JobFields, LostFacts DEF TypeOK, FailedUndo, Reasons

LEMMA MiscapturedFacts ==
  ASSUME TypeOK, job # None
  PROVE  /\ job.run.restore # None /\ job.run.restore.to = "hurt" =>
              <<hot, job.run.restore.res, "captured">> \in Miscaptured
         /\ job.run.isRestore /\ job.run.steps # None /\ job.run.steps.to = "hurt" =>
              <<hot, job.run.steps.res, "captured">> \in Miscaptured
  <1>1. ASSUME NEW x \in Changes, x # None, x.to = "hurt",
               x \in {job.run.restore, IF job.run.isRestore THEN job.run.steps ELSE None}
        PROVE  <<hot, x.res, "captured">> \in Miscaptured
    <2>1. <<hot, x.res, "captured">> \in Lost(x, "captured")
      BY <1>1, LostFacts DEF TypeOK, Reasons
    <2> QED
      BY <1>1, <2>1 DEF Miscaptured
  <1> QED
    BY <1>1, RunFields, JobFields DEF TypeOK

LEMMA SupersededFacts ==
  ASSUME TypeOK, job # None, Restorable,
         ~(job.run.isRestore /\ job.run.steps = session.restore)
  PROVE  <<hot, session.restore.res, "superseded">> \in Superseded
  BY LostFacts, SessionFields DEF TypeOK, Superseded, Restorable, Reasons

-----------------------------------------------------------------------------
(* A step that leaves the cluster, the session and the records as they are, and at
   most starts a run or an unattended restore, keeps what is said of them. *)
Quiet ==
  /\ UNCHANGED <<state, hot, session, lost>>
  /\ job' = job \/ job = None

LEMMA QuietKeepsFaults ==
  ASSUME IInv, Quiet
  PROVE  StrandedOnlyForCause' /\ SessionIsHere'
  <1> USE DEF IInv, Quiet
  <1>1. SessionIsHere'
    BY DEF SessionIsHere
  <1>2. \A r : BeingChanged(r) => BeingChanged(r)'
    BY DEF BeingChanged
  <1> QED
    BY <1>1, <1>2 DEF StrandedOnlyForCause

(* The watch, the console and the dialogs. *)
LEMMA ConsoleStep ==
  ASSUME IInv,
         \/ \E r \in Resources : Watch(r)
         \/ \E r \in Resources, auto \in BOOLEAN : PlanDrill(r, auto)
         \/ PlanKill \/ PlanRestore \/ Confirm \/ Cancel
         \/ \E c \in Clusters : RequestSwitch(c)
         \/ Refuse \/ SwitchFails \/ QuitRestoring
  PROVE  IInv'
  <1> USE DEF IInv
  <1>1. UNCHANGED <<state, hot, session, lost, job>>
    BY DEF Watch, PlanDrill, PlanKill, PlanRestore, Confirm, Cancel, RequestSwitch, Refuse,
           SwitchFails, QuitRestoring
  <1>2. StrandedOnlyForCause' /\ SessionIsHere'
    BY <1>1, QuietKeepsFaults DEF Quiet
  <1>3. WrittenIsThere' /\ UnattendedUndoesTheSession'
    BY <1>1 DEF WrittenIsThere, UnattendedUndoesTheSession, Restorable
  <1>4. ASSUME Restorable
        PROVE  /\ Restoring(session.restore) \in Run
               /\ Undoable(Restoring(session.restore))
    BY <1>4, SessionFields, RestoringFacts DEF TypeOK, Restorable
  <1>5. ASSUME NEW r \in Resources, NEW auto \in BOOLEAN, PlanDrill(r, auto)
        PROVE  pending' \in Run /\ Undoable(pending')
    <2>1. UndoOf(r) \in Change /\ UndoOf(r) # None /\ UndoOf(r).res = r
      <3>1. (IF r \in Captured THEN seen[r] ELSE "sound") \in Setting
        BY DEF TypeOK, Setting
      <3> QED
        BY <3>1, ChangeFacts DEF UndoOf
    <2>2. [res |-> r, to |-> "hurt"] \in Change
      BY ChangeFacts DEF Setting
    <2> DEFINE hurting == [res |-> r, to |-> "hurt"]
               undo == UndoOf(r)
    <2>3. hurting.res = r
      OBVIOUS
    <2>4. pending' = [steps |-> hurting, restore |-> undo, auto |-> auto, isRestore |-> FALSE]
      BY <1>5 DEF PlanDrill
    <2> HIDE DEF hurting, undo
    <2>5. pending' \in Run
      BY <2>1, <2>2, <2>4 DEF Run, Changes, hurting, undo
    <2>6. pending'.steps = hurting /\ pending'.restore = undo
      BY <2>4
    <2> QED
      BY <2>1, <2>3, <2>5, <2>6 DEF Undoable, undo
  <1>6. PlanKill => pending' \in Run /\ Undoable(pending')
    <2>1. [steps |-> None, restore |-> None, auto |-> FALSE, isRestore |-> FALSE] \in Run
      BY DEF Run, Changes
    <2> QED
      BY <2>1 DEF PlanKill, Undoable
  <1>7. /\ pending' \in Run \cup {None} /\ Undoable(pending)'
        /\ chaosReq' \in Run \cup {None} /\ Undoable(chaosReq)'
    <2>1. Undoable(None)
      BY DEF Undoable
    <2> QED
      BY <1>4, <1>5, <1>6, <2>1
      DEF TypeOK, DrillsAreUndoable, Undoable, Watch, PlanKill, PlanRestore, Confirm, Cancel,
          RequestSwitch, Refuse, SwitchFails, QuitRestoring, PlanDrill
  <1>8. DrillsAreUndoable'
    BY <1>1, <1>7 DEF DrillsAreUndoable, Undoable
  <1>9. /\ seen' \in [Resources -> Setting] /\ gui' \in {"up", "quitting", "down"}
        /\ switchReq' \in Clusters \cup {None} /\ drills' \in 0..MaxDrills
    BY ChaosAssumption DEF TypeOK, Watch, PlanDrill, PlanKill, PlanRestore, Confirm, Cancel,
           RequestSwitch, Refuse, SwitchFails, QuitRestoring
  <1>10. TypeOK'
    BY <1>1, <1>7, <1>9 DEF TypeOK
  <1> QED
    BY <1>2, <1>3, <1>8, <1>10

(* The loop takes up a run, the restore of an armed session, or a switch. *)
LEMMA StartStep ==
  ASSUME IInv, StartRun \/ StartAutoRestore \/ StartSwitch
  PROVE  IInv'
  <1> USE DEF IInv
  <1>1. UNCHANGED <<state, hot, session, lost, seen, gui, pending, drills>> /\ job = None
    BY DEF StartRun, StartAutoRestore, StartSwitch
  <1>2. StrandedOnlyForCause' /\ SessionIsHere'
    BY <1>1, QuietKeepsFaults DEF Quiet
  <1> DEFINE restored == IF Restorable THEN session.restore ELSE None
  <1>3. restored \in Changes
    BY SessionFields DEF TypeOK, Restorable, Changes
  <1> HIDE DEF restored
  <1>4. CASE StartRun
    <2>1. /\ job' = [why |-> "run", run |-> chaosReq, written |-> FALSE, to |-> None]
          /\ chaosReq \in Run /\ chaosReq' = None /\ switchReq' = switchReq
      BY <1>4 DEF StartRun, TypeOK
    <2>2. /\ job' \in Job /\ job'.run = chaosReq /\ job'.why = "run" /\ ~job'.written
      BY <2>1 DEF Job
    <2>3. TypeOK'
      BY <1>1, <2>1, <2>2 DEF TypeOK
    <2>4. DrillsAreUndoable'
      BY <1>1, <2>1, <2>2 DEF DrillsAreUndoable, Undoable
    <2> QED
      BY <1>2, <2>2, <2>3, <2>4 DEF WrittenIsThere, UnattendedUndoesTheSession
  <1>5. ASSUME NEW why \in {"auto", "switch"}, NEW to \in Clusters \cup {None},
               job' = [why |-> why, run |-> Restoring(restored), written |-> FALSE, to |-> to],
               why = "auto" => session # None, why = "switch" => to \in Clusters,
               switchReq' \in Clusters \cup {None}, chaosReq' = chaosReq
        PROVE  IInv'
    <2>1. Restoring(restored) \in Run
      BY <1>3, RestoringFacts
    <2>2. /\ job' \in Job /\ job'.run = Restoring(restored) /\ job'.why = why
          /\ ~job'.written /\ job'.to = to
      BY <1>5, <2>1 DEF Job
    <2>3. job'.run.steps = restored /\ Undoable(job'.run)
      BY <1>3, <2>2, RestoringFacts
    <2>4. TypeOK'
      BY <1>1, <1>5, <2>2 DEF TypeOK
    <2>5. DrillsAreUndoable'
      BY <1>1, <1>5, <2>3 DEF DrillsAreUndoable, Undoable
    <2>6. UnattendedUndoesTheSession'
      BY <1>1, <1>5, <2>2, <2>3 DEF UnattendedUndoesTheSession, Restorable, restored
    <2> QED
      BY <1>2, <2>2, <2>4, <2>5, <2>6 DEF WrittenIsThere
  <1>6. CASE StartAutoRestore
    BY <1>5, <1>6 DEF StartAutoRestore, Restorable, restored, TypeOK
  <1>7. CASE StartSwitch
    BY <1>5, <1>7 DEF StartSwitch, restored, TypeOK
  <1> QED
    BY <1>4, <1>6, <1>7

(* A step of the run reaches the cluster: the loop is still at it, whatever it
   hurts, and nothing else of the cluster changes. *)
LEMMA WriteStepInv ==
  ASSUME IInv, WriteStep
  PROVE  IInv'
  <1> USE DEF IInv
  <1> DEFINE r0 == job.run.steps.res
             to0 == job.run.steps.to
  <1>0. job \in Job /\ ~job.written /\ job.run.steps # None
    BY DEF WriteStep, TypeOK
  <1>1. r0 \in Resources /\ to0 \in Setting /\ hot \in Clusters
    BY <1>0, JobFields, RunFields DEF TypeOK
  <1>2. /\ UNCHANGED <<seen, hot, gui, pending, chaosReq, switchReq, session, drills, lost>>
        /\ state' = [state EXCEPT ![hot][r0] = to0]
        /\ job' = [job EXCEPT !.written = TRUE]
    BY DEF WriteStep
  <1>3. /\ job' \in Job /\ job'.run = job.run /\ job'.why = job.why /\ job'.to = job.to
    BY <1>0, <1>2 DEF Job
  <1>4. job' # None /\ \A r \in Resources : r = r0 => BeingChanged(r)'
    BY <1>0, <1>3, NoneAssumption DEF BeingChanged
  <1> HIDE DEF r0, to0
  <1>5. /\ state' \in [Clusters -> [Resources -> Setting]]
        /\ state'[hot][r0] = to0
        /\ \A c \in Clusters, r \in Resources :
             c # hot \/ r # r0 => state'[c][r] = state[c][r]
    BY <1>1, <1>2 DEF TypeOK
  <1>6. TypeOK'
    BY <1>2, <1>3, <1>5 DEF TypeOK
  <1>7. DrillsAreUndoable'
    BY <1>0, <1>2, <1>3, NoneAssumption DEF DrillsAreUndoable, Undoable
  <1>8. WrittenIsThere'
    BY <1>0, <1>2, <1>3, <1>5 DEF WrittenIsThere, r0, to0
  <1>9. UnattendedUndoesTheSession'
    BY <1>0, <1>2, <1>3, NoneAssumption DEF UnattendedUndoesTheSession, Restorable
  <1>10. SessionIsHere'
    BY <1>2 DEF SessionIsHere
  <1>11. StrandedOnlyForCause'
    <2> SUFFICES ASSUME NEW c \in Clusters, NEW r \in Resources, state'[c][r] = "hurt"
                 PROVE  \/ \E why \in Reasons : <<c, r, why>> \in lost'
                        \/ c = hot' /\ session' # None /\ Undoes(session.restore, r)'
                        \/ c = hot' /\ BeingChanged(r)'
      BY DEF StrandedOnlyForCause
    <2>1. CASE c = hot /\ r = r0
      BY <1>2, <1>4, <2>1
    <2>2. CASE c # hot \/ r # r0
      <3>1. state[c][r] = "hurt"
        BY <1>5, <2>2
      <3>2. BeingChanged(r) => BeingChanged(r)'
        BY <1>3, <1>4 DEF BeingChanged
      <3> QED
        BY <1>2, <3>1, <3>2 DEF StrandedOnlyForCause, Undoes
    <2> QED
      BY <2>1, <2>2
  <1> QED
    BY <1>6, <1>7, <1>8, <1>9, <1>10, <1>11

(* What ends undoes a fault, or puts it on record: the cases that EndAutoRestore
   and EndSwitch share. *)
LEMMA UnattendedEnds ==
  ASSUME IInv, job # None, job.why # "run", NEW r \in Resources, state[hot][r] = "hurt",
         \/ session # None /\ Undoes(session.restore, r)
         \/ BeingChanged(r)
  PROVE  \E why \in Reasons : <<hot, r, why>> \in lost \cup FailedUndo
  <1> USE DEF IInv
  <1>0. "failed" \in Reasons /\ "captured" \in Reasons
    BY DEF Reasons
  <1>1. job.run.steps # None /\ job.run.steps.res = r /\ Restorable
        /\ job.run.steps = session.restore
    <2>1. CASE BeingChanged(r)
      BY <2>1 DEF BeingChanged, UnattendedUndoesTheSession
    <2>2. CASE session # None /\ Undoes(session.restore, r)
      <3>1. session.restore # None /\ session.restore.res = r
        BY <2>2, ChangeFacts DEF Undoes, Setting
      <3> QED
        BY <2>2, <3>1 DEF UnattendedUndoesTheSession, Restorable
    <2> QED
      BY <2>1, <2>2
  <1>2. CASE ~job.written
    BY <1>0, <1>1, <1>2, FailedUndoFacts
  <1>3. CASE job.written
    <2>1. job.run.steps.to = "hurt"
      BY <1>1, <1>3 DEF WrittenIsThere
    <2>2. <<hot, r, "captured">> \in lost
      BY <1>1, <2>1 DEF SessionIsHere, Restorable
    <2> QED
      BY <1>0, <2>2
  <1> QED
    BY <1>2, <1>3

LEMMA EndAutoRestoreInv ==
  ASSUME IInv, EndAutoRestore
  PROVE  IInv'
  <1> USE DEF IInv
  <1>0. job \in Job /\ job.why = "auto" /\ session \in Session
    BY DEF EndAutoRestore, TypeOK, UnattendedUndoesTheSession
  <1>1. /\ UNCHANGED <<state, seen, hot, gui, pending, chaosReq, switchReq, drills>>
        /\ job' = None /\ lost' = lost \cup FailedUndo
    BY DEF EndAutoRestore
  <1>2. /\ session' \in Session /\ session'.restore = None /\ session'.armed = FALSE
        /\ session'.on = session.on
    <2>1. session' = [session EXCEPT !.restore = None, !.armed = FALSE]
      BY DEF EndAutoRestore, Undone
    <2> QED
      BY <1>0, <2>1 DEF Session, Changes
  <1>3. TypeOK'
    BY <1>0, <1>1, <1>2, RecordsTyped, NoneAssumption DEF TypeOK
  <1>4. DrillsAreUndoable' /\ WrittenIsThere' /\ UnattendedUndoesTheSession'
    BY <1>1 DEF DrillsAreUndoable, Undoable, WrittenIsThere, UnattendedUndoesTheSession
  <1>5. SessionIsHere'
    BY <1>0, <1>1, <1>2, NoneAssumption DEF SessionIsHere
  <1>6. StrandedOnlyForCause'
    <2> SUFFICES ASSUME NEW c \in Clusters, NEW r \in Resources, state[c][r] = "hurt"
                 PROVE  \E why \in Reasons : <<c, r, why>> \in lost'
      BY <1>1 DEF StrandedOnlyForCause
    <2> QED
      BY <1>0, <1>1, UnattendedEnds, NoneAssumption DEF StrandedOnlyForCause
  <1> QED
    BY <1>3, <1>4, <1>5, <1>6

LEMMA EndSwitchInv ==
  ASSUME IInv, EndSwitch
  PROVE  IInv'
  <1> USE DEF IInv
  <1>0. job \in Job /\ job.why = "switch" /\ job # None
    BY DEF EndSwitch, TypeOK
  <1>1. /\ UNCHANGED <<state, gui, pending, switchReq, drills>>
        /\ hot' = job.to /\ seen' = state[job.to] /\ chaosReq' = None /\ session' = None
        /\ job' = None /\ lost' = lost \cup FailedUndo
    BY DEF EndSwitch, SessionAfterSwitch
  <1>2. job.to \in Clusters
    BY <1>0 DEF UnattendedUndoesTheSession
  <1>3. TypeOK'
    BY <1>0, <1>1, <1>2, RecordsTyped DEF TypeOK
  <1>4. DrillsAreUndoable' /\ WrittenIsThere' /\ UnattendedUndoesTheSession' /\ SessionIsHere'
    BY <1>1 DEF DrillsAreUndoable, Undoable, WrittenIsThere, UnattendedUndoesTheSession,
                SessionIsHere
  <1>5. StrandedOnlyForCause'
    <2> SUFFICES ASSUME NEW c \in Clusters, NEW r \in Resources, state[c][r] = "hurt"
                 PROVE  \E why \in Reasons : <<c, r, why>> \in lost'
      BY <1>1 DEF StrandedOnlyForCause
    <2> QED
      BY <1>0, <1>1, UnattendedEnds DEF StrandedOnlyForCause
  <1> QED
    BY <1>3, <1>4, <1>5

(* The end of the process: what was still to be undone is abandoned. *)
LEMMA ExitInv ==
  ASSUME IInv, Exit
  PROVE  IInv'
  <1> USE DEF IInv
  <1>1. /\ UNCHANGED <<state, seen, hot, drills>>
        /\ gui' = "down" /\ pending' = None /\ chaosReq' = None /\ switchReq' = None
        /\ session' = None /\ job' = None /\ lost' = lost \cup Abandoned
    BY DEF Exit
  <1>2. Abandoned \subseteq Clusters \X Resources \X Reasons
    BY DEF Abandoned, TypeOK, Reasons
  <1>3. TypeOK'
    BY <1>1, <1>2 DEF TypeOK
  <1>4. DrillsAreUndoable' /\ WrittenIsThere' /\ UnattendedUndoesTheSession' /\ SessionIsHere'
    BY <1>1 DEF DrillsAreUndoable, Undoable, WrittenIsThere, UnattendedUndoesTheSession,
                SessionIsHere
  <1>5. StrandedOnlyForCause'
    <2> SUFFICES ASSUME NEW c \in Clusters, NEW r \in Resources, state[c][r] = "hurt"
                 PROVE  \E why \in Reasons : <<c, r, why>> \in lost'
      BY <1>1 DEF StrandedOnlyForCause
    <2>1. CASE \E why \in Reasons : <<c, r, why>> \in lost
      BY <1>1, <2>1
    <2>2. CASE c = hot /\ session # None /\ Undoes(session.restore, r)
      <3>1. Restorable /\ session.restore.res = r
        BY <2>2, ChangeFacts DEF Restorable, Undoes, Setting
      <3> QED
        BY <1>1, <2>2, <3>1 DEF Abandoned, Reasons
    <2>3. CASE c = hot /\ BeingChanged(r)
      BY <1>1, <2>3 DEF BeingChanged, Abandoned, Reasons
    <2> QED
      BY <2>1, <2>2, <2>3 DEF StrandedOnlyForCause
  <1> QED
    BY <1>3, <1>4, <1>5

(* The end of a run: its session replaces the live one.  A fault the old session
   could undo is on record as superseded, unless the run was that very undo; a
   fault of the run is the new session's to undo, or on record as captured. *)
LEMMA EndRunInv ==
  ASSUME IInv, EndRun
  PROVE  IInv'
  <1> USE DEF IInv
  <1>0. job \in Job /\ job # None /\ job.run \in Run
    BY JobFields DEF EndRun, TypeOK
  <1>1. /\ UNCHANGED <<state, seen, hot, gui, pending, chaosReq, switchReq, drills>>
        /\ job' = None /\ session' = NewSession(job.run)
        /\ lost' = lost \cup Superseded \cup Miscaptured
                        \cup (IF job.run.isRestore THEN FailedUndo ELSE {})
    BY DEF EndRun
  <1>2. /\ session' \in Session /\ session' # None /\ session'.restore = job.run.restore
        /\ session'.on = hot /\ (session'.armed => session'.restore # None)
    <2>1. job.run.auto \in BOOLEAN /\ job.run.restore \in Changes /\ hot \in Clusters
      BY <1>0, RunFields DEF TypeOK
    <2> DEFINE restore == job.run.restore
               armed == job.run.auto /\ job.run.restore # None
    <2>2. session' = [restore |-> restore, armed |-> armed, on |-> hot]
      BY <1>1 DEF NewSession
    <2>3. armed \in BOOLEAN /\ (armed => restore # None)
      OBVIOUS
    <2> HIDE DEF armed, restore
    <2>4. session' \in Session
      BY <2>1, <2>2, <2>3 DEF Session, restore
    <2>5. session'.restore = restore /\ session'.armed = armed /\ session'.on = hot
      BY <2>2
    <2> QED
      BY <2>3, <2>4, <2>5, SessionFields DEF restore
  <1>3. TypeOK'
    BY <1>0, <1>1, <1>2, RecordsTyped DEF TypeOK
  <1>4. DrillsAreUndoable' /\ WrittenIsThere' /\ UnattendedUndoesTheSession'
    BY <1>1 DEF DrillsAreUndoable, Undoable, WrittenIsThere, UnattendedUndoesTheSession
  <1>5. SessionIsHere'
    BY <1>0, <1>1, <1>2, MiscapturedFacts DEF SessionIsHere
  <1>6. StrandedOnlyForCause'
    <2> SUFFICES ASSUME NEW c \in Clusters, NEW r \in Resources, state[c][r] = "hurt"
                 PROVE  \/ \E why \in Reasons : <<c, r, why>> \in lost'
                        \/ c = hot /\ session' # None /\ Undoes(session'.restore, r)
      BY <1>1 DEF StrandedOnlyForCause, Undoes
    <2>0. {"failed", "superseded", "captured"} \subseteq Reasons
      BY DEF Reasons
    <2>1. CASE \E why \in Reasons : <<c, r, why>> \in lost
      BY <1>1, <2>1
    <2>2. CASE c = hot /\ session # None /\ Undoes(session.restore, r)
      <3>1. Restorable /\ session.restore.res = r /\ session.restore.to = "sound"
        BY <2>2, ChangeFacts DEF Restorable, Undoes, Setting
      <3>2. CASE ~(job.run.isRestore /\ job.run.steps = session.restore)
        BY <1>0, <1>1, <2>0, <2>2, <3>1, <3>2, SupersededFacts
      <3>3. CASE job.run.isRestore /\ job.run.steps = session.restore
        <4>1. ~job.written /\ job.run.steps # None
          BY <1>0, <2>2, <3>1, <3>3 DEF WrittenIsThere, Restorable
        <4> QED
          BY <1>0, <1>1, <2>0, <2>2, <3>1, <3>3, <4>1, FailedUndoFacts
      <3> QED
        BY <3>2, <3>3
    <2>3. CASE c = hot /\ BeingChanged(r)
      <3>1. job.run.steps # None /\ job.run.steps.res = r
        BY <2>3 DEF BeingChanged
      <3>2. CASE job.run.isRestore /\ ~job.written
        BY <1>0, <1>1, <2>0, <2>3, <3>1, <3>2, FailedUndoFacts
      <3>3. CASE job.run.isRestore /\ job.written
        <4>1. job.run.steps.to = "hurt"
          BY <1>0, <2>3, <3>1, <3>3 DEF WrittenIsThere
        <4> QED
          BY <1>0, <1>1, <2>0, <2>3, <3>1, <3>3, <4>1, MiscapturedFacts
      <3>4. CASE ~job.run.isRestore
        <4>1. job.run.restore # None /\ job.run.restore.res = r
          BY <1>0, <3>1, <3>4, RunFields DEF DrillsAreUndoable, Undoable
        <4>2. CASE job.run.restore.to = "hurt"
          BY <1>0, <1>1, <2>0, <2>3, <4>1, <4>2, MiscapturedFacts
        <4>3. CASE job.run.restore.to # "hurt"
          <5>1. job.run.restore = [res |-> r, to |-> "sound"]
            BY <1>0, <4>1, <4>3, RunFields DEF Changes, Change, Setting
          <5> QED
            BY <1>2, <2>3, <5>1 DEF Undoes
        <4> QED
          BY <4>2, <4>3
      <3> QED
        BY <3>2, <3>3, <3>4
    <2> QED
      BY <2>1, <2>2, <2>3 DEF StrandedOnlyForCause
  <1> QED
    BY <1>3, <1>4, <1>5, <1>6

-----------------------------------------------------------------------------
LEMMA InitInv == Init => IInv
  <1> SUFFICES ASSUME Init PROVE IInv
    OBVIOUS
  <1>1. TypeOK
    BY ChaosAssumption DEF Init, TypeOK, Setting
  <1>2. StrandedOnlyForCause
    BY DEF Init, StrandedOnlyForCause
  <1> QED
    BY <1>1, <1>2 DEF Init, IInv, DrillsAreUndoable, Undoable, WrittenIsThere,
                      UnattendedUndoesTheSession, SessionIsHere

LEMMA NextInv == IInv /\ [Next]_vars => IInv'
  <1> SUFFICES ASSUME IInv, [Next]_vars PROVE IInv'
    OBVIOUS
  <1>1. CASE UNCHANGED vars
    <2>1. TypeOK'
      BY <1>1 DEF vars, IInv, TypeOK
    <2>2. DrillsAreUndoable' /\ WrittenIsThere' /\ UnattendedUndoesTheSession'
      BY <1>1 DEF vars, IInv, DrillsAreUndoable, Undoable, WrittenIsThere,
                  UnattendedUndoesTheSession, Restorable
    <2>3. SessionIsHere' /\ StrandedOnlyForCause'
      BY <1>1, QuietKeepsFaults DEF vars, Quiet
    <2> QED
      BY <2>1, <2>2, <2>3 DEF IInv
  <1>2. CASE QuitAtOnce \/ QuitRestored \/ Stop
    BY <1>2, ExitInv DEF QuitAtOnce, QuitRestored, Stop
  <1> QED
    BY <1>1, <1>2, ConsoleStep, StartStep, WriteStepInv, EndRunInv, EndAutoRestoreInv,
       EndSwitchInv DEF Next

(* The inductive invariant holds in every state of every behaviour. *)
THEOREM Inductive == Spec => []IInv
  BY InitInv, NextInv, PTL DEF Spec

(* The cluster's settings, the mailboxes, the live session and the run in progress
   are what net.rs declares them to be, and an armed session has an undo. *)
THEOREM TypeCorrect == Spec => []TypeOK
  <1>1. IInv => TypeOK
    BY DEF IInv
  <1> QED
    BY <1>1, Inductive, PTL

(* A fault a drill left in a cluster can be undone by the live session, or is being
   worked on, or is on record with one of four reasons - its undo failed, it was
   captured as one, a later run's session replaced it, the process ended.  No
   cancelled dialog, refusal, switch or timer loses one in another way. *)
THEOREM NoSilentStranding == Spec => []StrandedOnlyForCause
  <1>1. IInv => StrandedOnlyForCause
    BY DEF IInv
  <1> QED
    BY <1>1, Inductive, PTL

(* The restore of an armed session and the one before a switch start on the cluster
   the drill was run on (the world loop's sweep and its switch in net.rs). *)
THEOREM RestoresStayHome == Spec => UnattendedRestoresStayHome
  <1>1. IInv /\ [Next]_vars =>
          [job = None /\ job' # None /\ job'.why \in {"auto", "switch"}
             /\ job'.run.steps # None => session.on = hot]_vars
    <2> SUFFICES ASSUME IInv, Next, job = None, job' # None,
                        job'.why \in {"auto", "switch"}, job'.run.steps # None
                 PROVE  session.on = hot
      OBVIOUS
    <2>1. CASE Restorable
      BY <2>1 DEF IInv, SessionIsHere, Restorable
    <2>2. CASE StartRun
      BY <2>2 DEF StartRun
    <2>3. CASE StartSwitch /\ ~Restorable
      BY <2>3 DEF StartSwitch, Restoring
    <2>4. CASE StartAutoRestore
      BY <2>1, <2>4 DEF StartAutoRestore
    <2> QED
      BY <2>1, <2>2, <2>3, <2>4
      DEF Next, Watch, PlanDrill, PlanKill, PlanRestore, Confirm, Cancel, RequestSwitch,
          Refuse, WriteStep, EndRun, EndAutoRestore, EndSwitch, SwitchFails, QuitRestoring,
          QuitAtOnce, QuitRestored, Stop, Exit
  <1> QED
    BY <1>1, Inductive, PTL DEF Spec, UnattendedRestoresStayHome
=============================================================================
