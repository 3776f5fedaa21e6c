-------------------------------- MODULE Turn --------------------------------
(***************************************************************************)
(* The planning turn: the window of main.rs stages changes (state/           *)
(* planned.rs), reviews them at "End of Turn" and, after a confirmation,     *)
(* leaves the whole turn in the mailbox plan_req; the world loop of net.rs   *)
(* takes it and commits it (commit_interventions in k8s/actions.rs): every   *)
(* change is first tried with a server-side dry-run, and only if all pass is *)
(* each written for real.  The answer comes back in plan_outcome.            *)
(*                                                                           *)
(* A change is a target (a workload's replicas, restart or rollback, one     *)
(* container's image, a node's cordon) and the value wanted for it.  Whether *)
(* the review shows a change as already in force depends on what the watch   *)
(* has seen, which may be anything: the Commit button needs a staged change. *)
(***************************************************************************)
EXTENDS Naturals, SequencesExt, FiniteSets

CONSTANTS
  Clusters,    (* the clusters the operator may switch between             *)
  Targets,     (* what a change may be about                               *)
  Values,      (* what may be wanted for a target                          *)
  MaxStaged,   (* bound: changes staged in one run of the program          *)
  MaxCommits,  (* bound: commits confirmed in one run                      *)
  MaxSwitches, (* bound: context switches asked for in one run             *)
  None         (* an absent Option                                         *)

ASSUME TurnAssumption ==
  /\ MaxStaged \in Nat /\ MaxCommits \in Nat /\ MaxSwitches \in Nat
  /\ None \notin Clusters

VARIABLES
  planned,    (* the staged changes, in the order of their last staging    *)
  planOpen,   (* plan_open: the review is asked for                        *)
  confirming, (* pending_commit: the confirmation is up                    *)
  shown,      (* the cluster of the snapshot the window shows, or None     *)
  hot,        (* the cluster the world loop is connected to                *)
  switchReq,  (* the mailbox `switch'                                      *)
  planReq,    (* the mailbox plan_req                                      *)
  job,        (* what the world loop is awaiting, or None                  *)
  outcome,    (* the mailbox plan_outcome                                  *)
  ops,        (* operator_actions, the Annals' record of our own writes    *)
  written,    (* history: every write that took effect, with its cluster   *)
  used        (* how much of each bound is used up                         *)

window == <<planned, planOpen, confirming>>
loop   == <<shown, hot, job, ops, written>>
vars   == <<window, loop, switchReq, planReq, outcome, used>>

-----------------------------------------------------------------------------
Change == [on : Targets, want : Values]

(* What the loop awaits: a connection, or a commit.  `wrote', the changes that
   took effect, is history. *)
Connecting(c) == [kind |-> "switch", to |-> c]
Committing(turn) ==
  [kind |-> "commit", turn |-> turn, dry |-> TRUE,
   passed |-> {}, tried |-> 0, rows |-> <<>>, wrote |-> {}]

Running(kind) == job # None /\ job.kind = kind

(* A commit every row of which succeeded: what clears the turn. *)
FullyApplied ==
  outcome # None /\ outcome.applied /\ \A i \in DOMAIN outcome.rows : outcome.rows[i]

(* The review draws only over a snapshot; a fully applied outcome pre-empts it. *)
Reviewing == planOpen /\ shown # None /\ ~FullyApplied

Spend(what) == used' = [used EXCEPT ![what] = @ + 1]

Init ==
  /\ planned = <<>> /\ planOpen = FALSE /\ confirming = FALSE
  /\ hot \in Clusters /\ shown = None
  /\ switchReq = None /\ planReq = None /\ job = None /\ outcome = None
  /\ ops = {} /\ written = {}
  /\ used = [staged |-> 0, commits |-> 0, switches |-> 0]

-----------------------------------------------------------------------------
(* The window.  Drill-downs and the Oracle stage while the review is closed;
   staging replaces what was staged for the same target, and goes last. *)
StagedFor(t) == {i \in DOMAIN planned : planned[i].on = t}

(* retain: there is at most one change to drop (TypeOK). *)
Without(t) ==
  IF StagedFor(t) = {} THEN planned ELSE RemoveAt(planned, CHOOSE i \in StagedFor(t) : TRUE)

Staged(ch) == Append(Without(ch.on), ch)

Stage(ch) ==
  /\ ~planOpen /\ shown # None
  /\ used.staged < MaxStaged
  /\ planned' = Staged(ch)
  /\ Spend("staged")
  /\ UNCHANGED <<planOpen, confirming, loop, switchReq, planReq, outcome>>

(* The city window's restart toggle takes a staged change back. *)
Unstage(t) ==
  /\ ~planOpen /\ shown # None
  /\ planned' = Without(t)
  /\ UNCHANGED <<planOpen, confirming, loop, switchReq, planReq, outcome, used>>

(* `t', or the menu while nothing is confirmed. *)
OpenReview ==
  /\ ~planOpen
  /\ shown # None \/ ~confirming
  /\ planOpen' = TRUE
  /\ UNCHANGED <<planned, confirming, loop, switchReq, planReq, outcome, used>>

(* `t' closes the review and leaves everything else, a confirmation included;
   Esc first takes the confirmation back. *)
CloseReview ==
  /\ planOpen
  /\ shown # None \/ ~confirming
  /\ planOpen' = FALSE
  /\ UNCHANGED <<planned, confirming, loop, switchReq, planReq, outcome, used>>

(* The review's own buttons also forget the last outcome. *)
DismissReview ==
  /\ Reviewing /\ ~confirming
  /\ planOpen' = FALSE
  /\ outcome' = None
  /\ UNCHANGED <<planned, confirming, loop, switchReq, planReq, used>>

UnstageRow(i) ==
  /\ Reviewing /\ ~confirming
  /\ planned' = RemoveAt(planned, i)
  /\ outcome' = None
  /\ UNCHANGED <<planOpen, confirming, loop, switchReq, planReq, used>>

DiscardReview ==
  /\ Reviewing /\ ~confirming
  /\ planned' = <<>>
  /\ planOpen' = FALSE
  /\ outcome' = None
  /\ UNCHANGED <<confirming, loop, switchReq, planReq, used>>

(* Orders > Discard turn: the menu is live while no window is open. *)
DiscardFromMenu ==
  /\ ~planOpen /\ ~confirming
  /\ planned' = <<>>
  /\ UNCHANGED <<planOpen, confirming, loop, switchReq, planReq, outcome, used>>

AskCommit ==
  /\ Reviewing /\ ~confirming
  /\ planned # <<>>
  /\ confirming' = TRUE
  /\ UNCHANGED <<planned, planOpen, loop, switchReq, planReq, outcome, used>>

CancelCommit ==
  /\ confirming
  /\ confirming' = FALSE
  /\ UNCHANGED <<planned, planOpen, loop, switchReq, planReq, outcome, used>>

Confirm ==
  /\ confirming
  /\ used.commits < MaxCommits
  /\ planReq' = planned
  /\ outcome' = None
  /\ confirming' = FALSE
  /\ Spend("commits")
  /\ UNCHANGED <<planned, planOpen, loop, switchReq>>

(* A frame of an open review that finds a fully applied outcome. *)
ClearTurn ==
  /\ planOpen /\ shown # None /\ FullyApplied
  /\ planned' = <<>>
  /\ planOpen' = FALSE
  /\ outcome' = None
  /\ UNCHANGED <<confirming, loop, switchReq, planReq, used>>

(* The context picker opens over the bare map, with `c' or from the menu. *)
RequestSwitch(c) ==
  /\ ~planOpen
  /\ shown # None \/ ~confirming
  /\ used.switches < MaxSwitches
  /\ switchReq' = c
  /\ Spend("switches")
  /\ UNCHANGED <<window, loop, planReq, outcome>>

-----------------------------------------------------------------------------
(* The world loop, one await at a time.  The window stays live meanwhile. *)
StartSwitch ==
  /\ job = None /\ switchReq # None
  /\ job' = Connecting(switchReq)
  /\ switchReq' = None
  /\ UNCHANGED <<window, shown, hot, ops, written, planReq, outcome, used>>

(* Mutant: the switch drops a confirmed turn with the old cluster's requests. *)
EndSwitchDropsTurn ==
  /\ Running("switch")
  /\ hot' = job.to
  /\ shown' = None
  /\ ops' = {}
  /\ job' = None
  /\ planReq' = None
  /\ UNCHANGED <<window, written, switchReq, outcome, used>>

(* The new cluster's world starts unseen; the Annals forget the old one's
   writes; the mailbox plan_req and plan_outcome are left as they are. *)
EndSwitch ==
  /\ Running("switch")
  /\ hot' = job.to
  /\ shown' = None
  /\ ops' = {}
  /\ job' = None
  /\ UNCHANGED <<window, written, switchReq, planReq, outcome, used>>

SwitchFails ==
  /\ Running("switch")
  /\ job' = None
  /\ UNCHANGED <<window, shown, hot, ops, written, switchReq, planReq, outcome, used>>

(* The world is synced and its snapshot published. *)
Publish ==
  /\ job = None /\ shown # hot
  /\ shown' = hot
  /\ UNCHANGED <<window, hot, job, ops, written, switchReq, planReq, outcome, used>>

TakeCommit ==
  /\ job = None /\ planReq # None
  /\ job' = Committing(planReq)
  /\ planReq' = None
  /\ UNCHANGED <<window, shown, hot, ops, written, switchReq, outcome, used>>

(* Mutant: a failed write ends the commit early. *)
UntriedUnlessFailed ==
  job.tried < Len(job.turn) /\ \A i \in DOMAIN job.rows : job.rows[i]

(* The next change of the running commit, and what remains to be tried. *)
Untried == job.tried < Len(job.turn)

DryRun(ok) ==
  /\ Running("commit") /\ job.dry /\ Untried
  /\ job' = [job EXCEPT !.tried = @ + 1,
                        !.passed = IF ok THEN @ \cup {job.tried + 1} ELSE @]
  /\ UNCHANGED <<window, shown, hot, ops, written, switchReq, planReq, outcome, used>>

(* Mutant: the last dry-run decides for all. *)
LastPassed == Len(job.turn) \in job.passed \cup {0}

(* dry_fail.is_empty(): no change of this turn failed its dry-run. *)
AllPassed == job.passed = DOMAIN job.turn

PassGate ==
  /\ Running("commit") /\ job.dry /\ ~Untried
  /\ AllPassed
  /\ job' = [job EXCEPT !.dry = FALSE, !.tried = 0]
  /\ UNCHANGED <<window, shown, hot, ops, written, switchReq, planReq, outcome, used>>

(* One real patch.  It may be refused although the dry-run passed, and the
   answer to a patch that took effect may be lost. *)
Apply(ok, effect) ==
  /\ Running("commit") /\ ~job.dry /\ Untried
  /\ ok => effect
  /\ LET ch == job.turn[job.tried + 1] IN
     /\ job' = [job EXCEPT !.tried = @ + 1, !.rows = Append(@, ok),
                           !.wrote = IF effect THEN @ \cup {ch} ELSE @]
     /\ written' = IF effect THEN written \cup {<<hot, ch>>} ELSE written
  /\ UNCHANGED <<window, shown, hot, ops, switchReq, planReq, outcome, used>>

(* Mutant: an applied turn is recorded whole. *)
RecordedWhole(turn, rows) == ToSet(turn)

(* The rows that succeeded go to the Annals. *)
Recorded(turn, rows) == {turn[i] : i \in {k \in DOMAIN rows : rows[k]}}

Answer(applied) ==
  /\ job' = None
  /\ outcome' = [applied |-> applied, rows |-> job.rows,
                 turn |-> job.turn, wrote |-> job.wrote]
  /\ UNCHANGED <<window, shown, hot, written, switchReq, planReq, used>>

Block ==
  /\ Running("commit") /\ job.dry /\ ~Untried
  /\ ~AllPassed
  /\ Answer(FALSE)
  /\ UNCHANGED ops

Finish ==
  /\ Running("commit") /\ ~job.dry /\ ~Untried
  /\ Answer(TRUE)
  /\ ops' = ops \cup Recorded(job.turn, job.rows)

-----------------------------------------------------------------------------
Window ==
  \/ \E ch \in Change : Stage(ch)
  \/ \E t \in Targets : Unstage(t)
  \/ \E i \in DOMAIN planned : UnstageRow(i)
  \/ OpenReview \/ CloseReview \/ DismissReview
  \/ DiscardReview \/ DiscardFromMenu
  \/ AskCommit \/ CancelCommit \/ Confirm \/ ClearTurn
  \/ \E c \in Clusters : RequestSwitch(c)

Connects == StartSwitch \/ EndSwitch \/ SwitchFails

Commits ==
  \/ TakeCommit \/ PassGate \/ Block \/ Finish
  \/ \E ok \in BOOLEAN : DryRun(ok)
  \/ \E ok, effect \in BOOLEAN : Apply(ok, effect)

Next == Window \/ Connects \/ Publish \/ Commits

(* The loop keeps running, and every call it awaits is answered or gives up:
   the client's reads and the connection have time limits. *)
Fairness == WF_vars(Connects) /\ WF_vars(Commits)

Spec == Init /\ [][Next]_vars /\ Fairness

-----------------------------------------------------------------------------
Turns == {s \in Seq(Change) : IsInjective([i \in DOMAIN s |-> s[i].on])}
Outcome == [applied : BOOLEAN, rows : Seq(BOOLEAN), turn : Turns, wrote : SUBSET Change]
CommitJob ==
  [kind : {"commit"}, turn : Turns, dry : BOOLEAN, passed : SUBSET Nat, tried : Nat,
   rows : Seq(BOOLEAN), wrote : SUBSET Change]

(* An absent Option is not a present one. *)
ASSUME NoneAssumption == None \notin Outcome \cup CommitJob

(* Types; and a turn holds at most one change for a target, wherever it has
   got to (stage_scale .. stage_cordon in planned.rs). *)
TypeOK ==
  /\ planned \in Turns
  /\ planOpen \in BOOLEAN /\ confirming \in BOOLEAN
  /\ hot \in Clusters
  /\ shown \in Clusters \cup {None} /\ switchReq \in Clusters \cup {None}
  /\ planReq # None => planReq \in Turns
  /\ Running("switch") => job.to \in Clusters
  /\ Running("commit") =>
       /\ job.turn \in Turns
       /\ job.tried \in 0 .. Len(job.turn)
       /\ job.passed \subseteq 1 .. Len(job.turn)
       /\ job.wrote \subseteq Change
  /\ outcome # None => outcome \in Outcome
  /\ ops \subseteq Change
  /\ written \subseteq Clusters \X Change

(* A change is written only after every change of its turn has passed its
   dry-run: a turn the cluster refuses is not half applied, however many
   changes it holds and whichever of them is refused (commit_interventions). *)
NothingWrittenBeforeTheGate ==
  Running("commit") /\ job.wrote # {} => job.passed = DOMAIN job.turn

(* What the review reports is what happened: a blocked turn wrote nothing, and
   a row marked ok is a change that took effect - also when some rows failed,
   and when answers were lost. *)
TheReportIsTrue ==
  outcome # None =>
    /\ ~outcome.applied => outcome.wrote = {}
    /\ outcome.applied => DOMAIN outcome.rows = DOMAIN outcome.turn
    /\ \A i \in DOMAIN outcome.rows : outcome.rows[i] => outcome.turn[i] \in outcome.wrote

(* The Annals name a change of ours only if it was really written, and to the
   cluster they are about: no phantom write becomes a suspect in a timeline,
   nor a write to a cluster left behind (push_op and the switch in net.rs). *)
NoPhantomSuspects == \A ch \in ops : <<hot, ch>> \in written

(* A confirmed turn is eventually answered, whatever switches are asked for
   meanwhile and however the patches end. *)
EveryCommitAnswered == planReq # None ~> outcome # None

(* An outcome clears the turn only of what that commit applied ("A fully-
   applied commit: clear the turn and close", main.rs). *)
ClearsOnlyWhatItApplied ==
  [][planOpen /\ FullyApplied /\ planned' = <<>>
       => ToSet(planned) \subseteq ToSet(outcome.turn)]_vars

-----------------------------------------------------------------------------
(* The commit as what it promises (GatedTurn): the turn in hand, and the claim of
   the report. *)
Tried(turn, these) == {turn[i] : i \in these}

TheCommit ==
  IF Running("commit")
  THEN [phase  |-> IF job.dry THEN "trying" ELSE "writing",
        turn   |-> ToSet(job.turn),
        passed |-> Tried(job.turn, job.passed),
        left   |-> IF job.dry THEN ToSet(job.turn)
                   ELSE Tried(job.turn, (job.tried + 1) .. Len(job.turn)),
        wrote  |-> job.wrote]
  ELSE [phase |-> "idle", turn |-> {}, passed |-> {}, left |-> {}, wrote |-> {}]

TheAnswer ==
  IF outcome = None THEN {}
  ELSE {[applied |-> outcome.applied, ok |-> Recorded(outcome.turn, outcome.rows)]}

Gate == INSTANCE GatedTurn WITH
  here   <- hot,
  commit <- TheCommit,
  annals <- ops,
  answer <- TheAnswer

(* A commit is all or nothing up to its gate, and tries every change once behind it:
   commit_interventions, whatever switches, staging and dismissals go on around it. *)
KeepsTheGate == Gate!Spec
=============================================================================
