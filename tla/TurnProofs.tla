----------------------------- MODULE TurnProofs -----------------------------
(***************************************************************************)
(* Proofs about Turn for any clusters, targets and values, and turns of any *)
(* length.  The inductive invariant follows a commit: what its dry-runs,    *)
(* its rows and its writes are while the world loop awaits it, and how they *)
(* stand to the record of everything written.  From it follows that Turn    *)
(* implements GatedTurn.                                                    *)
(***************************************************************************)
EXTENDS Turn, TLAPS

SwitchJob == [kind : {"switch"}, to : Clusters]

JobTyped == job # None => job \in SwitchJob \cup CommitJob

(* Before the gate nothing is written and no row reported; behind it every
   change has passed, a row is reported for each change tried, and each row
   marked ok is a change that took effect. *)
GateHolds ==
  Running("commit") =>
    /\ job.tried <= Len(job.turn)
    /\ job.passed \subseteq 1 .. Len(job.turn)
    /\ job.dry => job.wrote = {} /\ job.rows = <<>>
    /\ ~job.dry => job.passed = DOMAIN job.turn /\ Len(job.rows) = job.tried
    /\ \A i \in DOMAIN job.rows : job.rows[i] => job.turn[i] \in job.wrote

(* What a running commit wrote, it wrote to the cluster it is connected to. *)
WritesAreHere ==
  Running("commit") => \A ch \in job.wrote : <<hot, ch>> \in written

IInv ==
  /\ TypeOK
  /\ JobTyped
  /\ GateHolds
  /\ WritesAreHere
  /\ TheReportIsTrue
  /\ NoPhantomSuspects

-----------------------------------------------------------------------------
(* Sequences: a turn without one of its changes, and with one more.          *)

LEMMA CatLength ==
  ASSUME NEW S, NEW a \in Seq(S), NEW b \in Seq(S)
  PROVE  Len(a \o b) = Len(a) + Len(b)
  OBVIOUS

LEMMA RemoveAtFacts ==
  ASSUME NEW S, NEW s \in Seq(S), NEW i \in 1 .. Len(s)
  PROVE  /\ RemoveAt(s, i) \in Seq(S)
         /\ Len(RemoveAt(s, i)) = Len(s) - 1
         /\ \A j \in 1 .. Len(s) - 1 :
              RemoveAt(s, i)[j] = s[IF j < i THEN j ELSE j + 1]
  <1> DEFINE a == SubSeq(s, 1, i - 1)
             b == SubSeq(s, i + 1, Len(s))
  <1>1. a \in Seq(S) /\ Len(a) = i - 1 /\ \A j \in 1 .. i - 1 : a[j] = s[j]
    OBVIOUS
  <1>2. /\ b \in Seq(S) /\ Len(b) = Len(s) - i
        /\ \A j \in 1 .. Len(s) - i : b[j] = s[i + j]
    OBVIOUS
  <1>3. RemoveAt(s, i) = a \o b
    BY DEF RemoveAt
  <1> HIDE DEF a, b
  <1>4. (a \o b) \in Seq(S) /\ Len(a \o b) = Len(s) - 1
    <2>1. (a \o b) \in Seq(S)
      BY <1>1, <1>2
    <2>2. Len(a \o b) = Len(a) + Len(b)
      BY <1>1, <1>2, CatLength
    <2>3. (i - 1) + (Len(s) - i) = Len(s) - 1
      OBVIOUS
    <2> QED
      BY <1>1, <1>2, <2>1, <2>2, <2>3
  <1>5. ASSUME NEW j \in 1 .. Len(s) - 1
        PROVE  (a \o b)[j] = s[IF j < i THEN j ELSE j + 1]
    <2>1. CASE j < i
      BY <1>1, <1>2, <2>1
    <2>2. CASE ~(j < i)
      <3>1. (a \o b)[j] = b[j - (i - 1)]
        BY <1>1, <1>2, <2>2
      <3>2. j - (i - 1) \in 1 .. Len(s) - i
        BY <2>2
      <3>3. b[j - (i - 1)] = s[i + (j - (i - 1))]
        BY <1>2, <3>2
      <3>4. i + (j - (i - 1)) = j + 1
        OBVIOUS
      <3> QED
        BY <2>2, <3>1, <3>3, <3>4
    <2> QED
      BY <2>1, <2>2
  <1> QED
    BY <1>3, <1>4, <1>5

(* A turn that has lost a change is a turn. *)
LEMMA ShorterTurn ==
  ASSUME NEW s \in Turns, NEW i \in DOMAIN s
  PROVE  /\ RemoveAt(s, i) \in Turns
         /\ \A j \in DOMAIN RemoveAt(s, i) : RemoveAt(s, i)[j].on # s[i].on
  <1> DEFINE r == RemoveAt(s, i)
             old(j) == IF j < i THEN j ELSE j + 1
  <1>1. s \in Seq(Change) /\ i \in 1 .. Len(s)
    BY DEF Turns
  <1>2. \A j, k \in DOMAIN s : s[j].on = s[k].on => j = k
    BY DEF Turns, IsInjective
  <1>3. /\ r \in Seq(Change)
        /\ Len(r) = Len(s) - 1
        /\ \A j \in 1 .. Len(s) - 1 : r[j] = s[old(j)]
    BY <1>1, RemoveAtFacts
  <1> HIDE DEF r
  <1>4. \A j \in DOMAIN r : /\ r[j] = s[old(j)] /\ old(j) \in DOMAIN s
                            /\ old(j) # i /\ j \in Int
    BY <1>1, <1>3
  <1>5. ASSUME NEW j \in DOMAIN r, NEW k \in DOMAIN r, r[j].on = r[k].on
        PROVE  j = k
    <2>1. old(j) = old(k)
      BY <1>2, <1>4, <1>5
    <2>2. j \in Int /\ k \in Int /\ i \in Int
      BY <1>1, <1>4
    <2> QED
      BY <2>1, <2>2
  <1>6. r \in Turns
    BY <1>3, <1>5 DEF Turns, IsInjective
  <1>7. \A j \in DOMAIN r : r[j].on # s[i].on
    BY <1>1, <1>2, <1>4
  <1> QED
    BY <1>6, <1>7 DEF r

(* Staging keeps at most one change for each target (planned.rs). *)
LEMMA WithoutFacts ==
  ASSUME planned \in Turns, NEW t
  PROVE  /\ Without(t) \in Turns
         /\ \A j \in DOMAIN Without(t) : Without(t)[j].on # t
  <1>1. CASE StagedFor(t) = {}
    BY <1>1 DEF Without, StagedFor
  <1>2. CASE StagedFor(t) # {}
    <2> DEFINE i == CHOOSE j \in StagedFor(t) : TRUE
    <2>1. i \in DOMAIN planned /\ planned[i].on = t
      BY <1>2 DEF StagedFor
    <2> QED
      BY <1>2, <2>1, ShorterTurn DEF Without
  <1> QED
    BY <1>1, <1>2

LEMMA StagedFacts ==
  ASSUME planned \in Turns, NEW ch \in Change
  PROVE  Staged(ch) \in Turns
  <1> DEFINE w == Without(ch.on)
             s == Append(w, ch)
  <1>1. w \in Turns /\ \A j \in DOMAIN w : w[j].on # ch.on
    BY WithoutFacts
  <1> HIDE DEF w
  <1>2. w \in Seq(Change) /\ \A j, k \in DOMAIN w : w[j].on = w[k].on => j = k
    BY <1>1 DEF Turns, IsInjective
  <1>3. /\ s \in Seq(Change) /\ Len(s) = Len(w) + 1
        /\ \A j \in DOMAIN s : \/ j \in DOMAIN w /\ s[j] = w[j]
                               \/ j = Len(w) + 1 /\ s[j] = ch
    BY <1>2
  <1>4. \A j, k \in DOMAIN s : s[j].on = s[k].on => j = k
    BY <1>1, <1>2, <1>3
  <1> QED
    BY <1>3, <1>4 DEF Turns, IsInjective, Staged, w

-----------------------------------------------------------------------------
(* The inductive invariant: the window, then the world loop step by step.    *)

LEMMA InitInv == Init => IInv
  <1> SUFFICES ASSUME Init PROVE IInv
    OBVIOUS
  <1>1. planned \in Turns
    BY DEF Init, Turns, IsInjective
  <1>2. TypeOK
    BY <1>1 DEF Init, TypeOK, Running
  <1>3. JobTyped /\ GateHolds /\ WritesAreHere /\ TheReportIsTrue /\ NoPhantomSuspects
    BY DEF Init, JobTyped, GateHolds, WritesAreHere, TheReportIsTrue, NoPhantomSuspects, Running
  <1> QED
    BY <1>2, <1>3 DEF IInv

(* Whatever the window does, the loop's commit and the Annals stay as they are. *)
LEMMA WindowFacts ==
  ASSUME IInv, Window
  PROVE  /\ UNCHANGED loop
         /\ planned' \in Turns
         /\ planOpen' \in BOOLEAN /\ confirming' \in BOOLEAN
         /\ switchReq' \in Clusters \cup {None}
         /\ planReq' \in {planReq, planned}
         /\ outcome' \in {outcome, None}
  <1>1. /\ planned \in Turns /\ planOpen \in BOOLEAN /\ confirming \in BOOLEAN
        /\ switchReq \in Clusters \cup {None}
    BY DEF IInv, TypeOK
  <1>2. ASSUME NEW ch \in Change, Stage(ch)
        PROVE  planned' \in Turns
    BY <1>1, <1>2, StagedFacts DEF Stage
  <1>3. ASSUME NEW t \in Targets, Unstage(t)
        PROVE  planned' \in Turns
    BY <1>1, <1>3, WithoutFacts DEF Unstage
  <1>4. ASSUME NEW i \in DOMAIN planned, UnstageRow(i)
        PROVE  planned' \in Turns
    BY <1>1, <1>4, ShorterTurn DEF UnstageRow
  <1>5. <<>> \in Turns
    BY DEF Turns, IsInjective
  <1>6. CASE \/ \E ch \in Change : Stage(ch)
             \/ \E t \in Targets : Unstage(t)
             \/ \E i \in DOMAIN planned : UnstageRow(i)
    BY <1>1, <1>2, <1>3, <1>4, <1>6 DEF Stage, Unstage, UnstageRow
  <1>7. CASE OpenReview \/ CloseReview \/ DismissReview \/ DiscardReview \/ DiscardFromMenu
    BY <1>1, <1>5, <1>7
    DEF OpenReview, CloseReview, DismissReview, DiscardReview, DiscardFromMenu
  <1>8. CASE AskCommit \/ CancelCommit \/ Confirm \/ ClearTurn
    BY <1>1, <1>5, <1>8 DEF AskCommit, CancelCommit, Confirm, ClearTurn
  <1>9. CASE \E c \in Clusters : RequestSwitch(c)
    BY <1>1, <1>9 DEF RequestSwitch, window
  <1> QED
    BY <1>6, <1>7, <1>8, <1>9 DEF Window

LEMMA WindowInv ==
  ASSUME IInv, Window
  PROVE  IInv'
  <1>1. /\ UNCHANGED <<shown, hot, job, ops, written>>
        /\ planned' \in Turns
        /\ planOpen' \in BOOLEAN /\ confirming' \in BOOLEAN
        /\ switchReq' \in Clusters \cup {None}
        /\ planReq' \in {planReq, planned}
        /\ outcome' \in {outcome, None}
    BY WindowFacts DEF loop
  <1>2. TypeOK'
    BY <1>1 DEF IInv, TypeOK, Running
  <1>3. JobTyped' /\ GateHolds' /\ WritesAreHere'
    BY <1>1 DEF IInv, JobTyped, GateHolds, WritesAreHere, Running
  <1>4. TheReportIsTrue' /\ NoPhantomSuspects'
    BY <1>1 DEF IInv, TheReportIsTrue, NoPhantomSuspects
  <1> QED
    BY <1>2, <1>3, <1>4 DEF IInv

(* A running commit is a commit. *)
LEMMA CommitFacts ==
  ASSUME IInv, Running("commit")
  PROVE  /\ job \in CommitJob
         /\ job.turn \in Seq(Change) /\ job.turn \in Turns
         /\ job.tried \in Nat /\ job.tried <= Len(job.turn)
         /\ job.rows \in Seq(BOOLEAN)
  <1>1. job \in CommitJob
    BY DEF IInv, JobTyped, Running, SwitchJob
  <1> QED
    BY <1>1 DEF IInv, GateHolds, CommitJob, Turns

LEMMA ConnectsInv ==
  ASSUME IInv, Connects \/ Publish
  PROVE  IInv'
  <1>1. CASE StartSwitch
    <2>1. /\ job' = Connecting(switchReq) /\ switchReq \in Clusters /\ switchReq' = None
          /\ UNCHANGED <<window, shown, hot, ops, written, planReq, outcome>>
      BY <1>1 DEF StartSwitch, IInv, TypeOK
    <2>2. job' \in SwitchJob /\ job'.kind = "switch" /\ job'.to \in Clusters
      BY <2>1 DEF Connecting, SwitchJob
    <2>3. TypeOK'
      BY <2>1, <2>2 DEF IInv, TypeOK, Running, window
    <2>4. JobTyped' /\ GateHolds' /\ WritesAreHere'
      BY <2>2 DEF JobTyped, GateHolds, WritesAreHere, Running
    <2>5. TheReportIsTrue' /\ NoPhantomSuspects'
      BY <2>1 DEF IInv, TheReportIsTrue, NoPhantomSuspects
    <2> QED
      BY <2>3, <2>4, <2>5 DEF IInv
  <1>2. CASE EndSwitch \/ SwitchFails \/ Publish
    <2>1. /\ job' = None /\ hot' \in Clusters /\ shown' \in Clusters \cup {None}
          /\ ops' = {} \/ (ops' = ops /\ hot' = hot)
          /\ UNCHANGED <<window, written, switchReq, planReq, outcome>>
      BY <1>2 DEF EndSwitch, SwitchFails, Publish, IInv, TypeOK
    <2>2. TypeOK'
      BY <2>1 DEF IInv, TypeOK, Running, window
    <2>3. JobTyped' /\ GateHolds' /\ WritesAreHere'
      BY <2>1 DEF JobTyped, GateHolds, WritesAreHere, Running
    <2>4. TheReportIsTrue' /\ NoPhantomSuspects'
      BY <2>1 DEF IInv, TheReportIsTrue, NoPhantomSuspects
    <2> QED
      BY <2>2, <2>3, <2>4 DEF IInv
  <1> QED
    BY <1>1, <1>2 DEF Connects

(* A step within a commit: it suffices to look at the commit and the record. *)
LEMMA CommitStep ==
  ASSUME IInv, job' \in CommitJob, GateHolds',
         written \subseteq written', written' \subseteq Clusters \X Change,
         \A ch \in job'.wrote : <<hot, ch>> \in written',
         planReq' \in {planReq, None},
         UNCHANGED <<window, shown, hot, ops, switchReq, outcome>>
  PROVE  IInv'
  <1>1. JobTyped' /\ WritesAreHere' /\ job'.kind = "commit"
    BY DEF JobTyped, WritesAreHere, CommitJob
  <1>2. Running("commit")' =>
          /\ job'.turn \in Turns /\ job'.wrote \subseteq Change
          /\ job'.tried \in 0 .. Len(job'.turn)
          /\ job'.passed \subseteq 1 .. Len(job'.turn)
    <2>1. job'.turn \in Seq(Change) /\ job'.tried \in Nat
      BY DEF CommitJob, Turns
    <2>2. Len(job'.turn) \in Nat
      BY <2>1
    <2> QED
      BY <2>1, <2>2 DEF CommitJob, GateHolds
  <1>3. TypeOK'
    BY <1>1, <1>2 DEF IInv, TypeOK, Running, window
  <1>4. TheReportIsTrue' /\ NoPhantomSuspects'
    BY DEF IInv, TheReportIsTrue, NoPhantomSuspects
  <1> QED
    BY <1>1, <1>3, <1>4 DEF IInv

LEMMA TakeCommitInv ==
  ASSUME IInv, TakeCommit
  PROVE  IInv'
  <1>1. /\ job' = Committing(planReq) /\ planReq \in Turns /\ planReq' = None
        /\ UNCHANGED <<window, shown, hot, ops, written, switchReq, outcome>>
    BY DEF TakeCommit, IInv, TypeOK
  <1>2. <<>> \in Seq(BOOLEAN) /\ planReq \in Seq(Change) /\ Len(planReq) \in Nat
    BY <1>1 DEF Turns
  <1>3. /\ job' \in CommitJob /\ job'.wrote = {} /\ job'.passed = {} /\ job'.tried = 0
        /\ job'.turn = planReq /\ job'.dry = TRUE /\ job'.rows = <<>>
    BY <1>1, <1>2 DEF Committing, CommitJob
  <1>4. GateHolds'
    BY <1>2, <1>3 DEF GateHolds
  <1> QED
    BY <1>1, <1>3, <1>4, CommitStep DEF IInv, TypeOK

LEMMA DryRunInv ==
  ASSUME IInv, NEW ok \in BOOLEAN, DryRun(ok)
  PROVE  IInv'
  <1> DEFINE p == IF ok THEN job.passed \cup {job.tried + 1} ELSE job.passed
  <1>1. /\ Running("commit") /\ job.dry /\ job.tried < Len(job.turn)
        /\ job' = [job EXCEPT !.tried = job.tried + 1, !.passed = p]
        /\ UNCHANGED <<window, shown, hot, ops, written, switchReq, planReq, outcome>>
    BY DEF DryRun, Untried
  <1>2. /\ job \in CommitJob /\ job.turn \in Seq(Change)
        /\ job.tried \in Nat /\ job.rows \in Seq(BOOLEAN)
    BY <1>1, CommitFacts
  <1>3. /\ job.wrote = {} /\ job.rows = <<>> /\ job.passed \subseteq 1 .. Len(job.turn)
    BY <1>1 DEF IInv, GateHolds
  <1>4. p \subseteq 1 .. Len(job.turn) /\ Len(job.turn) \in Nat
    BY <1>1, <1>2, <1>3
  <1>5. p \in SUBSET Nat
    BY <1>4
  <1> HIDE DEF p
  <1>6. /\ job' \in CommitJob /\ job'.tried = job.tried + 1 /\ job'.passed = p
        /\ job'.turn = job.turn /\ job'.dry /\ job'.rows = <<>> /\ job'.wrote = {}
    <2>1. job.tried + 1 \in Nat
      BY <1>2
    <2>2. /\ job'.tried = job.tried + 1 /\ job'.passed = p /\ job'.turn = job.turn
          /\ job'.dry = job.dry /\ job'.rows = job.rows /\ job'.wrote = job.wrote
      BY <1>1, <1>2 DEF CommitJob
    <2>3. job' \in CommitJob
      BY <1>1, <1>2, <1>5, <2>1 DEF CommitJob
    <2> QED
      BY <1>1, <1>3, <2>2, <2>3
  <1>7. GateHolds'
    BY <1>1, <1>2, <1>4, <1>6 DEF GateHolds
  <1> QED
    BY <1>1, <1>6, <1>7, CommitStep DEF IInv, TypeOK

(* dry_fail.is_empty() opens the gate: every change of the turn has passed. *)
LEMMA PassGateInv ==
  ASSUME IInv, PassGate
  PROVE  IInv'
  <1>1. /\ Running("commit") /\ job.dry /\ job.passed = DOMAIN job.turn
        /\ job' = [job EXCEPT !.dry = FALSE, !.tried = 0]
        /\ UNCHANGED <<window, shown, hot, ops, written, switchReq, planReq, outcome>>
    BY DEF PassGate, AllPassed
  <1>2. /\ job \in CommitJob /\ job.turn \in Seq(Change)
        /\ job.rows \in Seq(BOOLEAN)
    BY <1>1, CommitFacts
  <1>3. job.wrote = {} /\ job.rows = <<>>
    BY <1>1 DEF IInv, GateHolds
  <1>4. /\ job' \in CommitJob /\ job'.tried = 0 /\ job'.passed = job.passed
        /\ job'.turn = job.turn /\ ~job'.dry /\ job'.rows = <<>> /\ job'.wrote = {}
    BY <1>1, <1>2, <1>3 DEF CommitJob
  <1>5. GateHolds'
    BY <1>1, <1>2, <1>4 DEF GateHolds
  <1> QED
    BY <1>1, <1>4, <1>5, CommitStep DEF IInv, TypeOK

LEMMA RowAdded ==
  ASSUME NEW rows \in Seq(BOOLEAN), NEW ok \in BOOLEAN
  PROVE  /\ Append(rows, ok) \in Seq(BOOLEAN)
         /\ Len(Append(rows, ok)) = Len(rows) + 1
         /\ \A i \in DOMAIN Append(rows, ok) :
              Append(rows, ok)[i] => \/ i \in DOMAIN rows /\ rows[i]
                                     \/ i = Len(rows) + 1 /\ ok
  OBVIOUS

(* One patch: what is marked ok took effect, also if an answer was lost. *)
LEMMA ApplyInv ==
  ASSUME IInv, NEW ok \in BOOLEAN, NEW effect \in BOOLEAN, Apply(ok, effect)
  PROVE  IInv'
  <1> DEFINE ch == job.turn[job.tried + 1]
             w == IF effect THEN job.wrote \cup {ch} ELSE job.wrote
             r == Append(job.rows, ok)
  <1>1. /\ Running("commit") /\ ~job.dry /\ job.tried < Len(job.turn) /\ (ok => effect)
        /\ job' = [job EXCEPT !.tried = job.tried + 1, !.rows = r, !.wrote = w]
        /\ written' = IF effect THEN written \cup {<<hot, ch>>} ELSE written
        /\ UNCHANGED <<window, shown, hot, ops, switchReq, planReq, outcome>>
    BY DEF Apply, Untried
  <1>2. /\ job \in CommitJob /\ job.turn \in Seq(Change)
        /\ job.tried \in Nat /\ job.rows \in Seq(BOOLEAN) /\ job.wrote \subseteq Change
    BY <1>1, CommitFacts DEF CommitJob
  <1>3. /\ job.passed = DOMAIN job.turn /\ Len(job.rows) = job.tried
        /\ \A i \in DOMAIN job.rows : job.rows[i] => job.turn[i] \in job.wrote
        /\ job.passed \subseteq 1 .. Len(job.turn)
    BY <1>1 DEF IInv, GateHolds
  <1>4. \A x \in job.wrote : <<hot, x>> \in written
    BY <1>1 DEF IInv, WritesAreHere
  <1>5. ch \in Change /\ hot \in Clusters /\ written \subseteq Clusters \X Change
    BY <1>1, <1>2 DEF IInv, TypeOK
  <1>6. /\ r \in Seq(BOOLEAN) /\ Len(r) = job.tried + 1
        /\ \A i \in DOMAIN r : r[i] => \/ i \in DOMAIN job.rows /\ job.rows[i]
                                       \/ i = job.tried + 1 /\ ok
    <2>1. /\ r \in Seq(BOOLEAN) /\ Len(r) = Len(job.rows) + 1
          /\ \A i \in DOMAIN r : r[i] => \/ i \in DOMAIN job.rows /\ job.rows[i]
                                         \/ i = Len(job.rows) + 1 /\ ok
      BY <1>2, RowAdded
    <2> HIDE DEF r
    <2> QED
      BY <1>3, <2>1
  <1>7. \A i \in DOMAIN r : r[i] => job.turn[i] \in w
    BY <1>1, <1>3, <1>6
  <1>8. /\ w \subseteq Change /\ written \subseteq written'
        /\ written' \subseteq Clusters \X Change
        /\ \A x \in w : <<hot, x>> \in written'
    BY <1>1, <1>2, <1>4, <1>5
  <1> HIDE DEF w, r
  <1>9. /\ job' \in CommitJob /\ job'.tried = job.tried + 1 /\ job'.passed = job.passed
        /\ job'.turn = job.turn /\ ~job'.dry /\ job'.rows = r /\ job'.wrote = w
    <2>1. job.tried + 1 \in Nat
      BY <1>2
    <2>2. /\ job'.tried = job.tried + 1 /\ job'.passed = job.passed
          /\ job'.turn = job.turn /\ job'.dry = job.dry /\ job'.rows = r /\ job'.wrote = w
      BY <1>1, <1>2 DEF CommitJob
    <2>3. job' \in CommitJob
      BY <1>1, <1>2, <1>6, <1>8, <2>1 DEF CommitJob
    <2> QED
      BY <1>1, <2>2, <2>3
  <1>10. GateHolds'
    <2>1. job.tried + 1 <= Len(job.turn)
      BY <1>1, <1>2
    <2> QED
      BY <1>3, <1>6, <1>7, <1>9, <2>1 DEF GateHolds
  <1> QED
    BY <1>1, <1>8, <1>9, <1>10, CommitStep

(* The end of a commit, blocked or applied: its report, and what goes to the
   Annals. *)
LEMMA AnswerInv ==
  ASSUME IInv, Running("commit"), NEW applied \in BOOLEAN, Answer(applied),
         ~applied => job.wrote = {},
         applied => DOMAIN job.rows = DOMAIN job.turn,
         \A ch \in ops' : ch \in ops \/ ch \in job.wrote
  PROVE  IInv'
  <1>1. /\ job' = None
        /\ outcome' = [applied |-> applied, rows |-> job.rows,
                       turn |-> job.turn, wrote |-> job.wrote]
        /\ UNCHANGED <<window, shown, hot, written, switchReq, planReq>>
    BY DEF Answer
  <1>2. /\ job.turn \in Turns /\ job.rows \in Seq(BOOLEAN) /\ job.wrote \subseteq Change
        /\ \A i \in DOMAIN job.rows : job.rows[i] => job.turn[i] \in job.wrote
        /\ \A ch \in job.wrote : <<hot, ch>> \in written
    BY CommitFacts DEF CommitJob, IInv, GateHolds, WritesAreHere
  <1>3. outcome' \in Outcome
    BY <1>1, <1>2 DEF Outcome
  <1>4. ops' \subseteq Change /\ NoPhantomSuspects'
    BY <1>1, <1>2 DEF IInv, TypeOK, NoPhantomSuspects
  <1>5. TheReportIsTrue'
    BY <1>1, <1>2 DEF TheReportIsTrue
  <1>6. TypeOK'
    BY <1>1, <1>3, <1>4 DEF IInv, TypeOK, Running, window
  <1>7. JobTyped' /\ GateHolds' /\ WritesAreHere'
    BY <1>1 DEF JobTyped, GateHolds, WritesAreHere, Running
  <1> QED
    BY <1>4, <1>5, <1>6, <1>7 DEF IInv

LEMMA BlockInv ==
  ASSUME IInv, Block
  PROVE  IInv'
  <1>1. Running("commit") /\ job.dry /\ Answer(FALSE) /\ ops' = ops
    BY DEF Block
  <1>2. job.wrote = {}
    BY <1>1 DEF IInv, GateHolds
  <1> QED
    BY <1>1, <1>2, AnswerInv

LEMMA FinishInv ==
  ASSUME IInv, Finish
  PROVE  IInv'
  <1>1. /\ Running("commit") /\ ~job.dry /\ ~(job.tried < Len(job.turn)) /\ Answer(TRUE)
        /\ ops' = ops \cup Recorded(job.turn, job.rows)
    BY DEF Finish, Untried
  <1>2. /\ job.turn \in Seq(Change) /\ job.rows \in Seq(BOOLEAN)
        /\ job.tried \in Nat /\ job.tried <= Len(job.turn)
    BY <1>1, CommitFacts
  <1>3. /\ Len(job.rows) = job.tried
        /\ \A i \in DOMAIN job.rows : job.rows[i] => job.turn[i] \in job.wrote
    BY <1>1 DEF IInv, GateHolds
  <1>4. DOMAIN job.rows = DOMAIN job.turn
    <2>1. job.tried = Len(job.turn)
      BY <1>1, <1>2
    <2> QED
      BY <1>2, <1>3, <2>1
  <1>5. \A ch \in ops' : ch \in ops \/ ch \in job.wrote
    BY <1>1, <1>3 DEF Recorded
  <1> QED
    BY <1>1, <1>4, <1>5, AnswerInv

LEMMA NextInv == IInv /\ [Next]_vars => IInv'
  <1> SUFFICES ASSUME IInv, [Next]_vars PROVE IInv'
    OBVIOUS
  <1>1. CASE Window
    BY <1>1, WindowInv
  <1>2. CASE Connects \/ Publish
    BY <1>2, ConnectsInv
  <1>3. CASE Commits
    <2>1. CASE TakeCommit
      BY <2>1, TakeCommitInv
    <2>2. CASE PassGate
      BY <2>2, PassGateInv
    <2>3. CASE Block
      BY <2>3, BlockInv
    <2>4. CASE Finish
      BY <2>4, FinishInv
    <2>5. CASE \E ok \in BOOLEAN : DryRun(ok)
      BY <2>5, DryRunInv
    <2>6. CASE \E ok, effect \in BOOLEAN : Apply(ok, effect)
      BY <2>6, ApplyInv
    <2> QED
      BY <1>3, <2>1, <2>2, <2>3, <2>4, <2>5, <2>6 DEF Commits
  <1>4. CASE UNCHANGED vars
    <2>1. UNCHANGED <<planned, planOpen, confirming, shown, hot, job, ops, written,
                      switchReq, planReq, outcome>>
      BY <1>4 DEF vars, window, loop
    <2>2. TypeOK' /\ JobTyped'
      BY <2>1 DEF IInv, TypeOK, JobTyped, Running
    <2>3. GateHolds' /\ WritesAreHere' /\ TheReportIsTrue' /\ NoPhantomSuspects'
      BY <2>1 DEF IInv, GateHolds, WritesAreHere, TheReportIsTrue, NoPhantomSuspects, Running
    <2> QED
      BY <2>2, <2>3 DEF IInv
  <1> QED
    BY <1>1, <1>2, <1>3, <1>4 DEF Next

(* IInv holds in every state of every behaviour. *)
THEOREM Inductive == Spec => []IInv
  BY InitInv, NextInv, PTL DEF Spec

-----------------------------------------------------------------------------
(* A turn holds at most one change for each target, staged, in the mailbox, being
   committed and in the report, however often a target is staged (planned.rs). *)
THEOREM TypeCorrect == Spec => []TypeOK
  <1>1. IInv => TypeOK
    BY DEF IInv
  <1> QED
    BY <1>1, Inductive, PTL

(* A change is written only after every change of its turn has passed its dry-run,
   for turns of any length (the gate of commit_interventions). *)
THEOREM GateFirst == Spec => []NothingWrittenBeforeTheGate
  <1>1. IInv => NothingWrittenBeforeTheGate
    BY CommitFacts DEF IInv, GateHolds, CommitJob, NothingWrittenBeforeTheGate
  <1> QED
    BY <1>1, Inductive, PTL

(* The review reports what happened: nothing for a blocked turn, and for an applied
   one a row per change, ok only where the change took effect. *)
THEOREM ReportIsTrue == Spec => []TheReportIsTrue
  <1>1. IInv => TheReportIsTrue
    BY DEF IInv
  <1> QED
    BY <1>1, Inductive, PTL

(* The Annals never blame the operator for a write that did not happen on the
   cluster they are about (push_op, and the switch that clears them). *)
THEOREM AnnalsAreTrue == Spec => []NoPhantomSuspects
  <1>1. IInv => NoPhantomSuspects
    BY DEF IInv
  <1> QED
    BY <1>1, Inductive, PTL

-----------------------------------------------------------------------------
(* The refinement of GatedTurn: what each step of the window and of the world loop
   is to the turn in hand, the writes, the Annals and the report. *)
absVars == <<hot, TheCommit, written, ops, TheAnswer>>

(* A turn has no change twice. *)
LEMMA NoChangeTwice ==
  ASSUME NEW turn \in Turns, NEW i \in DOMAIN turn, NEW j \in DOMAIN turn, turn[i] = turn[j]
  PROVE  i = j
  BY DEF Turns, IsInjective

LEMMA IdleCommit ==
  ASSUME ~Running("commit")
  PROVE  TheCommit = Gate!Idle
  BY DEF TheCommit, Gate!Idle

LEMMA IdleCommitNext ==
  ASSUME ~Running("commit")'
  PROVE  TheCommit' = Gate!Idle
  BY DEF TheCommit, Gate!Idle, Running

(* The turn in hand, while a commit runs. *)
LEMMA CommitAt ==
  ASSUME Running("commit")
  PROVE  TheCommit = [phase  |-> IF job.dry THEN "trying" ELSE "writing",
                      turn   |-> ToSet(job.turn),
                      passed |-> Tried(job.turn, job.passed),
                      left   |-> IF job.dry THEN ToSet(job.turn)
                                 ELSE Tried(job.turn, (job.tried + 1) .. Len(job.turn)),
                      wrote  |-> job.wrote]
  BY DEF TheCommit

LEMMA CommitNext ==
  ASSUME job' \in CommitJob
  PROVE  TheCommit' = [phase  |-> IF job'.dry THEN "trying" ELSE "writing",
                       turn   |-> ToSet(job'.turn),
                       passed |-> Tried(job'.turn, job'.passed),
                       left   |-> IF job'.dry THEN ToSet(job'.turn)
                                  ELSE Tried(job'.turn, (job'.tried + 1) .. Len(job'.turn)),
                       wrote  |-> job'.wrote]
  <1>1. job' # None /\ job'.kind = "commit"
    BY NoneAssumption DEF CommitJob
  <1> QED
    BY <1>1 DEF TheCommit, Running, Tried

LEMMA WindowKeeps ==
  ASSUME IInv, Window
  PROVE  [Gate!Next]_absVars
  <1>1. UNCHANGED <<hot, job, ops, written>> /\ outcome' \in {outcome, None}
    BY WindowFacts DEF loop
  <1>2. TheCommit' = TheCommit
    BY <1>1 DEF TheCommit, Running, Tried
  <1>3. CASE outcome' = outcome
    <2>1. TheAnswer' = TheAnswer
      BY <1>3 DEF TheAnswer, Recorded
    <2> QED
      BY <1>1, <1>2, <2>1 DEF absVars
  <1>4. CASE outcome' = None
    <2>1. TheAnswer' = {}
      BY <1>4 DEF TheAnswer
    <2>2. Gate!Forget
      BY <1>1, <1>2, <2>1 DEF Gate!Forget
    <2> QED
      BY <2>2 DEF Gate!Next
  <1> QED
    BY <1>1, <1>3, <1>4

(* Between commits only a switch that succeeds is a step: the Annals forget. *)
LEMMA ConnectsKeeps ==
  ASSUME IInv, Connects \/ Publish
  PROVE  [Gate!Next]_absVars
  <1>0. ~Running("commit")
    BY DEF Connects, StartSwitch, EndSwitch, SwitchFails, Publish, Running
  <1>1. ~Running("commit")'
    BY DEF Connects, StartSwitch, EndSwitch, SwitchFails, Publish, Running, Connecting
  <1>2. TheCommit = Gate!Idle /\ TheCommit' = Gate!Idle
    BY <1>0, <1>1, IdleCommit, IdleCommitNext
  <1>3. UNCHANGED written /\ outcome' = outcome
    BY DEF Connects, StartSwitch, EndSwitch, SwitchFails, Publish
  <1>4. TheAnswer' = TheAnswer
    BY <1>3 DEF TheAnswer, Recorded
  <1>5. CASE EndSwitch
    <2>1. hot' \in Clusters /\ ops' = {}
      BY <1>5 DEF EndSwitch, IInv, TypeOK
    <2>2. TheCommit.phase = "idle"
      BY <1>2 DEF Gate!Idle
    <2>3. Gate!Leave
      BY <1>2, <1>3, <1>4, <2>1, <2>2 DEF Gate!Leave
    <2> QED
      BY <2>3 DEF Gate!Next
  <1>6. CASE StartSwitch \/ SwitchFails \/ Publish
    <2>1. UNCHANGED <<hot, ops>>
      BY <1>6 DEF StartSwitch, SwitchFails, Publish
    <2> QED
      BY <1>2, <1>3, <1>4, <2>1 DEF absVars
  <1> QED
    BY <1>5, <1>6 DEF Connects

LEMMA TakeCommitKeeps ==
  ASSUME IInv, TakeCommit
  PROVE  Gate!Next
  <1>1. /\ job = None /\ job' = Committing(planReq) /\ planReq \in Turns
        /\ UNCHANGED <<hot, ops, written, outcome>>
    BY DEF TakeCommit, IInv, TypeOK
  <1>2. job' \in CommitJob
    BY <1>1 DEF Committing, CommitJob
  <1>3. TheCommit = Gate!Idle
    BY <1>1, IdleCommit DEF Running
  <1>4. Tried(planReq, {}) = {}
    BY DEF Tried
  <1>5. TheCommit' = [phase |-> "trying", turn |-> ToSet(planReq), passed |-> {},
                      left |-> ToSet(planReq), wrote |-> {}]
    BY <1>1, <1>2, <1>4, CommitNext DEF Committing
  <1>6. ToSet(planReq) \in SUBSET Change
    <2>1. planReq \in Seq(Change)
      BY <1>1 DEF Turns
    <2> QED
      BY <2>1 DEF ToSet
  <1>7. TheAnswer' = TheAnswer
    BY <1>1 DEF TheAnswer, Recorded
  <1>8. Gate!Begin
    BY <1>1, <1>3, <1>5, <1>6, <1>7 DEF Gate!Begin, Gate!Idle
  <1> QED
    BY <1>8 DEF Gate!Next

LEMMA DryRunKeeps ==
  ASSUME IInv, NEW ok \in BOOLEAN, DryRun(ok)
  PROVE  [Gate!Next]_absVars
  <1> DEFINE n == job.tried + 1
             ch == job.turn[n]
  <1>1. /\ Running("commit") /\ job \in CommitJob /\ job.dry
        /\ job.turn \in Seq(Change) /\ job.tried \in Nat /\ job.tried < Len(job.turn)
        /\ UNCHANGED <<hot, ops, written, outcome>>
    BY CommitFacts DEF DryRun, Untried
  <1>2. n \in DOMAIN job.turn /\ n \in Nat
    BY <1>1
  <1>3. /\ job' \in CommitJob /\ job'.dry = job.dry /\ job'.turn = job.turn
        /\ job'.wrote = job.wrote
        /\ job'.passed = IF ok THEN job.passed \cup {n} ELSE job.passed
    BY <1>1, <1>2 DEF DryRun, CommitJob
  <1> DEFINE turn == ToSet(job.turn)
             passed == Tried(job.turn, job.passed)
  <1>4. TheCommit = [phase |-> "trying", turn |-> turn, passed |-> passed, left |-> turn,
                     wrote |-> job.wrote]
    BY <1>1, CommitAt
  <1>5. TheCommit' = [phase |-> "trying", turn |-> turn, passed |-> Tried(job.turn, job'.passed),
                      left |-> turn, wrote |-> job.wrote]
    BY <1>1, <1>3, CommitNext
  <1>6. TheAnswer' = TheAnswer
    BY <1>1 DEF TheAnswer, Recorded
  <1>7. CASE ~ok
    BY <1>1, <1>3, <1>4, <1>5, <1>6, <1>7 DEF absVars
  <1>8. CASE ok
    <2>1. Tried(job.turn, job'.passed) = passed \cup {ch}
      BY <1>3, <1>8 DEF Tried
    <2>2. ch \in turn
      BY <1>2 DEF ToSet
    <2> HIDE DEF turn, passed, ch
    <2>3. /\ TheCommit.phase = "trying" /\ ch \in TheCommit.turn
          /\ TheCommit' = [TheCommit EXCEPT !.passed = @ \cup {ch}]
      BY <1>4, <1>5, <2>1, <2>2
    <2>4. Gate!Pass
      BY <1>1, <1>6, <2>3 DEF Gate!Pass
    <2> QED
      BY <2>4 DEF Gate!Next
  <1> QED
    BY <1>7, <1>8

LEMMA PassGateKeeps ==
  ASSUME IInv, PassGate
  PROVE  Gate!Next
  <1>1. /\ Running("commit") /\ job \in CommitJob /\ job.dry
        /\ job.turn \in Seq(Change) /\ job.passed = DOMAIN job.turn
        /\ job' = [job EXCEPT !.dry = FALSE, !.tried = 0]
        /\ UNCHANGED <<hot, ops, written, outcome>>
    BY CommitFacts DEF PassGate, AllPassed
  <1>2. /\ job' \in CommitJob /\ ~job'.dry /\ job'.turn = job.turn /\ job'.tried = 0
        /\ job'.passed = job.passed /\ job'.wrote = job.wrote
    BY <1>1 DEF CommitJob
  <1> DEFINE turn == ToSet(job.turn)
  <1>3. Tried(job.turn, job.passed) = turn /\ Tried(job.turn, (0 + 1) .. Len(job.turn)) = turn
    BY <1>1 DEF Tried, ToSet
  <1>4. TheCommit = [phase |-> "trying", turn |-> turn, passed |-> turn, left |-> turn,
                     wrote |-> job.wrote]
    BY <1>1, <1>3, CommitAt
  <1>5. TheCommit' = [phase |-> "writing", turn |-> turn, passed |-> turn, left |-> turn,
                      wrote |-> job.wrote]
    BY <1>2, <1>3, CommitNext
  <1>6. TheAnswer' = TheAnswer
    BY <1>1 DEF TheAnswer, Recorded
  <1> HIDE DEF turn
  <1>7. Gate!Open
    BY <1>1, <1>4, <1>5, <1>6 DEF Gate!Open
  <1> QED
    BY <1>7 DEF Gate!Next

LEMMA BlockKeeps ==
  ASSUME IInv, Block
  PROVE  Gate!Next
  <1>1. /\ Running("commit") /\ job \in CommitJob /\ job.dry /\ job.turn \in Turns
        /\ job.passed # DOMAIN job.turn /\ job' = None
        /\ outcome' = [applied |-> FALSE, rows |-> job.rows, turn |-> job.turn, wrote |-> job.wrote]
        /\ UNCHANGED <<hot, ops, written>>
    BY CommitFacts DEF Block, Answer, AllPassed
  <1>2. job.passed \subseteq DOMAIN job.turn /\ job.rows = <<>>
    <2>1. job.turn \in Seq(Change)
      BY <1>1 DEF Turns
    <2> QED
      BY <1>1, <2>1 DEF IInv, GateHolds
  <1>3. PICK i \in DOMAIN job.turn : i \notin job.passed
    BY <1>1, <1>2
  <1>4. job.turn[i] \notin Tried(job.turn, job.passed)
    BY <1>1, <1>2, <1>3, NoChangeTwice DEF Tried
  <1>5. job.turn[i] \in ToSet(job.turn)
    BY DEF ToSet
  <1>6. TheCommit.phase = "trying" /\ TheCommit.passed # TheCommit.turn
    <2>1. /\ TheCommit.phase = "trying" /\ TheCommit.turn = ToSet(job.turn)
          /\ TheCommit.passed = Tried(job.turn, job.passed)
      BY <1>1, CommitAt
    <2> QED
      BY <1>4, <1>5, <2>1
  <1>7. TheCommit' = Gate!Idle
    BY <1>1, IdleCommitNext DEF Running
  <1>8. TheAnswer' = {[applied |-> FALSE, ok |-> {}]}
    <2>1. outcome' \in Outcome
      BY <1>1 DEF Outcome, CommitJob
    <2>2. outcome' # None
      BY <2>1, NoneAssumption
    <2>3. Recorded(job.turn, job.rows) = {}
      BY <1>2 DEF Recorded
    <2>4. TheAnswer' = {[applied |-> outcome'.applied, ok |-> Recorded(outcome'.turn, outcome'.rows)]}
      BY <2>2 DEF TheAnswer, Recorded
    <2> QED
      BY <1>1, <2>3, <2>4
  <1>9. Gate!Refuse
    BY <1>1, <1>6, <1>7, <1>8 DEF Gate!Refuse
  <1> QED
    BY <1>9 DEF Gate!Next

LEMMA ApplyKeeps ==
  ASSUME IInv, NEW ok \in BOOLEAN, NEW effect \in BOOLEAN, Apply(ok, effect)
  PROVE  Gate!Next
  <1> DEFINE n == job.tried + 1
             ch == job.turn[n]
             rest == Tried(job.turn, n .. Len(job.turn))
  <1>1. /\ Running("commit") /\ job \in CommitJob /\ ~job.dry /\ job.turn \in Turns
        /\ job.turn \in Seq(Change) /\ job.tried \in Nat /\ job.tried < Len(job.turn)
        /\ written' = IF effect THEN written \cup {<<hot, ch>>} ELSE written
        /\ UNCHANGED <<hot, ops, outcome>>
    BY CommitFacts DEF Apply, Untried
  <1>2. n \in DOMAIN job.turn /\ n \in Nat /\ ch \in Change
    BY <1>1
  <1>3. /\ job' \in CommitJob /\ ~job'.dry /\ job'.turn = job.turn /\ job'.tried = n
        /\ job'.passed = job.passed
        /\ job'.wrote = IF effect THEN job.wrote \cup {ch} ELSE job.wrote
    <2>1. job' = [job EXCEPT !.tried = n, !.rows = Append(job.rows, ok),
                             !.wrote = IF effect THEN job.wrote \cup {ch} ELSE job.wrote]
      BY DEF Apply
    <2>2. Append(job.rows, ok) \in Seq(BOOLEAN)
      BY <1>1, CommitFacts
    <2> QED
      BY <1>1, <1>2, <2>1, <2>2 DEF CommitJob
  <1>4. Tried(job.turn, (n + 1) .. Len(job.turn)) = rest \ {ch} /\ ch \in rest
    <2>1. n .. Len(job.turn) \subseteq DOMAIN job.turn
      BY <1>1
    <2>2. \A i \in n .. Len(job.turn) : job.turn[i] = ch => i = n
      BY <1>1, <1>2, <2>1, NoChangeTwice
    <2>3. n \in n .. Len(job.turn) /\ (n + 1) .. Len(job.turn) = (n .. Len(job.turn)) \ {n}
      BY <1>1
    <2> QED
      BY <2>2, <2>3 DEF Tried
  <1> DEFINE turn == ToSet(job.turn)
             passed == Tried(job.turn, job.passed)
  <1>5. TheCommit = [phase |-> "writing", turn |-> turn, passed |-> passed, left |-> rest,
                     wrote |-> job.wrote]
    BY <1>1, CommitAt
  <1>6. TheCommit' = [phase |-> "writing", turn |-> turn, passed |-> passed,
                      left |-> rest \ {ch}, wrote |-> job'.wrote]
    BY <1>3, <1>4, CommitNext
  <1>7. TheAnswer' = TheAnswer
    BY <1>1 DEF TheAnswer, Recorded
  <1> HIDE DEF turn, passed, ch, rest
  <1>8. Gate!Write
    <2>1. CASE effect
      <3>1. TheCommit' = [TheCommit EXCEPT !.left = @ \ {ch}, !.wrote = @ \cup {ch}]
        <4>1. job'.wrote = job.wrote \cup {ch}
          BY <1>3, <2>1
        <4> DEFINE less == TheCommit.left \ {ch}
                   more == TheCommit.wrote \cup {ch}
                   one == [TheCommit EXCEPT !.left = less]
        <4>2. TheCommit' = [phase |-> "writing", turn |-> turn, passed |-> passed,
                            left |-> less, wrote |-> more]
          BY <1>5, <1>6, <4>1
        <4> HIDE DEF less, more
        <4>3. one = [phase |-> "writing", turn |-> turn, passed |-> passed, left |-> less,
                     wrote |-> job.wrote]
          BY <1>5
        <4> HIDE DEF one
        <4>4. [one EXCEPT !.wrote = more]
                = [phase |-> "writing", turn |-> turn, passed |-> passed, left |-> less,
                   wrote |-> more]
          BY <4>3
        <4>5. TheCommit' = [one EXCEPT !.wrote = more]
          BY <4>2, <4>4
        <4> QED
          BY <4>5, Zenon DEF one, less, more
      <3>2. TheCommit.phase = "writing" /\ ch \in TheCommit.left
        BY <1>4, <1>5
      <3> QED
        BY <1>1, <1>7, <2>1, <3>1, <3>2 DEF Gate!Write
    <2>2. CASE ~effect
      <3>1. TheCommit' = [TheCommit EXCEPT !.left = @ \ {ch}]
        BY <1>3, <1>5, <1>6, <2>2
      <3>2. TheCommit.phase = "writing" /\ ch \in TheCommit.left
        BY <1>4, <1>5
      <3> QED
        BY <1>1, <1>7, <2>2, <3>1, <3>2 DEF Gate!Write
    <2> QED
      BY <2>1, <2>2
  <1> QED
    BY <1>8 DEF Gate!Next

LEMMA FinishKeeps ==
  ASSUME IInv, Finish
  PROVE  Gate!Next
  <1> DEFINE claim == Recorded(job.turn, job.rows)
  <1>1. /\ Running("commit") /\ job \in CommitJob /\ ~job.dry /\ job.turn \in Turns
        /\ job.turn \in Seq(Change) /\ job.tried \in Nat
        /\ ~(job.tried < Len(job.turn)) /\ job' = None
        /\ outcome' = [applied |-> TRUE, rows |-> job.rows, turn |-> job.turn, wrote |-> job.wrote]
        /\ ops' = ops \cup claim /\ UNCHANGED <<hot, written>>
    BY CommitFacts DEF Finish, Answer, Untried
  <1>2. claim \subseteq job.wrote
    BY <1>1 DEF IInv, GateHolds, Recorded
  <1>3. Tried(job.turn, (job.tried + 1) .. Len(job.turn)) = {}
    <2>1. (job.tried + 1) .. Len(job.turn) = {}
      BY <1>1
    <2> QED
      BY <2>1 DEF Tried
  <1>4. TheCommit.phase = "writing" /\ TheCommit.left = {} /\ TheCommit.wrote = job.wrote
    BY <1>1, <1>3, CommitAt
  <1>5. TheCommit' = Gate!Idle
    BY <1>1, IdleCommitNext DEF Running
  <1>6. TheAnswer' = {[applied |-> TRUE, ok |-> claim]}
    <2>1. outcome' \in Outcome
      BY <1>1 DEF Outcome, CommitJob
    <2>2. outcome' # None
      BY <2>1, NoneAssumption
    <2>3. TheAnswer' = {[applied |-> outcome'.applied, ok |-> Recorded(outcome'.turn, outcome'.rows)]}
      BY <2>2 DEF TheAnswer, Recorded
    <2> QED
      BY <1>1, <2>3
  <1> HIDE DEF claim
  <1>7. Gate!Report
    BY <1>1, <1>2, <1>4, <1>5, <1>6 DEF Gate!Report
  <1> QED
    BY <1>7 DEF Gate!Next

LEMMA StepKeeps == IInv /\ [Next]_vars => [Gate!Next]_absVars
  <1> SUFFICES ASSUME IInv, [Next]_vars PROVE [Gate!Next]_absVars
    OBVIOUS
  <1>1. CASE Window
    BY <1>1, WindowKeeps
  <1>2. CASE Connects \/ Publish
    BY <1>2, ConnectsKeeps
  <1>3. CASE Commits
    BY <1>3, TakeCommitKeeps, PassGateKeeps, BlockKeeps, FinishKeeps, DryRunKeeps, ApplyKeeps
    DEF Commits
  <1>4. CASE UNCHANGED vars
    <2>1. UNCHANGED <<hot, job, ops, written, outcome>>
      BY <1>4 DEF vars, loop
    <2>2. TheCommit' = TheCommit /\ TheAnswer' = TheAnswer
      BY <2>1 DEF TheCommit, TheAnswer, Running, Tried, Recorded
    <2> QED
      BY <2>1, <2>2 DEF absVars
  <1> QED
    BY <1>1, <1>2, <1>3, <1>4 DEF Next

(* Every behaviour of the planning turn is one of GatedTurn: up to its gate a commit
   writes nothing, behind it each change is tried once, on the cluster the turn was
   taken up on, and only writes are claimed. *)
THEOREM Implements == Spec => KeepsTheGate
  <1>1. Init => Gate!Init
    <2> SUFFICES ASSUME Init PROVE Gate!Init
      OBVIOUS
    <2>1. TheCommit = Gate!Idle
      BY IdleCommit DEF Init, Running
    <2>2. TheAnswer = {}
      BY DEF Init, TheAnswer
    <2> QED
      BY <2>1, <2>2 DEF Init, Gate!Init
  <1>2. Spec => [][Gate!Next]_absVars
    BY StepKeeps, Inductive, PTL DEF Spec
  <1>3. Spec => Gate!Init
    BY <1>1, PTL DEF Spec
  <1> QED
    BY <1>2, <1>3, PTL DEF KeepsTheGate, Gate!Spec, absVars
=============================================================================
