----------------------------- MODULE Attention -----------------------------
(***************************************************************************)
(* The attention queue: what the cluster is in trouble with, one line for a  *)
(* workload, a Job, a pod of neither or a node (state/attention.rs), and     *)
(* what the world loop merges into it (net.rs): error budgets, insecure      *)
(* configurations, exposed workloads.                                        *)
(*                                                                           *)
(* The queue is rebuilt from nothing at every tick, so it is a state         *)
(* function, Queue: a set of lines, for its order is only severity and key.  *)
(* The variables are what the detectors read of the observed cluster, of the *)
(* objects the namespace filter lets through.  A workload is <<kind, name>>  *)
(* in one namespace; pods are numbers in the order of the store.  Left out:  *)
(* the warm cluster; claims, Ingresses, Services and the raid of a drill     *)
(* (each a line for itself, with no bearing on the others); and the cut to   *)
(* 20 groups of events.                                                      *)
(***************************************************************************)
EXTENDS Naturals, FiniteSetsExt

CONSTANTS
  Workloads, Pods, Nodes,
  Owners,     (* bound: who owns which pod; <<"Job", name>>, a workload, None *)
  PodStates,  (* bound: the pods that are tried                              *)
  Events,     (* bound: the objects Warning events are about                 *)
  None

VARIABLES
  owner,     (* of a pod: its controller                                     *)
  tails,     (* of a pod: what the detectors read off it, or None            *)
  jobs,      (* of a Job: "running", "retried", "failed", "complete", None   *)
  rows,      (* of a workload: "ready", "behind" in replicas, "stalled" in its
                rollout, or None when it is not listed                       *)
  tiles,     (* of a node: "ready", "NotReady", "pressure", "cordoned"       *)
  warned,    (* the objects with a fresh Warning event: <<kind, name>>       *)
  verdict,   (* of a workload: its error budget (Slo)                        *)
  insecure,  (* the workloads with a critical finding                        *)
  exposed    (* those exposed without a policy                               *)

vars == <<owner, tails, jobs, rows, tiles, warned, verdict, insecure, exposed>>

Critical == 3
Warning  == 2
Info     == 1

-----------------------------------------------------------------------------
(* pod_state, and what of it is trouble. *)
Backoffs ==
  [CrashLoopBackOff |-> "crash", ImagePullBackOff |-> "image", ErrImagePull |-> "image",
   InvalidImageName |-> "image", CreateContainerConfigError |-> "config",
   CreateContainerError |-> "config", RunContainerError |-> "config"]

Classified(p) ==
  LET t == tails[p] IN
  IF t.deleting \/ t.phase = "Succeeded" THEN {}
  ELSE IF t.phase = "Failed" THEN {"failed"}
  ELSE IF t.waiting \in DOMAIN Backoffs THEN {Backoffs[t.waiting]}
  ELSE {"unsched" : x \in {t.phase} \cap {"Unschedulable"}}

Troubles(p) ==
  IF tails[p] = None THEN {}
  ELSE Classified(p) \cup {"oom" : x \in {tails[p].oom} \cap {TRUE}}
                     \cup {"flapping" : x \in {tails[p].flapping} \cap {TRUE}}

Worst(troubles) ==
  IF troubles \cap {"crash", "image", "config", "failed"} # {} THEN Critical ELSE Warning

InTrouble == {p \in Pods : Troubles(p) # {}}

(* The pod whose log a line opens: one that ran; a line of many pods prefers one
   whose previous container has the last words (prefer_previous). *)
Ran(p)      == Troubles(p) \cap {"crash", "failed", "oom", "flapping"} # {}
Previous(p) ==
  \/ "crash" \in Troubles(p)
  \/ "flapping" \in Troubles(p) /\ Classified(p) \cap {"image", "config", "failed"} # {}
Probe(pods) ==
  LET ran  == {p \in pods : Ran(p)}
      last == {p \in ran : Previous(p)}
  IN  IF last # {} THEN Min(last) ELSE IF ran # {} THEN Min(ran) ELSE None

-----------------------------------------------------------------------------
(* build *)
Line(key, severity, target, probe) ==
  [key |-> key, severity |-> severity, target |-> target, probe |-> probe]

OfJob(p)    == owner[p] \in {<<"Job", j>> : j \in DOMAIN jobs}
CoveredJobs == {j \in DOMAIN jobs : jobs[j] \in {"failed", "retried"}}

JobLines ==
  {Line(<<"j", j>>, IF jobs[j] = "failed" THEN Critical ELSE Warning, None,
        Probe({p \in InTrouble : owner[p] = <<"Job", j>>})) : j \in CoveredJobs}

(* Mutant: a pod folds under its Job whether or not the Job has a line. *)
AnyJobFolds ==
  {Line(<<"b", p>>, Worst(Troubles(p)), None, IF Ran(p) THEN p ELSE None) :
     p \in {q \in InTrouble : owner[q] \notin Workloads /\ ~OfJob(q)}}
PodLines ==
  {Line(<<"b", p>>, Worst(Troubles(p)), None, IF Ran(p) THEN p ELSE None) :
     p \in {q \in InTrouble : /\ owner[q] \notin Workloads
                              /\ owner[q] \notin {<<"Job", j>> : j \in CoveredJobs}}}

PodsOf(w) == {p \in InTrouble : owner[p] = w}
Behind(w) == rows[w] \in {"behind", "stalled"}

CoveredWorkloads == {w \in Workloads : PodsOf(w) # {} \/ Behind(w)}
WorkloadLines ==
  {Line(<<"w", w>>,
        IF rows[w] = "stalled" THEN Critical
        ELSE IF PodsOf(w) # {} THEN Worst(UNION {Troubles(p) : p \in PodsOf(w)}) ELSE Warning,
        w, Probe(PodsOf(w))) : w \in CoveredWorkloads}

NodeSeverity == [NotReady |-> Critical, pressure |-> Warning, cordoned |-> Info]
CoveredNodes == {n \in Nodes : tiles[n] # "ready"}
NodeLines ==
  {Line(<<"n", n>>, NodeSeverity[tiles[n]], <<"Node", n>>, None) : n \in CoveredNodes}

(* Events about what has no line.  A workload's line covers the name, not the
   kind: an event about another kind of that name has none of its own. *)
Covered(e) ==
  \/ e[1] = "Node" /\ e[2] \in CoveredNodes
  \/ e[1] = "Job" /\ e[2] \in CoveredJobs
  \/ e[1] # "Pod" /\ \E w \in CoveredWorkloads : w[2] = e[2]
  \/ e[1] = "Pod" /\ tails[e[2]] # None /\ owner[e[2]] \in Workloads
       /\ \E w \in CoveredWorkloads : w[2] = owner[e[2]][2]

About(e) ==
  IF e[1] = "Node" \/ e \in Workloads THEN e
  ELSE IF e[1] = "Pod" /\ tails[e[2]] # None /\ owner[e[2]] \in Workloads THEN owner[e[2]]
  ELSE None

EventLines ==
  {Line(<<"e", e>>, Info, About(e), None) : e \in {d \in warned : ~Covered(d)}}

Built == JobLines \cup PodLines \cup WorkloadLines \cup NodeLines \cup EventLines

-----------------------------------------------------------------------------
(* What the world loop merges in.  A budget yields to any line about the workload,
   a critical finding and an exposure to a critical one. *)
Budget == [w \in Workloads |->
  IF verdict[w] \in {"Breached", "FastBurn"} THEN Critical
  ELSE IF verdict[w] = "SlowBurn" THEN Warning ELSE 0]

BudgetLines(lines) ==
  {Line(<<"slo", w[2]>>, Budget[w], w, None) :
     w \in {v \in Workloads : Budget[v] > 0 /\ \A l \in lines : l.target # v}}

CriticalIn(lines) == {l.target : l \in {k \in lines : k.severity = Critical}}

InsecureLines(lines) ==
  {Line(<<"harden", w[2]>>, Critical, w, None) : w \in insecure \ CriticalIn(lines)}

ExposedLines(lines) ==
  {Line(<<"netpol", w[2]>>, Warning, w, None) : w \in exposed \ CriticalIn(lines)}

Queue ==
  LET built    == Built
      budgeted == built \cup BudgetLines(built)
      audited  == budgeted \cup InsecureLines(budgeted)
  IN  audited \cup ExposedLines(audited)

-----------------------------------------------------------------------------
(* Any object changes at any time. *)
Jobs == {"running", "retried", "failed", "complete", None}

PodChanges(p) ==
  /\ \E t \in PodStates \cup {None} : tails' = [tails EXCEPT ![p] = t]
  /\ UNCHANGED <<owner, jobs, rows, tiles, warned, verdict, insecure, exposed>>

JobChanges(j) ==
  /\ \E s \in Jobs : jobs' = [jobs EXCEPT ![j] = s]
  /\ UNCHANGED <<owner, tails, rows, tiles, warned, verdict, insecure, exposed>>

RowChanges(w) ==
  /\ \E r \in {"ready", "behind", "stalled", None} : rows' = [rows EXCEPT ![w] = r]
  /\ UNCHANGED <<owner, tails, jobs, tiles, warned, verdict, insecure, exposed>>

NodeChanges(n) ==
  /\ \E s \in {"ready"} \cup DOMAIN NodeSeverity : tiles' = [tiles EXCEPT ![n] = s]
  /\ UNCHANGED <<owner, tails, jobs, rows, warned, verdict, insecure, exposed>>

EventsChange ==
  /\ \E e \in Events : warned' \in {{e}, {}}
  /\ UNCHANGED <<owner, tails, jobs, rows, tiles, verdict, insecure, exposed>>

BudgetChanges(w) ==
  /\ \E v \in {"Healthy", "SlowBurn", "Breached"} : verdict' = [verdict EXCEPT ![w] = v]
  /\ UNCHANGED <<owner, tails, jobs, rows, tiles, warned, insecure, exposed>>

Audit(w) ==
  /\ \/ insecure' = {w} /\ exposed' = exposed
     \/ insecure' = {} /\ exposed' = {w}
     \/ insecure' = {} /\ exposed' = {}
  /\ UNCHANGED <<owner, tails, jobs, rows, tiles, warned, verdict>>

JobNames == {owner[p][2] : p \in {q \in Pods : owner[q] # None /\ owner[q][1] = "Job"}}

Init ==
  /\ owner \in Owners
  /\ tails = [p \in Pods |-> None]
  /\ jobs = [j \in JobNames |-> None]
  /\ rows = [w \in Workloads |-> None]
  /\ tiles = [n \in Nodes |-> "ready"]
  /\ warned = {} /\ insecure = {} /\ exposed = {}
  /\ verdict = [w \in Workloads |-> "Healthy"]

Next ==
  \/ \E p \in Pods : PodChanges(p)
  \/ \E j \in DOMAIN jobs : JobChanges(j)
  \/ \E w \in Workloads : RowChanges(w) \/ BudgetChanges(w) \/ Audit(w)
  \/ \E n \in Nodes : NodeChanges(n)
  \/ EventsChange

Spec == Init /\ [][Next]_vars

-----------------------------------------------------------------------------
LinesFor(p, queue) ==
  {l \in queue :
                \/ l.key \in {<<"b", p>>, <<"w", owner[p]>>}
                \/ OfJob(p) /\ l.key = <<"j", owner[p][2]>>}

(* "City in trouble, not a hundred identical pod alarms" (attention.rs:1-3), and
   nothing lost on the way: every pod in trouble is in exactly one line - its
   workload's, listed or not, its Job's while that has one, or its own -, as
   severe as the pod unless it is a Job's, from which a log can be opened if a pod
   of the line has one, the last words first; no two lines of the detectors have
   one key; a workload short of replicas, over its budget or insecure is pointed
   at, and by a critical line if it is insecure. *)
EveryTroubleHasItsLine ==
  LET queue == Queue IN
  /\ \A p \in InTrouble :
       \E l \in LinesFor(p, queue) :
         /\ LinesFor(p, queue) = {l}
         /\ l.key[1] = "j" \/ l.severity >= Worst(Troubles(p))
         /\ Ran(p) => /\ l.probe # None /\ owner[l.probe] = owner[p] /\ Ran(l.probe)
                      /\ Previous(p) => Previous(l.probe)
  /\ \A l, m \in Built : l.key = m.key => l = m
  /\ \A w \in Workloads :
       /\ Behind(w) \/ Budget[w] > 0 => \E l \in queue : l.target = w
       /\ w \in insecure => \E l \in queue : l.target = w /\ l.severity = Critical

=============================================================================
