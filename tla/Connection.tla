----------------------------- MODULE Connection -----------------------------
(***************************************************************************)
(* What a context switch leaves running.  Each connection of the world loop  *)
(* (net.rs) has tasks of its own on other threads: the liveness probe of the *)
(* API server behind the banner, the OpenCost poller (k8s/opencost.rs), and  *)
(* the watches with the task that reports them in sync (k8s/watch.rs).  A    *)
(* switch aborts the old ones, but an abort takes effect only at an await: a *)
(* task past its last one finishes what it is doing, in the new cluster's    *)
(* time.  Only the probe's verdict carries a generation, and it is checked   *)
(* and stored in two steps.                                                  *)
(***************************************************************************)
EXTENDS Naturals, FiniteSets

CONSTANTS
  Clusters,     (* the clusters the operator may switch between            *)
  MaxSwitches,  (* bound: context switches in one run                      *)
  MaxOutages,   (* bound: times a cluster goes down or comes back          *)
  None          (* an absent value                                         *)

ASSUME ConnectionAssumption ==
  /\ MaxSwitches \in Nat /\ MaxOutages \in Nat
  /\ None \notin Clusters

VARIABLES
  up,        (* the clusters whose API server answers                      *)
  hot,       (* the cluster the world loop is connected to                 *)
  switching, (* the cluster being switched to, or None                     *)
  gen,       (* conn_gen                                                   *)
  conn,      (* the banner: what it says, and of which cluster             *)
  probes,    (* the liveness probes with something left to do              *)
  cost,      (* the OpenCost store: the cluster whose data it offers       *)
  pollers,   (* the OpenCost pollers with something left to do             *)
  synced,    (* the hot handle's stores hold their initial list            *)
  reported,  (* the hot handle's Ready has been delivered                  *)
  stray,     (* an old handle's Ready is under way                         *)
  ready,     (* ready_hot                                                  *)
  shown,     (* the snapshot: its cluster, and whether it was in sync      *)
  used       (* how much of each bound is used up                          *)

banner == <<gen, conn, probes>>
costs  == <<cost, pollers>>
watch  == <<synced, reported, stray, ready, shown>>
vars   == <<up, hot, switching, banner, costs, watch, used>>

Says(what, c) == [is |-> what, of |-> c]
Spend(what) == used' = [used EXCEPT ![what] = @ + 1]

(* A probe captures the generation when it starts; `at' is what it is doing:
   asking, with an answer in hand, or with the generation checked. *)
NewProbe(c, g) ==
  [of |-> c, gen |-> g, fails |-> 0, at |-> "asking", says |-> None, aborted |-> FALSE]
NewPoller(c) == [of |-> c, at |-> "asking", aborted |-> FALSE]

Init ==
  /\ up \in SUBSET Clusters
  /\ hot \in Clusters /\ switching = None
  /\ gen = 0 /\ conn = Says("connecting", hot)
  /\ probes = {NewProbe(hot, 0)}
  /\ cost = None /\ pollers = {NewPoller(hot)}
  /\ synced = FALSE /\ reported = FALSE /\ stray = FALSE /\ ready = FALSE
  /\ shown = None
  /\ used = [switches |-> 0, outages |-> 0]

-----------------------------------------------------------------------------
GoesDown(c) ==
  /\ c \in up /\ used.outages < MaxOutages
  /\ up' = up \ {c}
  /\ Spend("outages")
  /\ UNCHANGED <<hot, switching, banner, costs, watch>>

ComesUp(c) ==
  /\ c \notin up /\ used.outages < MaxOutages
  /\ up' = up \cup {c}
  /\ Spend("outages")
  /\ UNCHANGED <<hot, switching, banner, costs, watch>>

-----------------------------------------------------------------------------
(* A step of a task: it goes on, or, aborted, ends at its next await. *)
Continue(tasks, t, next) ==
  (tasks \ {t}) \cup (IF next.at = "asking" /\ next.aborted THEN {} ELSE {next})

(* Consecutive failures, counted no further than they matter. *)
Fails(p) == IF p.of \in up THEN 0 ELSE IF p.fails < 2 THEN p.fails + 1 ELSE 2

(* It takes two consecutive failures to declare the cluster lost. *)
Verdict(p) == IF p.of \in up THEN "live" ELSE IF p.fails + 1 >= 2 THEN "lost" ELSE None

ProbeAnswers(p) ==
  /\ p.at = "asking"
  /\ LET answered == [p EXCEPT !.fails = Fails(p), !.says = Verdict(p)] IN
     probes' = Continue(probes, p,
                 [answered EXCEPT !.at = IF answered.says = None THEN "asking" ELSE "answered"])
  /\ UNCHANGED <<up, hot, switching, gen, conn, costs, watch, used>>

ProbeChecks(p) ==
  /\ p.at = "answered"
  /\ probes' = Continue(probes, p,
                 [p EXCEPT !.at = IF gen = p.gen THEN "checked" ELSE "asking"])
  /\ UNCHANGED <<up, hot, switching, gen, conn, costs, watch, used>>

ProbeStores(p) ==
  /\ p.at = "checked"
  /\ conn' = Says(p.says, p.of)
  /\ probes' = Continue(probes, p, [p EXCEPT !.at = "asking"])
  /\ UNCHANGED <<up, hot, switching, gen, costs, watch, used>>

(* The poller keeps the last good data, and offers it while polls succeed. *)
PollAnswers(q) ==
  /\ q.at = "asking"
  /\ pollers' = Continue(pollers, q, [q EXCEPT !.at = IF q.of \in up THEN "fetched" ELSE "failed"])
  /\ UNCHANGED <<up, hot, switching, banner, cost, watch, used>>

PollStores(q) ==
  /\ q.at # "asking"
  /\ cost' = IF q.at = "fetched" THEN q.of ELSE None
  /\ pollers' = Continue(pollers, q, [q EXCEPT !.at = "asking"])
  /\ UNCHANGED <<up, hot, switching, banner, watch, used>>

-----------------------------------------------------------------------------
(* The initial lists of nodes and pods are complete; then a task says so, once
   for each handle. *)
Syncs ==
  /\ ~synced /\ hot \in up
  /\ synced' = TRUE
  /\ UNCHANGED <<up, hot, switching, banner, costs, reported, stray, ready, shown, used>>

Ready ==
  /\ synced /\ ~reported
  /\ reported' = TRUE
  /\ ready' = TRUE
  /\ UNCHANGED <<up, hot, switching, banner, costs, synced, stray, shown, used>>

(* The sink tells hot from warm, not one hot handle from another. *)
StrayReady ==
  /\ stray
  /\ stray' = FALSE
  /\ ready' = TRUE
  /\ UNCHANGED <<up, hot, switching, banner, costs, synced, reported, shown, used>>

(* Mutant: what is shown is never built again. *)
PublishableOnce == ready /\ shown = None

(* Rebuilt whenever the world, once ready, has changed. *)
Publishable == ready

Publish ==
  /\ switching = None /\ Publishable
  /\ shown' = [of |-> hot, synced |-> synced]
  /\ UNCHANGED <<up, hot, switching, banner, costs, synced, reported, stray, ready, used>>

-----------------------------------------------------------------------------
(* The switch; connecting reads the kubeconfig and asks nothing of the cluster.
   First the readiness and the watches; later, after the saved maps, the probe,
   the poller and the snapshot. *)
SwitchWatches(c) ==
  /\ switching = None
  /\ used.switches < MaxSwitches
  /\ switching' = c
  /\ hot' = c
  /\ ready' = FALSE
  /\ synced' = FALSE /\ reported' = FALSE
  (* Dropping the stores' writers also wakes a task that waits for them: its
     wait ends with an error, which it takes for the initial list. *)
  /\ stray' \in {stray, stray \/ ~reported}
  /\ Spend("switches")
  /\ UNCHANGED <<up, banner, costs, shown>>

(* Mutant: the new probe is spawned before the generation is bumped. *)
GenBefore == gen

GenAfter == gen + 1

(* Mutant: the old tasks are left to themselves. *)
LeaveRunning(tasks) == tasks

(* An abort ends a task that is waiting; another goes on to its next await. *)
Abort(tasks) == {[t EXCEPT !.aborted = TRUE] : t \in {u \in tasks : u.at # "asking"}}

SwitchTasks ==
  /\ switching # None
  /\ switching' = None
  /\ gen' = gen + 1
  /\ conn' = Says("connecting", hot)
  /\ probes' = Abort(probes) \cup {NewProbe(hot, GenAfter)}
  /\ cost' = None
  /\ pollers' = Abort(pollers) \cup {NewPoller(hot)}
  /\ shown' = None
  /\ UNCHANGED <<up, hot, synced, reported, stray, ready, used>>

-----------------------------------------------------------------------------
Probe(p) == ProbeAnswers(p) \/ ProbeChecks(p) \/ ProbeStores(p)
Poll(q) == PollAnswers(q) \/ PollStores(q)
ProbeSteps == \E p \in probes : Probe(p)
PollSteps == \E q \in pollers : Poll(q)
Outage == \E c \in Clusters : GoesDown(c) \/ ComesUp(c)
Switch == SwitchTasks \/ \E c \in Clusters : SwitchWatches(c)

Next ==
  \/ Outage \/ Switch
  \/ ProbeSteps \/ PollSteps
  \/ Syncs \/ Ready \/ StrayReady \/ Publish

(* Every task is a loop with time limits, polled for as long as it lives; and
   the world loop completes a switch and publishes a ready world. *)
Fairness ==
  /\ \A c \in Clusters :
       /\ WF_vars(\E p \in probes : p.of = c /\ p.aborted /\ Probe(p))
       /\ WF_vars(\E p \in probes : p.of = c /\ ~p.aborted /\ Probe(p))
       /\ WF_vars(\E q \in pollers : q.of = c /\ q.aborted /\ Poll(q))
       /\ WF_vars(\E q \in pollers : q.of = c /\ ~q.aborted /\ Poll(q))
  /\ WF_vars(Syncs) /\ WF_vars(Ready) /\ WF_vars(StrayReady)
  /\ WF_vars(SwitchTasks) /\ WF_vars(Publish)

Spec == Init /\ [][Next]_vars /\ Fairness

-----------------------------------------------------------------------------
(* The banner comes to tell the truth: once a cluster stays reachable, or stays
   unreachable, it settles on saying so of that cluster - although a verdict on
   a cluster left behind may have been stored late (spawn_liveness in net.rs). *)
BannerSettles ==
  \A c \in Clusters :
    /\ <>[](hot = c /\ switching = None /\ c \in up) => <>[](conn = Says("live", c))
    /\ <>[](hot = c /\ switching = None /\ c \notin up) => <>[](conn = Says("lost", c))

(* Costs offered come to be the cluster's own: data of a cluster left behind,
   stored by a poll that was past its abort, does not stay (opencost.rs). *)
CostsSettle == <>[](cost \in {None, hot})

(* The map comes to show the cluster connected to, from stores in sync, once it
   stays reachable - although a Ready of an old handle may have let an empty
   world through (the sink and ready_hot in net.rs). *)
MapSettles ==
  \A c \in Clusters :
    <>[](hot = c /\ switching = None /\ c \in up) => <>[](shown = [of |-> c, synced |-> TRUE])
=============================================================================
