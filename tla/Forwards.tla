------------------------------ MODULE Forwards ------------------------------
(***************************************************************************)
(* Port-forwards (net.rs, k8s/portforward.rs).  A pod row of the window asks *)
(* the world loop to start one, or to stop the one listening on a local      *)
(* port.  The loop keeps the handles - dropping a handle closes its listener *)
(* and its tunnels - and a mirror of them, which is all the window sees.     *)
(* Forwards end when stopped, when their pod is seen to be gone, and, those  *)
(* of the hot cluster, when it is switched away from.                        *)
(*                                                                           *)
(* The warm cluster of a pair is never switched.  The operating system picks *)
(* a free local port, and may pick one that was in use before.               *)
(***************************************************************************)
EXTENDS Naturals, FiniteSets

CONSTANTS
  Clusters,     (* the clusters the operator may switch between            *)
  Pods,         (* pod names, which may exist in every cluster             *)
  Ports,        (* the local ports                                         *)
  MaxStarts,    (* bound: forwards asked for in one run                    *)
  MaxSwitches,  (* bound: context switches asked for in one run            *)
  None          (* an absent Option                                        *)

Sides == {"Hot", "Warm"}

VARIABLES
  exists,       (* the pods there are, per side                            *)
  ready,        (* ready_hot: the hot store holds the cluster's pods       *)
  handles,      (* the loop's handles                                      *)
  mirror,       (* the mailbox forwards, the window's view of the handles  *)
  forwardReq,   (* the mailbox forward_req                                 *)
  stops,        (* the mailbox forward_stop: ports, with the pod meant     *)
  hot,          (* the cluster the world loop is connected to              *)
  switchReq,    (* the mailbox `switch'                                    *)
  job,          (* what the world loop is awaiting, or None                *)
  used          (* how much of each bound is used up                       *)

ours == <<handles, mirror>>
loop == <<ready, hot, job>>
vars == <<exists, loop, ours, forwardReq, stops, switchReq, used>>

Pod == [side : Sides, pod : Pods]
Forward(o, port) == [side |-> o.side, pod |-> o.pod, port |-> port, on |-> hot]
PodOf(f) == [side |-> f.side, pod |-> f.pod]
Await(what, of) == [kind |-> what, of |-> of]
Running(what) == job # None /\ job.kind = what
Spend(what) == used' = [used EXCEPT ![what] = @ + 1]

Init ==
  /\ exists = Pod
  /\ ready = TRUE
  /\ handles = {} /\ mirror = {}
  /\ forwardReq = None /\ stops = {}
  /\ hot \in Clusters /\ switchReq = None /\ job = None
  /\ used = [starts |-> 0, switches |-> 0]

-----------------------------------------------------------------------------
(* A pod of a stateful set comes back under its name. *)
PodGoes(o) ==
  /\ o \in exists
  /\ exists' = exists \ {o}
  /\ UNCHANGED <<loop, ours, forwardReq, stops, switchReq, used>>

PodReturns(o) ==
  /\ o \notin exists
  /\ exists' = exists \cup {o}
  /\ UNCHANGED <<loop, ours, forwardReq, stops, switchReq, used>>

(* The window's row offers `fwd' for a pod without a forward, else `stop'. *)
AskForward(o) ==
  /\ used.starts < MaxStarts
  /\ \A f \in mirror : PodOf(f) # o
  /\ forwardReq' = o
  /\ Spend("starts")
  /\ UNCHANGED <<exists, loop, ours, stops, switchReq>>

AskStop(f) ==
  /\ f \in mirror
  /\ stops' = stops \cup {f}
  /\ UNCHANGED <<exists, loop, ours, forwardReq, switchReq, used>>

RequestSwitch(c) ==
  /\ used.switches < MaxSwitches
  /\ switchReq' = c
  /\ Spend("switches")
  /\ UNCHANGED <<exists, loop, ours, forwardReq, stops>>

-----------------------------------------------------------------------------
(* The world loop, one await at a time; the window stays live meanwhile. *)
StartSwitch ==
  /\ job = None /\ switchReq # None
  /\ job' = Await("switch", switchReq)
  /\ switchReq' = None
  /\ UNCHANGED <<exists, ready, hot, ours, forwardReq, stops, used>>

(* Mutant: the handles are all kept, only their listing goes. *)
KeptHandles == handles

(* Hot forwards point at the cluster we're leaving; warm survives. *)
WarmOf(fs) == {f \in fs : f.side = "Warm"}
HandlesLeft == WarmOf(handles)

(* The requests in the two mailboxes stay. *)
EndSwitch ==
  /\ Running("switch")
  /\ hot' = job.of
  /\ ready' = FALSE
  /\ handles' = HandlesLeft
  /\ mirror' = WarmOf(mirror)
  /\ job' = None
  /\ UNCHANGED <<exists, forwardReq, stops, switchReq, used>>

SwitchFails ==
  /\ Running("switch")
  /\ job' = None
  /\ UNCHANGED <<exists, ready, hot, ours, forwardReq, stops, switchReq, used>>

(* The new cluster's watches report that they are in sync. *)
Synced ==
  /\ ~ready
  /\ ready' = TRUE
  /\ UNCHANGED <<exists, hot, job, ours, forwardReq, stops, switchReq, used>>

(* Mutant: no look for a forward of the same pod. *)
NeverDuplicate(o) == FALSE

(* Skip if already forwarding this exact pod. *)
Duplicate(o) == \E f \in mirror : PodOf(f) = o

TakeForward ==
  /\ job = None /\ forwardReq # None
  /\ forwardReq' = None
  /\ job' = IF Duplicate(forwardReq) THEN None ELSE Await("forward", forwardReq)
  /\ UNCHANGED <<exists, ready, hot, ours, stops, switchReq, used>>

(* The port is looked up on the pod and a listener bound; the pod need not be
   there any more once the listener is. *)
EndForward(port) ==
  /\ Running("forward")
  /\ port \notin {f.port : f \in handles}
  /\ handles' = handles \cup {Forward(job.of, port)}
  /\ mirror' = mirror \cup {Forward(job.of, port)}
  /\ job' = None
  /\ UNCHANGED <<exists, ready, hot, forwardReq, stops, switchReq, used>>

(* No port to forward to, no answer in 15 seconds, or no local port. *)
ForwardFails ==
  /\ Running("forward")
  /\ job' = None
  /\ UNCHANGED <<exists, ready, hot, ours, forwardReq, stops, switchReq, used>>

(* A stop names its forward by the local port alone. *)
Stopped(f) == \E s \in stops : s.port = f.port

DrainStops ==
  /\ job = None /\ stops # {}
  /\ handles' = {f \in handles : ~Stopped(f)}
  /\ mirror' = {f \in mirror : ~\E h \in handles : Stopped(h) /\ h.port = f.port}
  /\ stops' = {}
  /\ UNCHANGED <<exists, loop, forwardReq, switchReq, used>>

(* Mutant: the store is believed before it is in sync. *)
GoneUnsynced(f) ==
  (f.side = "Hot" /\ ~ready) \/ PodOf(f) \notin exists

(* Mutant: only the hot cluster's forwards are looked at. *)
GoneHot(f) == f.side = "Hot" /\ ready /\ PodOf(f) \notin exists

(* Guarded on readiness, so an unsynced store can't wrongly reap. *)
Gone(f) ==
  /\ f.side = "Hot" => ready
  /\ PodOf(f) \notin exists

Reap ==
  /\ job = None
  /\ \E f \in handles : Gone(f)
  /\ handles' = {f \in handles : ~Gone(f)}
  /\ mirror' = {f \in mirror : \A h \in handles : Gone(h) => h.port # f.port}
  /\ UNCHANGED <<exists, loop, forwardReq, stops, switchReq, used>>

-----------------------------------------------------------------------------
Environment == Synced \/ \E o \in Pod : PodGoes(o) \/ PodReturns(o)

Window ==
  \/ \E o \in Pod : AskForward(o)
  \/ \E f \in mirror : AskStop(f)
  \/ \E c \in Clusters : RequestSwitch(c)

Connects == StartSwitch \/ EndSwitch \/ SwitchFails
Starts == TakeForward \/ ForwardFails \/ \E port \in Ports : EndForward(port)

Next == Environment \/ Window \/ Connects \/ Starts \/ DrainStops \/ Reap

(* Each time round, the loop stops what it is asked to stop and reaps. *)
Fairness ==
  /\ WF_vars(Connects) /\ WF_vars(Starts) /\ WF_vars(Synced)
  /\ SF_vars(DrainStops) /\ SF_vars(Reap)

Spec == Init /\ [][Next]_vars /\ Fairness

-----------------------------------------------------------------------------
Forwarded == [side : Sides, pod : Pods, port : Ports, on : Clusters]

(* Types; and the window's list and the handles behind it are in lock-step: one
   listed without a handle could not be stopped, and one not listed would hold
   its tunnel open unseen (the four places of net.rs that change both). *)
LockStep ==
  /\ handles \subseteq Forwarded
  /\ mirror = handles
  /\ exists \subseteq Pod /\ ready \in BOOLEAN
  /\ forwardReq \in Pod \cup {None}
  /\ stops \subseteq Forwarded

(* Each pod has at most one forward and each port one listener; and a forward
   listed under the hot cluster tunnels to it, not to one switched away from
   (the duplicate check, the switch and the reaping in net.rs). *)
OneTunnelToTheRightCluster ==
  /\ \A f, g \in handles : f # g => PodOf(f) # PodOf(g) /\ f.port # g.port
  /\ \A f \in handles : f.side = "Hot" => f.on = hot

EndsForAReasonStep ==
  \A f \in handles \ handles' :
    \/ \E s \in stops : s.port = f.port /\ (s = f \/ s \notin handles)
    \/ PodOf(f) \notin exists
    \/ f.side = "Hot" /\ Running("switch")

(* A forward ends for a reason of its own: the operator stops it, its pod is
   gone, or its cluster is left - or a stop meant for one that had ended names
   its port, which the system gave out again (the retains of net.rs). *)
EndsForAReason == [][EndsForAReasonStep]_vars

(* A forward whose pod is gone, and stays gone, is taken down and leaves the
   window's list, also after a switch (the reaping in net.rs). *)
GoneForwardsEnd ==
  \A o \in Pod :
    [](o \notin exists /\ (\E f \in handles : PodOf(f) = o)
         => <>(o \in exists \/ ~\E f \in handles : PodOf(f) = o))
=============================================================================
