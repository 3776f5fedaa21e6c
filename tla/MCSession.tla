----------------------------- MODULE MCSession -----------------------------
(***************************************************************************)
(* One run for three parts of a session that share the cluster connected to  *)
(* and nothing else: the browser, the access checks with the evictions, and  *)
(* the port-forwards.  Each behaviour follows one of them, chosen at the     *)
(* start; the others stay as they began.                                     *)
(***************************************************************************)
EXTENDS Naturals

CONSTANTS Clusters, Kinds, Pods, Ports, None, MaxSwitches, MaxEvicts, MaxStarts

VARIABLES
  part, hot,
  (* Browser *)
  win, title, kinds, discoverReq, req, out, bSwitch, bJob, switches, orphaned,
  (* Access *)
  allowed, panel, dialog, chartered, perm, permPending, charterReq, charterOut,
  evictReq, shown, aSwitch, aJob, ops, evicted, aUsed,
  (* Forwards *)
  exists, ready, handles, mirror, forwardReq, stops, fSwitch, fJob, fUsed

browserVars ==
  <<win, title, kinds, discoverReq, req, out, bSwitch, bJob, switches, orphaned>>
accessVars ==
  <<allowed, panel, dialog, chartered, perm, permPending, charterReq, charterOut,
    evictReq, shown, aSwitch, aJob, ops, evicted, aUsed>>
forwardsVars ==
  <<exists, ready, handles, mirror, forwardReq, stops, fSwitch, fJob, fUsed>>
vars == <<part, hot, browserVars, accessVars, forwardsVars>>

Br == INSTANCE Browser WITH switchReq <- bSwitch, job <- bJob
Ac == INSTANCE Access WITH switchReq <- aSwitch, job <- aJob, used <- aUsed
Fw == INSTANCE Forwards WITH switchReq <- fSwitch, job <- fJob, used <- fUsed

Init ==
  /\ part \in {"browser", "access", "forwards"}
  /\ Br!Init /\ Ac!Init /\ Fw!Init
  /\ part # "access" => allowed = {}

Browse(A) ==
  /\ part = "browser" /\ A
  /\ UNCHANGED <<part, accessVars, forwardsVars>>

Check(A) ==
  /\ part = "access" /\ A
  /\ UNCHANGED <<part, browserVars, forwardsVars>>

Forward(A) ==
  /\ part = "forwards" /\ A
  /\ UNCHANGED <<part, browserVars, accessVars>>

Next == Browse(Br!Next) \/ Check(Ac!Next) \/ Forward(Fw!Next)

(* The fairness of each module, for the part that is followed. *)
Fairness ==
  /\ WF_vars(Browse(Br!Connects))
  /\ SF_vars(Browse(Br!StartDiscover)) /\ WF_vars(Browse(Br!EndDiscover))
  /\ SF_vars(Browse(Br!StartList))
  /\ WF_vars(Browse(Br!EndList)) /\ WF_vars(Browse(Br!StoreRows))
  /\ WF_vars(Check(Ac!AskPermission)) /\ WF_vars(Check(Ac!AskCharter))
  /\ WF_vars(Check(Ac!Connects)) /\ SF_vars(Check(Ac!Evictions))
  /\ SF_vars(Check(Ac!StartProbe)) /\ WF_vars(Check(Ac!Probes))
  /\ SF_vars(Check(Ac!TakeCharter)) /\ WF_vars(Check(Ac!EndCharter))
  /\ WF_vars(Forward(Fw!Connects)) /\ WF_vars(Forward(Fw!Starts))
  /\ WF_vars(Forward(Fw!Synced))
  /\ SF_vars(Forward(Fw!DrainStops)) /\ SF_vars(Forward(Fw!Reap))

Spec == Init /\ [][Next]_vars /\ Fairness

-----------------------------------------------------------------------------
(* Browser: what is on offer and listed is the connected cluster's. *)
BrowserNothingFromAnotherCluster == Br!NothingFromAnotherCluster

(* Browser: an open browser is answered, unless a switch took its request. *)
BrowserAnsweredUnlessOrphaned == Br!AnsweredUnlessOrphaned

(* Access: evictions are offered where permitted, and recorded where they took
   effect. *)
AccessEvictionsAreHonest == Ac!EvictionsAreHonest

(* Access: an open window learns what the operator may do. *)
AccessVerdictsArrive == Ac!VerdictsArrive

(* Forwards: the window's list and the handles are in lock-step. *)
ForwardsLockStep == Fw!LockStep

(* Forwards: one tunnel for a pod, to the cluster it is listed under. *)
ForwardsOneTunnelToTheRightCluster == Fw!OneTunnelToTheRightCluster

(* Forwards: a forward ends only for a reason of its own. *)
ForwardsEndForAReason ==
  [][Fw!EndsForAReasonStep]_vars

(* Forwards: the forward of a pod that is gone is taken down. *)
ForwardsGoneEnd == Fw!GoneForwardsEnd
=============================================================================
