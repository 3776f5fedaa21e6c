---------------------------- MODULE SessionProofs ----------------------------
(***************************************************************************)
(* Proofs about the three parts of MCSession - Browser, Access, Forwards -  *)
(* for any clusters, kinds, pods and ports.  They share the cluster         *)
(* connected to (`hot'): the inductive invariant is one for each part, and  *)
(* says of a part that is not followed that it is as it began.              *)
(***************************************************************************)
EXTENDS MCSession, TLAPS

HotKnown == part \in {"browser", "access", "forwards"} /\ hot \in Clusters

(* A job of the browser's loop is about what it says it is about. *)
BrowserJob ==
  /\ Br!Running("switch") => bJob.of \in Clusters
  /\ Br!Running("list") \/ Br!Running("store") => bJob.of \in Kinds
  /\ bSwitch \in Clusters \cup {None}

BrowserInv ==
  /\ BrowserNothingFromAnotherCluster
  /\ BrowserJob
  /\ part # "browser" => kinds = None /\ out = None /\ bJob = None

(* A verdict, and the snapshot shown, are the connected cluster's. *)
VerdictsAreHere ==
  /\ perm # None /\ perm.ok => hot \in allowed
  /\ shown # None => shown = hot
  /\ Ac!Running("switch") => aJob.of \in Clusters
  /\ aSwitch \in Clusters \cup {None}

AccessInv ==
  /\ AccessEvictionsAreHonest
  /\ VerdictsAreHere
  /\ part # "access" =>
       dialog = None /\ ops = {} /\ perm = None /\ shown = None /\ aJob = None

(* A forward is being started for a pod that has none. *)
StartsAreNew ==
  /\ Fw!Running("forward") =>
       fJob.of \in Fw!Pod /\ \A f \in handles : Fw!PodOf(f) # fJob.of
  /\ Fw!Running("switch") => fJob.of \in Clusters
  /\ fSwitch \in Clusters \cup {None}

ForwardsInv ==
  /\ ForwardsLockStep
  /\ ForwardsOneTunnelToTheRightCluster
  /\ StartsAreNew
  /\ part # "forwards" => handles = {} /\ fJob = None

IInv == HotKnown /\ BrowserInv /\ AccessInv /\ ForwardsInv

-----------------------------------------------------------------------------
LEMMA BrowserInit == Init => BrowserInv
  BY DEF Init, Br!Init, BrowserInv, BrowserNothingFromAnotherCluster,
         Br!NothingFromAnotherCluster, BrowserJob, Br!Running

(* The browser's own steps: what is stored is tagged with the cluster connected
   to, and a switch forgets it. *)
LEMMA BrowserStep ==
  ASSUME HotKnown, BrowserInv, Browse(Br!Next)
  PROVE  BrowserInv' /\ hot' \in Clusters
  <1> USE DEF BrowserInv, BrowserNothingFromAnotherCluster, Br!NothingFromAnotherCluster,
              BrowserJob, HotKnown
  <1>0. part = "browser" /\ part' = part /\ Br!Next
    BY DEF Browse
  <1>1. CASE Br!Window
    <2> USE <1>0, <1>1 DEF Br!Window, Br!Open, Br!Pick, Br!Back, Br!Close, Br!Leave
    <2>1. UNCHANGED <<hot, bSwitch, bJob>>
      BY DEF Br!conn
    <2>2. Br!NothingFromAnotherCluster'
      BY <2>1
    <2> QED
      BY <2>1, <2>2 DEF Br!Running
  <1>2. CASE Br!Switching
    BY <1>0, <1>2 DEF Br!Switching, Br!RequestSwitch, Br!window, Br!boxes, Br!Running
  <1>3. CASE Br!Connects
    BY <1>0, <1>3 DEF Br!Connects, Br!StartSwitch, Br!EndSwitch, Br!SwitchFails, Br!window,
                      Br!boxes, Br!conn, Br!Running, Br!Await
  <1>4. CASE Br!Answers
    BY <1>0, <1>4 DEF Br!Answers, Br!StartDiscover, Br!EndDiscover, Br!StartList, Br!Due,
                      Br!EndList, Br!StoreRows, Br!Rows, Br!window, Br!boxes, Br!conn,
                      Br!Running, Br!Await
  <1> QED
    BY <1>0, <1>1, <1>2, <1>3, <1>4 DEF Br!Next

(* While another part is followed, the browser is as it began. *)
LEMMA BrowserRests ==
  ASSUME BrowserInv, part # "browser", UNCHANGED <<part, browserVars>>
  PROVE  BrowserInv'
  BY DEF BrowserInv, BrowserNothingFromAnotherCluster, Br!NothingFromAnotherCluster,
         BrowserJob, Br!Running, browserVars

-----------------------------------------------------------------------------
LEMMA AccessInit == Init => AccessInv
  BY DEF Init, Ac!Init, AccessInv, AccessEvictionsAreHonest, Ac!EvictionsAreHonest,
         VerdictsAreHere, Ac!Running

(* The steps of the windows and the loop about evictions: `Evict' asks only on the
   verdict of the cluster shown, and the Annals record what took effect. *)
LEMMA AccessStep ==
  ASSUME HotKnown, AccessInv, Check(Ac!Next)
  PROVE  AccessInv' /\ hot' \in Clusters
  <1> USE DEF AccessInv, AccessEvictionsAreHonest, Ac!EvictionsAreHonest, VerdictsAreHere,
              HotKnown, Ac!Running, Ac!windows, Ac!caches, Ac!loop
  <1>0. part = "access" /\ part' = part /\ Ac!Next
    BY DEF Check
  <1>1. CASE Ac!Windows
    <2>1. CASE \E p \in Pods : Ac!AskEvict(p)
      BY <1>0, <2>1 DEF Ac!AskEvict, Ac!Order
    <2>2. CASE Ac!Windows /\ ~\E p \in Pods : Ac!AskEvict(p)
      <3>1. /\ UNCHANGED <<allowed, perm, shown, hot, aJob, ops, evicted>>
            /\ dialog' \in {dialog, None} /\ aSwitch' \in Clusters \cup {None}
        BY <2>2 DEF Ac!Windows, Ac!OpenPanel, Ac!ClosePanel, Ac!OpenCharter, Ac!CloseCharter,
                    Ac!CancelEvict, Ac!ConfirmEvict, Ac!RequestSwitch
      <3> QED
        BY <1>0, <3>1
    <2> QED
      BY <1>1, <2>1, <2>2
  <1>2. CASE Ac!Frames \/ Ac!StartProbe \/ Ac!TakeCharter \/ Ac!EndCharter
    BY <1>0, <1>2 DEF Ac!Frames, Ac!AskPermission, Ac!AskCharter, Ac!StartProbe, Ac!TakeCharter,
                      Ac!EndCharter, Ac!Await
  <1>3. CASE Ac!Connects
    BY <1>0, <1>3 DEF Ac!Connects, Ac!StartSwitch, Ac!EndSwitch, Ac!SwitchFails,
                      Ac!ForgetVerdicts, Ac!ClearedAnnals, Ac!Await
  <1>4. CASE Ac!Publish
    BY <1>0, <1>4 DEF Ac!Publish
  <1>5. CASE Ac!Evictions
    <2>1. CASE Ac!TakeEvict
      BY <1>0, <2>1 DEF Ac!TakeEvict, Ac!Await
    <2>2. ASSUME NEW effect \in BOOLEAN, NEW ok \in BOOLEAN, Ac!EndEvict(effect, ok)
          PROVE  AccessInv' /\ hot' \in Clusters
      <3>1. /\ UNCHANGED <<allowed, dialog, perm, shown, hot, aSwitch>> /\ aJob' = None
            /\ evicted \subseteq evicted'
            /\ effect => <<aJob.of, hot>> \in evicted'
            /\ \A p \in ops' : p \in ops \/ (effect /\ p = aJob.of.pod)
        BY <2>2 DEF Ac!EndEvict
      <3>2. \A p \in ops' : \E e \in evicted' : e[1].pod = p /\ e[2] = hot
        BY <3>1
      <3> QED
        BY <1>0, <3>1, <3>2
    <2> QED
      BY <1>5, <2>1, <2>2 DEF Ac!Evictions
  <1>6. CASE Ac!Probes
    <2>1. PICK answered \in BOOLEAN : Ac!EndProbe(answered)
      BY <1>6 DEF Ac!Probes
    <2>2. /\ UNCHANGED <<allowed, dialog, shown, hot, aSwitch, ops, evicted>> /\ aJob' = None
          /\ perm'.ok = (answered /\ hot \in allowed)
      BY <2>1 DEF Ac!EndProbe, Ac!Verdict
    <2>3. perm'.ok => hot \in allowed
      BY <2>2, Zenon
    <2> QED
      BY <1>0, <2>2, <2>3
  <1> QED
    BY <1>0, <1>1, <1>2, <1>3, <1>4, <1>5, <1>6 DEF Ac!Next

LEMMA AccessRests ==
  ASSUME AccessInv, part # "access", UNCHANGED <<part, accessVars>>
  PROVE  AccessInv'
  BY DEF AccessInv, AccessEvictionsAreHonest, Ac!EvictionsAreHonest, VerdictsAreHere,
         Ac!Running, accessVars

-----------------------------------------------------------------------------
LEMMA ForwardsInit == Init => ForwardsInv
  BY DEF Init, Fw!Init, ForwardsInv, ForwardsLockStep, Fw!LockStep,
         ForwardsOneTunnelToTheRightCluster, Fw!OneTunnelToTheRightCluster, StartsAreNew,
         Fw!Running

(* What a forward is, and which pod it is of. *)
LEMMA ForwardFacts ==
  ASSUME HotKnown, NEW o \in Fw!Pod, NEW port \in Ports
  PROVE  /\ Fw!Forward(o, port) \in Fw!Forwarded
         /\ Fw!PodOf(Fw!Forward(o, port)) = o
         /\ Fw!Forward(o, port).port = port
         /\ Fw!Forward(o, port).on = hot
  BY DEF HotKnown, Fw!Pod, Fw!Forward, Fw!Forwarded, Fw!PodOf

(* The two lists lose the same forwards, chosen by port in the one and by handle
   in the other. *)
LEMMA RetainsAgree ==
  ASSUME ForwardsInv
  PROVE  /\ {f \in mirror : ~\E h \in handles : Fw!Stopped(h) /\ h.port = f.port}
              = {f \in handles : ~Fw!Stopped(f)}
         /\ {f \in mirror : \A h \in handles : Fw!Gone(h) => h.port # f.port}
              = {f \in handles : ~Fw!Gone(f)}
  <1>1. mirror = handles /\ \A f, g \in handles : f.port = g.port => f = g
    BY DEF ForwardsInv, ForwardsLockStep, Fw!LockStep, ForwardsOneTunnelToTheRightCluster,
           Fw!OneTunnelToTheRightCluster
  <1> QED
    BY <1>1

(* No step of the loop or the window separates the list from the handles, opens a
   second tunnel for a pod, or leaves a hot one under another cluster. *)
LEMMA ForwardsStep ==
  ASSUME HotKnown, ForwardsInv, Forward(Fw!Next)
  PROVE  ForwardsInv' /\ hot' \in Clusters
  <1> USE DEF ForwardsInv, ForwardsLockStep, Fw!LockStep, ForwardsOneTunnelToTheRightCluster,
              Fw!OneTunnelToTheRightCluster, StartsAreNew, HotKnown, Fw!Running, Fw!loop,
              Fw!ours
  <1>0. part = "forwards" /\ part' = part /\ Fw!Next
    BY DEF Forward
  <1>1. CASE Fw!Environment
    <2>1. /\ UNCHANGED <<handles, mirror, forwardReq, stops, hot, fSwitch, fJob>>
          /\ exists' \subseteq Fw!Pod /\ ready' \in BOOLEAN
      BY <1>1 DEF Fw!Environment, Fw!Synced, Fw!PodGoes, Fw!PodReturns
    <2> QED
      BY <1>0, <2>1
  <1>2. CASE Fw!Window
    <2>1. /\ UNCHANGED <<exists, ready, handles, mirror, hot, fJob>>
          /\ forwardReq' \in Fw!Pod \cup {None} /\ stops' \subseteq Fw!Forwarded
          /\ fSwitch' \in Clusters \cup {None}
      BY <1>2 DEF Fw!Window, Fw!AskForward, Fw!AskStop, Fw!RequestSwitch
    <2> QED
      BY <1>0, <2>1
  <1>3. CASE Fw!Connects
    <2>1. CASE Fw!StartSwitch
      BY <1>0, <2>1 DEF Fw!StartSwitch, Fw!Await
    <2>2. CASE Fw!EndSwitch
      BY <1>0, <2>2 DEF Fw!EndSwitch, Fw!HandlesLeft, Fw!WarmOf, Fw!Await
    <2>3. CASE Fw!SwitchFails
      BY <1>0, <2>3 DEF Fw!SwitchFails
    <2> QED
      BY <1>3, <2>1, <2>2, <2>3 DEF Fw!Connects
  <1>4. CASE Fw!TakeForward
    <2>1. /\ UNCHANGED <<exists, ready, hot, handles, mirror, stops, fSwitch>>
          /\ forwardReq' = None /\ forwardReq \in Fw!Pod
      BY <1>4 DEF Fw!TakeForward
    <2>2. CASE Fw!Duplicate(forwardReq)
      BY <1>0, <1>4, <2>1, <2>2 DEF Fw!TakeForward
    <2>3. CASE ~Fw!Duplicate(forwardReq)
      BY <1>0, <1>4, <2>1, <2>3 DEF Fw!TakeForward, Fw!Duplicate, Fw!Await
    <2> QED
      BY <2>2, <2>3
  <1>5. CASE Fw!ForwardFails
    BY <1>0, <1>5 DEF Fw!ForwardFails
  <1>6. ASSUME NEW port \in Ports, Fw!EndForward(port)
        PROVE  ForwardsInv' /\ hot' \in Clusters
    <2> DEFINE new == Fw!Forward(fJob.of, port)
    <2>1. /\ UNCHANGED <<exists, ready, hot, forwardReq, stops, fSwitch>> /\ fJob' = None
          /\ handles' = handles \cup {new} /\ mirror' = mirror \cup {new}
          /\ \A f \in handles : f.port # port /\ Fw!PodOf(f) # fJob.of
      BY <1>6 DEF Fw!EndForward
    <2>2. fJob.of \in Fw!Pod
      BY <1>6 DEF Fw!EndForward
    <2>3. /\ new \in Fw!Forwarded /\ Fw!PodOf(new) = fJob.of
          /\ new.port = port /\ new.on = hot
      BY <2>2, ForwardFacts
    <2> HIDE DEF new
    <2> QED
      BY <1>0, <2>1, <2>3
  <1>7. CASE Fw!DrainStops
    <2>1. handles' = {f \in handles : ~Fw!Stopped(f)} /\ mirror' = handles'
      BY <1>7, RetainsAgree DEF Fw!DrainStops
    <2>2. UNCHANGED <<exists, ready, hot, fJob, forwardReq, fSwitch>> /\ stops' = {}
      BY <1>7 DEF Fw!DrainStops
    <2> QED
      BY <1>0, <2>1, <2>2
  <1>8. CASE Fw!Reap
    <2>1. handles' = {f \in handles : ~Fw!Gone(f)} /\ mirror' = handles'
      BY <1>8, RetainsAgree DEF Fw!Reap
    <2>2. UNCHANGED <<exists, ready, hot, fJob, forwardReq, stops, fSwitch>>
      BY <1>8 DEF Fw!Reap
    <2> QED
      BY <1>0, <2>1, <2>2
  <1> QED
    BY <1>0, <1>1, <1>2, <1>3, <1>4, <1>5, <1>6, <1>7, <1>8 DEF Fw!Next, Fw!Starts

LEMMA ForwardsRests ==
  ASSUME ForwardsInv, part # "forwards", UNCHANGED <<part, forwardsVars>>
  PROVE  ForwardsInv'
  <1>1. handles = {} /\ handles' = {} /\ fJob' = None
    BY DEF ForwardsInv, forwardsVars
  <1>2. UNCHANGED <<mirror, exists, ready, forwardReq, stops, fSwitch>>
    BY DEF forwardsVars
  <1> QED
    BY <1>1, <1>2 DEF ForwardsInv, ForwardsLockStep, Fw!LockStep,
       ForwardsOneTunnelToTheRightCluster, Fw!OneTunnelToTheRightCluster, StartsAreNew,
       Fw!Running

-----------------------------------------------------------------------------
LEMMA NextInv == IInv /\ [Next]_vars => IInv'
  <1> SUFFICES ASSUME IInv, [Next]_vars PROVE IInv'
    OBVIOUS
  <1> USE DEF IInv
  <1>1. CASE Browse(Br!Next)
    <2>1. part = "browser" /\ UNCHANGED <<part, accessVars, forwardsVars>>
      BY <1>1 DEF Browse
    <2> QED
      BY <1>1, <2>1, BrowserStep, AccessRests, ForwardsRests DEF HotKnown
  <1>2. CASE Check(Ac!Next)
    <2>1. part = "access" /\ UNCHANGED <<part, browserVars, forwardsVars>>
      BY <1>2 DEF Check
    <2> QED
      BY <1>2, <2>1, AccessStep, BrowserRests, ForwardsRests DEF HotKnown
  <1>3. CASE Forward(Fw!Next)
    <2>1. part = "forwards" /\ UNCHANGED <<part, browserVars, accessVars>>
      BY <1>3 DEF Forward
    <2> QED
      BY <1>3, <2>1, ForwardsStep, BrowserRests, AccessRests DEF HotKnown
  <1>4. CASE UNCHANGED vars
    <2>1. UNCHANGED <<part, hot, browserVars, accessVars, forwardsVars>>
      BY <1>4 DEF vars
    <2>2. HotKnown'
      BY <2>1 DEF HotKnown
    <2>3. BrowserInv'
      BY <2>1 DEF BrowserInv, BrowserNothingFromAnotherCluster, Br!NothingFromAnotherCluster,
                  BrowserJob, Br!Running, browserVars
    <2>4. AccessInv'
      BY <2>1 DEF AccessInv, AccessEvictionsAreHonest, Ac!EvictionsAreHonest,
                  VerdictsAreHere, Ac!Running, accessVars
    <2>5. ForwardsInv'
      BY <2>1 DEF ForwardsInv, ForwardsLockStep, Fw!LockStep, StartsAreNew, Fw!Running,
                  ForwardsOneTunnelToTheRightCluster, Fw!OneTunnelToTheRightCluster,
                  forwardsVars
    <2> QED
      BY <2>2, <2>3, <2>4, <2>5
  <1> QED
    BY <1>1, <1>2, <1>3, <1>4 DEF Next

(* The inductive invariant of the three parts holds throughout. *)
THEOREM Inductive == Spec => []IInv
  <1>1. Init => HotKnown
    BY DEF Init, HotKnown, Br!Init
  <1>2. Init => IInv
    BY <1>1, BrowserInit, AccessInit, ForwardsInit DEF IInv
  <1> QED
    BY <1>2, NextInv, PTL DEF Spec

(* Whatever switches come while a list is on its way, the kinds on offer and the
   rows shown are of the cluster connected to: an answer is stored by the loop
   that asked, and a switch empties the mailboxes (net.rs). *)
THEOREM RowsAreOfThisCluster == Spec => []BrowserNothingFromAnotherCluster
  <1>1. IInv => BrowserNothingFromAnotherCluster
    BY DEF IInv, BrowserInv
  <1> QED
    BY <1>1, Inductive, PTL

(* No eviction is asked of the operator that was not permitted where the pod was
   seen, and the Annals name only evictions that took effect on the cluster they
   are about, though a confirmed one survives the switch in its mailbox. *)
THEOREM EvictionsHonest == Spec => []AccessEvictionsAreHonest
  <1>1. IInv => AccessEvictionsAreHonest
    BY DEF IInv, AccessInv
  <1> QED
    BY <1>1, Inductive, PTL

(* The window's list of forwards and the loop's handles never differ, though the
   one is filtered by port and the other by the handle (net.rs). *)
THEOREM ListAndHandlesAgree == Spec => []ForwardsLockStep
  <1>1. IInv => ForwardsLockStep
    BY DEF IInv, ForwardsInv
  <1> QED
    BY <1>1, Inductive, PTL

(* A pod has at most one forward, a port one listener, and a forward listed under
   the hot cluster is a tunnel to that cluster. *)
THEOREM OneTunnel == Spec => []ForwardsOneTunnelToTheRightCluster
  <1>1. IInv => ForwardsOneTunnelToTheRightCluster
    BY DEF IInv, ForwardsInv
  <1> QED
    BY <1>1, Inductive, PTL

(* A handle is dropped only for a stop that names its port - its own, or one for a
   forward that had ended - or for its pod being gone, or for a switch away from
   its cluster: of two live forwards, no stop ends the wrong one. *)
THEOREM EndsOnlyForAReason == Spec => ForwardsEndForAReason
  <1>1. IInv /\ [Next]_vars => [Fw!EndsForAReasonStep]_vars
    <2> SUFFICES ASSUME IInv, [Next]_vars, NEW f \in handles, f \notin handles'
                 PROVE  \/ \E s \in stops : s.port = f.port /\ (s = f \/ s \notin handles)
                        \/ Fw!PodOf(f) \notin exists
                        \/ f.side = "Hot" /\ Fw!Running("switch")
      BY DEF Fw!EndsForAReasonStep
    <2>0. Fw!Next
      BY DEF Next, Browse, Check, Forward, forwardsVars, vars
    <2>1. /\ ForwardsInv /\ f \in Fw!Forwarded
          /\ \A g \in handles : g.port = f.port => g = f
      BY DEF IInv, ForwardsInv, ForwardsLockStep, Fw!LockStep,
             ForwardsOneTunnelToTheRightCluster, Fw!OneTunnelToTheRightCluster
    <2>2. CASE Fw!EndSwitch
      BY <2>1, <2>2 DEF Fw!EndSwitch, Fw!HandlesLeft, Fw!WarmOf, Fw!Forwarded, Fw!Sides
    <2>3. CASE Fw!DrainStops
      <3>1. PICK s \in stops : s.port = f.port
        BY <2>3 DEF Fw!DrainStops, Fw!Stopped
      <3> QED
        BY <2>1, <3>1
    <2>4. CASE Fw!Reap
      BY <2>4 DEF Fw!Reap, Fw!Gone
    <2>5. CASE Fw!Starts
      BY <2>5 DEF Fw!Starts, Fw!TakeForward, Fw!ForwardFails, Fw!EndForward, Fw!ours
    <2>6. CASE Fw!Environment \/ Fw!Window \/ Fw!StartSwitch \/ Fw!SwitchFails
      BY <2>6 DEF Fw!Environment, Fw!Synced, Fw!PodGoes, Fw!PodReturns, Fw!Window,
                  Fw!AskForward, Fw!AskStop, Fw!RequestSwitch, Fw!StartSwitch,
                  Fw!SwitchFails, Fw!ours
    <2> QED
      BY <2>0, <2>2, <2>3, <2>4, <2>5, <2>6 DEF Fw!Next, Fw!Connects
  <1> QED
    BY <1>1, Inductive, PTL DEF Spec, ForwardsEndForAReason
=============================================================================
