------------------------------- MODULE Access -------------------------------
(***************************************************************************)
(* What the operator may do, and the one order given at once: evicting a     *)
(* pod.  The city and node windows poll the cached verdict of an RBAC probe  *)
(* every frame and, while there is none, ask for the probe; the Charter      *)
(* window does the same for its grid.  `Evict' is offered on a positive      *)
(* verdict, raises a confirmation, and leaves the confirmed eviction in a    *)
(* mailbox of one place.  The world loop (net.rs) probes and evicts.         *)
(*                                                                           *)
(* One namespace stands for all; what each cluster allows does not change.   *)
(***************************************************************************)
EXTENDS Naturals

CONSTANTS
  Clusters,     (* the clusters the operator may switch between            *)
  Pods,         (* pod names, which may exist on every cluster             *)
  MaxEvicts,    (* bound: evictions confirmed in one run                   *)
  MaxSwitches,  (* bound: context switches asked for in one run            *)
  None          (* an absent Option                                        *)

VARIABLES
  allowed,      (* the clusters whose RBAC lets the operator evict         *)
  panel,        (* a city or node window is open                           *)
  dialog,       (* pending_evict: the eviction asked about, or None        *)
  chartered,    (* the Charter window is open                              *)
  perm,         (* evict_perm: the verdict of a probe and its cluster      *)
  permPending,  (* evict_perm_pending                                      *)
  charterReq,   (* the mailbox charter_req is full                         *)
  charterOut,   (* charter_out: the cluster probed, or None                *)
  evictReq,     (* the mailbox evict_req                                   *)
  shown,        (* the cluster of the snapshot the windows show, or None   *)
  hot,          (* the cluster the world loop is connected to              *)
  switchReq,    (* the mailbox `switch'                                    *)
  job,          (* what the world loop is awaiting, or None                *)
  ops,          (* operator_actions: the evictions in the Annals           *)
  evicted,      (* history: the evictions that took effect, each with the
                   cluster it took effect on                               *)
  used          (* how much of each bound is used up                       *)

windows == <<panel, dialog, chartered>>
caches  == <<perm, permPending, charterReq, charterOut>>
loop    == <<shown, hot, job, ops, evicted>>
vars    == <<allowed, windows, caches, loop, evictReq, switchReq, used>>

(* An eviction, and (history) the cluster the operator saw the pod on. *)
Order(p, c) == [pod |-> p, saw |-> c]
Await(what, of) == [kind |-> what, of |-> of]
Running(what) == job # None /\ job.kind = what
Spend(what) == used' = [used EXCEPT ![what] = @ + 1]

Init ==
  /\ allowed \in SUBSET Clusters
  /\ panel = FALSE /\ dialog = None /\ chartered = FALSE
  /\ perm = None /\ permPending = FALSE
  /\ charterReq = FALSE /\ charterOut = None
  /\ evictReq = None /\ shown = None
  /\ hot \in Clusters /\ switchReq = None /\ job = None
  /\ ops = {} /\ evicted = {}
  /\ used = [evicts |-> 0, switches |-> 0]

-----------------------------------------------------------------------------
(* The windows; a drill-down and the Charter are not open together. *)
OpenPanel ==
  /\ ~panel /\ ~chartered /\ shown # None
  /\ panel' = TRUE
  /\ UNCHANGED <<allowed, dialog, chartered, caches, loop, evictReq, switchReq, used>>

(* Esc and a click reach the confirmation first. *)
ClosePanel ==
  /\ panel /\ dialog = None
  /\ panel' = FALSE
  /\ UNCHANGED <<allowed, dialog, chartered, caches, loop, evictReq, switchReq, used>>

OpenCharter ==
  /\ ~panel /\ ~chartered
  /\ chartered' = TRUE
  /\ UNCHANGED <<allowed, panel, dialog, caches, loop, evictReq, switchReq, used>>

CloseCharter ==
  /\ chartered
  /\ chartered' = FALSE
  /\ UNCHANGED <<allowed, panel, dialog, caches, loop, evictReq, switchReq, used>>

(* A frame of an open window asks for the verdict it has not got. *)
AskPermission ==
  /\ panel /\ shown # None
  /\ perm = None /\ ~permPending
  /\ permPending' = TRUE
  /\ UNCHANGED <<allowed, windows, perm, charterReq, charterOut, loop, evictReq,
                 switchReq, used>>

AskCharter ==
  /\ chartered /\ charterOut = None /\ ~charterReq
  /\ charterReq' = TRUE
  /\ UNCHANGED <<allowed, windows, perm, permPending, charterOut, loop, evictReq,
                 switchReq, used>>

(* The button is live only on a positive verdict. *)
AskEvict(p) ==
  /\ panel /\ dialog = None /\ shown # None
  /\ perm # None /\ perm.ok
  /\ dialog' = Order(p, shown)
  /\ UNCHANGED <<allowed, panel, chartered, caches, loop, evictReq, switchReq, used>>

CancelEvict ==
  /\ dialog # None
  /\ dialog' = None
  /\ UNCHANGED <<allowed, panel, chartered, caches, loop, evictReq, switchReq, used>>

(* A second confirmation replaces one the loop has not taken. *)
ConfirmEvict ==
  /\ dialog # None /\ used.evicts < MaxEvicts
  /\ evictReq' = dialog
  /\ dialog' = None
  /\ Spend("evicts")
  /\ UNCHANGED <<allowed, panel, chartered, caches, loop, switchReq>>

(* The context picker opens over the bare map. *)
RequestSwitch(c) ==
  /\ ~panel /\ ~chartered
  /\ used.switches < MaxSwitches
  /\ switchReq' = c
  /\ Spend("switches")
  /\ UNCHANGED <<allowed, windows, caches, loop, evictReq>>

-----------------------------------------------------------------------------
(* The world loop, one await at a time; the windows stay live meanwhile. *)
StartSwitch ==
  /\ job = None /\ switchReq # None
  /\ job' = Await("switch", switchReq)
  /\ switchReq' = None
  /\ UNCHANGED <<allowed, windows, caches, shown, hot, ops, evicted, evictReq, used>>

(* Mutant: the verdicts survive the switch. *)
ForgetCharter ==
  /\ charterReq' = FALSE /\ charterOut' = None
  /\ UNCHANGED <<perm, permPending>>

(* RBAC answers were for the old cluster. *)
ForgetVerdicts ==
  /\ perm' = None /\ permPending' = FALSE
  /\ charterReq' = FALSE /\ charterOut' = None

(* Mutant: the Annals keep the old cluster's writes. *)
KeepAnnals == ops

(* The operator-action log belonged to the old cluster. *)
ClearedAnnals == {}

(* The mailbox evict_req, and a confirmation on the screen, stay as they are. *)
EndSwitch ==
  /\ Running("switch")
  /\ hot' = job.of
  /\ shown' = None
  /\ ForgetVerdicts
  /\ ops' = ClearedAnnals
  /\ job' = None
  /\ UNCHANGED <<allowed, windows, evicted, evictReq, switchReq, used>>

SwitchFails ==
  /\ Running("switch")
  /\ job' = None
  /\ UNCHANGED <<allowed, windows, caches, shown, hot, ops, evicted, evictReq,
                 switchReq, used>>

(* The world is synced and its snapshot published. *)
Publish ==
  /\ job = None /\ shown # hot
  /\ shown' = hot
  /\ UNCHANGED <<allowed, windows, caches, hot, job, ops, evicted, evictReq,
                 switchReq, used>>

TakeEvict ==
  /\ job = None /\ evictReq # None
  /\ job' = Await("evict", evictReq)
  /\ evictReq' = None
  /\ UNCHANGED <<allowed, windows, caches, shown, hot, ops, evicted, switchReq, used>>

(* The eviction takes effect or not - the cluster may refuse, a budget may, the
   pod may be gone - and the answer to one that did may be lost.  Only one
   that is reported to have succeeded goes to the Annals. *)
EndEvict(effect, ok) ==
  /\ Running("evict")
  /\ effect => hot \in allowed
  /\ ok => effect
  /\ evicted' = IF effect THEN evicted \cup {<<job.of, hot>>} ELSE evicted
  /\ ops' = IF ok THEN ops \cup {job.of.pod} ELSE ops
  /\ job' = None
  /\ UNCHANGED <<allowed, windows, caches, shown, hot, evictReq, switchReq, used>>

StartProbe ==
  /\ job = None /\ permPending
  /\ permPending' = FALSE
  /\ job' = Await("probe", None)
  /\ UNCHANGED <<allowed, windows, perm, charterReq, charterOut, shown, hot, ops,
                 evicted, evictReq, switchReq, used>>

(* Mutant: an error leaves the question open. *)
VerdictIfAnswered(answered) ==
  IF answered THEN [ok |-> hot \in allowed, from |-> hot] ELSE None

(* Deny on error (the safe default). *)
Verdict(answered) == [ok |-> answered /\ hot \in allowed, from |-> hot]

EndProbe(answered) ==
  /\ Running("probe")
  /\ perm' = Verdict(answered)
  /\ job' = None
  /\ UNCHANGED <<allowed, windows, permPending, charterReq, charterOut, shown, hot,
                 ops, evicted, evictReq, switchReq, used>>

(* A scope already cached is not probed again. *)
TakeCharter ==
  /\ job = None /\ charterReq
  /\ charterReq' = FALSE
  /\ job' = IF charterOut = None THEN Await("charter", None) ELSE None
  /\ UNCHANGED <<allowed, windows, perm, permPending, charterOut, shown, hot, ops,
                 evicted, evictReq, switchReq, used>>

(* A burst that timed out is stored too, as "unavailable". *)
EndCharter ==
  /\ Running("charter")
  /\ charterOut' = hot
  /\ job' = None
  /\ UNCHANGED <<allowed, windows, perm, permPending, charterReq, shown, hot, ops,
                 evicted, evictReq, switchReq, used>>

-----------------------------------------------------------------------------
Windows ==
  \/ OpenPanel \/ ClosePanel \/ OpenCharter \/ CloseCharter
  \/ CancelEvict \/ ConfirmEvict
  \/ \E p \in Pods : AskEvict(p)
  \/ \E c \in Clusters : RequestSwitch(c)

Frames == AskPermission \/ AskCharter
Connects == StartSwitch \/ EndSwitch \/ SwitchFails
Evictions == TakeEvict \/ \E effect, ok \in BOOLEAN : EndEvict(effect, ok)
Probes == \E answered \in BOOLEAN : EndProbe(answered)

Next ==
  Windows \/ Frames \/ Connects \/ Publish \/ Evictions
    \/ StartProbe \/ Probes \/ TakeCharter \/ EndCharter

(* An open window draws its frames; the loop serves every mailbox each time
   round, and its calls are answered or give up. *)
Fairness ==
  /\ WF_vars(AskPermission) /\ WF_vars(AskCharter)
  /\ WF_vars(Connects) /\ SF_vars(Evictions)
  /\ SF_vars(StartProbe) /\ WF_vars(Probes)
  /\ SF_vars(TakeCharter) /\ WF_vars(EndCharter)

Spec == Init /\ [][Next]_vars /\ Fairness

-----------------------------------------------------------------------------
(* Evictions are honest at both ends.  The operator is asked to confirm only what
   was permitted where the pod was seen: no verdict outlives its cluster on the
   way to the button (evict_allowed in net.rs, evict_button in window.rs).  And
   the Annals name an eviction only if it took effect on the cluster they are
   about, whatever switches came between (push_op in net.rs).  *)
EvictionsAreHonest ==
  /\ dialog # None => dialog.saw \in allowed
  /\ \A p \in ops : \E e \in evicted : e[1].pod = p /\ e[2] = hot

(* A window left open learns what the operator may do, and the Charter its
   grid: a failed probe does not leave it asking for good, and a switch under
   it does not either (the polls of city.rs, node.rs and charter.rs). *)
VerdictsArrive ==
  /\ [](panel /\ shown # None => <>(~panel \/ shown = None \/ perm # None))
  /\ [](chartered => <>(~chartered \/ charterOut # None))
=============================================================================
