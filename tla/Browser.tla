------------------------------ MODULE Browser ------------------------------
(***************************************************************************)
(* The resource browser: the `:' window of main.rs and browse.rs, and the    *)
(* steps of the world loop (net.rs) that answer it.  The window asks once    *)
(* for the kinds the cluster serves, asks for the objects of the kind it is  *)
(* showing, and reads both answers from mailboxes; the loop discovers,       *)
(* lists, and lists again about every two seconds.                           *)
(*                                                                           *)
(* A mailbox's content is tagged with the cluster it came from: what the     *)
(* window shows under a cluster's name must be that cluster's.               *)
(***************************************************************************)
EXTENDS Naturals

CONSTANTS
  Clusters,     (* the clusters the operator may switch between            *)
  Kinds,        (* the kinds an API server may list                        *)
  MaxSwitches,  (* bound: context switches asked for in one run            *)
  None          (* an absent Option                                        *)

VARIABLES
  win,          (* the window: "closed", "pick" (a kind) or "table"        *)
  title,        (* the kind the table was opened for                       *)
  kinds,        (* the mailbox kinds: the cluster discovered, or None      *)
  discoverReq,  (* the flag discover_req                                   *)
  req,          (* the mailbox browse_req: a kind, or None                 *)
  out,          (* the mailbox browse_out: the rows' kind and cluster      *)
  hot,          (* the cluster the world loop is connected to              *)
  switchReq,    (* the mailbox `switch'                                    *)
  job,          (* what the world loop is awaiting, or None                *)
  switches,     (* how many switches were asked for                        *)
  orphaned      (* history: a switch took the requests of an open window   *)

window == <<win, title>>
boxes  == <<kinds, discoverReq, req, out>>
conn   == <<hot, switchReq, switches, orphaned>>
vars   == <<window, boxes, conn, job>>

Rows(k, c) == [of |-> k, from |-> c]
Await(what, of) == [kind |-> what, of |-> of]
Running(what) == job # None /\ job.kind = what

Init ==
  /\ win = "closed" /\ title = None
  /\ kinds = None /\ discoverReq = FALSE /\ req = None /\ out = None
  /\ hot \in Clusters /\ switchReq = None /\ job = None
  /\ switches = 0 /\ orphaned = FALSE

-----------------------------------------------------------------------------
(* `:' over the bare map asks for discovery only when no kinds are known. *)
Open ==
  /\ win = "closed"
  /\ win' = "pick"
  /\ discoverReq' = (discoverReq \/ kinds = None)
  /\ orphaned' = FALSE
  /\ UNCHANGED <<title, kinds, req, out, hot, switchReq, switches, job>>

(* A click on a kind; the rows of an earlier request are blanked. *)
Pick(k) ==
  /\ win = "pick" /\ kinds # None
  /\ win' = "table" /\ title' = k
  /\ req' = k /\ out' = None
  /\ orphaned' = FALSE
  /\ UNCHANGED <<kinds, discoverReq, hot, switchReq, switches, job>>

(* Back to the kinds, or out: the loop stops listing. *)
Leave(to) ==
  /\ win' = to /\ req' = None /\ out' = None

Back ==
  /\ win = "table"
  /\ Leave("pick")
  /\ UNCHANGED <<title, kinds, discoverReq, conn, job>>

Close ==
  /\ win # "closed"
  /\ Leave("closed")
  /\ UNCHANGED <<title, kinds, discoverReq, conn, job>>

(* The context picker does not open over the browser. *)
RequestSwitch(c) ==
  /\ win = "closed"
  /\ switches < MaxSwitches
  /\ switchReq' = c
  /\ switches' = switches + 1
  /\ UNCHANGED <<window, boxes, hot, orphaned, job>>

-----------------------------------------------------------------------------
(* The world loop, one await at a time; the window stays live meanwhile. *)
StartSwitch ==
  /\ job = None /\ switchReq # None
  /\ job' = Await("switch", switchReq)
  /\ switchReq' = None
  /\ UNCHANGED <<window, boxes, hot, switches, orphaned>>

(* What the open window waits for that will not be asked for again: the rows of
   its table, or kinds nobody is asked to discover. *)
Abandons == win = "table" \/ (win = "pick" /\ ~discoverReq)

(* Mutant: the kinds discovered survive the switch. *)
EndSwitchKeepsKinds ==
  /\ Running("switch")
  /\ hot' = job.of
  /\ req' = None /\ out' = None
  /\ job' = None
  /\ orphaned' = Abandons
  /\ UNCHANGED <<window, kinds, discoverReq, switchReq, switches>>

(* What was discovered and listed is the old cluster's.  A discovery already
   asked for stays asked for. *)
EndSwitch ==
  /\ Running("switch")
  /\ hot' = job.of
  /\ kinds' = None /\ req' = None /\ out' = None
  /\ job' = None
  /\ orphaned' = Abandons
  /\ UNCHANGED <<window, discoverReq, switchReq, switches>>

SwitchFails ==
  /\ Running("switch")
  /\ job' = None
  /\ UNCHANGED <<window, boxes, conn>>

StartDiscover ==
  /\ job = None /\ discoverReq
  /\ discoverReq' = FALSE
  /\ job' = Await("discover", None)
  /\ UNCHANGED <<window, kinds, req, out, conn>>

EndDiscover ==
  /\ Running("discover")
  /\ kinds' = hot
  /\ job' = None
  /\ UNCHANGED <<window, discoverReq, req, out, conn>>

(* Mutant: only a blanked answer is listed for, as if there were no refresh. *)
DueWhenBlank == req # None /\ out = None

(* A request is listed for when it is new, when its rows were blanked, and again
   about every two seconds: sooner or later, always. *)
Due == req # None

StartList ==
  /\ job = None /\ Due
  /\ job' = Await("list", req)
  /\ UNCHANGED <<window, boxes, conn>>

(* Store only if still the requested kind: a check, and then, under another
   lock, the store. *)
EndList ==
  /\ Running("list")
  /\ job' = IF req = job.of THEN Await("store", job.of) ELSE None
  /\ UNCHANGED <<window, boxes, conn>>

StoreRows ==
  /\ Running("store")
  /\ out' = Rows(job.of, hot)
  /\ job' = None
  /\ UNCHANGED <<window, kinds, discoverReq, req, conn>>

-----------------------------------------------------------------------------
Window == Open \/ Back \/ Close \/ \E k \in Kinds : Pick(k)
Switching == \E c \in Clusters : RequestSwitch(c)
Connects == StartSwitch \/ EndSwitch \/ SwitchFails
Answers == StartDiscover \/ EndDiscover \/ StartList \/ EndList \/ StoreRows

Next == Window \/ Switching \/ Connects \/ Answers

(* The loop serves every tick: the switch first, then discovery, then the list,
   and each of its awaits has a time limit. *)
Fairness ==
  /\ WF_vars(Connects) /\ WF_vars(EndDiscover)
  /\ SF_vars(StartDiscover) /\ SF_vars(StartList)
  /\ WF_vars(EndList) /\ WF_vars(StoreRows)

Spec == Init /\ [][Next]_vars /\ Fairness

-----------------------------------------------------------------------------
(* Types; and kinds, rows and the cluster connected to agree: what is on offer,
   and what is listed, is never another cluster's (the switch in net.rs).  *)
NothingFromAnotherCluster ==
  /\ win \in {"closed", "pick", "table"} /\ title \in Kinds \cup {None}
  /\ kinds \in {None, hot}
  /\ req \in Kinds \cup {None}
  /\ out # None => out.of \in Kinds /\ out.from = hot

(* An open browser is answered: its kinds arrive, and a table comes to show the
   rows of its own kind even when the answer to an earlier request was stored
   late - unless a switch took what it was waiting for (request_discover,
   request_browse, and the discovery, check and store in net.rs). *)
AnsweredUnlessOrphaned ==
  /\ [](win = "pick" /\ ~orphaned => <>(win # "pick" \/ orphaned \/ kinds # None))
  /\ \A k \in Kinds :
       [](win = "table" /\ title = k /\ ~orphaned
            => <>(win # "table" \/ title # k \/ orphaned \/ (out # None /\ out.of = k)))
=============================================================================
