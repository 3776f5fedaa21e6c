---------------------------- MODULE OracleConsult ----------------------------
(***************************************************************************)
(* A consult of the Oracle: the window (crates/kubernation/src/oracle.rs)    *)
(* renders a prompt and asks for it by its hash; the world loop (net.rs)     *)
(* takes the request, and a task of its own streams the reply into a buffer  *)
(* and caches it.  Three threads share the caches; a generation counter is   *)
(* what keeps a reply nobody wants any more out of them.                     *)
(*                                                                           *)
(* The task checks the generation and stores its reply in two steps, and the *)
(* loop reads the generation and starts the task in two steps; a cancel, a   *)
(* change of endpoint and a switch are one step each.  The preview and the   *)
(* arming of a remote endpoint, with the errors given without a call, are    *)
(* left out.                                                                 *)
(***************************************************************************)
EXTENDS Naturals, FiniteSets

CONSTANTS
  Bundles,     (* what the world may say to the Oracle                       *)
  Endpoints,   (* what a config may name: URLs and models, one token to each *)
  CacheCap,    (* ORACLE_CACHE_CAP                                           *)
  MaxConsults, (* bound: consults the operator asks for                      *)
  MaxGen,      (* bound: times the generation is bumped                      *)
  None         (* an absent Option, or no entry in a map                     *)

ASSUME ConsultAssumption ==
  /\ None \notin Nat
  /\ {CacheCap, MaxConsults, MaxGen} \subseteq Nat

VARIABLES
  cfg,       (* oracle_config                                                *)
  gen,       (* oracle_gen                                                   *)
  req,       (* the mailbox oracle_req                                       *)
  taken,     (* what the loop has read of a request it is about to start     *)
  out,       (* oracle_out: the reply cached for each hash                   *)
  stream,    (* oracle_stream: the buffer, named by its task, of each hash   *)
  tasks,     (* the tasks spawned so far, in order                           *)
  pending,   (* the window: the hash it waits for                            *)
  shown,     (* the window: the reply or the error on screen                 *)
  asked,     (* consults asked for so far                                    *)
  since,     (* history: the generation that last gave a hash up             *)
  dropped,   (* history: `pending' has been thrown away behind its back      *)
  overtaken, (* history: a generation ended between a task's check and store *)
  crossed    (* history: one ended while the loop was starting a task        *)

window  == <<pending, shown, asked>>
history == <<since, overtaken, crossed>>
vars    == <<cfg, gen, req, taken, out, stream, tasks, window, dropped, history>>

-----------------------------------------------------------------------------
(* bundle_hash folds the endpoint's URL and model into the hash of the prompt. *)
Hash  == [bundle : Bundles, ep : Endpoints]
Reply == [task : 1..MaxConsults, ok : BOOLEAN]
Task  == [hash : Hash, ep : Endpoints, gen : 0..MaxGen,
          pc : {"call", "store", "done"}, status : {"streaming", "ok", "err"}]

Empty == [h \in Hash |-> None]
Held(cache) == {h \in Hash : cache[h] # None}

Init ==
  /\ cfg \in Endpoints
  /\ gen = 0
  /\ req = None /\ taken = None
  /\ out = Empty /\ stream = Empty
  /\ tasks = [i \in {} |-> None]
  /\ pending = None /\ shown = None
  /\ asked = 0
  /\ since = [h \in Hash |-> 0]
  /\ dropped = FALSE /\ overtaken = FALSE /\ crossed = FALSE

(* A generation ends: the hashes in `given' are given up. *)
Bump(given) ==
  /\ gen < MaxGen
  /\ gen' = gen + 1
  /\ since' = [h \in Hash |-> IF h \in given THEN gen + 1 ELSE since[h]]
  /\ crossed' = (crossed \/ taken # None)
  /\ overtaken' = (overtaken \/ \E i \in DOMAIN tasks : tasks[i].pc = "store")

-----------------------------------------------------------------------------
(* Consult, and Retry on the error on screen: the same path. *)
Consult(b) ==
  /\ pending = None
  /\ asked < MaxConsults
  /\ asked' = asked + 1
  /\ req' = [bundle |-> b, ep |-> cfg]
  /\ pending' = req'
  /\ shown' = None
  /\ dropped' = FALSE
  /\ UNCHANGED <<cfg, gen, taken, out, stream, tasks, history>>

(* The window polls every frame: the buffer first, then the cached reply. *)
Answer ==
  IF stream[pending] # None
    THEN LET i == stream[pending]
         IN  IF tasks[i].status = "streaming" THEN None
             ELSE [task |-> i, ok |-> tasks[i].status = "ok"]
    ELSE out[pending]

Poll ==
  /\ pending # None
  /\ Answer # None
  /\ shown' = Answer
  /\ pending' = None
  /\ UNCHANGED <<cfg, gen, req, taken, out, stream, tasks, asked, dropped, history>>

(* cancel_oracle: this hash's reply and every buffer are dropped. *)
Cancel ==
  /\ pending # None
  /\ Bump({pending})
  /\ out' = [out EXCEPT ![pending] = None]
  /\ stream' = Empty
  /\ pending' = None /\ shown' = None
  /\ UNCHANGED <<cfg, req, taken, tasks, asked, dropped>>

(* The window is closed: its consult goes on without it. *)
Close ==
  /\ pending' = None /\ shown' = None
  /\ UNCHANGED <<cfg, gen, req, taken, out, stream, tasks, asked, dropped, history>>

(* set_oracle_config, when the identity changes. *)
SetConfig(ep) ==
  /\ ep # cfg
  /\ cfg' = ep
  /\ Bump(Hash)
  /\ out' = Empty /\ stream' = Empty
  /\ UNCHANGED <<req, taken, tasks, asked>>

(* Settings: another profile is activated, and the window is reset. *)
Activate(ep) ==
  /\ SetConfig(ep)
  /\ pending' = None /\ shown' = None
  /\ UNCHANGED dropped

(* Settings: the active profile is edited and saved.  An error on screen goes,
   but the consult is not reset. *)
SaveActive(ep) ==
  /\ SetConfig(ep)
  /\ shown' = IF shown # None /\ ~shown.ok THEN None ELSE shown
  /\ dropped' = (dropped \/ pending # None)
  /\ UNCHANGED pending

-----------------------------------------------------------------------------
(* A request whose hash is cached, or being streamed, is not sent again. *)
Known(h) == out[h] # None \/ stream[h] # None

(* The loop takes the request and reads the config and the generation. *)
Take ==
  /\ taken = None
  /\ req # None
  /\ req' = None
  /\ taken' = IF Known(req) THEN None ELSE [hash |-> req, ep |-> cfg, gen |-> gen]
  /\ UNCHANGED <<cfg, gen, out, stream, tasks, window, dropped, history>>

Full == CacheCap <= Cardinality(Held(out)) \/ CacheCap <= Cardinality(Held(stream))

(* It inserts a buffer, emptying caches that are full, and spawns the task. *)
Launch ==
  /\ taken # None
  /\ LET i == Cardinality(DOMAIN tasks) + 1
     IN  /\ tasks' = [j \in DOMAIN tasks \cup {i} |->
                        IF j \in DOMAIN tasks THEN tasks[j]
                        ELSE [hash |-> taken.hash, ep |-> taken.ep, gen |-> taken.gen,
                              pc |-> "call", status |-> "streaming"]]
         /\ stream' = [(IF Full THEN Empty ELSE stream) EXCEPT ![taken.hash] = i]
  /\ out' = IF Full THEN Empty ELSE out
  /\ taken' = None
  /\ UNCHANGED <<cfg, gen, req, window, dropped, history>>

(* A switch of the cluster, in the loop: it drops all there is. *)
Switch ==
  /\ taken = None
  /\ Bump(Hash)
  /\ req' = None
  /\ out' = Empty /\ stream' = Empty
  /\ dropped' = (dropped \/ pending # None)
  /\ UNCHANGED <<cfg, taken, tasks, window>>

-----------------------------------------------------------------------------
(* Mutant: the task does not look at the generation. *)
CurrentAlways(i) == TRUE

Current(i) == tasks[i].gen = gen

(* The call has ended (or was given up on seeing the generation change), and
   the task finds that its reply is still wanted ... *)
Check(i) ==
  /\ tasks[i].pc = "call"
  /\ Current(i)
  /\ tasks' = [tasks EXCEPT ![i].pc = "store"]
  /\ UNCHANGED <<cfg, gen, req, taken, out, stream, window, dropped, history>>

(* ... or is not: whatever buffer its hash has now is dropped. *)
Orphan(i) ==
  /\ tasks[i].pc = "call"
  /\ ~Current(i)
  /\ tasks' = [tasks EXCEPT ![i].pc = "done"]
  /\ stream' = [stream EXCEPT ![tasks[i].hash] = None]
  /\ UNCHANGED <<cfg, gen, req, taken, out, window, dropped, history>>

(* Mutant: a failure is cached, but not noted in its buffer. *)
SettledIfOk(i, ok) ==
  [tasks EXCEPT ![i].pc = "done", ![i].status = IF ok THEN "ok" ELSE "streaming"]

Settled(i, ok) ==
  [tasks EXCEPT ![i].pc = "done", ![i].status = IF ok THEN "ok" ELSE "err"]

Store(i, ok) ==
  /\ tasks[i].pc = "store"
  /\ tasks' = Settled(i, ok)
  /\ out' = [out EXCEPT ![tasks[i].hash] = [task |-> i, ok |-> ok]]
  /\ UNCHANGED <<cfg, gen, req, taken, stream, window, dropped, history>>

Next ==
  \/ \E b \in Bundles : Consult(b)
  \/ Poll \/ Cancel \/ Close
  \/ \E ep \in Endpoints : Activate(ep) \/ SaveActive(ep)
  \/ Take \/ Launch \/ Switch
  \/ \E i \in DOMAIN tasks :
       Check(i) \/ Orphan(i) \/ \E ok \in BOOLEAN : Store(i, ok)

(* Frames are drawn, the loop runs, and every call ends: headers under a
   timeout, the stream under an idle timeout and a limit on its size. *)
Fairness ==
  /\ WF_vars(Poll) /\ WF_vars(Take) /\ WF_vars(Launch)
  /\ \A i \in 1..MaxConsults :
       WF_vars(i \in DOMAIN tasks /\ (Check(i) \/ Orphan(i) \/ \E ok \in BOOLEAN : Store(i, ok)))

Spec == Init /\ [][Next]_vars /\ Fairness

-----------------------------------------------------------------------------
(* Every variable holds what the Rust types allow, every buffer and reply is
   found under the hash it was asked for, and a cached reply is final. *)
TypeOK ==
  /\ cfg \in Endpoints
  /\ gen \in 0..MaxGen
  /\ {req, pending} \subseteq Hash \cup {None}
  /\ taken \in [hash : Hash, ep : Endpoints, gen : 0..MaxGen] \cup {None}
  /\ DOMAIN tasks \subseteq 1..asked /\ asked \in 0..MaxConsults
  /\ \A i \in DOMAIN tasks : tasks[i] \in Task
  /\ \A h \in Held(stream) : tasks[stream[h]].hash = h
  /\ \A h \in Held(out) :
       out[h] \in Reply /\ tasks[out[h].task].hash = h
         /\ tasks[out[h].task].status = (IF out[h].ok THEN "ok" ELSE "err")
  /\ shown \in Reply \cup {None}
  /\ since \in [Hash -> 0..MaxGen]
  /\ {dropped, overtaken, crossed} \subseteq BOOLEAN

Answered == pending # None /\ pending' = None /\ shown' # None

(* What the window shows answers the prompt it waits for, and was asked for
   after the last cancel of that prompt, change of endpoint and switch of the
   cluster - whatever tasks of earlier generations still run, end, drop
   buffers or are asked for again.  (Unless a generation ended in the instant
   between a task's check and its store.) *)
ShownReplyIsCurrent ==
  [][Answered =>
       LET t == tasks[shown'.task]
       IN  t.hash = pending /\ (~overtaken => t.gen >= since[pending])]_vars

(* A consult the window waits for is answered, cancelled or closed in the end,
   also when its buffer was dropped under it, the caches were emptied, or its
   prompt had been asked for before.  There are just these ways to wait for
   ever: the cluster was switched, or the active profile edited, while it was
   pending; or a generation once ended while the loop was starting a task. *)
PendingEnds == pending # None ~> pending = None \/ dropped \/ crossed
=============================================================================
