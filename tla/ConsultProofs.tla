---------------------------- MODULE ConsultProofs ----------------------------
(***************************************************************************)
(* What the Oracle's window shows is current, for every set of prompts and   *)
(* endpoints and any number of consults, cancels and switches.               *)
(*                                                                           *)
(* The caches are keyed by the prompt and know nothing of generations: what  *)
(* keeps them honest is that whoever ends a generation empties what it gives *)
(* up, and that a task reads the generation before it stores.  The invariant *)
(* says what that leaves in the caches: a reply is of a generation not given *)
(* up since, and so is the task of a buffer - or it is still streaming, and  *)
(* will find at its check that it has been overtaken.                        *)
(***************************************************************************)
EXTENDS OracleConsult, TLAPS, FiniteSetTheorems

Spawned == Cardinality(DOMAIN tasks)

One(x) == IF x = None THEN 0 ELSE 1

(* Tasks are numbered as they come, one for each consult at most. *)
Numbered ==
  /\ Spawned \in Nat /\ DOMAIN tasks = 1..Spawned
  /\ Spawned + One(taken) + One(req) <= asked

CachesTyped ==
  /\ out \in [Hash -> Reply \cup {None}] /\ \A h \in Held(out) : out[h].task \in DOMAIN tasks
  /\ stream \in [Hash -> Nat \cup {None}] /\ \A h \in Held(stream) : stream[h] \in DOMAIN tasks

(* A task has a status once it has stored its reply, and not before. *)
StatusIsLast == \A i \in DOMAIN tasks : tasks[i].pc # "done" => tasks[i].status = "streaming"

(* What is in the caches has not been given up. *)
CachesCurrent ==
  /\ \A i \in DOMAIN tasks : tasks[i].pc = "store" => tasks[i].gen = gen
  /\ \A h \in Held(out) : tasks[out[h].task].gen >= since[h]
  /\ \A h \in Held(stream) :
       tasks[stream[h]].status = "streaming" \/ tasks[stream[h]].gen >= since[h]

ConsultInv ==
  /\ TypeOK
  /\ Numbered
  /\ CachesTyped
  /\ StatusIsLast
  /\ \A h \in Hash : since[h] <= gen
  /\ ~overtaken => CachesCurrent

-----------------------------------------------------------------------------
LEMMA EmptyFacts ==
  /\ Empty \in [Hash -> {None}] /\ Held(Empty) = {}
  BY DEF Empty, Held

LEMMA InitConsult == Init => ConsultInv
  <1> SUFFICES ASSUME Init PROVE ConsultInv
    OBVIOUS
  <1>1. DOMAIN tasks = {} /\ Spawned = 0 /\ DOMAIN tasks = 1..Spawned
    BY FS_EmptySet DEF Init, Spawned
  <1>2. Held(out) = {} /\ Held(stream) = {}
    BY EmptyFacts DEF Init
  <1>3. TypeOK
    <2>1. MaxGen \in Nat /\ MaxConsults \in Nat
      BY ConsultAssumption
    <2>2. gen \in 0..MaxGen /\ asked \in 0..MaxConsults /\ since \in [Hash -> 0..MaxGen]
      BY <2>1 DEF Init
    <2>3. \A i \in DOMAIN tasks : tasks[i] \in Task
      BY <1>1
    <2>4. /\ cfg \in Endpoints /\ {req, pending} \subseteq Hash \cup {None}
          /\ taken \in [hash : Hash, ep : Endpoints, gen : 0..MaxGen] \cup {None}
          /\ shown \in Reply \cup {None}
          /\ {dropped, overtaken, crossed} \subseteq BOOLEAN
      BY DEF Init
    <2> QED
      BY <1>1, <1>2, <2>2, <2>3, <2>4 DEF TypeOK
  <1>4. Numbered /\ StatusIsLast /\ CachesCurrent
    BY <1>1, <1>2 DEF Init, Numbered, StatusIsLast, CachesCurrent, One
  <1>5. CachesTyped
    BY <1>2, EmptyFacts DEF Init, CachesTyped
  <1> QED
    BY <1>3, <1>4, <1>5 DEF ConsultInv, Init

(* The window asks, is answered, or closed; the loop takes a request: no task, no
   cache and no generation is touched. *)
LEMMA ConsultKeeps ==
  ASSUME ConsultInv, NEW b \in Bundles, Consult(b)
  PROVE  ConsultInv'
  <1>1. /\ cfg' = cfg /\ gen' = gen /\ taken' = taken /\ out' = out /\ stream' = stream
        /\ tasks' = tasks /\ since' = since /\ overtaken' = overtaken /\ crossed' = crossed
        /\ asked' = asked + 1 /\ asked < MaxConsults
        /\ req' \in Hash /\ pending' = req' /\ shown' = None /\ dropped' = FALSE
    BY DEF Consult, history, Hash, ConsultInv, TypeOK
  <1>2. TypeOK'
    <2>1. /\ asked' \in 0..MaxConsults /\ DOMAIN tasks' \subseteq 1..asked'
      BY <1>1, ConsultAssumption DEF ConsultInv, TypeOK
    <2> QED
      BY <1>1, <2>1 DEF ConsultInv, TypeOK, Held
  <1>3. Numbered'
    BY <1>1 DEF ConsultInv, TypeOK, Numbered, Spawned, One
  <1> QED
    BY <1>1, <1>2, <1>3
    DEF ConsultInv, CachesTyped, StatusIsLast, CachesCurrent, Held

LEMMA PollKeeps ==
  ASSUME ConsultInv, Poll
  PROVE  ConsultInv'
  <1>1. UNCHANGED <<cfg, gen, req, taken, out, stream, tasks, asked, dropped, history>>
    BY DEF Poll
  <1>2. pending \in Hash /\ pending' = None /\ shown' = Answer /\ Answer # None
    BY DEF Poll, ConsultInv, TypeOK
  <1>3. shown' \in Reply
    <2>1. CASE stream[pending] # None
      <3>1. stream[pending] \in 1..MaxConsults
        <4>1. stream[pending] \in DOMAIN tasks
          BY <1>2, <2>1 DEF ConsultInv, CachesTyped, Held
        <4>2. DOMAIN tasks \subseteq 1..asked /\ asked \in 0..MaxConsults /\ MaxConsults \in Nat
          BY ConsultAssumption DEF ConsultInv, TypeOK
        <4> QED
          BY <4>1, <4>2
      <3> QED
        BY <1>2, <2>1, <3>1 DEF Answer, Reply
    <2>2. CASE stream[pending] = None
      BY <1>2, <2>2 DEF Answer, ConsultInv, CachesTyped
    <2> QED
      BY <2>1, <2>2
  <1> QED
    BY <1>1, <1>2, <1>3
    DEF ConsultInv, TypeOK, Numbered, Spawned, CachesTyped, StatusIsLast, CachesCurrent, Held, history

LEMMA CloseKeeps ==
  ASSUME ConsultInv, Close
  PROVE  ConsultInv'
  BY DEF Close, ConsultInv, TypeOK, Numbered, Spawned, CachesTyped, StatusIsLast, CachesCurrent,
         Held, history

LEMMA TakeKeeps ==
  ASSUME ConsultInv, Take
  PROVE  ConsultInv'
  <1>1. UNCHANGED <<cfg, gen, out, stream, tasks, window, dropped, history>>
    BY DEF Take
  <1>2. /\ req' = None /\ req \in Hash /\ taken = None
        /\ taken' \in [hash : Hash, ep : Endpoints, gen : 0..MaxGen] \cup {None}
    BY DEF Take, ConsultInv, TypeOK
  <1>3. Numbered'
    <2>1. One(taken) = 0 /\ One(req) = 1 /\ One(req') = 0 /\ One(taken') \in {0, 1}
      BY <1>2 DEF One, Take
    <2> QED
      BY <1>1, <2>1 DEF ConsultInv, TypeOK, Numbered, Spawned, window
  <1> QED
    BY <1>1, <1>2, <1>3
    DEF ConsultInv, TypeOK, CachesTyped, StatusIsLast, CachesCurrent, Held, history, window

-----------------------------------------------------------------------------
(* Whoever ends a generation gives hashes up and drops their replies, and with
   them every buffer: what is left in the cache was not given up. *)
LEMMA EndOfGeneration ==
  ASSUME ConsultInv, NEW given \in SUBSET Hash, Bump(given),
         out' = [h \in Hash |-> IF h \in given THEN None ELSE out[h]],
         stream' = Empty, tasks' = tasks,
         cfg' \in Endpoints, asked' = asked, taken' = taken, req' \in {req, None},
         pending' \in {pending, None}, shown' \in {shown, None}, dropped' \in BOOLEAN
  PROVE  ConsultInv'
  <1>1. /\ gen' = gen + 1 /\ gen' \in 0..MaxGen /\ gen \in Nat
        /\ since' = [h \in Hash |-> IF h \in given THEN gen + 1 ELSE since[h]]
        /\ overtaken' = (overtaken \/ \E i \in DOMAIN tasks : tasks[i].pc = "store")
        /\ crossed' \in BOOLEAN
    BY ConsultAssumption DEF Bump, ConsultInv, TypeOK
  <1>2. Held(out)' = Held(out) \ given /\ \A h \in Held(out)' : out'[h] = out[h]
    BY DEF Held
  <1>3. Held(stream)' = {}
    BY EmptyFacts DEF Held
  <1>4. since' \in [Hash -> 0..MaxGen] /\ \A h \in Hash : since'[h] <= gen'
    BY <1>1 DEF ConsultInv, TypeOK
  <1>5. TypeOK'
    BY <1>1, <1>2, <1>3, <1>4 DEF ConsultInv, TypeOK
  <1>6. Numbered'
    BY DEF ConsultInv, TypeOK, Numbered, Spawned, One
  <1>7. CachesTyped'
    <2>1. stream' \in [Hash -> Nat \cup {None}]
      BY EmptyFacts
    <2> QED
      BY <1>2, <1>3, <2>1 DEF ConsultInv, CachesTyped
  <1>8. StatusIsLast'
    BY DEF ConsultInv, StatusIsLast
  <1>9. ASSUME ~overtaken' PROVE CachesCurrent'
    <2>1. ~overtaken /\ \A i \in DOMAIN tasks : tasks[i].pc # "store"
      BY <1>1, <1>9 DEF ConsultInv, TypeOK
    <2>2. \A h \in Held(out)' : since'[h] = since[h]
      BY <1>1, <1>2 DEF Held
    <2> QED
      BY <1>2, <1>3, <2>1, <2>2 DEF ConsultInv, CachesCurrent
  <1> QED
    BY <1>4, <1>5, <1>6, <1>7, <1>8, <1>9 DEF ConsultInv

LEMMA CancelKeeps ==
  ASSUME ConsultInv, Cancel
  PROVE  ConsultInv'
  <1>1. pending \in Hash /\ out \in [Hash -> Reply \cup {None}]
    BY DEF Cancel, ConsultInv, TypeOK, CachesTyped
  <1>2. out' = [h \in Hash |-> IF h \in {pending} THEN None ELSE out[h]]
    BY <1>1 DEF Cancel
  <1> QED
    BY <1>1, <1>2, EndOfGeneration DEF Cancel, ConsultInv, TypeOK

LEMMA AllDropped ==
  ASSUME out' = Empty
  PROVE  out' = [h \in Hash |-> IF h \in Hash THEN None ELSE out[h]]
  BY DEF Empty

LEMMA SetConfigKeeps ==
  ASSUME ConsultInv, NEW ep \in Endpoints, Activate(ep) \/ SaveActive(ep)
  PROVE  ConsultInv'
  <1>1. SetConfig(ep) /\ dropped' \in BOOLEAN
          /\ pending' \in {pending, None} /\ shown' \in {shown, None}
    BY DEF Activate, SaveActive, ConsultInv, TypeOK
  <1> QED
    BY <1>1, AllDropped, EndOfGeneration DEF SetConfig

LEMMA SwitchKeeps ==
  ASSUME ConsultInv, Switch
  PROVE  ConsultInv'
  <1>1. dropped' \in BOOLEAN /\ cfg' \in Endpoints
    BY DEF Switch, ConsultInv, TypeOK
  <1> QED
    BY <1>1, AllDropped, EndOfGeneration DEF Switch, window

-----------------------------------------------------------------------------
(* The loop starts a task, under the next number. *)
LEMMA LaunchKeeps ==
  ASSUME ConsultInv, Launch
  PROVE  ConsultInv'
  <1> DEFINE i == Spawned + 1
             new == [hash |-> taken.hash, ep |-> taken.ep, gen |-> taken.gen,
                     pc |-> "call", status |-> "streaming"]
  <1>1. /\ taken \in [hash : Hash, ep : Endpoints, gen : 0..MaxGen] /\ taken # None
        /\ taken' = None
        /\ tasks' = [j \in DOMAIN tasks \cup {i} |-> IF j \in DOMAIN tasks THEN tasks[j] ELSE new]
        /\ stream' = [(IF Full THEN Empty ELSE stream) EXCEPT ![taken.hash] = i]
        /\ out' = IF Full THEN Empty ELSE out
    BY DEF Launch, ConsultInv, TypeOK, Spawned
  <1>2. UNCHANGED <<cfg, gen, req, window, dropped, history>>
    BY DEF Launch
  <1>3. Spawned \in Nat /\ DOMAIN tasks = 1..Spawned /\ i \notin DOMAIN tasks
    BY DEF ConsultInv, Numbered
  <1>4. new \in Task /\ new.hash = taken.hash /\ new.status = "streaming" /\ new.pc = "call"
    BY <1>1 DEF Task
  <1> HIDE DEF new
  <1>5. /\ DOMAIN tasks' = 1..i
        /\ \A j \in DOMAIN tasks : tasks'[j] = tasks[j]
        /\ tasks'[i] = new
    BY <1>1, <1>3
  <1>6. Spawned' = i
    <2>1. Cardinality(1..i) = i
      <3>1. 1 \in Int /\ i \in Int /\ ~(1 > i)
        BY <1>3
      <3>2. Cardinality(1..i) = IF 1 > i THEN 0 ELSE i - 1 + 1
        BY <3>1, FS_Interval
      <3> QED
        BY <1>3, <3>1, <3>2
    <2> QED
      BY <1>5, <2>1 DEF Spawned
  <1>7. i <= asked /\ Numbered'
    <2>1. One(taken) = 1 /\ One(taken') = 0 /\ One(req) \in Nat /\ req' = req /\ asked' = asked
      BY <1>1, <1>2 DEF One, window
    <2> QED
      BY <1>3, <1>5, <1>6, <2>1 DEF ConsultInv, Numbered, TypeOK
  <1> HIDE DEF i
  <1>8. /\ Held(out)' \subseteq Held(out) /\ \A h \in Held(out)' : out'[h] = out[h]
        /\ out' \in [Hash -> Reply \cup {None}]
    BY <1>1, EmptyFacts DEF Held, ConsultInv, CachesTyped
  <1>9. i \in Nat /\ i \in DOMAIN tasks'
    BY <1>3, <1>5 DEF i
  <1>10. /\ stream' \in [Hash -> Nat \cup {None}] /\ stream'[taken.hash] = i
         /\ \A h \in Held(stream)' :
              h # taken.hash => h \in Held(stream) /\ stream'[h] = stream[h]
    <2>1. taken.hash \in Hash
      BY <1>1
    <2>2. PICK old \in {Empty, stream} : stream' = [old EXCEPT ![taken.hash] = i]
      BY <1>1
    <2>3. old \in [Hash -> Nat \cup {None}]
      BY EmptyFacts DEF ConsultInv, CachesTyped
    <2>4. /\ stream' \in [Hash -> Nat \cup {None}] /\ stream'[taken.hash] = i
          /\ \A h \in Hash : h # taken.hash => stream'[h] = old[h]
      BY <1>9, <2>1, <2>2, <2>3
    <2>5. \A h \in Hash : old[h] # None => old[h] = stream[h]
      BY EmptyFacts
    <2> QED
      BY <2>4, <2>5 DEF Held
  <1>11. CachesTyped'
    BY <1>5, <1>8, <1>9, <1>10, <1>3 DEF ConsultInv, CachesTyped
  <1>12. TypeOK'
    <2>1. \A j \in DOMAIN tasks' : tasks'[j] \in Task
      BY <1>3, <1>4, <1>5 DEF ConsultInv, TypeOK, i
    <2>2. DOMAIN tasks' \subseteq 1..asked'
      BY <1>2, <1>5, <1>7, <1>9 DEF ConsultInv, TypeOK, window
    <2>3. \A h \in Held(stream)' : tasks'[stream'[h]].hash = h
      BY <1>4, <1>5, <1>10 DEF ConsultInv, TypeOK, CachesTyped
    <2>4. \A h \in Held(out)' :
            out'[h] \in Reply /\ tasks'[out'[h].task].hash = h
              /\ tasks'[out'[h].task].status = (IF out'[h].ok THEN "ok" ELSE "err")
      BY <1>5, <1>8 DEF ConsultInv, TypeOK, CachesTyped
    <2> QED
      BY <1>1, <1>2, <2>1, <2>2, <2>3, <2>4 DEF ConsultInv, TypeOK, window, history
  <1>13. StatusIsLast'
    BY <1>3, <1>4, <1>5 DEF ConsultInv, StatusIsLast, i
  <1>14. ASSUME ~overtaken' PROVE CachesCurrent'
    <2>1. CachesCurrent
      BY <1>2, <1>14 DEF ConsultInv, history
    <2>2. \A j \in DOMAIN tasks' : tasks'[j].pc = "store" => tasks'[j].gen = gen'
      BY <1>2, <1>3, <1>4, <1>5, <2>1 DEF CachesCurrent, i
    <2>3. \A h \in Held(out)' : tasks'[out'[h].task].gen >= since'[h]
      BY <1>2, <1>5, <1>8, <2>1 DEF ConsultInv, CachesTyped, CachesCurrent, history
    <2>4. \A h \in Held(stream)' :
            tasks'[stream'[h]].status = "streaming" \/ tasks'[stream'[h]].gen >= since'[h]
      BY <1>2, <1>4, <1>5, <1>10, <2>1 DEF ConsultInv, CachesTyped, CachesCurrent, history
    <2> QED
      BY <2>2, <2>3, <2>4 DEF CachesCurrent
  <1> QED
    BY <1>2, <1>7, <1>11, <1>12, <1>13, <1>14 DEF ConsultInv, history

-----------------------------------------------------------------------------
(* A task's step, as far as its record goes: it keeps its prompt and generation. *)
Steps(i, p, s) ==
  /\ DOMAIN tasks' = DOMAIN tasks
  /\ \A j \in DOMAIN tasks \ {i} : tasks'[j] = tasks[j]
  /\ tasks'[i] = [hash |-> tasks[i].hash, ep |-> tasks[i].ep, gen |-> tasks[i].gen,
                  pc |-> p, status |-> s]

LEMMA TaskSteps ==
  ASSUME ConsultInv, NEW i \in DOMAIN tasks,
         NEW p \in {"call", "store", "done"}, NEW s \in {"streaming", "ok", "err"}, Steps(i, p, s)
  PROVE  /\ Spawned' = Spawned
         /\ \A j \in DOMAIN tasks : /\ tasks'[j] \in Task
                                    /\ tasks'[j].hash = tasks[j].hash
                                    /\ tasks'[j].gen = tasks[j].gen
                                    /\ j # i => tasks'[j] = tasks[j]
         /\ tasks'[i].pc = p /\ tasks'[i].status = s
  BY DEF Steps, ConsultInv, TypeOK, Task, Spawned

LEMMA OnlyPc ==
  ASSUME ConsultInv, NEW i \in DOMAIN tasks, NEW p, tasks' = [tasks EXCEPT ![i].pc = p]
  PROVE  Steps(i, p, tasks[i].status)
  <1>1. tasks[i] \in Task
    BY DEF ConsultInv, TypeOK
  <1>2. tasks'[i] = [tasks[i] EXCEPT !.pc = p]
    OBVIOUS
  <1>3. tasks'[i] = [hash |-> tasks[i].hash, ep |-> tasks[i].ep, gen |-> tasks[i].gen,
                     pc |-> p, status |-> tasks[i].status]
    BY <1>1, <1>2 DEF Task
  <1> QED
    BY <1>3 DEF Steps

LEMMA PcAndStatus ==
  ASSUME ConsultInv, NEW i \in DOMAIN tasks, NEW p, NEW s,
         tasks' = [tasks EXCEPT ![i].pc = p, ![i].status = s]
  PROVE  Steps(i, p, s)
  <1>1. tasks[i] \in Task
    BY DEF ConsultInv, TypeOK
  <1>2. tasks'[i] = [tasks[i] EXCEPT !.pc = p, !.status = s]
    OBVIOUS
  <1>3. tasks'[i] = [hash |-> tasks[i].hash, ep |-> tasks[i].ep, gen |-> tasks[i].gen,
                     pc |-> p, status |-> s]
    BY <1>1, <1>2 DEF Task
  <1> QED
    BY <1>3 DEF Steps

(* The check is what makes a reply that is about to be stored one of this very
   generation. *)
LEMMA CheckKeeps ==
  ASSUME ConsultInv, NEW i \in DOMAIN tasks, Check(i)
  PROVE  ConsultInv'
  <1>1. /\ UNCHANGED <<cfg, gen, req, taken, out, stream, window, dropped, history>>
        /\ tasks[i].pc = "call" /\ tasks[i].gen = gen
        /\ Steps(i, "store", tasks[i].status)
    BY OnlyPc DEF Check, Current
  <1>2. tasks[i].status = "streaming"
    BY <1>1 DEF ConsultInv, StatusIsLast
  <1>3. /\ DOMAIN tasks' = DOMAIN tasks /\ Spawned' = Spawned
        /\ \A j \in DOMAIN tasks : /\ tasks'[j] \in Task
                                   /\ tasks'[j].hash = tasks[j].hash
                                   /\ tasks'[j].gen = tasks[j].gen
                                   /\ tasks'[j].status = tasks[j].status
                                   /\ j # i => tasks'[j] = tasks[j]
        /\ tasks'[i].pc = "store"
    BY <1>1, <1>2, TaskSteps DEF Steps
  <1> QED
    <2>1. TypeOK'
      BY <1>1, <1>3 DEF ConsultInv, TypeOK, CachesTyped, Held, window, history
    <2>2. Numbered' /\ CachesTyped' /\ StatusIsLast'
      BY <1>1, <1>2, <1>3 DEF ConsultInv, Numbered, CachesTyped, StatusIsLast, Held, window
    <2>3. ~overtaken' => CachesCurrent'
      BY <1>1, <1>3 DEF ConsultInv, CachesTyped, CachesCurrent, Held, history
    <2> QED
      BY <1>1, <2>1, <2>2, <2>3 DEF ConsultInv, history

LEMMA OrphanKeeps ==
  ASSUME ConsultInv, NEW i \in DOMAIN tasks, Orphan(i)
  PROVE  ConsultInv'
  <1>1. /\ UNCHANGED <<cfg, gen, req, taken, out, window, dropped, history>>
        /\ tasks[i].pc = "call" /\ Steps(i, "done", tasks[i].status)
        /\ stream' = [stream EXCEPT ![tasks[i].hash] = None]
    BY OnlyPc DEF Orphan
  <1>2. tasks[i].status = "streaming"
    BY <1>1 DEF ConsultInv, StatusIsLast
  <1>3. /\ DOMAIN tasks' = DOMAIN tasks /\ Spawned' = Spawned
        /\ \A j \in DOMAIN tasks : /\ tasks'[j] \in Task
                                   /\ tasks'[j].hash = tasks[j].hash
                                   /\ tasks'[j].gen = tasks[j].gen
                                   /\ tasks'[j].status = tasks[j].status
                                   /\ j # i => tasks'[j] = tasks[j]
        /\ tasks'[i].pc = "done"
    BY <1>1, <1>2, TaskSteps DEF Steps
  <1>4. /\ stream' \in [Hash -> Nat \cup {None}]
        /\ \A h \in Held(stream)' : h \in Held(stream) /\ stream'[h] = stream[h]
    BY <1>1 DEF ConsultInv, CachesTyped, Held
  <1> QED
    <2>1. TypeOK'
      BY <1>1, <1>3, <1>4 DEF ConsultInv, TypeOK, CachesTyped, Held, window, history
    <2>2. Numbered' /\ CachesTyped' /\ StatusIsLast'
      BY <1>1, <1>2, <1>3, <1>4 DEF ConsultInv, Numbered, CachesTyped, StatusIsLast, Held, window
    <2>3. ~overtaken' => CachesCurrent'
      BY <1>1, <1>3, <1>4 DEF ConsultInv, CachesTyped, CachesCurrent, Held, history
    <2> QED
      BY <1>1, <2>1, <2>2, <2>3 DEF ConsultInv, history

(* A reply stored is of this generation, unless one ended since its check. *)
LEMMA StoreKeeps ==
  ASSUME ConsultInv, NEW i \in DOMAIN tasks, NEW ok \in BOOLEAN, Store(i, ok)
  PROVE  ConsultInv'
  <1> DEFINE final == IF ok THEN "ok" ELSE "err"
             g == tasks[i].hash
  <1>1. /\ UNCHANGED <<cfg, gen, req, taken, stream, window, dropped, history>>
        /\ tasks[i].pc = "store" /\ Steps(i, "done", final)
        /\ out' = [out EXCEPT ![g] = [task |-> i, ok |-> ok]]
    BY PcAndStatus DEF Store, Settled
  <1>2. tasks[i].status = "streaming" /\ g \in Hash /\ tasks[i].gen \in Nat
    BY <1>1 DEF ConsultInv, StatusIsLast, TypeOK, Task
  <1>3. /\ DOMAIN tasks' = DOMAIN tasks /\ Spawned' = Spawned
        /\ \A j \in DOMAIN tasks : /\ tasks'[j] \in Task
                                   /\ tasks'[j].hash = tasks[j].hash
                                   /\ tasks'[j].gen = tasks[j].gen
                                   /\ j # i => tasks'[j] = tasks[j]
        /\ tasks'[i].pc = "done" /\ tasks'[i].status = final
    BY <1>1, TaskSteps DEF Steps
  <1>4. [task |-> i, ok |-> ok] \in Reply
    BY ConsultAssumption DEF ConsultInv, TypeOK, Reply
  <1>5. /\ out' \in [Hash -> Reply \cup {None}] /\ out'[g] = [task |-> i, ok |-> ok]
        /\ \A h \in Held(out)' \ {g} : h \in Held(out) /\ out'[h] = out[h]
    BY <1>1, <1>2, <1>4 DEF ConsultInv, CachesTyped, Held
  <1>6. \A h \in Held(out) : tasks[out[h].task].status # "streaming" /\ out[h].task # i
    BY <1>2 DEF ConsultInv, TypeOK
  <1>7. TypeOK'
    <2>1. \A h \in Held(out)' :
            /\ out'[h] \in Reply /\ tasks'[out'[h].task].hash = h
            /\ tasks'[out'[h].task].status = (IF out'[h].ok THEN "ok" ELSE "err")
      <3>1. CASE g \in Held(out)'
        BY <1>3, <1>4, <1>5, <1>6 DEF ConsultInv, TypeOK, CachesTyped
      <3>2. CASE g \notin Held(out)'
        BY <1>3, <1>5, <1>6, <3>2 DEF ConsultInv, TypeOK, CachesTyped
      <3> QED
        BY <3>1, <3>2
    <2> QED
      BY <1>1, <1>3, <2>1 DEF ConsultInv, TypeOK, CachesTyped, Held, window, history
  <1>8. Numbered' /\ CachesTyped' /\ StatusIsLast'
    <2>1. Numbered' /\ StatusIsLast'
      BY <1>1, <1>3 DEF ConsultInv, Numbered, StatusIsLast, window
    <2>2. CachesTyped'
      BY <1>1, <1>3, <1>5 DEF ConsultInv, CachesTyped, Held
    <2> QED
      BY <2>1, <2>2
  <1>9. ASSUME ~overtaken' PROVE CachesCurrent'
    <2>1. CachesCurrent /\ tasks[i].gen = gen /\ since[g] <= gen /\ gen' = gen /\ since' = since
      BY <1>1, <1>2, <1>9 DEF ConsultInv, CachesCurrent, history
    <2>2. \A h \in Held(out)' : tasks'[out'[h].task].gen >= since'[h]
      <3>1. tasks'[out'[g].task].gen >= since'[g]
        BY <1>3, <1>5, <2>1, <1>2 DEF ConsultInv, TypeOK
      <3>2. \A h \in Held(out)' \ {g} : tasks'[out'[h].task].gen >= since'[h]
        BY <1>3, <1>5, <2>1 DEF ConsultInv, CachesTyped, CachesCurrent
      <3> QED
        BY <3>1, <3>2
    <2>3. \A h \in Held(stream)' :
            tasks'[stream'[h]].status = "streaming" \/ tasks'[stream'[h]].gen >= since'[h]
      <3> SUFFICES ASSUME NEW h \in Held(stream)
                   PROVE  tasks'[stream[h]].status = "streaming"
                            \/ tasks'[stream[h]].gen >= since[h]
        BY <1>1, <2>1 DEF Held
      <3>1. stream[h] \in DOMAIN tasks /\ tasks[stream[h]].hash = h /\ h \in Hash
        BY DEF ConsultInv, TypeOK, CachesTyped, Held
      <3>2. CASE stream[h] = i
        BY <1>2, <1>3, <2>1, <3>1, <3>2 DEF ConsultInv, TypeOK
      <3>3. CASE stream[h] # i
        BY <1>3, <2>1, <3>1, <3>3 DEF CachesCurrent
      <3> QED
        BY <3>2, <3>3
    <2>4. \A j \in DOMAIN tasks' : tasks'[j].pc = "store" => tasks'[j].gen = gen'
      BY <1>3, <2>1 DEF CachesCurrent
    <2> QED
      BY <2>2, <2>3, <2>4 DEF CachesCurrent
  <1> QED
    BY <1>1, <1>7, <1>8, <1>9 DEF ConsultInv, history

-----------------------------------------------------------------------------
(* ConsultInv is an invariant of the consult. *)
THEOREM Inductive == Spec => []ConsultInv
  <1>1. ConsultInv /\ [Next]_vars => ConsultInv'
    <2> SUFFICES ASSUME ConsultInv, [Next]_vars PROVE ConsultInv'
      OBVIOUS
    <2>1. CASE UNCHANGED vars
      BY <2>1 DEF vars, window, history, ConsultInv, TypeOK, Numbered, Spawned, CachesTyped,
                  StatusIsLast, CachesCurrent, Held
    <2>2. CASE Next
      BY <2>2, ConsultKeeps, PollKeeps, CancelKeeps, CloseKeeps, SetConfigKeeps, TakeKeeps,
         LaunchKeeps, SwitchKeeps, CheckKeeps, OrphanKeeps, StoreKeeps DEF Next
    <2> QED
      BY <2>1, <2>2
  <1> QED
    BY <1>1, InitConsult, PTL DEF Spec

(* Every buffer and reply is found under the hash it was asked for, and a cached
   reply is final, whatever the caches drop and however often a prompt is asked. *)
THEOREM TypeCorrect == Spec => []TypeOK
  <1>1. ConsultInv => TypeOK
    BY DEF ConsultInv
  <1> QED
    BY <1>1, Inductive, PTL

(* What the window shows answers the prompt it waits for, and was asked for after
   the last cancel of that prompt, change of endpoint and switch of the cluster
   (oracle.rs, net.rs: the generation counter), unless a generation ended between
   a task's check and its store. *)
THEOREM RepliesAreCurrent == Spec => ShownReplyIsCurrent
  <1> DEFINE Honest ==
        Answered =>
          LET t == tasks[shown'.task]
          IN  t.hash = pending /\ (~overtaken => t.gen >= since[pending])
  <1>1. ConsultInv /\ [Next]_vars => [Honest]_vars
    <2> SUFFICES ASSUME ConsultInv, Next, Answered
                 PROVE  /\ tasks[shown'.task].hash = pending
                        /\ ~overtaken => tasks[shown'.task].gen >= since[pending]
      OBVIOUS
    <2>1. Poll
      BY DEF Answered, Next, Consult, Cancel, Close, Activate, SaveActive, Take, Launch, Switch,
             Check, Orphan, Store, window
    <2>2. pending \in Hash /\ shown' = Answer /\ Answer # None
      BY <2>1 DEF Poll, ConsultInv, TypeOK
    <2>3. CASE stream[pending] # None
      <3>1. pending \in Held(stream)
        BY <2>2, <2>3 DEF Held
      <3>2. tasks[stream[pending]].status # "streaming" /\ shown'.task = stream[pending]
        BY <2>2, <2>3 DEF Answer
      <3> QED
        BY <3>1, <3>2 DEF ConsultInv, TypeOK, CachesCurrent
    <2>4. CASE stream[pending] = None
      <3>1. shown' = out[pending] /\ pending \in Held(out)
        BY <2>2, <2>4 DEF Answer, Held
      <3> QED
        BY <3>1 DEF ConsultInv, TypeOK, CachesCurrent
    <2> QED
      BY <2>3, <2>4
  <1> QED
    BY <1>1, Inductive, PTL DEF Spec, ShownReplyIsCurrent
=============================================================================
