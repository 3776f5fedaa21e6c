----------------------------- MODULE PartsProofs -----------------------------
(***************************************************************************)
(* The four parts: the file of a saved map, which no crash leaves truncated; *)
(* the attention queue, which has exactly one line for everything in         *)
(* trouble; the map of the world, where no stranger moves a settlement and   *)
(* everything that stands can be hit; the windows, which stand on what they  *)
(* belong to, close from the top, and do not share a confirmation's click.   *)
(***************************************************************************)
EXTENDS Parts, TLAPS, FiniteSetTheorems, SequenceTheorems

(* The least-number principle, from the well-foundedness of the naturals. *)
LEMMA LeastNatural ==
  ASSUME NEW T, T \subseteq Nat, T # {}
  PROVE  \E x \in T : \A y \in T : x <= y
  <1> DEFINE R == OpToRel(<, Nat)
  <1>1. IsWellFoundedOn(R, Nat)
    BY NatLessThanWellFounded DEF OpToRel
  <1>2. R = {ss \in Nat \X Nat : ss[1] < ss[2]}
    BY DEF OpToRel
  <1> HIDE DEF R
  <1>3. PICK x \in T : \A y \in T : ~(<<y, x>> \in R)
    BY <1>1, WFMin
  <1>4. \A y \in T : ~(y < x)
    BY <1>2, <1>3
  <1> QED
    BY <1>4

(* Induction over the numbers to a bound, as a fact about sets. *)
LEMMA UpFromZero ==
  ASSUME NEW N \in Nat, NEW T \in SUBSET (0..N), 0 \in T,
         \A k \in 1..N : k - 1 \in T => k \in T
  PROVE  T = 0..N
  <1> SUFFICES ASSUME (0..N) \ T # {} PROVE FALSE
    OBVIOUS
  <1> DEFINE S == (0..N) \ T
  <1>0. S \subseteq Nat /\ S # {}
    OBVIOUS
  <1> HIDE DEF S
  <1>1. PICK x \in S : \A y \in S : x <= y
    BY <1>0, LeastNatural
  <1> USE DEF S
  <1>2. x \in 1..N /\ x - 1 \in 0..N /\ ~(x <= x - 1)
    BY <1>1
  <1> QED
    BY <1>1, <1>2

-----------------------------------------------------------------------------
Savers == {"loop", "exit"}

FileTypeOK ==
  /\ alive \in BOOLEAN /\ overlapped \in BOOLEAN
  /\ dir \in [{"map", "tmp"} -> Inodes \cup {None}]
  /\ data \in [Inodes -> {"empty", "loop", "exit", "whole", "torn"}]
  /\ durable \subseteq Inodes
  /\ at \in [Savers -> {"idle", "removed", "created", "half", "written", "synced"}]
  /\ fd \in [Savers -> Inodes \cup {None}]
  /\ \A s \in Savers : at[s] \in {"created", "half", "written"} => fd[s] \in Inodes

(* One saver at a time, none while the process is gone. *)
OneSaver ==
  /\ \A s, o \in Savers : s # o => at[s] = "idle" \/ at[o] = "idle"
  /\ ~alive => \A s \in Savers : at[s] = "idle"
  /\ \A s \in Savers : at[s] \in {"idle", "removed", "synced"} => fd[s] = None

(* What a saver has written is in the temporary file, as far as it has come, and
   nobody else writes there. *)
TempIsTheSavers ==
  \A s \in Savers :
    /\ at[s] = "removed" => dir["tmp"] = None
    /\ at[s] \in {"created", "half", "written"} =>
         /\ dir["tmp"] # None /\ fd[s] = dir["tmp"]
         /\ data[dir["tmp"]] = (CASE at[s] = "created" -> "empty"
                                  [] at[s] = "half" -> s
                                  [] at[s] = "written" -> "whole")
    /\ at[s] = "synced" /\ dir["tmp"] # None =>
         dir["tmp"] \in durable /\ data[dir["tmp"]] = "whole"

(* The map is a file of its own, whole, and on the disk. *)
MapIsWhole ==
  dir["map"] # None =>
    dir["map"] # dir["tmp"] /\ dir["map"] \in durable /\ data[dir["map"]] = "whole"

FileInv ==
  /\ FileTypeOK
  /\ ~overlapped => OneSaver /\ TempIsTheSavers /\ MapIsWhole

USE DEF Savers

-----------------------------------------------------------------------------
LEMMA FileInitial ==
  ASSUME Fi!Init
  PROVE  FileInv
  BY InodesAssumption
  DEF Fi!Init, FileInv, FileTypeOK, OneSaver, TempIsTheSavers, MapIsWhole, Fi!Savers

LEMMA FileRemove ==
  ASSUME FileInv, NEW s \in Savers, Fi!Remove(s)
  PROVE  FileInv'
  <1>1. FileTypeOK'
    BY DEF FileInv, FileTypeOK, Fi!Remove, Fi!Temp, Fi!Savers
  <1>2. ASSUME ~overlapped' PROVE (OneSaver /\ TempIsTheSavers /\ MapIsWhole)'
    BY <1>2
    DEF FileInv, FileTypeOK, OneSaver, TempIsTheSavers, MapIsWhole, Fi!Remove, Fi!Temp, Fi!Savers
  <1> QED
    BY <1>1, <1>2 DEF FileInv

LEMMA FileFails ==
  ASSUME FileInv, NEW s \in Savers, Fi!Fails(s)
  PROVE  FileInv'
  <1>1. FileTypeOK'
    BY DEF FileInv, FileTypeOK, Fi!Fails, Fi!Through, Fi!Savers
  <1>2. ASSUME ~overlapped' PROVE (OneSaver /\ TempIsTheSavers /\ MapIsWhole)'
    BY <1>2
    DEF FileInv, FileTypeOK, OneSaver, TempIsTheSavers, MapIsWhole, Fi!Fails, Fi!Through, Fi!Savers
  <1> QED
    BY <1>1, <1>2 DEF FileInv

LEMMA FileCreate ==
  ASSUME FileInv, NEW s \in Savers, Fi!Create(s)
  PROVE  FileInv'
  <1> DEFINE used == {dir[n] : n \in DOMAIN dir} \cup {fd[o] : o \in Savers}
             i == IF dir["tmp"] # None THEN dir["tmp"] ELSE CHOOSE j \in Inodes : j \notin used
  <1>1. i \in Inodes /\ (dir["tmp"] = None => i # dir["map"])
    <2>1. CASE dir["tmp"] # None
      BY <2>1 DEF FileInv, FileTypeOK
    <2>2. CASE dir["tmp"] = None
      <3>1. used \subseteq {dir["map"], fd["loop"], fd["exit"], None}
        BY <2>2 DEF FileInv, FileTypeOK
      <3>2. PICK j \in Inodes : j \notin {dir["map"], fd["loop"], fd["exit"]}
        BY InodesAssumption DEF FileInv, FileTypeOK
      <3>3. j \notin used
        BY <3>1, <3>2, InodesAssumption
      <3>4. dir["map"] \in used
        BY DEF FileInv, FileTypeOK
      <3> QED
        BY <2>2, <3>3, <3>4
    <2> QED
      BY <2>1, <2>2
  <1>2. CASE Fi!Fails(s)
    BY <1>2, FileFails
  <1>3. CASE ~Fi!Fails(s)
    <2>1. /\ alive /\ at[s] = "removed"
          /\ dir' = [dir EXCEPT !["tmp"] = i]
          /\ data' = [data EXCEPT ![i] = "empty"]
          /\ durable' = durable \ {i}
          /\ fd' = [fd EXCEPT ![s] = i]
          /\ at' = [at EXCEPT ![s] = "created"]
          /\ alive' = alive /\ overlapped' = overlapped
      BY <1>3 DEF Fi!Create, Fi!Temp, Fi!Savers
    <2> HIDE DEF i, used
    <2>2. FileTypeOK'
      BY <1>1, <2>1 DEF FileInv, FileTypeOK
    <2>3. ASSUME ~overlapped' PROVE (OneSaver /\ TempIsTheSavers /\ MapIsWhole)'
      BY <1>1, <2>1, <2>3, InodesAssumption
      DEF FileInv, FileTypeOK, OneSaver, TempIsTheSavers, MapIsWhole
    <2> QED
      BY <2>2, <2>3 DEF FileInv
  <1> QED
    BY <1>2, <1>3

LEMMA FileWrite ==
  ASSUME FileInv, NEW s \in Savers, Fi!Write(s)
  PROVE  FileInv'
  <1>1. CASE Fi!Fails(s)
    BY <1>1, FileFails
  <1>2. CASE ~Fi!Fails(s)
    <2>1. PICK d \in {s, "whole", "torn"} :
            /\ data' = [data EXCEPT ![fd[s]] = d]
            /\ at[s] = "created" /\ data[fd[s]] = "empty" => d = s
            /\ at[s] = "half" /\ data[fd[s]] = s => d = "whole"
      BY <1>2 DEF Fi!Write
    <2>2. /\ alive /\ at[s] \in {"created", "half"}
          /\ durable' = durable \ {fd[s]}
          /\ at' = [at EXCEPT ![s] = IF @ = "created" THEN "half" ELSE "written"]
          /\ alive' = alive /\ dir' = dir /\ fd' = fd /\ overlapped' = overlapped
      BY <1>2 DEF Fi!Write
    <2>3. fd[s] \in Inodes
      BY <2>2 DEF FileInv, FileTypeOK
    <2>4. FileTypeOK'
      BY <2>1, <2>2, <2>3 DEF FileInv, FileTypeOK
    <2>5. ASSUME ~overlapped' PROVE (OneSaver /\ TempIsTheSavers /\ MapIsWhole)'
      <3>1. OneSaver /\ TempIsTheSavers /\ MapIsWhole /\ fd[s] = dir["tmp"]
        BY <2>2, <2>5 DEF FileInv, TempIsTheSavers
      <3>2. \A o \in Savers \ {s} : at[o] = "idle" /\ at'[o] = "idle"
        BY <2>2, <3>1 DEF OneSaver, FileInv, FileTypeOK
      <3>3. OneSaver'
        BY <2>2, <3>1, <3>2 DEF OneSaver, FileInv, FileTypeOK
      <3>4. MapIsWhole'
        BY <2>1, <2>2, <2>3, <3>1 DEF MapIsWhole, FileInv, FileTypeOK
      <3>5. data'[dir["tmp"]] = d /\ (at[s] = "created" => d = s) /\ (at[s] = "half" => d = "whole")
        BY <2>1, <2>2, <2>3, <3>1 DEF TempIsTheSavers, FileInv, FileTypeOK
      <3>6. TempIsTheSavers'
        BY <2>2, <2>3, <3>1, <3>2, <3>5, InodesAssumption DEF TempIsTheSavers, FileInv, FileTypeOK
      <3> QED
        BY <3>3, <3>4, <3>6
    <2> QED
      BY <2>4, <2>5 DEF FileInv
  <1> QED
    BY <1>1, <1>2

LEMMA FileSync ==
  ASSUME FileInv, NEW s \in Savers, Fi!Sync(s)
  PROVE  FileInv'
  <1>1. CASE Fi!Fails(s)
    BY <1>1, FileFails
  <1>2. CASE ~Fi!Fails(s)
    <2>1. /\ alive /\ at[s] = "written"
          /\ durable' = durable \cup {fd[s]}
          /\ at' = [at EXCEPT ![s] = "synced"] /\ fd' = [fd EXCEPT ![s] = None]
          /\ alive' = alive /\ dir' = dir /\ data' = data /\ overlapped' = overlapped
      BY <1>2 DEF Fi!Sync
    <2>2. FileTypeOK'
      BY <2>1 DEF FileInv, FileTypeOK
    <2>3. ASSUME ~overlapped' PROVE (OneSaver /\ TempIsTheSavers /\ MapIsWhole)'
      <3>1. OneSaver /\ TempIsTheSavers /\ MapIsWhole
              /\ fd[s] = dir["tmp"] /\ data[dir["tmp"]] = "whole"
        BY <2>1, <2>3 DEF FileInv, TempIsTheSavers
      <3>2. \A o \in Savers \ {s} : at[o] = "idle" /\ at'[o] = "idle"
        BY <2>1, <3>1 DEF OneSaver, FileInv, FileTypeOK
      <3> QED
        BY <2>1, <3>1, <3>2 DEF OneSaver, TempIsTheSavers, MapIsWhole, FileInv, FileTypeOK
    <2> QED
      BY <2>2, <2>3 DEF FileInv
  <1> QED
    BY <1>1, <1>2

LEMMA FileRename ==
  ASSUME FileInv, NEW s \in Savers, Fi!Rename(s)
  PROVE  FileInv'
  <1>1. CASE Fi!Fails(s)
    BY <1>1, FileFails
  <1>2. CASE ~Fi!Fails(s)
    <2>1. FileTypeOK'
      <3>1. /\ dir' \in [{"map", "tmp"} -> Inodes \cup {None}]
            /\ data' = data /\ durable' = durable /\ overlapped' = overlapped
        BY <1>2 DEF FileInv, FileTypeOK, Fi!Rename, Fi!Temp
      <3>2. Fi!Through(s)
        BY <1>2 DEF Fi!Rename
      <3> QED
        BY <3>1, <3>2 DEF FileInv, FileTypeOK, Fi!Through, Fi!Savers
    <2>2. ASSUME ~overlapped' PROVE (OneSaver /\ TempIsTheSavers /\ MapIsWhole)'
      BY <1>2, <2>2
      DEF FileInv, FileTypeOK, OneSaver, TempIsTheSavers, MapIsWhole,
          Fi!Rename, Fi!Through, Fi!Temp, Fi!Savers
    <2> QED
      BY <2>1, <2>2 DEF FileInv
  <1> QED
    BY <1>1, <1>2

LEMMA FileKilled ==
  ASSUME FileInv, NEW power \in BOOLEAN, Fi!Killed(power)
  PROVE  FileInv'
  <1>1. FileTypeOK'
    BY DEF FileInv, FileTypeOK, Fi!Killed, Fi!Savers
  <1>2. ASSUME ~overlapped' PROVE (OneSaver /\ TempIsTheSavers /\ MapIsWhole)'
    BY <1>2
    DEF FileInv, FileTypeOK, OneSaver, TempIsTheSavers, MapIsWhole, Fi!Killed, Fi!Savers
  <1> QED
    BY <1>1, <1>2 DEF FileInv

LEMMA FileStart ==
  ASSUME FileInv, Fi!Start
  PROVE  FileInv'
  BY DEF FileInv, FileTypeOK, OneSaver, TempIsTheSavers, MapIsWhole, Fi!Start

(* The saved map's file, whoever runs, crashes or loses power: FileInv holds
   throughout. *)
THEOREM FileInductive == Spec => []FileInv
  <1>1. Init => FileInv
    BY FileInitial DEF Init
  <1>2. FileInv /\ [Next]_vars => FileInv'
    <2> SUFFICES ASSUME FileInv, [Next]_vars PROVE FileInv'
      OBVIOUS
    <2>1. CASE UNCHANGED fileVars
      BY <2>1 DEF fileVars, FileInv, FileTypeOK, OneSaver, TempIsTheSavers, MapIsWhole
    <2>2. CASE Fi!Next
      BY <2>2, FileRemove, FileCreate, FileWrite, FileSync, FileRename, FileKilled, FileStart
      DEF Fi!Next, Fi!Savers
    <2> QED
      BY <2>1, <2>2 DEF Next, vars
  <1> QED
    BY <1>1, <1>2, PTL DEF Spec

(* "Atomic temp + rename so a crash mid-write cannot truncate a layout"
   (layout_io.rs:6-8): however the process ends, and with a loss of power at any
   step, the map it leaves is whole, unless two saves overlapped. *)
THEOREM MapSurvivesCrashes == Spec => []CrashNeverTruncates
  <1>1. FileInv => CrashNeverTruncates
    BY DEF FileInv, MapIsWhole, CrashNeverTruncates, Fi!CrashNeverTruncates
  <1> QED
    BY <1>1, FileInductive, PTL
-----------------------------------------------------------------------------
(* Min of the community modules is the least member of a set of numbers. *)
LEMMA MinIsIn ==
  ASSUME NEW T, T \subseteq Nat, T # {}
  PROVE  At!Min(T) \in T
  BY LeastNatural DEF At!Min

(* Every trouble's pod is one its line could open the log of, and the log opened
   is of a pod that ran, with the last words if any of the pods has them. *)
LEMMA ProbeOpensALog ==
  ASSUME NEW S \in SUBSET Pods, NEW p \in S, At!Ran(p)
  PROVE  /\ At!Probe(S) \in S /\ At!Probe(S) # None /\ At!Ran(At!Probe(S))
         /\ At!Previous(p) => At!Previous(At!Probe(S))
  <1> DEFINE ran == {q \in S : At!Ran(q)}
             last == {q \in ran : At!Previous(q)}
  <1>1. ran # {} /\ (At!Previous(p) => last # {})
    OBVIOUS
  <1>2. ran \subseteq Nat /\ last \subseteq Nat
    BY AttentionAssumption
  <1>3. last # {} => At!Min(last) \in last
    BY <1>2, MinIsIn
  <1>4. At!Min(ran) \in ran
    BY <1>1, <1>2, MinIsIn
  <1>5. At!Probe(S) = IF last # {} THEN At!Min(last) ELSE IF ran # {} THEN At!Min(ran) ELSE None
    BY DEF At!Probe
  <1> HIDE DEF last
  <1>6. CASE last # {}
    BY <1>3, <1>5, <1>6, AttentionAssumption DEF last
  <1>7. CASE last = {}
    BY <1>1, <1>4, <1>5, <1>7, AttentionAssumption
  <1> QED
    BY <1>6, <1>7

(* More trouble is never less severe. *)
LEMMA WorstGrows ==
  ASSUME NEW T, NEW U, T \subseteq U
  PROVE  At!Worst(U) >= At!Worst(T)
  BY DEF At!Worst, At!Critical, At!Warning

(* A line is made out by its key: what the detectors say of one Job, of one pod,
   of one workload. *)
JobLineOf(j) ==
  At!Line(<<"j", j>>, IF jobs[j] = "failed" THEN At!Critical ELSE At!Warning, None,
          At!Probe({p \in At!InTrouble : owner[p] = <<"Job", j>>}))

PodLineOf(p) ==
  At!Line(<<"b", p>>, At!Worst(At!Troubles(p)), None, IF At!Ran(p) THEN p ELSE None)

WorkloadLineOf(w) ==
  At!Line(<<"w", w>>,
          IF rows[w] = "stalled" THEN At!Critical
          ELSE IF At!PodsOf(w) # {}
               THEN At!Worst(UNION {At!Troubles(p) : p \in At!PodsOf(w)}) ELSE At!Warning,
          w, At!Probe(At!PodsOf(w)))

LEMMA JobLine ==
  /\ At!JobLines = {JobLineOf(j) : j \in At!CoveredJobs}
  /\ \A j : JobLineOf(j).key = <<"j", j>>
  BY DEF At!JobLines, JobLineOf, At!Line

LEMMA PodLine ==
  /\ At!PodLines =
       {PodLineOf(p) : p \in {q \in At!InTrouble :
           owner[q] \notin Workloads /\ owner[q] \notin {<<"Job", j>> : j \in At!CoveredJobs}}}
  /\ \A p : PodLineOf(p).key = <<"b", p>>
  BY DEF At!PodLines, PodLineOf, At!Line

LEMMA WorkloadLine ==
  /\ At!WorkloadLines = {WorkloadLineOf(w) : w \in At!CoveredWorkloads}
  /\ \A w : WorkloadLineOf(w).key = <<"w", w>>
  BY DEF At!WorkloadLines, WorkloadLineOf, At!Line

(* The first component of a line's key tells which detector it is of. *)
LEMMA KindsOfLines ==
  /\ \A l \in At!JobLines : l.key[1] = "j"
  /\ \A l \in At!PodLines : l.key[1] = "b"
  /\ \A l \in At!WorkloadLines : l.key[1] = "w"
  /\ \A l \in At!NodeLines : l.key[1] = "n"
  /\ \A l \in At!EventLines : l.key[1] = "e"
  /\ \A lines : /\ \A l \in At!BudgetLines(lines) : l.key[1] = "slo"
                /\ \A l \in At!InsecureLines(lines) : l.key[1] = "harden"
                /\ \A l \in At!ExposedLines(lines) : l.key[1] = "netpol"
  <1>1. /\ \A l \in At!JobLines : l.key[1] = "j"
        /\ \A l \in At!PodLines : l.key[1] = "b"
        /\ \A l \in At!WorkloadLines : l.key[1] = "w"
    BY JobLine, PodLine, WorkloadLine
  <1>2. /\ \A l \in At!NodeLines : l.key[1] = "n"
        /\ \A l \in At!EventLines : l.key[1] = "e"
    BY DEF At!NodeLines, At!EventLines, At!Line
  <1>3. ASSUME NEW lines
        PROVE  /\ \A l \in At!BudgetLines(lines) : l.key[1] = "slo"
               /\ \A l \in At!InsecureLines(lines) : l.key[1] = "harden"
               /\ \A l \in At!ExposedLines(lines) : l.key[1] = "netpol"
    BY DEF At!BudgetLines, At!InsecureLines, At!ExposedLines, At!Line
  <1> QED
    BY <1>1, <1>2, <1>3

(* What the world loop merges in takes no line away, and none of it is a line of
   a pod, a Job or a workload. *)
LEMMA QueueKeepsBuilt ==
  /\ At!Built \subseteq At!Queue
  /\ \A l \in At!Queue : l.key[1] \in {"j", "b", "w"} =>
       l \in At!JobLines \cup At!PodLines \cup At!WorkloadLines
  BY KindsOfLines DEF At!Queue, At!Built

LEMMA KeysAreUnique ==
  \A l, m \in At!Built : l.key = m.key => l = m
  <1> SUFFICES ASSUME NEW l \in At!Built, NEW m \in At!Built, l.key = m.key
               PROVE  l = m
    OBVIOUS
  <1>1. CASE l \in At!JobLines /\ m \in At!JobLines
    BY <1>1, JobLine
  <1>2. CASE l \in At!PodLines /\ m \in At!PodLines
    BY <1>2, PodLine
  <1>3. CASE l \in At!WorkloadLines /\ m \in At!WorkloadLines
    BY <1>3, WorkloadLine
  <1>4. CASE l \in At!NodeLines /\ m \in At!NodeLines
    BY <1>4 DEF At!NodeLines, At!Line
  <1>5. CASE l \in At!EventLines /\ m \in At!EventLines
    BY <1>5 DEF At!EventLines, At!Line
  <1>6. l.key[1] = m.key[1]
    OBVIOUS
  <1> QED
    BY <1>1, <1>2, <1>3, <1>4, <1>5, <1>6, KindsOfLines DEF At!Built

(* The line of a pod in trouble: its workload's, its Job's while that has one, or
   its own.  It is in the queue, it is as severe as the pod unless it is a Job's,
   and it opens a log if the pod has one. *)
TheLineOf(p) ==
  IF owner[p] \in Workloads THEN WorkloadLineOf(owner[p])
  ELSE IF owner[p] \in {<<"Job", j>> : j \in At!CoveredJobs} THEN JobLineOf(owner[p][2])
  ELSE PodLineOf(p)

LEMMA LineIsTheOnlyOne ==
  ASSUME NEW p \in At!InTrouble
  PROVE  At!LinesFor(p, At!Queue) = {TheLineOf(p)}
  <1> DEFINE folds == owner[p] \in {<<"Job", j>> : j \in At!CoveredJobs}
  <1>1. folds => At!OfJob(p) /\ owner[p][2] \in At!CoveredJobs /\ owner[p] \notin Workloads
    BY AttentionAssumption DEF At!OfJob, At!CoveredJobs
  <1>2. TheLineOf(p) \in At!JobLines \cup At!PodLines \cup At!WorkloadLines
    <2>1. CASE owner[p] \in Workloads
      <3>1. owner[p] \in At!CoveredWorkloads
        BY <2>1 DEF At!CoveredWorkloads, At!PodsOf
      <3> QED
        BY <2>1, <3>1, WorkloadLine DEF TheLineOf
    <2>2. CASE owner[p] \notin Workloads /\ folds
      BY <1>1, <2>2, JobLine DEF TheLineOf
    <2>3. CASE owner[p] \notin Workloads /\ ~folds
      BY <2>3, PodLine DEF TheLineOf
    <2> QED
      BY <2>1, <2>2, <2>3
  <1>3. TheLineOf(p) \in At!LinesFor(p, At!Queue)
    <2>1. TheLineOf(p) \in At!Queue
      BY <1>2, QueueKeepsBuilt DEF At!Built
    <2>2. \/ TheLineOf(p).key \in {<<"b", p>>, <<"w", owner[p]>>}
          \/ At!OfJob(p) /\ TheLineOf(p).key = <<"j", owner[p][2]>>
      BY <1>1, JobLine, PodLine, WorkloadLine DEF TheLineOf
    <2> QED
      BY <2>1, <2>2 DEF At!LinesFor
  <1>4. ASSUME NEW l \in At!LinesFor(p, At!Queue)
        PROVE  l = TheLineOf(p)
    <2>1. /\ l \in At!Queue
          /\ \/ l.key = <<"b", p>> \/ l.key = <<"w", owner[p]>>
             \/ At!OfJob(p) /\ l.key = <<"j", owner[p][2]>>
      BY DEF At!LinesFor
    <2>2. l \in At!JobLines \cup At!PodLines \cup At!WorkloadLines
      BY <2>1, QueueKeepsBuilt
    <2>3. CASE l \in At!WorkloadLines
      <3>1. PICK w \in At!CoveredWorkloads : l = WorkloadLineOf(w)
        BY <2>3, WorkloadLine
      <3>2. w = owner[p] /\ w \in Workloads
        BY <2>1, <3>1, WorkloadLine DEF At!CoveredWorkloads
      <3> QED
        BY <3>1, <3>2 DEF TheLineOf
    <2>4. CASE l \in At!JobLines
      <3>1. PICK j \in At!CoveredJobs : l = JobLineOf(j)
        BY <2>4, JobLine
      <3>2. At!OfJob(p) /\ owner[p][2] = j
        BY <2>1, <3>1, JobLine
      <3>3. owner[p] = <<"Job", j>>
        BY <3>2 DEF At!OfJob
      <3> QED
        BY <1>1, <3>1, <3>3 DEF TheLineOf
    <2>5. CASE l \in At!PodLines
      <3>1. PICK q \in At!InTrouble : /\ l = PodLineOf(q)
                                      /\ owner[q] \notin Workloads
                                      /\ owner[q] \notin {<<"Job", j>> : j \in At!CoveredJobs}
        BY <2>5, PodLine
      <3>2. q = p
        BY <2>1, <3>1, PodLine
      <3> QED
        BY <3>1, <3>2 DEF TheLineOf
    <2> QED
      BY <2>2, <2>3, <2>4, <2>5
  <1> QED
    BY <1>3, <1>4

LEMMA LineIsSevereEnough ==
  ASSUME NEW p \in At!InTrouble
  PROVE  TheLineOf(p).key[1] = "j" \/ TheLineOf(p).severity >= At!Worst(At!Troubles(p))
  <1>1. CASE owner[p] \in Workloads
    <2>1. At!PodsOf(owner[p]) # {}
            /\ At!Troubles(p) \subseteq UNION {At!Troubles(q) : q \in At!PodsOf(owner[p])}
      BY DEF At!PodsOf
    <2>2. At!Worst(UNION {At!Troubles(q) : q \in At!PodsOf(owner[p])}) >= At!Worst(At!Troubles(p))
      BY <2>1, WorstGrows
    <2>3. At!Critical >= At!Worst(At!Troubles(p))
      BY DEF At!Worst, At!Critical, At!Warning
    <2> QED
      BY <1>1, <2>1, <2>2, <2>3 DEF TheLineOf, WorkloadLineOf, At!Line
  <1>2. CASE owner[p] \notin Workloads /\ owner[p] \in {<<"Job", j>> : j \in At!CoveredJobs}
    BY <1>2, JobLine DEF TheLineOf
  <1>3. CASE owner[p] \notin Workloads /\ owner[p] \notin {<<"Job", j>> : j \in At!CoveredJobs}
    <2>1. TheLineOf(p).severity = At!Worst(At!Troubles(p))
      BY <1>3 DEF TheLineOf, PodLineOf, At!Line
    <2> QED
      BY <2>1 DEF At!Worst, At!Critical, At!Warning
  <1> QED
    BY <1>1, <1>2, <1>3

LEMMA LineOpensALog ==
  ASSUME NEW p \in At!InTrouble, At!Ran(p)
  PROVE  LET l == TheLineOf(p) IN
         /\ l.probe # None /\ owner[l.probe] = owner[p] /\ At!Ran(l.probe)
         /\ At!Previous(p) => At!Previous(l.probe)
  <1>1. CASE owner[p] \in Workloads
    <2>1. At!PodsOf(owner[p]) \in SUBSET Pods /\ p \in At!PodsOf(owner[p])
      BY DEF At!PodsOf, At!InTrouble
    <2>2. TheLineOf(p).probe = At!Probe(At!PodsOf(owner[p]))
      BY <1>1 DEF TheLineOf, WorkloadLineOf, At!Line
    <2>3. \A q \in At!PodsOf(owner[p]) : owner[q] = owner[p]
      BY DEF At!PodsOf
    <2> QED
      BY <2>1, <2>2, <2>3, ProbeOpensALog
  <1>2. CASE owner[p] \notin Workloads /\ owner[p] \in {<<"Job", j>> : j \in At!CoveredJobs}
    <2> DEFINE S == {q \in At!InTrouble : owner[q] = <<"Job", owner[p][2]>>}
    <2>1. owner[p] = <<"Job", owner[p][2]>>
      BY <1>2
    <2>2. S \in SUBSET Pods /\ p \in S /\ \A q \in S : owner[q] = owner[p]
      BY <2>1 DEF At!InTrouble
    <2>3. TheLineOf(p).probe = At!Probe(S)
      BY <1>2 DEF TheLineOf, JobLineOf, At!Line
    <2> HIDE DEF S
    <2> QED
      BY <2>2, <2>3, ProbeOpensALog
  <1>3. CASE owner[p] \notin Workloads /\ owner[p] \notin {<<"Job", j>> : j \in At!CoveredJobs}
    <2>1. TheLineOf(p).probe = p
      BY <1>3 DEF TheLineOf, PodLineOf, At!Line
    <2> QED
      BY <2>1, AttentionAssumption DEF At!InTrouble
  <1> QED
    BY <1>1, <1>2, <1>3

(* What the world loop merges in: whoever is over its budget or insecure is
   pointed at, and so is who is short of replicas. *)
LEMMA WhoeverIsPointedAt ==
  ASSUME NEW w \in Workloads
  PROVE  /\ At!Behind(w) \/ At!Budget[w] > 0 => \E l \in At!Queue : l.target = w
         /\ w \in insecure => \E l \in At!Queue : l.target = w /\ l.severity = At!Critical
  <1> DEFINE built    == At!Built
             budgeted == built \cup At!BudgetLines(built)
             audited  == budgeted \cup At!InsecureLines(budgeted)
  <1>1. /\ built \subseteq At!Queue /\ budgeted \subseteq At!Queue
        /\ At!InsecureLines(budgeted) \subseteq At!Queue
    BY DEF At!Queue
  <1>2. ASSUME At!Behind(w) PROVE \E l \in At!Queue : l.target = w
    <2>1. w \in At!CoveredWorkloads
      BY <1>2 DEF At!CoveredWorkloads
    <2>2. WorkloadLineOf(w) \in built /\ WorkloadLineOf(w).target = w
      BY <2>1, WorkloadLine DEF At!Built, WorkloadLineOf, At!Line
    <2> QED
      BY <1>1, <2>2
  <1>3. ASSUME At!Budget[w] > 0 PROVE \E l \in budgeted : l.target = w
    <2>1. CASE \E l \in built : l.target = w
      BY <2>1
    <2>2. CASE \A l \in built : l.target # w
      <3>1. At!Line(<<"slo", w[2]>>, At!Budget[w], w, None) \in At!BudgetLines(built)
        BY <1>3, <2>2 DEF At!BudgetLines
      <3> QED
        BY <3>1 DEF At!Line
    <2> QED
      BY <2>1, <2>2
  <1>4. ASSUME w \in insecure
        PROVE  \E l \in At!Queue : l.target = w /\ l.severity = At!Critical
    <2>1. CASE w \in At!CriticalIn(budgeted)
      BY <1>1, <2>1 DEF At!CriticalIn
    <2>2. CASE w \notin At!CriticalIn(budgeted)
      <3>1. At!Line(<<"harden", w[2]>>, At!Critical, w, None) \in At!InsecureLines(budgeted)
        BY <1>4, <2>2 DEF At!InsecureLines
      <3> QED
        BY <1>1, <3>1 DEF At!Line
    <2> QED
      BY <2>1, <2>2
  <1> HIDE DEF budgeted
  <1> QED
    BY <1>1, <1>2, <1>3, <1>4

(* "City in trouble, not a hundred identical pod alarms" (attention.rs:1-3): for
   every cluster whatever, each pod in trouble is in exactly one line of the queue,
   severe enough and opening a log if there is one, keys are unique, and whoever is
   behind, over budget or insecure is pointed at. *)
THEOREM TroubleIsShownOnce == Spec => []EveryTroubleHasItsLine
  <1>1. EveryTroubleHasItsLine
    <2>1. ASSUME NEW p \in At!InTrouble
          PROVE  \E l \in At!LinesFor(p, At!Queue) :
                   /\ At!LinesFor(p, At!Queue) = {l}
                   /\ l.key[1] = "j" \/ l.severity >= At!Worst(At!Troubles(p))
                   /\ At!Ran(p) => /\ l.probe # None /\ owner[l.probe] = owner[p]
                                   /\ At!Ran(l.probe)
                                   /\ At!Previous(p) => At!Previous(l.probe)
      BY LineIsTheOnlyOne, LineIsSevereEnough, LineOpensALog
    <2> QED
      BY <2>1, KeysAreUnique, WhoeverIsPointedAt
      DEF EveryTroubleHasItsLine, At!EveryTroubleHasItsLine
  <1> QED
    BY <1>1, PTL

-----------------------------------------------------------------------------
(* The recursion of Settled, which is the loop of build_world that calls city_cell,
   out of its LET: what the cities up to c have settled on, from what those before
   c have. *)
Upon(n, cities, f, c) ==
  IF c = 0 THEN <<>>
  ELSE IF c \notin cities THEN f[c - 1]
  ELSE [d \in DOMAIN f[c - 1] \cup {c} |->
          IF d = c THEN Ge!CityCell(c, Ge!Rows(n), Ge!Range(f[c - 1])) ELSE f[c - 1][d]]

Last == Ge!Max(Cities)

UpTo(n, cities) == CHOOSE f : f = [c \in 0..Last |-> Upon(n, cities, f, c)]

LEMMA SettledIs ==
  ASSUME NEW n, NEW cities
  PROVE  Ge!Settled(n, cities) = UpTo(n, cities)[Last]
  BY DEF Ge!Settled, UpTo, Upon, Last

LEMMA UpToIs ==
  ASSUME NEW n, NEW cities, Last \in Nat
  PROVE  UpTo(n, cities) = [c \in 0..Last |-> Upon(n, cities, UpTo(n, cities), c)]
  <1> DEFINE Does(f, k) == f = [c \in 0..k |-> Upon(n, cities, f, c)]
             T == {k \in 0..Last : \E f : Does(f, k)}
  <1>1. 0 \in T
    <2>1. Does([c \in 0..0 |-> <<>>], 0)
      BY DEF Upon
    <2> QED
      BY <2>1
  <1>2. ASSUME NEW k \in 1..Last, k - 1 \in T
        PROVE  k \in T
    <2>1. PICK f : Does(f, k - 1)
      BY <1>2
    <2> DEFINE g == [c \in 0..k |-> IF c = k THEN Upon(n, cities, f, k) ELSE f[c]]
    <2>2. \A c \in 0..k : g[c] = Upon(n, cities, f, c)
      <3>1. \A c \in 0..k : c # k => c \in 0..(k - 1)
        OBVIOUS
      <3> QED
        BY <2>1, <3>1
    <2>3. \A c \in 0..k : c # 0 => g[c - 1] = f[c - 1]
      OBVIOUS
    <2>4. \A c \in 0..k : Upon(n, cities, f, c) = Upon(n, cities, g, c)
      BY <2>3 DEF Upon
    <2> HIDE DEF g
    <2>5. g = [c \in 0..k |-> g[c]]
      BY DEF g
    <2>6. Does(g, k)
      BY <2>2, <2>4, <2>5
    <2> QED
      BY <2>6
  <1>3. T = 0..Last
    BY <1>1, <1>2, UpFromZero
  <1>4. PICK f : Does(f, Last)
    BY <1>3
  <1>5. f = [c \in 0..Last |-> Upon(n, cities, f, c)]
    BY <1>4
  <1> QED
    BY <1>5 DEF UpTo

LEMMA LastIs ==
  ASSUME Cities # {}
  PROVE  Last \in Nat /\ Cities = 1..Last
  <1> DEFINE K == Cardinality(Cities)
  <1>1. K \in Nat
    BY GeographyAssumption, FS_CardinalityType
  <1>2. Cities = 1..K
    BY GeographyAssumption
  <1> HIDE DEF K
  <1>3. K \in Cities /\ \A y \in Cities : K >= y
    BY <1>1, <1>2
  <1>4. Last \in Cities /\ \A y \in Cities : Last >= y
    BY <1>3 DEF Last, Ge!Max
  <1>5. Last = K
    BY <1>1, <1>2, <1>3, <1>4
  <1> QED
    BY <1>1, <1>2, <1>5

(* The first choice of a city is its preferred cell. *)
LEMMA PreferredFirst ==
  ASSUME NEW c, NEW high \in Nat \ {0}, NEW taken, Ge!Preferred(c, high) \notin taken
  PROVE  Ge!CityCell(c, high, taken) = Ge!Preferred(c, high)
  <1> DEFINE narrow == Ge!Band(c, high, CITY_COLS)
             wide   == Ge!Band(c, high, CITY_COLS_WIDE)
             S      == {narrow[i] : i \in 1..(CITY_COLS * high)}
                         \cup {wide[i] : i \in 1..(CITY_COLS_WIDE * high)}
             cells  == narrow \o wide
             free   == {i \in DOMAIN cells : cells[i] \notin taken}
  <1>1. CITY_COLS * high \in Nat \ {0} /\ CITY_COLS_WIDE * high \in Nat \ {0}
    BY GeographyAssumption
  <1>2. narrow \in Seq(S) /\ Len(narrow) = CITY_COLS * high
    <2>1. narrow \in [1..(CITY_COLS * high) -> S]
      BY DEF Ge!Band
    <2> QED
      BY <1>1, <2>1, IsASeq
  <1>3. wide \in Seq(S)
    <2>1. wide \in [1..(CITY_COLS_WIDE * high) -> S]
      BY DEF Ge!Band
    <2> QED
      BY <1>1, <2>1, IsASeq
  <1> HIDE DEF narrow, wide, S
  <1>4. /\ cells \in Seq(S) /\ Len(cells) >= 1 /\ Len(cells) \in Nat
        /\ cells[1] = narrow[1]
    BY <1>1, <1>2, <1>3, ConcatProperties
  <1>5. Head(narrow) = narrow[1]
    BY <1>1, <1>2
  <1>6. Ge!Preferred(c, high) = cells[1]
    BY <1>4, <1>5 DEF Ge!Preferred, narrow
  <1>7. Ge!CityCell(c, high, taken) = cells[IF free = {} THEN 1 ELSE Ge!Min(free)]
    BY DEF Ge!CityCell, narrow, wide
  <1>8. DOMAIN cells = 1..Len(cells)
    BY <1>4
  <1> HIDE DEF cells
  <1>9. 1 \in free /\ \A i \in free : i \in Nat /\ 1 <= i
    BY <1>4, <1>6, <1>8
  <1>10. Ge!Min(free) = 1
    <2> HIDE DEF free
    <2>1. Ge!Min(free) \in free /\ \A i \in free : Ge!Min(free) <= i
      BY <1>9 DEF Ge!Min
    <2> QED
      BY <1>9, <2>1
  <1> QED
    BY <1>6, <1>7, <1>9, <1>10

(* One workload after the other. *)
OneByOne(far, n, cities) ==
  /\ far[0] = <<>>
  /\ \A k \in 1..Last :
       /\ k \notin cities => far[k] = far[k - 1]
       /\ k \in cities =>
            far[k] = [d \in DOMAIN far[k - 1] \cup {k} |->
                        IF d = k THEN Ge!CityCell(k, Ge!Rows(n), Ge!Range(far[k - 1]))
                        ELSE far[k - 1][d]]

LEMMA UpToSteps ==
  ASSUME NEW n, NEW cities, Last \in Nat
  PROVE  OneByOne(UpTo(n, cities), n, cities)
  <1> DEFINE far == UpTo(n, cities)
  <1>1. \A k \in 0..Last : far[k] = Upon(n, cities, far, k)
    BY UpToIs
  <1> HIDE DEF far
  <1>2. far[0] = <<>>
    <2>1. 0 \in 0..Last
      OBVIOUS
    <2>2. far[0] = Upon(n, cities, far, 0)
      BY <1>1, <2>1
    <2> QED
      BY <2>2 DEF Upon
  <1>3. ASSUME NEW k \in 1..Last
        PROVE  /\ k \notin cities => far[k] = far[k - 1]
               /\ k \in cities =>
                    far[k] = [d \in DOMAIN far[k - 1] \cup {k} |->
                                IF d = k THEN Ge!CityCell(k, Ge!Rows(n), Ge!Range(far[k - 1]))
                                ELSE far[k - 1][d]]
    <2>1. k \in 0..Last /\ k # 0
      OBVIOUS
    <2>2. far[k] = Upon(n, cities, far, k)
      BY <1>1, <2>1
    <2> QED
      BY <2>1, <2>2 DEF Upon
  <1>4. OneByOne(far, n, cities)
    BY <1>2, <1>3 DEF OneByOne
  <1> QED
    BY <1>4 DEF far

(* Who has settled after k workloads, and that nobody is moved later. *)
LEMMA SettledSoFar ==
  ASSUME NEW n, NEW cities \in SUBSET Cities, Last \in Nat, Cities = 1..Last
  PROVE  /\ \A k \in 0..Last : DOMAIN UpTo(n, cities)[k] = {e \in cities : e <= k}
         /\ \A k \in 0..Last, e \in cities :
              e <= k => UpTo(n, cities)[k][e] = UpTo(n, cities)[e][e]
  <1> DEFINE far == UpTo(n, cities)
             Fine(k) == /\ DOMAIN far[k] = {e \in cities : e <= k}
                        /\ \A e \in cities : e <= k => far[k][e] = far[e][e]
             T == {k \in 0..Last : Fine(k)}
  <1>1. OneByOne(far, n, cities)
    BY UpToSteps
  <1> HIDE DEF far
  <1>2. Fine(0)
    <2>1. DOMAIN far[0] = {}
      BY <1>1 DEF OneByOne
    <2>2. \A e \in cities : ~(e <= 0)
      OBVIOUS
    <2> QED
      BY <2>1, <2>2
  <1>3. ASSUME NEW k \in 1..Last, Fine(k - 1)
        PROVE  Fine(k)
    <2>1. CASE k \notin cities
      <3>1. far[k] = far[k - 1]
        BY <1>1, <2>1 DEF OneByOne
      <3>2. \A e \in cities : e <= k <=> e <= k - 1
        BY <2>1
      <3> QED
        BY <1>3, <3>1, <3>2
    <2>2. CASE k \in cities
      <3>1. far[k] = [d \in DOMAIN far[k - 1] \cup {k} |->
                       IF d = k THEN Ge!CityCell(k, Ge!Rows(n), Ge!Range(far[k - 1]))
                       ELSE far[k - 1][d]]
        BY <1>1, <2>2 DEF OneByOne
      <3>2. \A e \in cities : e <= k <=> e <= k - 1 \/ e = k
        OBVIOUS
      <3>3. DOMAIN far[k] = {e \in cities : e <= k}
        BY <1>3, <2>2, <3>1, <3>2
      <3>4. \A e \in cities : e <= k => far[k][e] = far[e][e]
        <4> SUFFICES ASSUME NEW e \in cities, e <= k - 1 PROVE far[k][e] = far[e][e]
          BY <3>2
        <4>1. e # k /\ e \in DOMAIN far[k - 1] /\ far[k - 1][e] = far[e][e]
          BY <1>3
        <4> QED
          BY <3>1, <4>1
      <3> QED
        BY <3>3, <3>4
    <2> QED
      BY <2>1, <2>2
  <1> HIDE DEF Fine
  <1>4. T = 0..Last
    <2>1. 0 \in T
      BY <1>2
    <2>2. \A k \in 1..Last : k - 1 \in T => k \in T
      BY <1>3
    <2> HIDE DEF T
    <2>3. T \in SUBSET (0..Last)
      BY DEF T
    <2> QED
      BY <2>1, <2>2, <2>3, UpFromZero
  <1>5. \A k \in 0..Last : Fine(k)
    BY <1>4
  <1> QED
    BY <1>5 DEF Fine, far

(* A city's place depends on none that settles after it. *)
LEMMA LaterMakeNoDifference ==
  ASSUME NEW n, NEW A \in SUBSET Cities, NEW B \in SUBSET Cities, Last \in Nat, Cities = 1..Last,
         NEW c \in 0..Last, \A e \in Cities : e <= c => (e \in A <=> e \in B)
  PROVE  UpTo(n, A)[c] = UpTo(n, B)[c]
  <1> DEFINE ua == UpTo(n, A)
             ub == UpTo(n, B)
             T == {k \in 0..c : ua[k] = ub[k]}
  <1>0. OneByOne(ua, n, A) /\ OneByOne(ub, n, B)
    BY UpToSteps
  <1> HIDE DEF ua, ub
  <1>1. ua[0] = ub[0]
    BY <1>0 DEF OneByOne
  <1>2. ASSUME NEW k \in 1..c, ua[k - 1] = ub[k - 1]
        PROVE  ua[k] = ub[k]
    <2>1. k \in 1..Last /\ (k \in A <=> k \in B)
      OBVIOUS
    <2>2. CASE k \notin A
      <3>1. ua[k] = ua[k - 1] /\ ub[k] = ub[k - 1]
        BY <1>0, <2>1, <2>2 DEF OneByOne
      <3> QED
        BY <1>2, <3>1
    <2>3. CASE k \in A
      <3>1. ua[k] = [d \in DOMAIN ua[k - 1] \cup {k} |->
                       IF d = k THEN Ge!CityCell(k, Ge!Rows(n), Ge!Range(ua[k - 1]))
                       ELSE ua[k - 1][d]]
        BY <1>0, <2>1, <2>3 DEF OneByOne
      <3>2. ub[k] = [d \in DOMAIN ub[k - 1] \cup {k} |->
                       IF d = k THEN Ge!CityCell(k, Ge!Rows(n), Ge!Range(ub[k - 1]))
                       ELSE ub[k - 1][d]]
        BY <1>0, <2>1, <2>3 DEF OneByOne
      <3> QED
        BY <1>2, <3>1, <3>2
    <2> QED
      BY <2>2, <2>3
  <1>3. T = 0..c
    <2>1. 0 \in T
      BY <1>1
    <2>2. \A k \in 1..c : k - 1 \in T => k \in T
      BY <1>2
    <2> HIDE DEF T
    <2>3. c \in Nat /\ T \in SUBSET (0..c)
      BY DEF T
    <2> QED
      BY <2>1, <2>2, <2>3, UpFromZero
  <1> QED
    BY <1>3 DEF ua, ub

(* Where no two want one cell, everybody has the cell it prefers. *)
LEMMA PreferredUnlessClash ==
  ASSUME NEW n, Ge!Rows(n) \in Nat \ {0}, NEW cities \in SUBSET Cities,
         Last \in Nat, Cities = 1..Last, NEW c \in cities,
         ~Ge!Clash(n, {e \in cities : e <= c})
  PROVE  UpTo(n, cities)[c][c] = Ge!Preferred(c, Ge!Rows(n))
  <1> DEFINE far == UpTo(n, cities)
             P(e) == Ge!Preferred(e, Ge!Rows(n))
             Fine(k) == \A e \in cities : e <= k => far[k][e] = P(e)
             T == {k \in 0..c : Fine(k)}
  <1>0. c \in 1..Last
    OBVIOUS
  <1>1. OneByOne(far, n, cities)
    BY UpToSteps
  <1>2. \A k \in 0..Last : DOMAIN far[k] = {e \in cities : e <= k}
    BY SettledSoFar
  <1> HIDE DEF far
  <1>3. Fine(0)
    <2>1. \A e \in cities : ~(e <= 0)
      OBVIOUS
    <2> QED
      BY <2>1
  <1>4. ASSUME NEW k \in 1..c, Fine(k - 1)
        PROVE  Fine(k)
    <2>1. k \in 1..Last /\ k - 1 \in 0..Last
      BY <1>0
    <2>2. CASE k \notin cities
      <3>1. far[k] = far[k - 1]
        BY <1>1, <2>1, <2>2 DEF OneByOne
      <3>2. \A e \in cities : e <= k <=> e <= k - 1
        BY <2>2
      <3> QED
        BY <1>4, <3>1, <3>2
    <2>3. CASE k \in cities
      <3>1. far[k] = [d \in DOMAIN far[k - 1] \cup {k} |->
                       IF d = k THEN Ge!CityCell(k, Ge!Rows(n), Ge!Range(far[k - 1]))
                       ELSE far[k - 1][d]]
        BY <1>1, <2>1, <2>3 DEF OneByOne
      <3>2. DOMAIN far[k - 1] = {e \in cities : e <= k - 1}
        BY <1>2, <2>1
      <3>3. P(k) \notin Ge!Range(far[k - 1])
        <4> SUFFICES ASSUME NEW e \in DOMAIN far[k - 1], far[k - 1][e] = P(k) PROVE FALSE
          BY DEF Ge!Range
        <4>1. e \in cities /\ e <= k - 1 /\ P(e) = P(k)
          BY <1>4, <3>2
        <4>2. e # k /\ e <= c /\ k <= c
          BY <4>1
        <4> QED
          BY <2>3, <4>1, <4>2 DEF Ge!Clash
      <3>4. Ge!CityCell(k, Ge!Rows(n), Ge!Range(far[k - 1])) = P(k)
        BY <3>3, PreferredFirst
      <3> HIDE DEF P
      <3>5. far[k][k] = P(k)
        BY <3>1, <3>4
      <3>6. \A e \in cities : e <= k - 1 => far[k][e] = P(e)
        BY <1>4, <3>1, <3>2
      <3>7. \A e \in cities : e <= k <=> e <= k - 1 \/ e = k
        OBVIOUS
      <3> QED
        BY <3>5, <3>6, <3>7
    <2> QED
      BY <2>2, <2>3
  <1> HIDE DEF Fine
  <1>5. T = 0..c
    <2>1. 0 \in T
      BY <1>3
    <2>2. \A k \in 1..c : k - 1 \in T => k \in T
      BY <1>4
    <2> HIDE DEF T
    <2>3. c \in Nat /\ T \in SUBSET (0..c)
      BY DEF T
    <2> QED
      BY <2>1, <2>2, <2>3, UpFromZero
  <1>6. Fine(c)
    BY <1>5
  <1> QED
    BY <1>6 DEF far, Fine

-----------------------------------------------------------------------------
(* What the geography is built from: whoever stands is known, every node has a size,
   no two nodes of a zone have one seat, and finitely many have left their ground. *)
SeatsApart ==
  \A n, m \in Ge!Seated : survey.zoneOf[n] = survey.zoneOf[m] /\ seat[n] = seat[m] => n = m

GhostsOK == IsFiniteSet(ghosts) /\ \A g \in ghosts : g[1] \in Zones /\ g[2] \in Nat

GeoInv ==
  /\ survey \in Surveys
  /\ DOMAIN seat \subseteq Nodes
  /\ \A n \in DOMAIN seat : seat[n] \in Nat \cup {None}
  /\ SeatsApart
  /\ GhostsOK
  /\ DOMAIN pods \subseteq Cities
  /\ DOMAIN class = DOMAIN seat
  /\ \A n \in DOMAIN class : class[n] \in DOMAIN EXTENT_CLASSES

LEMMA RowsOf ==
  ASSUME GeoInv, NEW n \in DOMAIN seat
  PROVE  Ge!Rows(n) \in Nat \ {0}
  <1> DEFINE h == EXTENT_CLASSES[class[n]]
             S == {1, h - 1}
  <1>1. h \in Nat
    BY GeographyAssumption DEF GeoInv
  <1>2. Ge!Rows(n) = Ge!Max(S)
    BY DEF Ge!Rows, Ge!Height
  <1> HIDE DEF h
  <1>3. \E x \in S : \A y \in S : x >= y
    <2>1. CASE h - 1 >= 1
      BY <1>1, <2>1
    <2>2. CASE ~(h - 1 >= 1)
      BY <1>1, <2>2
    <2> QED
      BY <2>1, <2>2
  <1>4. Ge!Max(S) \in S /\ \A y \in S : Ge!Max(S) >= y
    BY <1>3 DEF Ge!Max
  <1> QED
    BY <1>1, <1>2, <1>4

LEMMA Arrives ==
  ASSUME GeoInv, NEW n \in Nodes, Ge!NodeArrives(n)
  PROVE  GeoInv'
  <1> DEFINE z == survey.zoneOf[n]
             free == (0..survey.last) \ Ge!Held(z)
  <1>1. PICK o \in IF free = {} THEN {None} ELSE free, k \in DOMAIN EXTENT_CLASSES :
          /\ seat' = [m \in DOMAIN seat \cup {n} |-> IF m = n THEN o ELSE seat[m]]
          /\ class' = [m \in DOMAIN seat \cup {n} |-> IF m = n THEN k ELSE class[m]]
          /\ ghosts' = ghosts \ {<<z, o>>}
    BY DEF Ge!NodeArrives, Ge!Live
  <1>2. survey' = survey /\ pods' = pods /\ n \notin DOMAIN seat
    BY DEF Ge!NodeArrives, Ge!Live
  <1>3. survey.last \in Nat
    BY SurveysAssumption DEF GeoInv
  <1>4. o \in Nat \cup {None} /\ (o # None => o \notin Ge!Held(z))
    <2>1. CASE free = {}
      BY <1>1, <2>1
    <2>2. CASE free # {}
      BY <1>1, <1>3, <2>2
    <2> QED
      BY <2>1, <2>2
  <1> HIDE DEF free
  <1>5. /\ DOMAIN seat' = DOMAIN seat \cup {n} /\ seat'[n] = o
        /\ \A m \in DOMAIN seat : seat'[m] = seat[m]
    BY <1>1, <1>2
  <1>6. /\ DOMAIN class' = DOMAIN seat' /\ \A m \in DOMAIN seat' : class'[m] \in DOMAIN EXTENT_CLASSES
    BY <1>1, <1>2 DEF GeoInv
  <1>7. \A m \in DOMAIN seat' : m \in Nodes /\ seat'[m] \in Nat \cup {None}
    BY <1>4, <1>5 DEF GeoInv
  <1>8. SeatsApart'
    <2> SUFFICES ASSUME NEW m \in DOMAIN seat', NEW i \in DOMAIN seat',
                        seat'[m] # None, seat'[i] # None, seat'[m] = seat'[i],
                        survey.zoneOf[m] = survey.zoneOf[i]
                 PROVE  m = i
      BY <1>2 DEF SeatsApart, Ge!Seated, Ge!Live
    <2>1. \A h \in DOMAIN seat : seat[h] # None /\ survey.zoneOf[h] = z => seat[h] \in Ge!Held(z)
      BY DEF Ge!Held, Ge!Zoned, Ge!Seated, Ge!Live
    <2>2. CASE m \in DOMAIN seat /\ i \in DOMAIN seat
      BY <1>5, <2>2 DEF GeoInv, SeatsApart, Ge!Seated, Ge!Live
    <2>3. CASE m = n /\ i \in DOMAIN seat
      BY <1>4, <1>5, <2>1, <2>3
    <2>4. CASE i = n /\ m \in DOMAIN seat
      BY <1>4, <1>5, <2>1, <2>4
    <2> QED
      BY <1>5, <2>2, <2>3, <2>4
  <1>9. GhostsOK'
    <2>1. ghosts' \in SUBSET ghosts
      BY <1>1
    <2> QED
      BY <2>1, FS_Subset DEF GeoInv, GhostsOK
  <1> QED
    BY <1>2, <1>6, <1>7, <1>8, <1>9 DEF GeoInv

LEMMA Leaves ==
  ASSUME GeoInv, NEW n \in Nodes, Ge!NodeLeaves(n)
  PROVE  GeoInv'
  <1>1. /\ seat' = [m \in DOMAIN seat \ {n} |-> seat[m]]
        /\ class' = [m \in DOMAIN seat \ {n} |-> class[m]]
        /\ survey' = survey /\ DOMAIN pods' = DOMAIN pods
    BY DEF Ge!NodeLeaves, Ge!Live, Ge!Listed
  <1>2. SeatsApart'
    BY <1>1 DEF GeoInv, SeatsApart, Ge!Seated, Ge!Live
  <1>3. GhostsOK'
    <2> DEFINE g == <<survey.zoneOf[n], seat[n]>>
    <2>1. ghosts' = ghosts \/ (ghosts' = ghosts \cup {g} /\ n \in Ge!Seated)
      BY DEF Ge!NodeLeaves
    <2>2. IsFiniteSet(ghosts')
      <3>1. IsFiniteSet(ghosts)
        BY DEF GeoInv, GhostsOK
      <3>2. IsFiniteSet(ghosts \cup {g})
        BY <3>1, FS_AddElement
      <3> HIDE DEF g
      <3> QED
        BY <2>1, <3>1, <3>2
    <2>3. n \in Ge!Seated => g[1] \in Zones /\ g[2] \in Nat
      BY SurveysAssumption DEF GeoInv, Ge!Seated, Ge!Live
    <2> QED
      BY <2>1, <2>2, <2>3 DEF GeoInv, GhostsOK
  <1> QED
    BY <1>1, <1>2, <1>3 DEF GeoInv

LEMMA GeoInductive == Spec => []GeoInv
  <1>1. Init => GeoInv
    BY FS_EmptySet DEF Init, Ge!Init, GeoInv, SeatsApart, GhostsOK, Ge!Seated, Ge!Live
  <1>2. GeoInv /\ [Next]_vars => GeoInv'
    <2> SUFFICES ASSUME GeoInv, [Next]_vars PROVE GeoInv'
      OBVIOUS
    <2> USE DEF GeoInv, SeatsApart, GhostsOK, Ge!Seated, Ge!Live
    <2>1. CASE UNCHANGED geographyVars
      BY <2>1 DEF geographyVars
    <2>2. CASE \E n \in Nodes : Ge!NodeArrives(n)
      BY <2>2, Arrives
    <2>3. CASE \E n \in Nodes : Ge!NodeLeaves(n)
      BY <2>3, Leaves
    <2>4. CASE \E n \in Nodes : Ge!Resize(n)
      BY <2>4 DEF Ge!Resize
    <2>5. CASE \E c \in Cities : Ge!Schedule(c) \/ Ge!Unlist(c)
      BY <2>5 DEF Ge!Schedule, Ge!Unlist, Ge!Listed
    <2>6. CASE Ge!Compact
      BY <2>6, FS_EmptySet DEF Ge!Compact
    <2> QED
      BY <2>1, <2>2, <2>3, <2>4, <2>5, <2>6 DEF Next, Ge!Next, vars
  <1> QED
    BY <1>1, <1>2, PTL DEF Spec

(* "Hashing makes the row a property of the workload's identity, so a stranger's
   arrival cannot shift it" (world.rs:435-436): on a province of any size, with any
   number of workloads, hashes and columns, a city stands where it would without
   another one, unless it settles after it and two far to it want one cell. *)
THEOREM NeighboursMoveNobody == Spec => []StrangersMoveNobody
  <1>1. GeoInv => StrangersMoveNobody
    <2> SUFFICES ASSUME GeoInv, NEW n \in Ge!Seated, NEW d \in Ge!Sited(n),
                        NEW c \in Ge!Sited(n) \ {d},
                        Ge!Settled(n, Ge!Sited(n))[c] # Ge!Settled(n, Ge!Sited(n) \ {d})[c]
                 PROVE  d < c /\ Ge!Clash(n, {e \in Ge!Sited(n) : e <= c})
      BY DEF StrangersMoveNobody, Ge!StrangersMoveNobody
    <2> DEFINE A == Ge!Sited(n)
               B == A \ {d}
    <2>1. A \in SUBSET Cities /\ B \in SUBSET Cities /\ Cities # {}
      BY DEF Ge!Sited, Ge!Listed, GeoInv
    <2>2. Last \in Nat /\ Cities = 1..Last
      BY <2>1, LastIs
    <2>3. c \in A /\ c \in B /\ c \in 1..Last /\ d \in 1..Last /\ c # d
      BY <2>1, <2>2
    <2>4. Ge!Rows(n) \in Nat \ {0}
      BY RowsOf DEF Ge!Seated, Ge!Live
    <2> HIDE DEF A
    <2>5. UpTo(n, A)[c][c] # UpTo(n, B)[c][c]
      <3>1. UpTo(n, A)[Last][c] # UpTo(n, B)[Last][c]
        BY SettledIs DEF A
      <3>2. Last \in 0..Last /\ c <= Last
        BY <2>2, <2>3
      <3> HIDE DEF B
      <3>3. UpTo(n, A)[Last][c] = UpTo(n, A)[c][c]
        BY <2>1, <2>2, <2>3, <3>2, SettledSoFar
      <3>4. UpTo(n, B)[Last][c] = UpTo(n, B)[c][c]
        BY <2>1, <2>2, <2>3, <3>2, SettledSoFar
      <3> QED
        BY <3>1, <3>3, <3>4
    <2>6. d < c
      <3> SUFFICES ASSUME c < d PROVE FALSE
        BY <2>3
      <3>1. \A e \in Cities : e <= c => (e \in A <=> e \in B)
        BY <2>2, <2>3
      <3>2. c \in 0..Last
        BY <2>2, <2>3
      <3> HIDE DEF B
      <3> QED
        BY <2>1, <2>2, <2>5, <3>1, <3>2, LaterMakeNoDifference
    <2>7. ASSUME ~Ge!Clash(n, {e \in A : e <= c}) PROVE FALSE
      <3>1. ~Ge!Clash(n, {e \in B : e <= c})
        BY <2>7 DEF Ge!Clash
      <3>2. UpTo(n, A)[c][c] = Ge!Preferred(c, Ge!Rows(n))
        BY <2>1, <2>2, <2>3, <2>4, <2>7, PreferredUnlessClash
      <3> HIDE DEF B
      <3>3. UpTo(n, B)[c][c] = Ge!Preferred(c, Ge!Rows(n))
        BY <2>1, <2>2, <2>3, <2>4, <3>1, PreferredUnlessClash
      <3> QED
        BY <2>5, <3>2, <3>3
    <2> QED
      BY <2>6, <2>7 DEF A
  <1> QED
    BY <1>1, GeoInductive, PTL

-----------------------------------------------------------------------------
(* Division with remainder, and what is near a multiple of zero. *)
LEMMA QuotientIsNatural ==
  ASSUME NEW b \in Nat \ {0}, NEW q \in Int, NEW r \in Int, r < b, b * q + r >= 0
  PROVE  q \in Nat
  <1>1. SUFFICES ASSUME q <= -1 PROVE FALSE
    OBVIOUS
  <1>2. b * q <= -b
    BY <1>1
  <1> QED
    BY <1>2

LEMMA DivMod ==
  ASSUME NEW a \in Nat, NEW b \in Nat \ {0}
  PROVE  /\ a \div b \in Nat /\ a % b \in 0..(b - 1)
         /\ a = b * (a \div b) + (a % b)
  <1>1. a = b * (a \div b) + (a % b)
    BY Z3
  <1>2. a % b \in Int /\ 0 <= a % b /\ a % b < b
    BY Z3
  <1>3. a \div b \in Int
    BY Z3
  <1>4. b * (a \div b) + (a % b) >= 0
    BY <1>1
  <1>5. a \div b \in Nat
    BY <1>2, <1>3, <1>4, QuotientIsNatural
  <1>6. a % b \in 0..(b - 1)
    BY <1>2
  <1> QED
    BY <1>1, <1>5, <1>6

LEMMA RemainderIsLess ==
  ASSUME NEW a \in Nat, NEW b \in Nat \ {0}
  PROVE  a % b \in 0..(b - 1) /\ a % b \in Nat
  <1>1. a % b \in 0..(b - 1)
    BY DivMod
  <1> QED
    BY <1>1

LEMMA Multiple ==
  ASSUME NEW b \in Nat \ {0}, NEW k \in Int, b * k < b, -b < b * k
  PROVE  k = 0
  <1>1. k >= 1 => b * k >= b
    OBVIOUS
  <1>2. k <= -1 => b * k <= -b
    OBVIOUS
  <1> QED
    BY <1>1, <1>2

(* Two numbers less than b apart with one remainder modulo b are one number. *)
LEMMA SameRemainder ==
  ASSUME NEW b \in Nat \ {0}, NEW x \in Nat, NEW y \in Nat,
         x - y < b, y - x < b, x % b = y % b
  PROVE  x = y
  <1> DEFINE p == x \div b
             q == y \div b
             r == x % b
  <1>1. p \in Nat /\ q \in Nat /\ r \in Nat /\ x = b * p + r /\ y = b * q + r
    <2>1. x \div b \in Nat /\ x % b \in 0..(b - 1) /\ x = b * (x \div b) + (x % b)
      BY DivMod
    <2>2. y \div b \in Nat /\ y = b * (y \div b) + (y % b)
      BY DivMod
    <2> QED
      BY <2>1, <2>2
  <1> HIDE DEF p, q, r
  <1>2. b * (p - q) = x - y
    BY <1>1
  <1>3. p - q = 0
    BY <1>1, <1>2, Multiple
  <1> QED
    BY <1>1, <1>2, <1>3

(* What a larger number leaves is less than its multiple. *)
LEMMA LessThanProduct ==
  ASSUME NEW a \in Nat, NEW b \in Nat \ {0}, NEW s \in Nat, a < s * b
  PROVE  a \div b < s
  <1> DEFINE q == a \div b
             r == a % b
  <1>1. q \in Nat /\ r \in Nat /\ a = b * q + r
    BY DivMod
  <1> HIDE DEF q, r
  <1>2. SUFFICES ASSUME q >= s PROVE FALSE
    BY <1>1 DEF q
  <1>3. b * q >= b * s
    BY <1>1, <1>2
  <1> QED
    BY <1>1, <1>3

-----------------------------------------------------------------------------
(* The cells of a band. *)
LEMMA BandInside ==
  ASSUME NEW c, survey.col[c] \in Nat, survey.row[c] \in Nat,
         NEW high \in Nat \ {0}, NEW span \in Nat \ {0}, NEW i \in 1..(span * high)
  PROVE  Ge!Band(c, high, span)[i] \in (CITY_COL0..(CITY_COL0 + span - 1)) \X (0..(high - 1))
  <1>1. i - 1 \in Nat /\ CITY_COLS \in Nat \ {0} /\ CITY_COL0 \in Nat
    BY GeographyAssumption, MeasuresAssumption
  <1> DEFINE a == survey.col[c] % CITY_COLS
             q == (i - 1) \div high
  <1>2. a \in Nat /\ q \in Nat
    BY <1>1, DivMod
  <1>3. Ge!Band(c, high, span)[i] = <<CITY_COL0 + ((a + q) % span), (survey.row[c] + i - 1) % high>>
    BY DEF Ge!Band
  <1> HIDE DEF a, q
  <1>4. (a + q) % span \in 0..(span - 1)
    BY <1>2, DivMod
  <1>5. survey.row[c] + i - 1 \in Nat
    BY <1>1
  <1>6. (survey.row[c] + i - 1) % high \in 0..(high - 1)
    BY <1>5, DivMod
  <1> QED
    BY <1>1, <1>3, <1>4, <1>6

LEMMA BandDistinct ==
  ASSUME NEW c, survey.col[c] \in Nat, survey.row[c] \in Nat,
         NEW high \in Nat \ {0}, NEW span \in Nat \ {0},
         NEW i \in 1..(span * high), NEW j \in 1..(span * high),
         Ge!Band(c, high, span)[i] = Ge!Band(c, high, span)[j]
  PROVE  i = j
  <1> DEFINE x == i - 1
             y == j - 1
             a == survey.col[c] % CITY_COLS
             b == survey.row[c]
             p == x \div high
             q == y \div high
  <1>1. x \in Nat /\ y \in Nat /\ x < span * high /\ y < span * high /\ b + i - 1 = b + x
        /\ b + j - 1 = b + y
    <2> DEFINE s == span * high
    <2>1. s \in Nat /\ i \in 1..s /\ j \in 1..s /\ b \in Nat
      OBVIOUS
    <2> HIDE DEF s, b
    <2>2. x \in Nat /\ y \in Nat /\ x < s /\ y < s
      BY <2>1
    <2>3. b + i - 1 = b + x /\ b + j - 1 = b + y
      BY <2>1
    <2> QED
      BY <2>2, <2>3 DEF s
  <1>2. a \in Nat
    <2>1. CITY_COLS \in Nat \ {0} /\ survey.col[c] \in Nat
      BY GeographyAssumption
    <2> QED
      BY <2>1, RemainderIsLess
  <1>3. p \in 0..(span - 1) /\ q \in 0..(span - 1)
    <2>1. p \in Nat /\ q \in Nat
      BY <1>1, DivMod
    <2>2. p < span /\ q < span
      BY <1>1, LessThanProduct
    <2> QED
      BY <2>1, <2>2
  <1>4. x = high * p + (x % high) /\ y = high * q + (y % high)
        /\ x % high \in 0..(high - 1) /\ y % high \in 0..(high - 1)
    BY <1>1, DivMod
  <1>5. /\ CITY_COL0 + ((a + p) % span) = CITY_COL0 + ((a + q) % span)
        /\ (b + x) % high = (b + y) % high
    BY <1>1 DEF Ge!Band
  <1> HIDE DEF a, p, q, x, y, b
  <1>6. (a + p) % span = (a + q) % span
    <2>1. (a + p) % span \in Nat /\ (a + q) % span \in Nat /\ CITY_COL0 \in Nat
      <3>1. a + p \in Nat /\ a + q \in Nat
        BY <1>2, <1>3
      <3>2. (a + p) % span \in Nat /\ (a + q) % span \in Nat
        BY <3>1, RemainderIsLess
      <3> QED
        BY <3>2, MeasuresAssumption
    <2> QED
      BY <1>5, <2>1
  <1>7. p = q
    <2>1. a + p = a + q
      <3>1. /\ a + p \in Nat /\ a + q \in Nat
            /\ (a + p) - (a + q) < span /\ (a + q) - (a + p) < span
        BY <1>2, <1>3
      <3> QED
        BY <1>6, <3>1, SameRemainder
    <2> QED
      BY <1>2, <1>3, <2>1
  <1>8. b \in Nat
    BY DEF b
  <1>9. x - y < high /\ y - x < high
    <2> DEFINE h == high * p
               xr == x % high
               yr == y % high
    <2>1. x = h + xr /\ y = h + yr /\ xr \in 0..(high - 1) /\ yr \in 0..(high - 1)
      BY <1>4, <1>7
    <2>2. h \in Int
      BY <1>3
    <2> HIDE DEF h, xr, yr
    <2> QED
      BY <2>1, <2>2
  <1>10. b + x = b + y
    <2>1. /\ b + x \in Nat /\ b + y \in Nat
          /\ (b + x) - (b + y) < high /\ (b + y) - (b + x) < high
      BY <1>1, <1>8, <1>9
    <2> QED
      BY <1>5, <2>1, SameRemainder
  <1> QED
    BY <1>1, <1>8, <1>10 DEF x, y

-----------------------------------------------------------------------------
(* The least and the greatest of a set of numbers. *)
LEMMA LeastOf ==
  ASSUME NEW S, S \subseteq Nat, S # {}
  PROVE  Ge!Min(S) \in S /\ \A y \in S : Ge!Min(S) <= y
  BY LeastNatural DEF Ge!Min

LEMMA OnlyOne ==
  ASSUME NEW x \in Nat
  PROVE  Ge!Min({x}) = x
  <1>1. {x} \subseteq Nat /\ {x} # {}
    OBVIOUS
  <1> QED
    BY <1>1, LeastOf

(* A city tries the narrow band, then the wide one. *)
LEMMA CellsOf ==
  ASSUME NEW c, NEW high \in Nat \ {0}
  PROVE  /\ CITY_COLS * high \in Nat \ {0} /\ CITY_COLS_WIDE * high \in Nat \ {0}
         /\ DOMAIN (Ge!Band(c, high, CITY_COLS) \o Ge!Band(c, high, CITY_COLS_WIDE))
              = 1..(CITY_COLS * high + CITY_COLS_WIDE * high)
         /\ \A i \in 1..(CITY_COLS * high) :
              (Ge!Band(c, high, CITY_COLS) \o Ge!Band(c, high, CITY_COLS_WIDE))[i]
                = Ge!Band(c, high, CITY_COLS)[i]
         /\ \A i \in 1..(CITY_COLS_WIDE * high) :
              (Ge!Band(c, high, CITY_COLS) \o Ge!Band(c, high, CITY_COLS_WIDE))[CITY_COLS * high + i]
                = Ge!Band(c, high, CITY_COLS_WIDE)[i]
  <1> DEFINE a == CITY_COLS * high
             b == CITY_COLS_WIDE * high
             narrow == Ge!Band(c, high, CITY_COLS)
             wide   == Ge!Band(c, high, CITY_COLS_WIDE)
             S      == {narrow[i] : i \in 1..a} \cup {wide[i] : i \in 1..b}
  <1>1. a \in Nat \ {0} /\ b \in Nat \ {0}
    BY GeographyAssumption
  <1>2. narrow \in [1..a -> S] /\ wide \in [1..b -> S]
    BY DEF Ge!Band
  <1> HIDE DEF a, b, narrow, wide, S
  <1>3. narrow \in Seq(S) /\ wide \in Seq(S)
    BY <1>1, <1>2, IsASeq
  <1>4. Len(narrow) = a /\ Len(wide) = b
    BY <1>1, <1>2, <1>3
  <1>5. /\ narrow \o wide \in Seq(S) /\ Len(narrow \o wide) = a + b
        /\ \A i \in 1..(a + b) :
             (narrow \o wide)[i] = IF i <= a THEN narrow[i] ELSE wide[i - a]
    BY <1>3, <1>4, ConcatProperties
  <1>6. DOMAIN (narrow \o wide) = 1..(a + b)
    BY <1>5
  <1>7. \A i \in 1..a : (narrow \o wide)[i] = narrow[i]
    BY <1>1, <1>5
  <1>8. \A i \in 1..b : (narrow \o wide)[a + i] = wide[i]
    <2> SUFFICES ASSUME NEW i \in 1..b PROVE (narrow \o wide)[a + i] = wide[i]
      OBVIOUS
    <2>1. a + i \in 1..(a + b) /\ ~(a + i <= a) /\ (a + i) - a = i
      BY <1>1
    <2> QED
      BY <1>5, <2>1
  <1> QED
    BY <1>1, <1>6, <1>7, <1>8 DEF a, b, narrow, wide

(* The cell of a city is on its province, and free while there is a free one. *)
LEMMA CityCellInside ==
  ASSUME NEW c, survey.col[c] \in Nat, survey.row[c] \in Nat,
         NEW high \in Nat \ {0}, NEW taken
  PROVE  Ge!CityCell(c, high, taken) \in (CITY_COL0..(PATCH_W - 1)) \X (0..(high - 1))
  <1> DEFINE narrow == Ge!Band(c, high, CITY_COLS)
             wide   == Ge!Band(c, high, CITY_COLS_WIDE)
             cells  == narrow \o wide
             free   == {i \in DOMAIN cells : cells[i] \notin taken}
             a == CITY_COLS * high
             b == CITY_COLS_WIDE * high
             ground == (CITY_COL0..(PATCH_W - 1)) \X (0..(high - 1))
  <1>1. /\ a \in Nat \ {0} /\ b \in Nat \ {0} /\ DOMAIN cells = 1..(a + b)
        /\ \A i \in 1..a : cells[i] = narrow[i]
        /\ \A i \in 1..b : cells[a + i] = wide[i]
    BY CellsOf
  <1>2. /\ CITY_COLS \in Nat \ {0} /\ CITY_COLS_WIDE \in Nat \ {0}
        /\ CITY_COL0 \in Nat /\ PATCH_W \in Nat
        /\ CITY_COL0 + CITY_COLS <= PATCH_W /\ CITY_COL0 + CITY_COLS_WIDE <= PATCH_W
    BY GeographyAssumption, MeasuresAssumption
  <1>3. /\ (CITY_COL0..(CITY_COL0 + CITY_COLS - 1)) \X (0..(high - 1)) \subseteq ground
        /\ (CITY_COL0..(CITY_COL0 + CITY_COLS_WIDE - 1)) \X (0..(high - 1)) \subseteq ground
    BY <1>2
  <1>4. /\ \A i \in 1..a : narrow[i] \in (CITY_COL0..(CITY_COL0 + CITY_COLS - 1)) \X (0..(high - 1))
        /\ \A i \in 1..b : wide[i] \in (CITY_COL0..(CITY_COL0 + CITY_COLS_WIDE - 1)) \X (0..(high - 1))
    BY <1>2, BandInside
  <1>5. Ge!CityCell(c, high, taken) = cells[IF free = {} THEN 1 ELSE Ge!Min(free)]
    BY DEF Ge!CityCell
  <1>6. free \subseteq DOMAIN cells
    OBVIOUS
  <1> HIDE DEF narrow, wide, cells, free, a, b, ground
  <1>7. \A i \in 1..(a + b) : cells[i] \in ground
    <2> SUFFICES ASSUME NEW i \in 1..(a + b) PROVE cells[i] \in ground
      OBVIOUS
    <2>1. CASE i <= a
      BY <1>1, <1>3, <1>4, <2>1
    <2>2. CASE ~(i <= a)
      <3>1. i - a \in 1..b /\ a + (i - a) = i
        BY <1>1, <2>2
      <3> QED
        BY <1>1, <1>3, <1>4, <3>1
    <2> QED
      BY <2>1, <2>2
  <1>8. 1 \in 1..(a + b)
    BY <1>1
  <1>9. free # {} => Ge!Min(free) \in 1..(a + b)
    <2>1. free \subseteq Nat
      BY <1>1, <1>6
    <2> QED
      BY <1>1, <1>6, <2>1, LeastOf
  <1>10. cells[IF free = {} THEN 1 ELSE Ge!Min(free)] \in ground
    BY <1>7, <1>8, <1>9
  <1> QED
    BY <1>5, <1>10 DEF ground

LEMMA CityCellFree ==
  ASSUME NEW c, survey.col[c] \in Nat, survey.row[c] \in Nat,
         NEW high \in Nat \ {0}, NEW taken, IsFiniteSet(taken),
         Cardinality(taken) < CITY_COLS_WIDE * high
  PROVE  Ge!CityCell(c, high, taken) \notin taken
  <1> DEFINE narrow == Ge!Band(c, high, CITY_COLS)
             wide   == Ge!Band(c, high, CITY_COLS_WIDE)
             cells  == narrow \o wide
             free   == {i \in DOMAIN cells : cells[i] \notin taken}
             a == CITY_COLS * high
             b == CITY_COLS_WIDE * high
  <1>1. /\ a \in Nat \ {0} /\ b \in Nat \ {0} /\ DOMAIN cells = 1..(a + b)
        /\ \A i \in 1..b : cells[a + i] = wide[i]
    BY CellsOf
  <1>2. \A i, j \in 1..b : wide[i] = wide[j] => i = j
    <2>1. CITY_COLS_WIDE \in Nat \ {0}
      BY GeographyAssumption
    <2> QED
      BY <2>1, BandDistinct
  <1>3. Ge!CityCell(c, high, taken) = cells[IF free = {} THEN 1 ELSE Ge!Min(free)]
    BY DEF Ge!CityCell
  <1>4. Cardinality(taken) < b
    OBVIOUS
  <1> HIDE DEF narrow, wide, cells, a, b
  <1>5. free # {}
    <2> SUFFICES ASSUME free = {} PROVE FALSE
      OBVIOUS
    <2>1. \A i \in 1..(a + b) : cells[i] \in taken
      BY <1>1
    <2>2. \A i \in 1..b : a + i \in 1..(a + b)
      BY <1>1
    <2>3. \A i \in 1..b : wide[i] \in taken
      BY <1>1, <2>1, <2>2
    <2> DEFINE f == [i \in 1..b |-> wide[i]]
    <2>4. f \in [1..b -> taken]
      BY <2>3
    <2>5. IsFiniteSet(1..b) /\ Cardinality(1..b) = b
      <3>1. 1 \in Int /\ b \in Int /\ ~(1 > b) /\ b - 1 + 1 = b
        BY <1>1
      <3> QED
        BY <3>1, FS_Interval
    <2>6. PICK x, y \in 1..b : x # y /\ f[x] = f[y]
      <3> HIDE DEF f
      <3> QED
        <4>1. Cardinality(taken) < Cardinality(1..b)
          BY <1>4, <2>5
        <4> DEFINE S == 1..b
        <4>2. IsFiniteSet(S) /\ Cardinality(taken) < Cardinality(S) /\ f \in [S -> taken]
          BY <2>4, <2>5, <4>1
        <4> HIDE DEF S
        <4>3. \E x, y \in S : x # y /\ f[x] = f[y]
          BY <4>2, FS_PigeonHole
        <4> QED
          BY <4>3 DEF S
    <2> QED
      BY <1>2, <2>6
  <1>6. free \subseteq Nat
    BY <1>1
  <1>7. Ge!Min(free) \in free
    <2> HIDE DEF free
    <2> QED
      BY <1>5, <1>6, LeastOf
  <1>8. cells[Ge!Min(free)] \notin taken
    BY <1>7
  <1> QED
    BY <1>3, <1>5, <1>8

-----------------------------------------------------------------------------
(* The ground of a province. *)
LEMMA SurveyIs ==
  ASSUME GeoInv
  PROVE  /\ survey.zoneOf \in [Nodes -> Zones] /\ survey.zoneOrd \in [Zones -> Nat]
         /\ \A y, z \in Zones : survey.zoneOrd[y] = survey.zoneOrd[z] => y = z
         /\ \A c \in Cities : /\ survey.col[c] \in Nat /\ survey.row[c] \in Nat
                              /\ survey.ns[c] \in Nat /\ survey.exposed[c] \in Nat
  <1>1. /\ survey.zoneOf \in [Nodes -> Zones] /\ survey.zoneOrd \in [Zones -> Nat]
        /\ \A y, z \in Zones : survey.zoneOrd[y] = survey.zoneOrd[z] => y = z
        /\ {survey.col, survey.row, survey.ns, survey.exposed} \subseteq [Cities -> Nat]
    BY SurveysAssumption DEF GeoInv
  <1>2. /\ survey.col \in [Cities -> Nat] /\ survey.row \in [Cities -> Nat]
        /\ survey.ns \in [Cities -> Nat] /\ survey.exposed \in [Cities -> Nat]
    BY <1>1
  <1> QED
    BY <1>1, <1>2

LEMMA StrideIs ==
  /\ Ge!SLOT_STRIDE \in Nat \ {0}
  /\ \A k \in DOMAIN EXTENT_CLASSES : EXTENT_CLASSES[k] \in 2..Ge!SLOT_STRIDE
  <1>1. EXTENT_CLASSES \in Seq(Nat) /\ Len(EXTENT_CLASSES) >= 2
        /\ Len(EXTENT_CLASSES) \in DOMAIN EXTENT_CLASSES
    BY GeographyAssumption, MeasuresAssumption
  <1>2. Ge!SLOT_STRIDE = EXTENT_CLASSES[Len(EXTENT_CLASSES)]
    BY DEF Ge!SLOT_STRIDE, Ge!Last
  <1>3. \A k \in DOMAIN EXTENT_CLASSES :
          EXTENT_CLASSES[k] \in 2..EXTENT_CLASSES[Len(EXTENT_CLASSES)]
    BY MeasuresAssumption
  <1>4. EXTENT_CLASSES[Len(EXTENT_CLASSES)] \in Nat
    BY <1>1
  <1> QED
    BY <1>1, <1>2, <1>3, <1>4

LEMMA WestIs ==
  ASSUME GeoInv, NEW z \in Zones
  PROVE  Ge!West(z) \in Nat
  <1>1. survey.zoneOrd[z] \in Nat /\ PATCH_W + OCEAN_GAP \in Nat
    BY SurveyIs, MeasuresAssumption
  <1> QED
    BY <1>1 DEF Ge!West

LEMMA ProvinceIs ==
  ASSUME GeoInv, NEW n \in Ge!Seated
  PROVE  /\ n \in Nodes /\ n \in Nat /\ seat[n] \in Nat
         /\ survey.zoneOf[n] \in Zones /\ survey.zoneOf[n] \in Nat
         /\ Ge!West(survey.zoneOf[n]) \in Nat
         /\ Ge!Height(n) \in 2..Ge!SLOT_STRIDE /\ Ge!Height(n) \in Nat
         /\ Ge!Top(n) \in Nat /\ Ge!Top(n) = 1 + seat[n] * Ge!SLOT_STRIDE
         /\ Ge!Rows(n) = Ge!Height(n) - 1
  <1>1. n \in DOMAIN seat /\ n \in Nodes /\ n \in Nat /\ seat[n] \in Nat
    BY MeasuresAssumption DEF GeoInv, Ge!Seated, Ge!Live
  <1>2. survey.zoneOf[n] \in Zones /\ survey.zoneOf[n] \in Nat
    BY <1>1, SurveyIs, MeasuresAssumption
  <1>3. Ge!West(survey.zoneOf[n]) \in Nat
    BY <1>2, WestIs
  <1>4. Ge!Height(n) \in 2..Ge!SLOT_STRIDE
    BY <1>1, StrideIs DEF GeoInv, Ge!Height
  <1>5. Ge!Top(n) = 1 + seat[n] * Ge!SLOT_STRIDE
    BY DEF Ge!Top, Ge!SlotRow
  <1>6. Ge!Top(n) \in Nat
    BY <1>1, <1>5, StrideIs
  <1>7. Ge!Rows(n) = Ge!Height(n) - 1
    <2> DEFINE h == Ge!Height(n)
               S == {1, h - 1}
    <2>1. h \in Nat /\ h >= 2
      BY <1>4, StrideIs
    <2>2. Ge!Rows(n) = Ge!Max(S)
      BY DEF Ge!Rows
    <2> HIDE DEF h
    <2>3. h - 1 \in S /\ \A y \in S : h - 1 >= y
      BY <2>1
    <2>4. Ge!Max(S) \in S /\ \A y \in S : Ge!Max(S) >= y
      BY <2>3 DEF Ge!Max
    <2>5. Ge!Max(S) = h - 1
      BY <2>1, <2>3, <2>4
    <2> QED
      BY <2>2, <2>5 DEF h
  <1>8. Ge!Height(n) \in Nat
    BY <1>4, StrideIs
  <1> QED
    BY <1>1, <1>2, <1>3, <1>4, <1>5, <1>6, <1>7, <1>8

(* The cardinality Geography counts with. *)
LEMMA CountIs ==
  ASSUME NEW S
  PROVE  Ge!Cardinality(S) = Cardinality(S)
  BY DEF Ge!Cardinality, Cardinality

(* The cell of a city on its province, before it is put on the ground. *)
LEMMA SettledInside ==
  ASSUME NEW n, Ge!Rows(n) \in Nat \ {0}, NEW cities \in SUBSET Cities,
         Last \in Nat, Cities = 1..Last,
         NEW c \in cities, survey.col[c] \in Nat, survey.row[c] \in Nat
  PROVE  UpTo(n, cities)[c][c] \in (CITY_COL0..(PATCH_W - 1)) \X (0..(Ge!Rows(n) - 1))
  <1> DEFINE far == UpTo(n, cities)
  <1>1. OneByOne(far, n, cities) /\ c \in 1..Last
    BY UpToSteps
  <1> HIDE DEF far
  <1>2. far[c][c] = Ge!CityCell(c, Ge!Rows(n), Ge!Range(far[c - 1]))
    BY <1>1 DEF OneByOne
  <1>3. Ge!CityCell(c, Ge!Rows(n), Ge!Range(far[c - 1]))
          \in (CITY_COL0..(PATCH_W - 1)) \X (0..(Ge!Rows(n) - 1))
    BY CityCellInside
  <1> QED
    BY <1>2, <1>3 DEF far

LEMMA SettledAfter ==
  ASSUME NEW n, Ge!Rows(n) \in Nat \ {0}, NEW cities \in SUBSET Cities,
         Last \in Nat, Cities = 1..Last,
         Cardinality(cities) <= Ge!Rows(n) * CITY_COLS_WIDE,
         NEW c \in cities, survey.col[c] \in Nat, survey.row[c] \in Nat,
         NEW d \in cities, d < c
  PROVE  UpTo(n, cities)[c][c] # UpTo(n, cities)[d][d]
  <1> DEFINE far == UpTo(n, cities)
             before == {e \in cities : e <= c - 1}
             taken == Ge!Range(far[c - 1])
             f == [e \in before |-> far[c - 1][e]]
  <1>1. OneByOne(far, n, cities) /\ c \in 1..Last /\ c - 1 \in 0..Last /\ d <= c - 1 /\ d \in Nat
    BY UpToSteps
  <1>2. DOMAIN far[c - 1] = before /\ far[c - 1][d] = far[d][d]
    <2>1. /\ \A k \in 0..Last : DOMAIN far[k] = {e \in cities : e <= k}
          /\ \A k \in 0..Last, e \in cities : e <= k => far[k][e] = far[e][e]
      BY SettledSoFar
    <2> HIDE DEF far
    <2> QED
      BY <1>1, <2>1
  <1>3. IsFiniteSet(cities) /\ Cardinality(cities) \in Nat
    BY GeographyAssumption, FS_Subset, FS_CardinalityType
  <1>4. IsFiniteSet(before) /\ Cardinality(before) < Cardinality(cities)
        /\ Cardinality(before) \in Nat
    <2>1. before \in SUBSET cities /\ c \notin before
      BY <1>1
    <2> HIDE DEF before
    <2>2. IsFiniteSet(before) /\ Cardinality(before) <= Cardinality(cities)
          /\ (Cardinality(cities) = Cardinality(before) => cities = before)
      BY <1>3, <2>1, FS_Subset
    <2>3. Cardinality(before) \in Nat
      BY <2>2, FS_CardinalityType
    <2> QED
      BY <1>3, <2>1, <2>2, <2>3
  <1> HIDE DEF far
  <1>5. taken = {f[e] : e \in before}
    BY <1>2 DEF Ge!Range
  <1>6. IsFiniteSet(taken) /\ Cardinality(taken) <= Cardinality(before)
    <2>1. f \in Surjection(before, taken)
      <3>1. f \in [before -> taken]
        BY <1>5
      <3> HIDE DEF f, before, taken
      <3> QED
        BY <1>5, <3>1 DEF Surjection
    <2> HIDE DEF f, before, taken
    <2> QED
      BY <1>4, <2>1, FS_Surjection
  <1>7. far[d][d] \in taken
    BY <1>1, <1>2 DEF Ge!Range
  <1>8. far[c][c] = Ge!CityCell(c, Ge!Rows(n), taken)
    BY <1>1 DEF OneByOne
  <1> HIDE DEF taken, before
  <1>9. Cardinality(taken) < CITY_COLS_WIDE * Ge!Rows(n)
    <2> DEFINE room == CITY_COLS_WIDE * Ge!Rows(n)
    <2>1. room = Ge!Rows(n) * CITY_COLS_WIDE /\ room \in Nat
      BY GeographyAssumption
    <2>2. Cardinality(taken) \in Nat
      BY <1>6, FS_CardinalityType
    <2>3. Cardinality(cities) <= room
      BY <2>1
    <2> HIDE DEF room
    <2>4. Cardinality(taken) < room
      BY <1>3, <1>4, <1>6, <2>1, <2>2, <2>3
    <2> QED
      BY <2>4 DEF room
  <1>10. Ge!CityCell(c, Ge!Rows(n), taken) \notin taken
    BY <1>6, <1>9, CityCellFree
  <1> QED
    BY <1>7, <1>8, <1>10 DEF far

(* Where a city of a province stands. *)
LEMMA PlaceOf ==
  ASSUME GeoInv, NEW n \in Ge!Seated, NEW c \in Ge!Sited(n)
  PROVE  \E x \in CITY_COL0..(PATCH_W - 1), y \in 0..(Ge!Rows(n) - 1) :
           /\ UpTo(n, Ge!Sited(n))[c][c] = <<x, y>>
           /\ Ge!Places(n)[c] = <<Ge!West(survey.zoneOf[n]) + x, Ge!Top(n) + 1 + y>>
  <1> DEFINE cities == Ge!Sited(n)
             far == UpTo(n, cities)
             cell == far[c][c]
  <1>1. cities \in SUBSET Cities /\ c \in Cities
    BY DEF Ge!Sited, Ge!Listed, GeoInv
  <1>2. Last \in Nat /\ Cities = 1..Last
    BY <1>1, LastIs
  <1>3. survey.col[c] \in Nat /\ survey.row[c] \in Nat
    BY <1>1, SurveyIs
  <1>4. Ge!Rows(n) \in Nat \ {0}
    BY RowsOf DEF Ge!Seated, Ge!Live
  <1>5. cell \in (CITY_COL0..(PATCH_W - 1)) \X (0..(Ge!Rows(n) - 1))
    <2> HIDE DEF cities
    <2> QED
      BY <1>1, <1>2, <1>3, <1>4, SettledInside DEF cities
  <1>6. far[Last][c] = cell
    <2>1. Last \in 0..Last /\ c \in cities /\ c <= Last
      BY <1>1, <1>2
    <2>2. \A k \in 0..Last, e \in cities : e <= k => far[k][e] = far[e][e]
      <3> HIDE DEF cities
      <3> QED
        BY <1>1, <1>2, SettledSoFar
    <2> HIDE DEF cities, far
    <2> QED
      BY <2>1, <2>2
  <1>7. Ge!Settled(n, cities) = far[Last]
    BY SettledIs
  <1> HIDE DEF far, cell
  <1>8. Ge!Places(n)[c] = Ge!OnGround(cell, n)
    BY <1>6, <1>7 DEF Ge!Places
  <1>9. Ge!Places(n)[c] = <<Ge!West(survey.zoneOf[n]) + cell[1], Ge!Top(n) + 1 + cell[2]>>
    BY <1>8 DEF Ge!OnGround
  <1>10. /\ cell[1] \in CITY_COL0..(PATCH_W - 1) /\ cell[2] \in 0..(Ge!Rows(n) - 1)
         /\ cell = <<cell[1], cell[2]>>
    BY <1>5
  <1> QED
    BY <1>9, <1>10 DEF cell, far

LEMMA OnItsProvince ==
  ASSUME GeoInv, NEW n \in Ge!Seated, NEW c \in Ge!Sited(n)
  PROVE  LET place == Ge!Places(n)[c]
             w == Ge!West(survey.zoneOf[n])
         IN  /\ place = <<place[1], place[2]>>
             /\ place[1] \in Nat /\ place[1] \in w..(w + PATCH_W - 1)
             /\ place[2] \in Nat /\ place[2] \in Ge!Top(n)..(Ge!Top(n) + Ge!Height(n) - 1)
  <1> DEFINE p == Ge!Places(n)[c]
             w == Ge!West(survey.zoneOf[n])
             t == Ge!Top(n)
             h == Ge!Height(n)
             r == Ge!Rows(n)
  <1>1. PICK x \in CITY_COL0..(PATCH_W - 1), y \in 0..(r - 1) : p = <<w + x, t + 1 + y>>
    BY PlaceOf
  <1>2. w \in Nat /\ t \in Nat /\ h \in Nat /\ h >= 2 /\ r = h - 1
    BY ProvinceIs, StrideIs
  <1>3. CITY_COL0 \in Nat /\ PATCH_W \in Nat
    BY MeasuresAssumption
  <1> HIDE DEF p, w, t, h, r
  <1>4. p[1] = w + x /\ p[2] = t + 1 + y /\ p = <<p[1], p[2]>>
    BY <1>1
  <1>5. p[1] \in Nat /\ p[1] \in w..(w + PATCH_W - 1)
    BY <1>2, <1>3, <1>4
  <1>6. p[2] \in Nat /\ p[2] \in t..(t + h - 1)
    BY <1>1, <1>2, <1>4
  <1> QED
    BY <1>4, <1>5, <1>6 DEF p, w, t, h

LEMMA NoTwoOnOneCell ==
  ASSUME GeoInv, NEW n \in Ge!Seated, ~Ge!Crowded(n),
         NEW c \in Ge!Sited(n), NEW d \in Ge!Sited(n), Ge!Places(n)[c] = Ge!Places(n)[d]
  PROVE  c = d
  <1> DEFINE cities == Ge!Sited(n)
             far == UpTo(n, cities)
             w == Ge!West(survey.zoneOf[n])
             t == Ge!Top(n)
             r == Ge!Rows(n)
  <1>1. cities \in SUBSET Cities /\ c \in Cities /\ d \in Cities
    BY DEF Ge!Sited, Ge!Listed, GeoInv
  <1>2. Last \in Nat /\ Cities = 1..Last
    BY <1>1, LastIs
  <1>3. /\ survey.col[c] \in Nat /\ survey.row[c] \in Nat
        /\ survey.col[d] \in Nat /\ survey.row[d] \in Nat
    BY <1>1, SurveyIs
  <1>4. r \in Nat \ {0}
    BY RowsOf DEF Ge!Seated, Ge!Live
  <1>5. far[c][c] = far[d][d]
    <2>1. w \in Nat /\ t \in Nat
      BY ProvinceIs
    <2>2. PICK x \in CITY_COL0..(PATCH_W - 1), y \in 0..(r - 1) :
            far[c][c] = <<x, y>> /\ Ge!Places(n)[c] = <<w + x, t + 1 + y>>
      BY PlaceOf
    <2>3. PICK u \in CITY_COL0..(PATCH_W - 1), v \in 0..(r - 1) :
            far[d][d] = <<u, v>> /\ Ge!Places(n)[d] = <<w + u, t + 1 + v>>
      BY PlaceOf
    <2>4. CITY_COL0 \in Nat /\ PATCH_W \in Nat
      BY MeasuresAssumption
    <2> HIDE DEF w, t, far, r
    <2>5. w + x = w + u /\ t + 1 + y = t + 1 + v
      <3>1. <<w + x, t + 1 + y>> = <<w + u, t + 1 + v>>
        BY <2>2, <2>3, Zenon
      <3> QED
        BY <3>1
    <2>6. x = u /\ y = v
      BY <1>4, <2>1, <2>4, <2>5
    <2> QED
      BY <2>2, <2>3, <2>6
  <1>6. Cardinality(cities) <= Ge!Rows(n) * CITY_COLS_WIDE
    <2> DEFINE k == Cardinality(cities)
               room == Ge!Rows(n) * CITY_COLS_WIDE
    <2>1. k \in Nat /\ room \in Nat
      <3>1. IsFiniteSet(cities)
        BY <1>1, GeographyAssumption, FS_Subset
      <3>2. k \in Nat
        BY <3>1, FS_CardinalityType
      <3>3. room \in Nat
        BY <1>4, GeographyAssumption
      <3> QED
        BY <3>2, <3>3
    <2>2. ~(k > room)
      BY CountIs DEF Ge!Crowded
    <2> HIDE DEF k, room
    <2>3. k <= room
      BY <2>1, <2>2
    <2> QED
      BY <2>3 DEF k, room
  <1> HIDE DEF cities
  <1>7. ~(d < c)
    <2> SUFFICES ASSUME d < c PROVE FALSE
      OBVIOUS
    <2>1. far[c][c] # far[d][d]
      BY <1>1, <1>2, <1>3, <1>4, <1>6, SettledAfter DEF cities
    <2> QED
      BY <1>5, <2>1
  <1>8. ~(c < d)
    <2> SUFFICES ASSUME c < d PROVE FALSE
      OBVIOUS
    <2>1. far[c][c] # far[d][d]
      BY <1>1, <1>2, <1>3, <1>4, <1>6, SettledAfter DEF cities
    <2> QED
      BY <1>5, <2>1
  <1>9. c \in Nat /\ d \in Nat
    BY <1>1, <1>2
  <1> QED
    BY <1>7, <1>8, <1>9

-----------------------------------------------------------------------------
(* No two provinces and no two coasts overlap. *)
LEMMA StripsApart ==
  ASSUME GeoInv, NEW y \in Zones, NEW z \in Zones,
         NEW a \in 0..(PATCH_W + OCEAN_GAP - 1), NEW b \in 0..(PATCH_W + OCEAN_GAP - 1),
         Ge!West(y) + a = Ge!West(z) + b
  PROVE  y = z
  <1> DEFINE s == PATCH_W + OCEAN_GAP
             p == survey.zoneOrd[y]
             q == survey.zoneOrd[z]
  <1>1. PATCH_W \in Nat /\ OCEAN_GAP \in Nat /\ p \in Nat /\ q \in Nat /\ (p = q => y = z)
    BY MeasuresAssumption, SurveyIs
  <1>2. Ge!West(y) = p * s /\ Ge!West(z) = q * s
    BY DEF Ge!West
  <1>3. s \in Nat \ {0} /\ a \in Nat /\ b \in Nat /\ a < s /\ b < s
    BY <1>1
  <1> HIDE DEF s, p, q
  <1>4. s * (p - q) = b - a
    <2>1. s * (p - q) = p * s - q * s
      BY <1>1, <1>3
    <2> DEFINE ps == p * s
               qs == q * s
    <2>2. ps \in Int /\ qs \in Int /\ ps + a = qs + b
      BY <1>1, <1>2, <1>3
    <2> HIDE DEF ps, qs
    <2>3. ps - qs = b - a
      BY <1>3, <2>2
    <2> QED
      BY <2>1, <2>3 DEF ps, qs
  <1>5. p - q = 0
    <2> DEFINE d == s * (p - q)
    <2>1. d < s /\ -s < d
      BY <1>3, <1>4
    <2>2. p - q \in Int
      BY <1>1
    <2> QED
      BY <1>3, <2>1, <2>2, Multiple
  <1> QED
    BY <1>1, <1>5

LEMMA ProvincesApart ==
  ASSUME GeoInv, NEW n \in Ge!Seated, NEW m \in Ge!Seated, NEW x \in Nat, NEW y \in Nat,
         x \in Ge!West(survey.zoneOf[n])..(Ge!West(survey.zoneOf[n]) + PATCH_W - 1),
         x \in Ge!West(survey.zoneOf[m])..(Ge!West(survey.zoneOf[m]) + PATCH_W - 1),
         y \in Ge!Top(n)..(Ge!Top(n) + Ge!Height(n) - 1),
         y \in Ge!Top(m)..(Ge!Top(m) + Ge!Height(m) - 1)
  PROVE  n = m
  <1>1. survey.zoneOf[n] = survey.zoneOf[m]
    <2> DEFINE v == Ge!West(survey.zoneOf[n])
               w == Ge!West(survey.zoneOf[m])
    <2>1. v \in Nat /\ w \in Nat /\ PATCH_W \in Nat /\ OCEAN_GAP \in Nat
      BY ProvinceIs, MeasuresAssumption
    <2>2. x \in v..(v + PATCH_W - 1) /\ x \in w..(w + PATCH_W - 1)
      OBVIOUS
    <2> HIDE DEF v, w
    <2>3. /\ x - v \in 0..(PATCH_W + OCEAN_GAP - 1) /\ x - w \in 0..(PATCH_W + OCEAN_GAP - 1)
          /\ v + (x - v) = w + (x - w)
      BY <2>1, <2>2
    <2>4. survey.zoneOf[n] \in Zones /\ survey.zoneOf[m] \in Zones
      BY ProvinceIs
    <2> QED
      BY <2>3, <2>4, StripsApart DEF v, w
  <1>2. seat[n] = seat[m]
    <2> DEFINE s == Ge!SLOT_STRIDE
               p == seat[n]
               q == seat[m]
               t == Ge!Top(n)
               u == Ge!Top(m)
               h == Ge!Height(n)
               k == Ge!Height(m)
    <2>1. /\ s \in Nat \ {0} /\ p \in Nat /\ q \in Nat /\ t = 1 + p * s /\ u = 1 + q * s
          /\ h \in Nat /\ k \in Nat /\ h <= s /\ k <= s
      BY StrideIs, ProvinceIs
    <2>2. y \in t..(t + h - 1) /\ y \in u..(u + k - 1)
      OBVIOUS
    <2>3. t \in Nat /\ u \in Nat
      BY ProvinceIs
    <2> HIDE DEF s, p, q, t, u, h, k
    <2>4. t - u < s /\ -s < t - u
      BY <2>1, <2>2, <2>3
    <2>5. s * (p - q) = t - u
      <3>1. s * (p - q) = p * s - q * s
        BY <2>1
      <3> DEFINE ps == p * s
                 qs == q * s
      <3>2. ps \in Int /\ qs \in Int /\ t = 1 + ps /\ u = 1 + qs
        BY <2>1
      <3> HIDE DEF ps, qs
      <3>3. ps - qs = t - u
        BY <3>2
      <3> QED
        BY <3>1, <3>3 DEF ps, qs
    <2>6. p - q = 0
      <3> DEFINE d == s * (p - q)
      <3>1. d < s /\ -s < d
        BY <2>4, <2>5
      <3>2. p - q \in Int
        BY <2>1
      <3> QED
        BY <2>1, <3>1, <3>2, Multiple
    <2> QED
      BY <2>1, <2>6 DEF p, q
  <1> QED
    BY <1>1, <1>2 DEF GeoInv, SeatsApart

(* What stands at a cell, by what the cell is in: land before islands. *)
BandsAt(x, y) ==
  {n \in Ge!Seated :
     /\ x \in Ge!West(survey.zoneOf[n])..(Ge!West(survey.zoneOf[n]) + PATCH_W - 1)
     /\ y \in Ge!Top(n)..(Ge!Top(n) + Ge!Height(n) - 1)}

IslesAt(x, y) ==
  {s \in Ge!Isles : /\ x \in Ge!IslandX(s)..(Ge!IslandX(s) + ISLAND_W - 1)
                    /\ y \in Ge!IslandY..(Ge!IslandY + Ge!IslandH(s) - 1)}

First(bands) == {n \in bands : \A m \in bands : survey.zoneOf[n] <= survey.zoneOf[m]}

LEMMA RegionIs ==
  ASSUME NEW x, NEW y
  PROVE  Ge!RegionAt(x, y) =
           IF BandsAt(x, y) # {} THEN Ge!InProvince(Ge!Min(First(BandsAt(x, y))), x, y)
           ELSE IF IslesAt(x, y) # {} THEN Ge!OnIsland(Ge!Min(IslesAt(x, y)), y)
           ELSE <<"ocean", None>>
  BY DEF Ge!RegionAt, BandsAt, IslesAt, First

(* At the cell of a city stands the city. *)
LEMMA CityAtItsCell ==
  ASSUME GeoInv, NEW n \in Ge!Seated, ~Ge!Crowded(n), NEW c \in Ge!Sited(n)
  PROVE  Ge!RegionAt(Ge!Places(n)[c][1], Ge!Places(n)[c][2]) = <<"city", c>>
  <1> DEFINE place == Ge!Places(n)[c]
             x == place[1]
             y == place[2]
             bands == BandsAt(x, y)
             own == {d \in Ge!Sited(n) : Ge!Places(n)[d] = <<x, y>>}
  <1>1. /\ place = <<x, y>> /\ x \in Nat /\ y \in Nat
        /\ x \in Ge!West(survey.zoneOf[n])..(Ge!West(survey.zoneOf[n]) + PATCH_W - 1)
        /\ y \in Ge!Top(n)..(Ge!Top(n) + Ge!Height(n) - 1)
    BY OnItsProvince
  <1> HIDE DEF x, y
  <1>2. bands = {n}
    <2>1. n \in bands
      BY <1>1 DEF BandsAt
    <2>2. ASSUME NEW m \in bands PROVE m = n
      BY <1>1, ProvincesApart DEF BandsAt
    <2> QED
      BY <2>1, <2>2
  <1>3. First({n}) = {n}
    BY ProvinceIs DEF First
  <1>4. Ge!Min({n}) = n
    BY ProvinceIs, OnlyOne
  <1>5. Ge!RegionAt(x, y) = Ge!InProvince(n, x, y)
    BY <1>2, <1>3, <1>4, RegionIs
  <1>6. own = {c}
    BY <1>1, NoTwoOnOneCell
  <1>7. c \in Nat
    <2>1. c \in Cities
      BY DEF Ge!Sited, Ge!Listed, GeoInv
    <2> QED
      BY <2>1, LastIs
  <1>8. Ge!Min({c}) = c
    BY <1>7, OnlyOne
  <1>9. Ge!InProvince(n, x, y) = <<"city", c>>
    <2>1. own # {} => Ge!InProvince(n, x, y) = <<"city", Ge!Min(own)>>
      BY DEF Ge!InProvince
    <2> HIDE DEF own
    <2> QED
      BY <1>6, <1>8, <2>1
  <1> QED
    BY <1>5, <1>9 DEF x, y

-----------------------------------------------------------------------------
(* A finite set of numbers has a greatest: the smallest set of its numbers without
   a bound would have one member less than a set with a bound. *)
LEMMA FiniteIsBounded ==
  ASSUME NEW S, IsFiniteSet(S), S \subseteq Nat
  PROVE  \E u \in Nat : \A y \in S : y <= u
  <1> DEFINE Bounded(T) == \E u \in Nat : \A y \in T : y <= u
             F == {T \in SUBSET S : ~Bounded(T)}
             sizes == {Cardinality(T) : T \in F}
  <1>1. SUFFICES ASSUME ~Bounded(S) PROVE FALSE
    OBVIOUS
  <1>2. \A T \in SUBSET S : IsFiniteSet(T) /\ Cardinality(T) \in Nat
    BY FS_Subset, FS_CardinalityType
  <1>3. S \in F
    BY <1>1
  <1>4. sizes # {} /\ sizes \subseteq Nat
    BY <1>2, <1>3
  <1>5. PICK k \in sizes : \A j \in sizes : k <= j
    <2> HIDE DEF sizes
    <2> QED
      BY <1>4, LeastNatural
  <1>6. PICK T \in F : k = Cardinality(T)
    OBVIOUS
  <1>7. T # {}
    <2>1. Bounded({})
      <3>1. 0 \in Nat /\ \A y \in {} : y <= 0
        OBVIOUS
      <3> QED
        BY <3>1
    <2> HIDE DEF Bounded
    <2> QED
      BY <2>1
  <1>8. PICK x \in T : TRUE
    BY <1>7
  <1> DEFINE R == T \ {x}
  <1>9. Cardinality(R) = Cardinality(T) - 1
    BY <1>2, <1>8, FS_RemoveElement
  <1>10. R \in SUBSET S /\ Cardinality(R) \notin sizes
    <2>1. Cardinality(T) \in Nat /\ R \in SUBSET S
      BY <1>2
    <2> HIDE DEF sizes, R
    <2> QED
      BY <1>5, <1>6, <1>9, <2>1
  <1>11. PICK u \in Nat : \A y \in R : y <= u
    <2>1. R \notin F
      BY <1>10
    <2> HIDE DEF R
    <2> QED
      BY <1>10, <2>1
  <1>12. x \in Nat
    OBVIOUS
  <1>13. \A y \in T : y \in Nat /\ y <= u + x
    <2> SUFFICES ASSUME NEW y \in T PROVE y \in Nat /\ y <= u + x
      OBVIOUS
    <2>1. y \in Nat /\ (y = x \/ y \in R)
      OBVIOUS
    <2> QED
      BY <1>11, <1>12, <2>1
  <1>14. Bounded(T)
    <2>1. u + x \in Nat
      BY <1>12
    <2> QED
      BY <1>13, <2>1
  <1> QED
    BY <1>14

LEMMA GreatestOf ==
  ASSUME NEW S, IsFiniteSet(S), S \subseteq Nat, S # {}
  PROVE  Ge!Max(S) \in Nat /\ \A y \in S : y <= Ge!Max(S)
  <1> DEFINE U == {u \in Nat : \A y \in S : y <= u}
  <1>1. U \subseteq Nat /\ U # {}
    BY FiniteIsBounded
  <1>2. PICK g \in U : \A u \in U : g <= u
    <2> HIDE DEF U
    <2> QED
      BY <1>1, LeastNatural
  <1>3. g \in S
    <2> SUFFICES ASSUME g \notin S PROVE FALSE
      OBVIOUS
    <2>1. \A y \in S : y <= g - 1 /\ y \in Nat
      OBVIOUS
    <2>2. g - 1 \in Nat
      <3>1. PICK y \in S : y <= g - 1 /\ y \in Nat
        BY <2>1
      <3> QED
        BY <3>1
    <2>3. g - 1 \in U
      BY <2>1, <2>2
    <2>4. g <= g - 1
      BY <1>2, <2>3
    <2> QED
      BY <2>4
  <1>4. \E x \in S : \A y \in S : x >= y
    BY <1>3
  <1>5. Ge!Max(S) \in S /\ \A y \in S : Ge!Max(S) >= y
    BY <1>4 DEF Ge!Max
  <1> QED
    BY <1>5

LEMMA ImageIsFinite ==
  ASSUME NEW S, IsFiniteSet(S), NEW f
  PROVE  IsFiniteSet({f[x] : x \in S})
  <1> DEFINE T == {f[x] : x \in S}
             g == [x \in S |-> f[x]]
  <1>1. g \in Surjection(S, T)
    BY DEF Surjection
  <1> HIDE DEF g, T
  <1>2. IsFiniteSet(T)
    BY <1>1, FS_Surjection
  <1> QED
    BY <1>2 DEF T

(* South of all land. *)
LEMMA BottomIs ==
  ASSUME GeoInv
  PROVE  /\ Ge!Bottom \in Nat
         /\ \A n \in Ge!Seated : Ge!Top(n) + Ge!Height(n) <= Ge!Bottom
  <1> DEFINE land == [n \in Ge!Seated |-> Ge!Top(n) + Ge!Height(n)]
             gone == {h \in ghosts : h[1] \in Ge!OnMap}
             rest == [g \in gone |-> Ge!SlotRow(g[2]) + EXTENT_CLASSES[2]]
             L == {land[n] : n \in Ge!Seated}
             G == {rest[g] : g \in gone}
             S == {1} \cup L \cup G
  <1>1. Ge!Bottom = Ge!Max(S)
    BY DEF Ge!Bottom
  <1>2. IsFiniteSet(Ge!Seated) /\ IsFiniteSet(gone)
    <2>1. Ge!Seated \in SUBSET Nodes
      BY ProvinceIs
    <2>2. gone \in SUBSET ghosts
      OBVIOUS
    <2> HIDE DEF gone
    <2> QED
      BY <2>1, <2>2, MeasuresAssumption, FS_Subset DEF GeoInv, GhostsOK
  <1>3. \A n \in Ge!Seated : land[n] = Ge!Top(n) + Ge!Height(n) /\ land[n] \in Nat
    BY ProvinceIs
  <1>4. \A g \in gone : rest[g] \in Nat
    <2> SUFFICES ASSUME NEW g \in gone PROVE Ge!SlotRow(g[2]) + EXTENT_CLASSES[2] \in Nat
      OBVIOUS
    <2>1. g[2] \in Nat
      BY DEF GeoInv, GhostsOK
    <2>2. Ge!SLOT_STRIDE \in Nat
      BY StrideIs
    <2>3. Ge!SlotRow(g[2]) \in Nat
      BY <2>1, <2>2 DEF Ge!SlotRow
    <2>4. EXTENT_CLASSES[2] \in Nat
      BY GeographyAssumption, MeasuresAssumption
    <2> QED
      BY <2>3, <2>4
  <1> HIDE DEF land, rest, gone
  <1>5. IsFiniteSet(L) /\ IsFiniteSet(G) /\ IsFiniteSet({1})
    BY <1>2, ImageIsFinite, FS_Singleton
  <1>6. L \subseteq Nat /\ G \subseteq Nat
    BY <1>3, <1>4
  <1>7. \A n \in Ge!Seated : land[n] \in L
    OBVIOUS
  <1> HIDE DEF L, G
  <1>8. IsFiniteSet(S)
    <2>1. IsFiniteSet({1} \cup L)
      BY <1>5, FS_Union
    <2> QED
      BY <1>5, <2>1, FS_Union
  <1>9. S \subseteq Nat /\ S # {}
    BY <1>6
  <1>10. L \subseteq S
    OBVIOUS
  <1> HIDE DEF S
  <1>11. Ge!Max(S) \in Nat /\ \A y \in S : y <= Ge!Max(S)
    BY <1>8, <1>9, GreatestOf
  <1> QED
    BY <1>1, <1>3, <1>7, <1>10, <1>11

-----------------------------------------------------------------------------
(* The encampments of a namespace are numbered, and the islands apart. *)
LEMMA CountGrows ==
  ASSUME NEW B, IsFiniteSet(B), NEW A \in SUBSET B, NEW x \in B, x \notin A
  PROVE  /\ IsFiniteSet(A) /\ Cardinality(A) \in Nat /\ Cardinality(B) \in Nat
         /\ Cardinality(A) < Cardinality(B)
  <1>1. /\ IsFiniteSet(A) /\ Cardinality(A) <= Cardinality(B)
        /\ (Cardinality(B) = Cardinality(A) => B = A)
    BY FS_Subset
  <1>2. Cardinality(A) \in Nat /\ Cardinality(B) \in Nat
    BY <1>1, FS_CardinalityType
  <1> QED
    BY <1>1, <1>2

LEMMA CampsAre ==
  ASSUME GeoInv
  PROVE  /\ IsFiniteSet(Ge!Landless) /\ Ge!Landless \subseteq Nat
         /\ \A c \in Ge!Landless : survey.ns[c] \in Nat
         /\ IsFiniteSet(Ge!Isles) /\ Ge!Isles \subseteq Nat
         /\ \A s : IsFiniteSet(Ge!Camps(s)) /\ Ge!Camps(s) \subseteq Nat
  <1>1. Ge!Landless \in SUBSET Cities
    BY DEF Ge!Landless, Ge!Listed, GeoInv
  <1>2. IsFiniteSet(Ge!Landless) /\ Ge!Landless \subseteq Nat
    <2>1. IsFiniteSet(Cities) /\ Cities \subseteq Nat
      BY GeographyAssumption, LastIs
    <2> QED
      BY <1>1, <2>1, FS_Subset
  <1>3. \A c \in Ge!Landless : survey.ns[c] \in Nat
    BY <1>1, SurveyIs
  <1>4. IsFiniteSet(Ge!Isles) /\ Ge!Isles \subseteq Nat
    <2>1. Ge!Isles = {survey.ns[c] : c \in Ge!Landless}
      BY DEF Ge!Isles
    <2>2. IsFiniteSet(Ge!Isles)
      BY <1>2, <2>1, ImageIsFinite
    <2> QED
      BY <1>3, <2>1, <2>2
  <1>5. ASSUME NEW s PROVE IsFiniteSet(Ge!Camps(s)) /\ Ge!Camps(s) \subseteq Nat
    <2>1. Ge!Camps(s) \in SUBSET Ge!Landless
      BY DEF Ge!Camps
    <2> QED
      BY <1>2, <2>1, FS_Subset
  <1> QED
    BY <1>2, <1>3, <1>4, <1>5

LEMMA CampNoIs ==
  ASSUME GeoInv, NEW c \in Ge!Landless
  PROVE  /\ Ge!CampNo(c) \in Nat /\ Ge!CampNo(c) >= 1
         /\ Cardinality(Ge!Camps(survey.ns[c])) \in Nat
         /\ Ge!CampNo(c) <= Cardinality(Ge!Camps(survey.ns[c]))
         /\ \A d \in Ge!Landless :
              survey.ns[d] = survey.ns[c] /\ Ge!CampNo(d) = Ge!CampNo(c) => d = c
  <1> DEFINE camps == Ge!Camps(survey.ns[c])
             upto(e) == {d \in camps : d <= e}
  <1>1. IsFiniteSet(camps) /\ camps \subseteq Nat /\ c \in camps
    BY CampsAre DEF Ge!Camps
  <1>2. \A e \in camps : Ge!CampNo(e) = Cardinality(upto(e))
    BY CountIs DEF Ge!CampNo, Ge!Camps
  <1>3. \A e \in Ge!Landless : survey.ns[e] = survey.ns[c] <=> e \in camps
    BY DEF Ge!Camps
  <1> HIDE DEF camps
  <1>4. \A e \in camps : IsFiniteSet(upto(e)) /\ upto(e) \in SUBSET camps
    BY <1>1, FS_Subset
  <1>5. Cardinality(camps) \in Nat /\ Cardinality(upto(c)) \in Nat
        /\ Cardinality(upto(c)) <= Cardinality(camps)
    BY <1>1, <1>4, FS_Subset, FS_CardinalityType
  <1>6. Cardinality(upto(c)) >= 1
    <2>1. {} \in SUBSET upto(c) /\ c \in upto(c) /\ c \notin {}
      BY <1>1
    <2> HIDE DEF upto
    <2>2. Cardinality({}) < Cardinality(upto(c)) /\ Cardinality(upto(c)) \in Nat
      BY <1>1, <1>4, <2>1, CountGrows
    <2> QED
      BY <2>2, FS_EmptySet
  <1>7. ASSUME NEW d \in camps, NEW e \in camps, d < e
        PROVE  Cardinality(upto(d)) < Cardinality(upto(e)) /\ Cardinality(upto(d)) \in Nat
               /\ Cardinality(upto(e)) \in Nat
    <2>1. upto(d) \in SUBSET upto(e) /\ e \in upto(e) /\ e \notin upto(d)
      <3>1. d \in Nat /\ e \in Nat /\ d <= e /\ ~(e <= d) /\ e <= e
        BY <1>1, <1>7
      <3>2. \A x \in camps : x <= d => x <= e
        BY <1>1, <3>1
      <3> QED
        BY <3>1, <3>2
    <2> HIDE DEF upto
    <2> QED
      BY <1>4, <2>1, CountGrows
  <1> HIDE DEF upto
  <1>8. ASSUME NEW d \in camps, Ge!CampNo(d) = Ge!CampNo(c) PROVE d = c
    <2>1. Cardinality(upto(d)) = Cardinality(upto(c))
      BY <1>1, <1>2, <1>8
    <2>2. ~(d < c)
      BY <1>1, <1>7, <2>1
    <2>3. ~(c < d)
      BY <1>1, <1>7, <2>1
    <2>4. c \in Nat /\ d \in Nat
      BY <1>1
    <2> QED
      BY <2>2, <2>3, <2>4
  <1>9. Ge!CampNo(c) = Cardinality(upto(c))
    BY <1>1, <1>2
  <1> QED
    BY <1>3, <1>5, <1>6, <1>8, <1>9 DEF camps

Rank(s) == Cardinality({r \in Ge!Isles : r < s})

LEMMA IslandXIs ==
  ASSUME GeoInv, NEW s
  PROVE  /\ Rank(s) \in Nat /\ Ge!IslandX(s) = 1 + Rank(s) * (ISLAND_W + ISLAND_GAP)
         /\ Ge!IslandX(s) \in Nat
  <1>1. IsFiniteSet(Ge!Isles)
    BY CampsAre
  <1>2. IsFiniteSet({r \in Ge!Isles : r < s})
    BY <1>1, FS_Subset
  <1>3. Rank(s) \in Nat
    BY <1>2, FS_CardinalityType DEF Rank
  <1>4. Ge!IslandX(s) = 1 + Rank(s) * (ISLAND_W + ISLAND_GAP)
    BY CountIs DEF Ge!IslandX, Rank
  <1>5. ISLAND_W + ISLAND_GAP \in Nat
    BY MeasuresAssumption
  <1> QED
    BY <1>3, <1>4, <1>5

LEMMA IslandsApart ==
  ASSUME GeoInv, NEW s \in Ge!Isles, NEW r \in Ge!Isles,
         NEW a \in 0..(ISLAND_W - 1), NEW b \in 0..(ISLAND_W - 1),
         Ge!IslandX(s) + a = Ge!IslandX(r) + b
  PROVE  s = r
  <1> DEFINE w == ISLAND_W + ISLAND_GAP
             p == Rank(s)
             q == Rank(r)
             x == Ge!IslandX(s)
             y == Ge!IslandX(r)
  <1>1. /\ p \in Nat /\ q \in Nat /\ x \in Nat /\ y \in Nat
        /\ x = 1 + p * w /\ y = 1 + q * w
    BY IslandXIs
  <1>2. ISLAND_W \in Nat /\ w \in Nat \ {0} /\ a < w /\ b < w /\ a \in Nat /\ b \in Nat
    BY MeasuresAssumption
  <1>3. x + a = y + b
    OBVIOUS
  <1> HIDE DEF w, p, q, x, y
  <1>4. w * (p - q) = b - a
    <2>1. w * (p - q) = p * w - q * w
      BY <1>1, <1>2
    <2> DEFINE pw == p * w
               qw == q * w
    <2>2. pw \in Int /\ qw \in Int /\ x = 1 + pw /\ y = 1 + qw
      BY <1>1, <1>2
    <2> HIDE DEF pw, qw
    <2>3. pw - qw = b - a
      BY <1>2, <1>3, <2>2
    <2> QED
      BY <2>1, <2>3 DEF pw, qw
  <1>5. p = q
    <2> DEFINE d == w * (p - q)
    <2>1. d < w /\ -w < d
      BY <1>2, <1>4
    <2>2. p - q \in Int
      BY <1>1
    <2>3. p - q = 0
      BY <1>2, <2>1, <2>2, Multiple
    <2> QED
      BY <1>1, <2>3
  <1> DEFINE west(t) == {e \in Ge!Isles : e < t}
  <1>6. IsFiniteSet(Ge!Isles) /\ Ge!Isles \subseteq Nat
    BY CampsAre
  <1>7. \A t \in Ge!Isles : IsFiniteSet(west(t))
    BY <1>6, FS_Subset
  <1>8. p = Cardinality(west(s)) /\ q = Cardinality(west(r))
    BY DEF Rank, p, q
  <1>9. ASSUME NEW t \in Ge!Isles, NEW u \in Ge!Isles, t < u
        PROVE  Cardinality(west(t)) # Cardinality(west(u))
    <2>1. west(t) \in SUBSET west(u) /\ t \in west(u) /\ t \notin west(t)
      <3>1. t \in Nat /\ u \in Nat /\ ~(t < t)
        BY <1>6
      <3>2. \A e \in Ge!Isles : e < t => e < u
        BY <1>6, <1>9, <3>1
      <3> QED
        BY <1>9, <3>1, <3>2
    <2> HIDE DEF west
    <2>2. Cardinality(west(t)) < Cardinality(west(u)) /\ Cardinality(west(t)) \in Nat
          /\ Cardinality(west(u)) \in Nat
      BY <1>7, <2>1, CountGrows
    <2> QED
      BY <2>2
  <1> HIDE DEF west
  <1>10. ~(s < r) /\ ~(r < s)
    BY <1>5, <1>8, <1>9
  <1> QED
    BY <1>6, <1>10

(* There is no land south of the land, and no island on it. *)
LEMMA NoLandBelow ==
  ASSUME GeoInv, NEW x, NEW y \in Nat, y >= Ge!Bottom
  PROVE  BandsAt(x, y) = {}
  <1> SUFFICES ASSUME NEW n \in Ge!Seated, y \in Ge!Top(n)..(Ge!Top(n) + Ge!Height(n) - 1)
               PROVE  FALSE
    BY DEF BandsAt
  <1>1. Ge!Top(n) \in Nat /\ Ge!Height(n) \in Nat /\ Ge!Bottom \in Nat
        /\ Ge!Top(n) + Ge!Height(n) <= Ge!Bottom
    BY ProvinceIs, BottomIs
  <1> QED
    BY <1>1

LEMMA NoIslandAbove ==
  ASSUME GeoInv, NEW x, NEW y \in Nat, y < Ge!Bottom
  PROVE  IslesAt(x, y) = {}
  <1> SUFFICES ASSUME NEW h, y \in Ge!IslandY..h PROVE FALSE
    BY DEF IslesAt
  <1>1. Ge!IslandY = Ge!Bottom + 2 /\ Ge!Bottom \in Nat
    BY BottomIs DEF Ge!IslandY
  <1> QED
    BY <1>1

LEMMA IslandHIs ==
  ASSUME GeoInv, NEW s
  PROVE  Ge!IslandH(s) \in Nat
  <1> DEFINE k == Cardinality(Ge!Camps(s))
             S == {k, ISLAND_CAP + 1}
  <1>1. k \in Nat /\ ISLAND_CAP + 1 \in Nat
    BY CampsAre, FS_CardinalityType, MeasuresAssumption
  <1>2. Ge!IslandH(s) = 2 + Ge!Min(S)
    BY CountIs DEF Ge!IslandH
  <1>3. S \subseteq Nat /\ S # {}
    BY <1>1
  <1>4. Ge!Min(S) \in Nat
    <2> HIDE DEF S
    <2> QED
      BY <1>3, LeastOf
  <1> QED
    BY <1>2, <1>4

LEMMA ShownIsOnItsIsland ==
  ASSUME GeoInv, NEW c \in Ge!Shown
  PROVE  Ge!CampNo(c) + 2 <= Ge!IslandH(survey.ns[c])
  <1> DEFINE k == Cardinality(Ge!Camps(survey.ns[c]))
             i == Ge!CampNo(c)
             S == {k, ISLAND_CAP + 1}
  <1>1. c \in Ge!Landless /\ i <= ISLAND_CAP
    BY DEF Ge!Shown
  <1>2. k \in Nat /\ i \in Nat /\ i <= k /\ ISLAND_CAP \in Nat
    BY <1>1, CampNoIs, MeasuresAssumption
  <1>3. Ge!IslandH(survey.ns[c]) = 2 + Ge!Min(S)
    BY CountIs DEF Ge!IslandH
  <1>4. S \subseteq Nat /\ S # {}
    BY <1>2
  <1>5. Ge!Min(S) \in S
    <2> HIDE DEF S
    <2> QED
      BY <1>4, LeastOf
  <1> HIDE DEF k, i
  <1>6. i <= Ge!Min(S) /\ Ge!Min(S) \in Nat
    BY <1>1, <1>2, <1>5
  <1>7. i + 2 <= 2 + Ge!Min(S)
    <2> HIDE DEF S
    <2> QED
      BY <1>2, <1>6
  <1> QED
    BY <1>3, <1>7 DEF i

(* At the cell of an encampment stands the encampment. *)
LEMMA CampCell ==
  ASSUME GeoInv, NEW c \in Ge!Landless
  PROVE  /\ survey.ns[c] \in Ge!Isles
         /\ Ge!Camp(c)[1] = Ge!IslandX(survey.ns[c]) + 2 /\ Ge!Camp(c)[1] \in Nat
         /\ Ge!Camp(c)[2] = Ge!IslandY + Ge!CampNo(c) /\ Ge!Camp(c)[2] \in Nat
         /\ Ge!IslandY = Ge!Bottom + 2 /\ Ge!IslandY \in Nat /\ Ge!Bottom \in Nat
         /\ Ge!IslandX(survey.ns[c]) \in Nat
  <1>1. survey.ns[c] \in Ge!Isles
    BY DEF Ge!Isles
  <1>2. Ge!IslandX(survey.ns[c]) \in Nat
    BY IslandXIs
  <1>3. Ge!IslandY = Ge!Bottom + 2 /\ Ge!Bottom \in Nat
    BY BottomIs DEF Ge!IslandY
  <1>4. Ge!CampNo(c) \in Nat
    BY CampNoIs
  <1>5. Ge!Camp(c)[1] = Ge!IslandX(survey.ns[c]) + 2 /\ Ge!Camp(c)[2] = Ge!IslandY + Ge!CampNo(c)
    BY DEF Ge!Camp
  <1> QED
    BY <1>1, <1>2, <1>3, <1>4, <1>5

LEMMA CampAtItsCell ==
  ASSUME GeoInv, NEW c \in Ge!Shown
  PROVE  Ge!RegionAt(Ge!Camp(c)[1], Ge!Camp(c)[2]) = <<"structure", c>>
  <1> DEFINE s == survey.ns[c]
             x == Ge!Camp(c)[1]
             y == Ge!Camp(c)[2]
             w == Ge!IslandX(s)
             here == {d \in Ge!Camps(s) \cap Ge!Shown : Ge!IslandY + Ge!CampNo(d) = y}
  <1>1. c \in Ge!Landless /\ c \in Nat /\ c \in Ge!Camps(s)
    BY CampsAre DEF Ge!Shown, Ge!Camps
  <1>2. /\ s \in Ge!Isles /\ x = w + 2 /\ x \in Nat /\ w \in Nat
        /\ y = Ge!IslandY + Ge!CampNo(c) /\ y \in Nat
        /\ Ge!IslandY = Ge!Bottom + 2 /\ Ge!IslandY \in Nat /\ Ge!Bottom \in Nat
    BY <1>1, CampCell
  <1>3. /\ Ge!CampNo(c) \in Nat /\ Ge!CampNo(c) >= 1
        /\ \A d \in Ge!Camps(s) : Ge!CampNo(d) \in Nat /\ (Ge!CampNo(d) = Ge!CampNo(c) => d = c)
    BY <1>1, CampNoIs DEF Ge!Camps
  <1> HIDE DEF x, y, w
  <1>4. BandsAt(x, y) = {}
    <2>1. y >= Ge!Bottom
      BY <1>2, <1>3
    <2> QED
      BY <1>2, <2>1, NoLandBelow
  <1>5. s \in IslesAt(x, y)
    <2>1. Ge!CampNo(c) + 2 <= Ge!IslandH(s) /\ Ge!IslandH(s) \in Nat
      BY ShownIsOnItsIsland, IslandHIs
    <2>2. ISLAND_W \in Nat /\ ISLAND_W > 2
      BY MeasuresAssumption
    <2>3. x \in w..(w + ISLAND_W - 1)
      BY <1>2, <2>2
    <2>4. y \in Ge!IslandY..(Ge!IslandY + Ge!IslandH(s) - 1)
      BY <1>2, <1>3, <2>1
    <2> QED
      BY <1>2, <2>3, <2>4 DEF IslesAt, w
  <1>6. ASSUME NEW r \in IslesAt(x, y) PROVE r = s
    <2>1. r \in Ge!Isles /\ x \in Ge!IslandX(r)..(Ge!IslandX(r) + ISLAND_W - 1)
      BY DEF IslesAt
    <2>2. Ge!IslandX(r) \in Nat /\ ISLAND_W \in Nat /\ ISLAND_W > 2
      BY IslandXIs, MeasuresAssumption
    <2>3. /\ 2 \in 0..(ISLAND_W - 1) /\ x - Ge!IslandX(r) \in 0..(ISLAND_W - 1)
          /\ w + 2 = Ge!IslandX(r) + (x - Ge!IslandX(r))
      BY <1>2, <2>1, <2>2
    <2> QED
      BY <1>2, <2>1, <2>3, IslandsApart DEF w
  <1>7. IslesAt(x, y) = {s}
    BY <1>5, <1>6
  <1>8. Ge!Min({s}) = s
    <2>1. s \in Nat
      BY <1>2, CampsAre
    <2> QED
      BY <2>1, OnlyOne
  <1>9. Ge!RegionAt(x, y) = Ge!OnIsland(s, y)
    BY <1>4, <1>7, <1>8, RegionIs
  <1>10. here = {c}
    <2>1. c \in here
      BY <1>1, <1>2
    <2>2. ASSUME NEW d \in here PROVE d = c
      <3>1. d \in Ge!Camps(s) /\ Ge!IslandY + Ge!CampNo(d) = Ge!IslandY + Ge!CampNo(c)
        BY <1>2
      <3>2. Ge!CampNo(d) \in Nat
        BY <1>3, <3>1
      <3>3. Ge!CampNo(d) = Ge!CampNo(c)
        BY <1>2, <1>3, <3>1, <3>2
      <3> QED
        BY <1>3, <3>1, <3>3
    <2> QED
      BY <2>1, <2>2
  <1>11. here # {} => Ge!OnIsland(s, y) = <<"structure", Ge!Min(here)>>
    BY DEF Ge!OnIsland
  <1> HIDE DEF here
  <1>12. Ge!Min({c}) = c
    BY <1>1, OnlyOne
  <1> QED
    BY <1>9, <1>10, <1>11, <1>12 DEF x, y

-----------------------------------------------------------------------------
(* What moors on a coast, and in which column of the water. *)
LEMMA MooringIs ==
  ASSUME GeoInv, NEW z, NEW e \in Ge!Exposure(z)
  PROVE  /\ e.node \in Ge!Seated /\ e.node \in Nodes /\ e.node \in Nat
         /\ survey.zoneOf[e.node] = z
         /\ e.of \in Ge!Sited(e.node) /\ e.of \in Cities /\ e.of \in Nat
         /\ e.no \in 1..COAST_CAP /\ e.no \in Nat
         /\ e.y = Ge!Places(e.node)[e.of][2]
         /\ e = [node |-> e.node, of |-> e.of, no |-> e.no, y |-> e.y]
  <1> DEFINE Markers(n, c) ==
               {[node |-> n, of |-> c, no |-> i, y |-> Ge!Places(n)[c][2]] :
                  i \in 1..Ge!Min({COAST_CAP, survey.exposed[c]})}
             Of(n) == UNION {Markers(n, c) : c \in Ge!Sited(n)}
  <1>1. Ge!Exposure(z) = UNION {Of(n) : n \in Ge!Zoned(z)}
    BY DEF Ge!Exposure
  <1>2. PICK n \in Ge!Zoned(z) : e \in Of(n)
    <2> HIDE DEF Of
    <2> QED
      BY <1>1
  <1>3. PICK c \in Ge!Sited(n) : e \in Markers(n, c)
    <2> HIDE DEF Markers
    <2> QED
      BY <1>2
  <1>4. PICK i \in 1..Ge!Min({COAST_CAP, survey.exposed[c]}) :
          e = [node |-> n, of |-> c, no |-> i, y |-> Ge!Places(n)[c][2]]
    BY <1>3
  <1>5. n \in Ge!Seated /\ survey.zoneOf[n] = z
    BY DEF Ge!Zoned
  <1>6. n \in Nodes /\ n \in Nat
    BY <1>5, ProvinceIs
  <1>7. c \in Cities /\ c \in Nat
    <2>1. c \in Cities
      BY DEF Ge!Sited, Ge!Listed, GeoInv
    <2> QED
      BY <2>1, LastIs
  <1>8. i \in 1..COAST_CAP /\ i \in Nat
    <2> DEFINE S == {COAST_CAP, survey.exposed[c]}
    <2>1. survey.exposed[c] \in Nat /\ COAST_CAP \in Nat
      BY <1>7, SurveyIs, MeasuresAssumption
    <2>2. S \subseteq Nat /\ S # {} /\ COAST_CAP \in S
      BY <2>1
    <2>3. i \in 1..Ge!Min(S)
      OBVIOUS
    <2> HIDE DEF S
    <2>4. Ge!Min(S) \in Nat /\ Ge!Min(S) <= COAST_CAP
      BY <2>2, LeastOf
    <2> QED
      BY <2>1, <2>3, <2>4
  <1>9. e.node = n /\ e.of = c /\ e.no = i /\ e.y = Ge!Places(n)[c][2]
    BY <1>4
  <1> QED
    BY <1>4, <1>5, <1>6, <1>7, <1>8, <1>9

LEMMA MooringsAreFinite ==
  ASSUME GeoInv, NEW z
  PROVE  IsFiniteSet(Ge!Exposure(z))
  <1> DEFINE all == Ge!Exposure(z)
             T == (Nodes \X Cities) \X (1..COAST_CAP)
             f == [e \in all |-> <<<<e.node, e.of>>, e.no>>]
  <1>1. IsFiniteSet(Nodes) /\ IsFiniteSet(Cities) /\ IsFiniteSet(1..COAST_CAP)
    BY GeographyAssumption, MeasuresAssumption, FS_Interval
  <1>2. IsFiniteSet(T)
    BY <1>1, FS_Product
  <1>3. \A e \in all : f[e] = <<<<e.node, e.of>>, e.no>>
    OBVIOUS
  <1>4. f \in [all -> T]
    BY MooringIs
  <1>5. ASSUME NEW d \in all, NEW e \in all, f[d] = f[e] PROVE d = e
    <2>1. d.node = e.node /\ d.of = e.of /\ d.no = e.no
      BY <1>3, <1>5
    <2>2. d.y = e.y
      BY <2>1, MooringIs
    <2>3. /\ d = [node |-> d.node, of |-> d.of, no |-> d.no, y |-> d.y]
          /\ e = [node |-> e.node, of |-> e.of, no |-> e.no, y |-> e.y]
      BY MooringIs
    <2> QED
      BY <2>1, <2>2, <2>3
  <1> HIDE DEF all, T, f
  <1>6. f \in Injection(all, T)
    BY <1>4, <1>5 DEF Injection, IsInjective
  <1>7. IsFiniteSet(all)
    BY <1>2, <1>6, FS_Injection
  <1> QED
    BY <1>7 DEF all

SoonerOn(z, e) == {d \in Ge!Exposure(z) : d.y = e.y /\ Ge!Sooner(d, e)}

LEMMA BerthIs ==
  ASSUME GeoInv, NEW z, NEW b \in Ge!Coast(z)
  PROVE  /\ b.entry \in Ge!Exposure(z)
         /\ Cardinality(SoonerOn(z, b.entry)) \in 0..(OCEAN_GAP - 1)
         /\ b.x = Ge!West(z) + PATCH_W + Cardinality(SoonerOn(z, b.entry))
         /\ b = [x |-> b.x, entry |-> b.entry]
         /\ Ge!West(z) \in Nat /\ z \in Zones /\ b.x \in Nat
  <1> DEFINE Column(e) == Ge!Cardinality({d \in Ge!Exposure(z) : d.y = e.y /\ Ge!Sooner(d, e)})
  <1>1. PICK e \in Ge!Exposure(z) :
          /\ Column(e) < OCEAN_GAP
          /\ b = [x |-> Ge!West(z) + PATCH_W + Column(e), entry |-> e]
    BY DEF Ge!Coast
  <1>2. Column(e) = Cardinality(SoonerOn(z, e))
    BY CountIs DEF SoonerOn
  <1>3. IsFiniteSet(SoonerOn(z, e))
    BY MooringsAreFinite, FS_Subset DEF SoonerOn
  <1>4. Cardinality(SoonerOn(z, e)) \in Nat
    BY <1>3, FS_CardinalityType
  <1> HIDE DEF Column
  <1>5. b.entry = e /\ b.x = Ge!West(z) + PATCH_W + Column(e) /\ b = [x |-> b.x, entry |-> b.entry]
    BY <1>1
  <1>6. OCEAN_GAP \in Nat /\ PATCH_W \in Nat
    BY MeasuresAssumption
  <1>7. z \in Zones
    BY MooringIs, ProvinceIs
  <1>8. Ge!West(z) \in Nat
    BY <1>7, WestIs
  <1>9. Cardinality(SoonerOn(z, e)) \in 0..(OCEAN_GAP - 1)
    BY <1>1, <1>2, <1>4, <1>6
  <1> QED
    BY <1>2, <1>4, <1>5, <1>6, <1>7, <1>8, <1>9

LEMMA SoonerTakesMore ==
  ASSUME GeoInv, NEW z, NEW d \in Ge!Exposure(z), NEW e \in Ge!Exposure(z),
         d.y = e.y, Ge!Sooner(d, e)
  PROVE  Cardinality(SoonerOn(z, d)) # Cardinality(SoonerOn(z, e))
  <1>1. \A a \in Ge!Exposure(z) : a.node \in Nat /\ a.of \in Nat /\ a.no \in Nat
    BY MooringIs
  <1>2. ASSUME NEW a \in Ge!Exposure(z), Ge!Sooner(a, d) PROVE Ge!Sooner(a, e)
    BY <1>1, <1>2 DEF Ge!Sooner
  <1>3. ~Ge!Sooner(d, d)
    BY <1>1 DEF Ge!Sooner
  <1>4. SoonerOn(z, d) \in SUBSET SoonerOn(z, e) /\ d \in SoonerOn(z, e) /\ d \notin SoonerOn(z, d)
    BY <1>2, <1>3 DEF SoonerOn
  <1>5. IsFiniteSet(SoonerOn(z, e))
    BY MooringsAreFinite, FS_Subset DEF SoonerOn
  <1>6. /\ Cardinality(SoonerOn(z, d)) < Cardinality(SoonerOn(z, e))
        /\ Cardinality(SoonerOn(z, d)) \in Nat /\ Cardinality(SoonerOn(z, e)) \in Nat
    BY <1>4, <1>5, CountGrows
  <1> QED
    BY <1>6

(* No two markers in one cell. *)
LEMMA BerthsApart ==
  ASSUME GeoInv, NEW y, NEW z, NEW a \in Ge!Coast(y), NEW b \in Ge!Coast(z),
         a.x = b.x, a.entry.y = b.entry.y
  PROVE  a = b
  <1> DEFINE v == Ge!West(y)
             w == Ge!West(z)
             i == Cardinality(SoonerOn(y, a.entry))
             j == Cardinality(SoonerOn(z, b.entry))
  <1>1. /\ a.entry \in Ge!Exposure(y) /\ a.x = v + PATCH_W + i /\ i \in 0..(OCEAN_GAP - 1)
        /\ y \in Zones /\ v \in Nat /\ a = [x |-> a.x, entry |-> a.entry]
    BY BerthIs
  <1>2. /\ b.entry \in Ge!Exposure(z) /\ b.x = w + PATCH_W + j /\ j \in 0..(OCEAN_GAP - 1)
        /\ z \in Zones /\ w \in Nat /\ b = [x |-> b.x, entry |-> b.entry]
    BY BerthIs
  <1>3. PATCH_W \in Nat /\ OCEAN_GAP \in Nat
    BY MeasuresAssumption
  <1> HIDE DEF i, j, v, w
  <1>4. y = z
    <2>1. /\ PATCH_W + i \in 0..(PATCH_W + OCEAN_GAP - 1) /\ PATCH_W + j \in 0..(PATCH_W + OCEAN_GAP - 1)
          /\ v + (PATCH_W + i) = w + (PATCH_W + j)
      BY <1>1, <1>2, <1>3
    <2> QED
      BY <1>1, <1>2, <2>1, StripsApart DEF v, w
  <1>5. i = j
    <2>1. v = w
      BY <1>4 DEF v, w
    <2> QED
      BY <1>1, <1>2, <1>3, <2>1
  <1>6. a.entry = b.entry
    <2> DEFINE d == a.entry
               e == b.entry
    <2>1. d \in Ge!Exposure(z) /\ e \in Ge!Exposure(z)
      BY <1>1, <1>2, <1>4
    <2>2. ~Ge!Sooner(d, e) /\ ~Ge!Sooner(e, d)
      <3>1. Cardinality(SoonerOn(z, d)) = Cardinality(SoonerOn(z, e)) /\ d.y = e.y
        BY <1>4, <1>5 DEF i, j
      <3> HIDE DEF d, e
      <3> QED
        BY <2>1, <3>1, SoonerTakesMore
    <2>3. /\ d.node \in Nat /\ d.of \in Nat /\ d.no \in Nat
          /\ d = [node |-> d.node, of |-> d.of, no |-> d.no, y |-> d.y]
          /\ e.node \in Nat /\ e.of \in Nat /\ e.no \in Nat
          /\ e = [node |-> e.node, of |-> e.of, no |-> e.no, y |-> e.y]
      <3> HIDE DEF d, e
      <3> QED
        BY <2>1, MooringIs
    <2>4. d.y = e.y
      OBVIOUS
    <2> HIDE DEF d, e
    <2>5. d.node = e.node
      BY <2>2, <2>3 DEF Ge!Sooner
    <2>6. d.of = e.of
      BY <2>2, <2>3, <2>5 DEF Ge!Sooner
    <2>7. d.no = e.no
      BY <2>2, <2>3, <2>5, <2>6 DEF Ge!Sooner
    <2>8. d = e
      BY <2>3, <2>4, <2>5, <2>6, <2>7, Zenon
    <2> QED
      BY <2>8 DEF d, e
  <1> QED
    BY <1>1, <1>2, <1>6

(* A marker has water under it, level with the land. *)
LEMMA BerthIsWater ==
  ASSUME GeoInv, NEW z, NEW b \in Ge!Coast(z)
  PROVE  /\ Ge!RegionAt(b.x, b.entry.y) = <<"ocean", None>>
         /\ b.entry.y \in Nat /\ b.entry.y < Ge!Bottom
  <1> DEFINE n == b.entry.node
             x == b.x
             y == b.entry.y
             w == Ge!West(z)
             i == Cardinality(SoonerOn(z, b.entry))
  <1>1. /\ b.entry \in Ge!Exposure(z) /\ x = w + PATCH_W + i /\ i \in 0..(OCEAN_GAP - 1)
        /\ z \in Zones /\ w \in Nat /\ x \in Nat
    BY BerthIs
  <1>2. /\ n \in Ge!Seated /\ b.entry.of \in Ge!Sited(n)
        /\ y = Ge!Places(n)[b.entry.of][2]
    BY <1>1, MooringIs
  <1>3. PATCH_W \in Nat /\ OCEAN_GAP \in Nat
    BY MeasuresAssumption
  <1>4. y \in Nat /\ y \in Ge!Top(n)..(Ge!Top(n) + Ge!Height(n) - 1)
    <2> HIDE DEF n, y
    <2> QED
      BY <1>2, OnItsProvince
  <1>5. y < Ge!Bottom
    <2>1. /\ Ge!Top(n) \in Nat /\ Ge!Height(n) \in Nat /\ Ge!Bottom \in Nat
          /\ Ge!Top(n) + Ge!Height(n) <= Ge!Bottom
      BY <1>2, ProvinceIs, BottomIs
    <2> HIDE DEF n, y
    <2> QED
      BY <1>4, <2>1
  <1> HIDE DEF n, x, y, w, i
  <1>6. BandsAt(x, y) = {}
    <2> SUFFICES ASSUME NEW m \in Ge!Seated,
                        x \in Ge!West(survey.zoneOf[m])..(Ge!West(survey.zoneOf[m]) + PATCH_W - 1)
                 PROVE  FALSE
      BY DEF BandsAt
    <2> DEFINE u == survey.zoneOf[m]
               v == Ge!West(u)
    <2>1. u \in Zones /\ v \in Nat
      BY ProvinceIs
    <2>2. x \in v..(v + PATCH_W - 1)
      OBVIOUS
    <2> HIDE DEF u
    <2>3. /\ PATCH_W + i \in 0..(PATCH_W + OCEAN_GAP - 1) /\ x - v \in 0..(PATCH_W + OCEAN_GAP - 1)
          /\ w + (PATCH_W + i) = v + (x - v)
      <3> HIDE DEF v
      <3> QED
        BY <1>1, <1>3, <2>1, <2>2
    <2>4. z = u
      BY <1>1, <2>1, <2>3, StripsApart DEF w
    <2>5. v = w
      BY <2>4 DEF w
    <2> HIDE DEF v
    <2> QED
      BY <1>1, <1>3, <2>1, <2>2, <2>5
  <1>7. IslesAt(x, y) = {}
    BY <1>4, <1>5, NoIslandAbove
  <1>8. Ge!RegionAt(x, y) = <<"ocean", None>>
    BY <1>6, <1>7, RegionIs
  <1> QED
    BY <1>4, <1>5, <1>8 DEF x, y

-----------------------------------------------------------------------------
(* The extent of the map reaches over all of it. *)
LEMMA DepthIs ==
  ASSUME GeoInv
  PROVE  /\ Ge!Depth \in Nat /\ Ge!Bottom + 2 <= Ge!Depth
         /\ \A s \in Ge!Isles : Ge!IslandY + Ge!IslandH(s) + 2 <= Ge!Depth
  <1> DEFINE f == [s \in Ge!Isles |-> Ge!IslandY + Ge!IslandH(s)]
             I == {f[s] : s \in Ge!Isles}
             S == {Ge!Bottom} \cup I
  <1>1. Ge!Depth = 2 + Ge!Max(S)
    BY DEF Ge!Depth
  <1>2. Ge!Bottom \in Nat /\ Ge!IslandY \in Nat
    BY BottomIs DEF Ge!IslandY
  <1>3. \A s \in Ge!Isles : f[s] = Ge!IslandY + Ge!IslandH(s) /\ f[s] \in Nat
    BY <1>2, IslandHIs
  <1>4. IsFiniteSet(Ge!Isles) /\ IsFiniteSet({Ge!Bottom})
    BY CampsAre, FS_Singleton
  <1> HIDE DEF f
  <1>5. IsFiniteSet(I)
    BY <1>4, ImageIsFinite
  <1>6. I \subseteq Nat /\ \A s \in Ge!Isles : f[s] \in I
    BY <1>3
  <1> HIDE DEF I
  <1>7. IsFiniteSet(S)
    BY <1>4, <1>5, FS_Union
  <1>8. S \subseteq Nat /\ S # {} /\ Ge!Bottom \in S /\ I \subseteq S
    BY <1>2, <1>6
  <1> HIDE DEF S
  <1>9. Ge!Max(S) \in Nat /\ \A y \in S : y <= Ge!Max(S)
    BY <1>7, <1>8, GreatestOf
  <1>10. Ge!Depth \in Nat /\ Ge!Bottom + 2 <= Ge!Depth
    BY <1>1, <1>2, <1>8, <1>9
  <1>11. ASSUME NEW s \in Ge!Isles PROVE Ge!IslandY + Ge!IslandH(s) + 2 <= Ge!Depth
    <2>1. f[s] <= Ge!Max(S) /\ f[s] \in Nat
      BY <1>3, <1>6, <1>8, <1>9
    <2>2. f[s] + 2 <= Ge!Depth
      BY <1>1, <1>9, <2>1
    <2>3. f[s] + 2 = Ge!IslandY + Ge!IslandH(s) + 2
      BY <1>3
    <2> QED
      BY <2>2, <2>3
  <1> QED
    BY <1>10, <1>11

LEMMA WidthIs ==
  ASSUME GeoInv
  PROVE  /\ Ge!Width \in Nat
         /\ \A z \in Ge!OnMap : Ge!West(z) + PATCH_W + 2 <= Ge!Width
         /\ \A s \in Ge!Isles : Ge!IslandX(s) + ISLAND_W + 2 <= Ge!Width
         /\ \A z \in Ge!OnMap : \A b \in Ge!Coast(z) : b.x + 3 <= Ge!Width
  <1> DEFINE f == [z \in Ge!OnMap |-> Ge!West(z) + PATCH_W]
             g == [s \in Ge!Isles |-> Ge!IslandX(s) + ISLAND_W]
             h == [z \in Ge!OnMap |-> {b.x + 1 : b \in Ge!Coast(z)}]
             L == {f[z] : z \in Ge!OnMap}
             P == {PATCH_W : z \in {0} \ Ge!OnMap}
             I == {g[s] : s \in Ge!Isles}
             H == {h[z] : z \in Ge!OnMap}
             S == L \cup P \cup I \cup UNION H
  <1>1. Ge!Width = 2 + Ge!Max(S)
    BY DEF Ge!Width
  <1>2. PATCH_W \in Nat /\ OCEAN_GAP \in Nat /\ ISLAND_W \in Nat
    BY MeasuresAssumption
  <1>3. IsFiniteSet(Ge!OnMap) /\ Ge!OnMap \subseteq Zones
    <2>1. Ge!OnMap \in SUBSET Zones
      BY SurveyIs DEF Ge!OnMap, Ge!Live, GeoInv
    <2> QED
      BY <2>1, MeasuresAssumption, FS_Subset
  <1>4. IsFiniteSet(Ge!Isles)
    BY CampsAre
  <1>5. \A z \in Ge!OnMap : f[z] = Ge!West(z) + PATCH_W /\ f[z] \in Nat /\ Ge!West(z) \in Nat
    BY <1>2, <1>3, WestIs
  <1>6. \A s \in Ge!Isles : g[s] = Ge!IslandX(s) + ISLAND_W /\ g[s] \in Nat
    BY <1>2, IslandXIs
  <1>7. \A z \in Ge!OnMap : h[z] \subseteq Nat /\ IsFiniteSet(h[z])
    <2> SUFFICES ASSUME NEW z \in Ge!OnMap PROVE h[z] \subseteq Nat /\ IsFiniteSet(h[z])
      OBVIOUS
    <2> DEFINE top == Ge!West(z) + PATCH_W + OCEAN_GAP
    <2>1. top \in Nat
      BY <1>2, <1>5
    <2>2. ASSUME NEW b \in Ge!Coast(z) PROVE b.x + 1 \in 0..top
      <3> DEFINE i == Cardinality(SoonerOn(z, b.entry))
      <3>1. b.x = Ge!West(z) + PATCH_W + i /\ i \in 0..(OCEAN_GAP - 1) /\ b.x \in Nat
        BY BerthIs
      <3> HIDE DEF i
      <3> QED
        BY <1>2, <1>5, <3>1
    <2>3. h[z] = {b.x + 1 : b \in Ge!Coast(z)}
      OBVIOUS
    <2> HIDE DEF h, top
    <2>4. h[z] \in SUBSET (0..top)
      BY <2>2, <2>3
    <2>5. IsFiniteSet(0..top)
      BY <2>1, FS_Interval
    <2>6. 0..top \subseteq Nat
      OBVIOUS
    <2>7. IsFiniteSet(h[z])
      BY <2>4, <2>5, FS_Subset
    <2> QED
      BY <2>4, <2>6, <2>7
  <1>8. \A z \in Ge!OnMap : \A b \in Ge!Coast(z) : b.x + 1 \in h[z]
    OBVIOUS
  <1>9. IsFiniteSet(P) /\ P \subseteq Nat
    <2>1. P \in SUBSET {PATCH_W}
      OBVIOUS
    <2>2. IsFiniteSet({PATCH_W})
      BY FS_Singleton
    <2> HIDE DEF P
    <2> QED
      BY <1>2, <2>1, <2>2, FS_Subset
  <1>10. S # {}
    <2>1. 0 \in Ge!OnMap => f[0] \in L
      OBVIOUS
    <2>2. 0 \notin Ge!OnMap => PATCH_W \in P
      OBVIOUS
    <2> HIDE DEF L, P, I, H
    <2> QED
      BY <2>1, <2>2
  <1> HIDE DEF f, g, h, P
  <1>11. IsFiniteSet(L) /\ IsFiniteSet(I) /\ IsFiniteSet(H)
    BY <1>3, <1>4, ImageIsFinite
  <1>12. /\ L \subseteq Nat /\ \A z \in Ge!OnMap : f[z] \in L
         /\ I \subseteq Nat /\ \A s \in Ge!Isles : g[s] \in I
         /\ UNION H \subseteq Nat /\ \A z \in Ge!OnMap : h[z] \subseteq UNION H
    BY <1>5, <1>6, <1>7
  <1>13. IsFiniteSet(UNION H)
    <2>1. \A T \in H : IsFiniteSet(T)
      BY <1>7
    <2> HIDE DEF H
    <2> QED
      BY <1>11, <2>1, FS_UNION
  <1> DEFINE U == UNION H
  <1>14. IsFiniteSet(U) /\ U \subseteq Nat /\ \A z \in Ge!OnMap : h[z] \subseteq U
    BY <1>12, <1>13
  <1>15. S = L \cup P \cup I \cup U
    OBVIOUS
  <1> HIDE DEF L, I, H, U
  <1>16. IsFiniteSet(S)
    <2>1. IsFiniteSet(L \cup P)
      BY <1>9, <1>11, FS_Union
    <2>2. IsFiniteSet(L \cup P \cup I)
      BY <1>11, <2>1, FS_Union
    <2>3. IsFiniteSet(L \cup P \cup I \cup U)
      BY <1>14, <2>2, FS_Union
    <2> QED
      BY <1>15, <2>3
  <1>17. S \subseteq Nat /\ L \subseteq S /\ I \subseteq S /\ U \subseteq S
    BY <1>9, <1>12, <1>14, <1>15
  <1> HIDE DEF S
  <1>18. Ge!Max(S) \in Nat /\ \A y \in S : y <= Ge!Max(S)
    BY <1>10, <1>16, <1>17, GreatestOf
  <1>19. ASSUME NEW z \in Ge!OnMap PROVE Ge!West(z) + PATCH_W + 2 <= Ge!Width
    <2>1. f[z] \in Nat /\ f[z] <= Ge!Max(S) /\ Ge!West(z) + PATCH_W = f[z]
      BY <1>5, <1>12, <1>17, <1>18
    <2>2. f[z] + 2 <= Ge!Width
      BY <1>1, <1>18, <2>1
    <2> QED
      BY <2>1, <2>2
  <1>20. ASSUME NEW s \in Ge!Isles PROVE Ge!IslandX(s) + ISLAND_W + 2 <= Ge!Width
    <2>1. g[s] \in Nat /\ g[s] <= Ge!Max(S) /\ Ge!IslandX(s) + ISLAND_W = g[s]
      BY <1>6, <1>12, <1>17, <1>18
    <2>2. g[s] + 2 <= Ge!Width
      BY <1>1, <1>18, <2>1
    <2> QED
      BY <2>1, <2>2
  <1>21. ASSUME NEW z \in Ge!OnMap, NEW b \in Ge!Coast(z) PROVE b.x + 3 <= Ge!Width
    <2>1. b.x \in Nat
      BY BerthIs
    <2>2. b.x + 1 \in U
      BY <1>8, <1>14
    <2>3. b.x + 1 <= Ge!Max(S)
      BY <1>17, <1>18, <2>2
    <2> QED
      BY <1>1, <1>18, <2>1, <2>3
  <1>22. Ge!Width \in Nat
    BY <1>1, <1>18
  <1> QED
    BY <1>19, <1>20, <1>21, <1>22

LEMMA CitiesStand ==
  ASSUME GeoInv, NEW n \in Ge!Seated, ~Ge!Crowded(n), NEW c \in Ge!Sited(n)
  PROVE  /\ Ge!RegionAt(Ge!Places(n)[c][1], Ge!Places(n)[c][2]) = <<"city", c>>
         /\ Ge!Places(n)[c][1] < Ge!Width /\ Ge!Places(n)[c][2] < Ge!Depth
  <1> DEFINE x == Ge!Places(n)[c][1]
             y == Ge!Places(n)[c][2]
             w == Ge!West(survey.zoneOf[n])
             t == Ge!Top(n)
             h == Ge!Height(n)
  <1>1. x \in Nat /\ x \in w..(w + PATCH_W - 1) /\ y \in Nat /\ y \in t..(t + h - 1)
    BY OnItsProvince
  <1>2. w \in Nat /\ t \in Nat /\ h \in Nat /\ PATCH_W \in Nat /\ t + h <= Ge!Bottom
        /\ Ge!Bottom \in Nat
    BY ProvinceIs, BottomIs, MeasuresAssumption
  <1>3. w + PATCH_W + 2 <= Ge!Width /\ Ge!Width \in Nat
    <2>1. survey.zoneOf[n] \in Ge!OnMap
      BY DEF Ge!OnMap, Ge!Seated
    <2> QED
      BY <2>1, WidthIs
  <1>4. Ge!Bottom + 2 <= Ge!Depth /\ Ge!Depth \in Nat
    BY DepthIs
  <1> HIDE DEF x, y, w, t, h
  <1>5. x < Ge!Width /\ y < Ge!Depth
    BY <1>1, <1>2, <1>3, <1>4
  <1> QED
    BY <1>5, CityAtItsCell DEF x, y

LEMMA CampsStand ==
  ASSUME GeoInv, NEW c \in Ge!Shown
  PROVE  /\ Ge!RegionAt(Ge!Camp(c)[1], Ge!Camp(c)[2]) = <<"structure", c>>
         /\ Ge!Camp(c)[1] < Ge!Width /\ Ge!Camp(c)[2] < Ge!Depth
  <1> DEFINE s == survey.ns[c]
             x == Ge!Camp(c)[1]
             y == Ge!Camp(c)[2]
             v == Ge!IslandX(s)
             i == Ge!CampNo(c)
             h == Ge!IslandH(s)
  <1>1. c \in Ge!Landless
    BY DEF Ge!Shown
  <1>2. /\ s \in Ge!Isles /\ x = v + 2 /\ v \in Nat /\ y = Ge!IslandY + i
        /\ Ge!IslandY \in Nat
    BY <1>1, CampCell
  <1>3. i \in Nat /\ i + 2 <= h /\ h \in Nat
    BY <1>1, CampNoIs, ShownIsOnItsIsland, IslandHIs
  <1>4. ISLAND_W \in Nat /\ ISLAND_W > 2
    BY MeasuresAssumption
  <1>5. v + ISLAND_W + 2 <= Ge!Width /\ Ge!Width \in Nat
    BY <1>2, WidthIs
  <1>6. Ge!IslandY + h + 2 <= Ge!Depth /\ Ge!Depth \in Nat
    BY <1>2, DepthIs
  <1> HIDE DEF x, y, v, i, h
  <1>7. x < Ge!Width /\ y < Ge!Depth
    BY <1>2, <1>3, <1>4, <1>5, <1>6
  <1> QED
    BY <1>7, CampAtItsCell DEF x, y

LEMMA BerthsStand ==
  ASSUME GeoInv, NEW z \in Ge!OnMap, NEW b \in Ge!Coast(z)
  PROVE  /\ Ge!RegionAt(b.x, b.entry.y) = <<"ocean", None>>
         /\ b.x < Ge!Width /\ b.entry.y < Ge!Depth
  <1>1. b.x \in Nat /\ b.x + 3 <= Ge!Width /\ Ge!Width \in Nat
    BY BerthIs, WidthIs
  <1>2. b.entry.y \in Nat /\ b.entry.y < Ge!Bottom /\ Ge!Bottom \in Nat
        /\ Ge!Bottom + 2 <= Ge!Depth /\ Ge!Depth \in Nat
    BY BerthIsWater, BottomIs, DepthIs
  <1>3. b.x < Ge!Width /\ b.entry.y < Ge!Depth
    BY <1>1, <1>2
  <1> QED
    BY <1>3, BerthIsWater

(* "Two settlements on one cell means ... a workload with no clickable cell anywhere
   on the map" (world.rs:460-463): with any zones, nodes, slots, sizes, workloads,
   namespaces and hashes, what stands at the cell of a city or an encampment is that
   city or encampment, every marker has water of its own, and all of it lies within
   the extent of the map. *)
THEOREM EveryCityStands == Spec => []EveryCityHasItsCell
  <1>1. GeoInv => EveryCityHasItsCell
    <2> SUFFICES ASSUME GeoInv PROVE Ge!EveryCityHasItsCell
      BY DEF EveryCityHasItsCell
    <2> DEFINE In(x, y) == x < Ge!Width /\ y < Ge!Depth
               coast == UNION {Ge!Coast(z) : z \in Ge!OnMap}
    <2>1. ASSUME NEW n \in Ge!Seated, ~Ge!Crowded(n), NEW c \in Ge!Sited(n)
          PROVE  /\ Ge!RegionAt(Ge!Places(n)[c][1], Ge!Places(n)[c][2]) = <<"city", c>>
                 /\ In(Ge!Places(n)[c][1], Ge!Places(n)[c][2])
      BY <2>1, CitiesStand
    <2>2. ASSUME NEW c \in Ge!Shown
          PROVE  /\ Ge!RegionAt(Ge!Camp(c)[1], Ge!Camp(c)[2]) = <<"structure", c>>
                 /\ In(Ge!Camp(c)[1], Ge!Camp(c)[2])
      BY CampsStand
    <2>3. ASSUME NEW a \in coast
          PROVE  Ge!RegionAt(a.x, a.entry.y) = <<"ocean", None>> /\ In(a.x, a.entry.y)
      BY BerthsStand
    <2>4. ASSUME NEW a \in coast, NEW b \in coast,
                 <<a.x, a.entry.y>> = <<b.x, b.entry.y>>
          PROVE  a = b
      <3>1. PICK y \in Ge!OnMap : a \in Ge!Coast(y)
        OBVIOUS
      <3>2. PICK z \in Ge!OnMap : b \in Ge!Coast(z)
        OBVIOUS
      <3>3. a.x = b.x /\ a.entry.y = b.entry.y
        BY <2>4
      <3> QED
        BY <3>1, <3>2, <3>3, BerthsApart
    <2> QED
      BY <2>1, <2>2, <2>3, <2>4 DEF Ge!EveryCityHasItsCell
  <1> QED
    BY <1>1, GeoInductive, PTL

-----------------------------------------------------------------------------
(* The windows.  Which sets of windows may be open together: who stands on whom (the
   guards of main.rs open one window from another), and who may be beside whom (each
   handler closes, or stays away from, windows of its own list).  These are the sets
   which a session can reach, 49 of them, and nothing weaker is inductive: that an
   eviction's confirmation keeps its drill-down depends on every list. *)
Standing(u) ==
  /\ "evict" \in u => "panel" \in u
  /\ "drill" \in u => "chaos" \in u
  /\ "table" \in u => "browser" \in u
  /\ "logFilter" \in u => "log" \in u
  /\ "oracleField" \in u => "oracle" \in u
  /\ "imageEdit" \in u => "panel" \in u
  /\ "inspector" \in u => "panel" \in u \/ "table" \in u

Beside(u) ==
  /\ \A w \in {"about", "advisor", "charter", "menu"} : w \in u => u \subseteq {w}
  /\ "oracle" \in u => u \subseteq {"oracle", "oracleField"}
  /\ "chaos" \in u => u \subseteq {"chaos", "drill"}
  /\ "browser" \in u => u \subseteq {"browser", "table", "inspector"}
  /\ "annals" \in u => u \subseteq {"annals", "commit"}
  /\ "workloads" \in u => u \subseteq {"workloads", "commit"}
  /\ "nsPicker" \in u => u \subseteq {"nsPicker", "almanac"}
  /\ "picker" \in u => u \subseteq {"picker", "almanac", "commit"}
  /\ "plan" \in u => u \subseteq {"plan", "almanac", "log", "logFilter", "commit"}
  /\ "panel" \in u =>
       u \subseteq {"panel", "evict", "imageEdit", "inspector", "log", "logFilter", "commit"}
  /\ "log" \in u => u \subseteq {"log", "logFilter", "plan", "panel", "commit"}
  /\ "almanac" \in u => u \subseteq {"almanac", "nsPicker", "picker", "plan", "commit"}
  /\ "evict" \in u => u \subseteq {"evict", "panel", "commit"}
  /\ "imageEdit" \in u => u \subseteq {"imageEdit", "panel", "commit"}
  /\ "inspector" \in u => u \subseteq {"inspector", "panel", "table", "browser", "commit"}

Fit(u) == u \subseteq Wi!Elements /\ Standing(u) /\ Beside(u)

IsFrame(f) ==
  f = [up |-> f.up, selected |-> f.selected, switches |-> f.switches, sent |-> f.sent,
       took |-> f.took, opened |-> f.opened]

LEMMA FitFramed ==
  ASSUME NEW u, Fit(u)
  PROVE  Fit(Wi!Framed(u))
  <1>1. CASE "menu" \in u
    <2>1. Wi!MenuLive(u)
      BY <1>1 DEF Fit, Beside, Wi!MenuLive, Wi!Open, Wi!Pickers, Wi!Screens, Wi!Confirms
    <2> QED
      BY <2>1 DEF Wi!Framed
  <1>2. CASE "menu" \notin u
    <2>1. Wi!Framed(u) = u
      BY <1>2 DEF Wi!Framed
    <2> QED
      BY <2>1
  <1> QED
    BY <1>1, <1>2

LEMMA FitAlmanac ==
  ASSUME NEW f, IsFrame(f), Fit(f.up)
  PROVE  IsFrame(Wi!KeyAlmanac(f)) /\ Fit(Wi!Framed(Wi!KeyAlmanac(f).up))
  <1> USE DEF IsFrame, Wi!Open, Wi!Screens, Wi!Typing, Wi!Confirms, Wi!Pickers, Wi!Editors,
              Wi!Elements, Wi!Set, Wi!Toggle, Wi!KeyAlmanac
  <1>1. IsFrame(Wi!KeyAlmanac(f))
    OBVIOUS
  <1>2. Fit(Wi!Framed(Wi!KeyAlmanac(f).up))
    <2> DEFINE u == f.up
               v == Wi!KeyAlmanac(f).up
    <2>1. CASE v = u
      BY <2>1 DEF Fit, Standing, Beside, Wi!Framed, Wi!MenuLive
    <2>2. CASE v = u \ {"almanac"}
      BY <2>2 DEF Fit, Standing, Beside, Wi!Framed, Wi!MenuLive
    <2>3. CASE v = u \cup {"almanac"} /\ ~Wi!Open(u, {"log", "panel"} \cup (Wi!Screens \ {"almanac"})) /\ ~Wi!Typing(u)
      BY <2>3 DEF Fit, Standing, Beside, Wi!Framed, Wi!MenuLive
    <2> QED
      BY <2>1, <2>2, <2>3
  <1> QED
    BY <1>1, <1>2

LEMMA FitSlash ==
  ASSUME NEW f, IsFrame(f), Fit(f.up)
  PROVE  Fit(Wi!Framed(Wi!KeyLogSlash(Wi!KeyAlmanac(f)).up))
  <1> DEFINE g == Wi!KeyAlmanac(f)
  <1>1. CASE "log" \in f.up
    <2>1. g = f
      BY <1>1 DEF Wi!KeyAlmanac, Wi!Open, Wi!Screens
    <2>2. Wi!KeyLogSlash(f).up = f.up \cup {"logFilter"}
      BY <1>1 DEF Wi!KeyLogSlash, Wi!Set, IsFrame
    <2>3. Fit(f.up \cup {"logFilter"})
      BY <1>1 DEF Fit, Standing, Beside, Wi!Elements, Wi!Screens, Wi!Confirms, Wi!Pickers,
                  Wi!Editors
    <2> QED
      BY <2>1, <2>2, <2>3, FitFramed
  <1>2. CASE "log" \notin f.up
    <2>1. "log" \notin g.up
      BY <1>2 DEF Wi!KeyAlmanac, Wi!Toggle, Wi!Set, IsFrame
    <2>2. Wi!KeyLogSlash(g) = g
      BY <2>1 DEF Wi!KeyLogSlash
    <2> QED
      BY <2>2, FitAlmanac
  <1> QED
    BY <1>1, <1>2

LEMMA FitPlan ==
  ASSUME NEW f, IsFrame(f), Fit(f.up)
  PROVE  IsFrame(Wi!KeyPlan(f)) /\ Fit(Wi!Framed(Wi!KeyPlan(f).up))
  <1> USE DEF IsFrame, Wi!Open, Wi!Screens, Wi!Typing, Wi!Confirms, Wi!Pickers, Wi!Editors,
              Wi!Elements, Wi!Set, Wi!Toggle, Wi!KeyPlan
  <1>1. IsFrame(Wi!KeyPlan(f))
    OBVIOUS
  <1>2. Fit(Wi!Framed(Wi!KeyPlan(f).up))
    <2> DEFINE u == f.up
               v == Wi!KeyPlan(f).up
    <2>1. CASE v = u
      BY <2>1 DEF Fit, Standing, Beside, Wi!Framed, Wi!MenuLive
    <2>2. CASE v = u \ {"plan"}
      BY <2>2 DEF Fit, Standing, Beside, Wi!Framed, Wi!MenuLive
    <2>3. CASE v = u \cup {"plan"} /\ ~Wi!Open(u, {"panel"} \cup Wi!Screens \cup Wi!Pickers)
      BY <2>3 DEF Fit, Standing, Beside, Wi!Framed, Wi!MenuLive
    <2> QED
      BY <2>1, <2>2, <2>3
  <1> QED
    BY <1>1, <1>2

LEMMA FitAnnals ==
  ASSUME NEW f, IsFrame(f), Fit(f.up)
  PROVE  IsFrame(Wi!KeyAnnals(f)) /\ Fit(Wi!Framed(Wi!KeyAnnals(f).up))
  <1> USE DEF IsFrame, Wi!Open, Wi!Screens, Wi!Typing, Wi!Confirms, Wi!Pickers, Wi!Editors,
              Wi!Elements, Wi!Set, Wi!Toggle, Wi!KeyAnnals
  <1>1. IsFrame(Wi!KeyAnnals(f))
    OBVIOUS
  <1>2. Fit(Wi!Framed(Wi!KeyAnnals(f).up))
    <2> DEFINE u == f.up
               v == Wi!KeyAnnals(f).up
    <2>1. CASE v = u
      BY <2>1 DEF Fit, Standing, Beside, Wi!Framed, Wi!MenuLive
    <2>2. CASE v = u \ {"annals"}
      BY <2>2 DEF Fit, Standing, Beside, Wi!Framed, Wi!MenuLive
    <2>3. CASE v = u \cup {"annals"} /\ ~Wi!Typing(u) /\ ~Wi!Open(u, {"log", "panel", "inspector", "plan"} \cup Wi!Pickers \cup (Wi!Screens \ {"annals"}))
      BY <2>3 DEF Fit, Standing, Beside, Wi!Framed, Wi!MenuLive
    <2> QED
      BY <2>1, <2>2, <2>3
  <1> QED
    BY <1>1, <1>2

LEMMA FitWorkloads ==
  ASSUME NEW f, IsFrame(f), Fit(f.up)
  PROVE  IsFrame(Wi!KeyWorkloads(f)) /\ Fit(Wi!Framed(Wi!KeyWorkloads(f).up))
  <1> USE DEF IsFrame, Wi!Open, Wi!Screens, Wi!Typing, Wi!Confirms, Wi!Pickers, Wi!Editors,
              Wi!Elements, Wi!Set, Wi!KeyWorkloads
  <1>1. IsFrame(Wi!KeyWorkloads(f))
    OBVIOUS
  <1>2. Fit(Wi!Framed(Wi!KeyWorkloads(f).up))
    <2> DEFINE u == f.up
               v == Wi!KeyWorkloads(f).up
    <2>1. CASE v = u
      BY <2>1 DEF Fit, Standing, Beside, Wi!Framed, Wi!MenuLive
    <2>2. CASE v = u \cup {"workloads"} /\ ~Wi!Typing(u) /\ ~Wi!Open(u, {"log", "panel", "inspector", "plan"} \cup Wi!Pickers \cup Wi!Screens)
      BY <2>2 DEF Fit, Standing, Beside, Wi!Framed, Wi!MenuLive
    <2> QED
      BY <2>1, <2>2
  <1> QED
    BY <1>1, <1>2

LEMMA FitBrowser ==
  ASSUME NEW f, IsFrame(f), Fit(f.up)
  PROVE  IsFrame(Wi!KeyBrowser(f)) /\ Fit(Wi!Framed(Wi!KeyBrowser(f).up))
  <1> USE DEF IsFrame, Wi!Open, Wi!Screens, Wi!Typing, Wi!Confirms, Wi!Pickers, Wi!Editors,
              Wi!Elements, Wi!Set, Wi!KeyBrowser
  <1>1. IsFrame(Wi!KeyBrowser(f))
    OBVIOUS
  <1>2. Fit(Wi!Framed(Wi!KeyBrowser(f).up))
    <2> DEFINE u == f.up
               v == Wi!KeyBrowser(f).up
    <2>1. CASE v = u
      BY <2>1 DEF Fit, Standing, Beside, Wi!Framed, Wi!MenuLive
    <2>2. CASE v = {"browser"}
      BY <2>2 DEF Fit, Standing, Beside, Wi!Framed, Wi!MenuLive
    <2> QED
      BY <2>1, <2>2
  <1> QED
    BY <1>1, <1>2

LEMMA FitInspect ==
  ASSUME NEW f, IsFrame(f), Fit(f.up)
  PROVE  IsFrame(Wi!KeyInspect(f)) /\ Fit(Wi!Framed(Wi!KeyInspect(f).up))
  <1> USE DEF IsFrame, Wi!Open, Wi!Screens, Wi!Typing, Wi!Confirms, Wi!Pickers, Wi!Editors,
              Wi!Elements, Wi!Set, Wi!KeyInspect
  <1>1. IsFrame(Wi!KeyInspect(f))
    OBVIOUS
  <1>2. Fit(Wi!Framed(Wi!KeyInspect(f).up))
    <2> DEFINE u == f.up
               v == Wi!KeyInspect(f).up
    <2>1. CASE v = u
      BY <2>1 DEF Fit, Standing, Beside, Wi!Framed, Wi!MenuLive
    <2>2. CASE v = u \cup {"inspector"} /\ "panel" \in u /\ ~Wi!Typing(u) /\ ~Wi!Open(u, {"log", "inspector", "plan"} \cup Wi!Screens \cup Wi!Confirms)
      BY <2>2 DEF Fit, Standing, Beside, Wi!Framed, Wi!MenuLive
    <2> QED
      BY <2>1, <2>2
  <1> QED
    BY <1>1, <1>2

LEMMA FitC ==
  ASSUME NEW f, IsFrame(f), Fit(f.up)
  PROVE  IsFrame(Wi!KeyNavC(Wi!KeyPickerC(f))) /\ Fit(Wi!KeyNavC(Wi!KeyPickerC(f)).up)
  <1> USE DEF IsFrame, Wi!Open, Wi!Screens, Wi!Typing, Wi!Confirms, Wi!Pickers, Wi!Editors,
              Wi!Elements, Wi!Set, Wi!KeyNavC, Wi!KeyPickerC, Wi!Nav, Wi!NavFree
  <1>1. IsFrame(Wi!KeyNavC(Wi!KeyPickerC(f)))
    OBVIOUS
  <1>2. Fit(Wi!KeyNavC(Wi!KeyPickerC(f)).up)
    <2> DEFINE u == f.up
               v == Wi!KeyNavC(Wi!KeyPickerC(f)).up
    <2>1. CASE v = u \ {"picker"}
      BY <2>1 DEF Fit, Standing, Beside
    <2>2. CASE v = (u \ {"picker"}) \cup {"picker"} /\ Wi!NavFree(u \ {"picker"})
      BY <2>2 DEF Fit, Standing, Beside
    <2> QED
      BY <2>1, <2>2
  <1> QED
    BY <1>1, <1>2

LEMMA FitNavCity ==
  ASSUME NEW f, IsFrame(f), Fit(f.up)
  PROVE  IsFrame(Wi!KeyNavCity(f)) /\ Fit(Wi!KeyNavCity(f).up)
  <1> USE DEF IsFrame, Wi!Open, Wi!Screens, Wi!Typing, Wi!Confirms, Wi!Pickers, Wi!Editors,
              Wi!Elements, Wi!Set, Wi!KeyNavCity
  <1>1. IsFrame(Wi!KeyNavCity(f))
    OBVIOUS
  <1>2. Fit(Wi!KeyNavCity(f).up)
    <2> DEFINE u == f.up
               v == Wi!KeyNavCity(f).up
    <2>1. CASE v = u
      BY <2>1 DEF Fit, Standing, Beside
    <2> QED
      BY <2>1
  <1> QED
    BY <1>1, <1>2

LEMMA FitNavNext ==
  ASSUME NEW f, IsFrame(f), Fit(f.up)
  PROVE  IsFrame(Wi!KeyNavNext(f)) /\ Fit(Wi!KeyNavNext(f).up)
  <1> USE DEF IsFrame, Wi!Open, Wi!Screens, Wi!Typing, Wi!Confirms, Wi!Pickers, Wi!Editors,
              Wi!Elements, Wi!Set, Wi!KeyNavNext, Wi!Nav, Wi!NavFree
  <1>1. IsFrame(Wi!KeyNavNext(f))
    OBVIOUS
  <1>2. Fit(Wi!KeyNavNext(f).up)
    <2> DEFINE u == f.up
               v == Wi!KeyNavNext(f).up
    <2>1. CASE v = u
      BY <2>1 DEF Fit, Standing, Beside
    <2>2. CASE v = u \cup {"panel"} /\ Wi!NavFree(u)
      BY <2>2 DEF Fit, Standing, Beside
    <2> QED
      BY <2>1, <2>2
  <1> QED
    BY <1>1, <1>2

LEMMA FitLogEnter ==
  ASSUME NEW f, IsFrame(f), Fit(f.up)
  PROVE  IsFrame(Wi!KeyLogEnter(f)) /\ Fit(Wi!KeyLogEnter(f).up)
  <1> USE DEF IsFrame, Wi!Open, Wi!Screens, Wi!Typing, Wi!Confirms, Wi!Pickers, Wi!Editors,
              Wi!Elements, Wi!Set, Wi!KeyLogEnter
  <1>1. IsFrame(Wi!KeyLogEnter(f))
    OBVIOUS
  <1>2. Fit(Wi!KeyLogEnter(f).up)
    <2> DEFINE u == f.up
               v == Wi!KeyLogEnter(f).up
    <2>1. CASE v = u \ {"logFilter"}
      BY <2>1 DEF Fit, Standing, Beside
    <2> QED
      BY <2>1
  <1> QED
    BY <1>1, <1>2

LEMMA FitPickerEnter ==
  ASSUME NEW f, IsFrame(f), Fit(f.up)
  PROVE  IsFrame(Wi!KeyPickerEnter(f)) /\ Fit(Wi!KeyPickerEnter(f).up)
  <1> USE DEF IsFrame, Wi!Open, Wi!Screens, Wi!Typing, Wi!Confirms, Wi!Pickers, Wi!Editors,
              Wi!Elements, Wi!Set, Wi!KeyPickerEnter, Wi!Switched, Wi!Of, Wi!Owns
  <1>1. IsFrame(Wi!KeyPickerEnter(f))
    OBVIOUS
  <1>2. Fit(Wi!KeyPickerEnter(f).up)
    <2> DEFINE u == f.up
               v == Wi!KeyPickerEnter(f).up
    <2>1. CASE v = u
      BY <2>1 DEF Fit, Standing, Beside
    <2>2. CASE "picker" \in u /\ v = ((u \ {"picker"}) \ {"panel"}) \ {"log", "logFilter"}
      BY <2>2 DEF Fit, Standing, Beside
    <2> QED
      BY <2>1, <2>2
  <1> QED
    BY <1>1, <1>2

LEMMA FitNsEnter ==
  ASSUME NEW f, IsFrame(f), Fit(f.up)
  PROVE  IsFrame(Wi!KeyNsEnter(f)) /\ Fit(Wi!KeyNsEnter(f).up)
  <1> USE DEF IsFrame, Wi!Open, Wi!Screens, Wi!Typing, Wi!Confirms, Wi!Pickers, Wi!Editors,
              Wi!Elements, Wi!Set, Wi!KeyNsEnter
  <1>1. IsFrame(Wi!KeyNsEnter(f))
    OBVIOUS
  <1>2. Fit(Wi!KeyNsEnter(f).up)
    <2> DEFINE u == f.up
               v == Wi!KeyNsEnter(f).up
    <2>1. CASE v = u \ {"nsPicker"}
      BY <2>1 DEF Fit, Standing, Beside
    <2> QED
      BY <2>1
  <1> QED
    BY <1>1, <1>2

LEMMA FitNavEnter ==
  ASSUME NEW f, IsFrame(f), Fit(f.up)
  PROVE  IsFrame(Wi!KeyNavEnter(f)) /\ Fit(Wi!KeyNavEnter(f).up)
  <1> USE DEF IsFrame, Wi!Open, Wi!Screens, Wi!Typing, Wi!Confirms, Wi!Pickers, Wi!Editors,
              Wi!Elements, Wi!Set, Wi!KeyNavEnter, Wi!Nav, Wi!NavFree
  <1>1. IsFrame(Wi!KeyNavEnter(f))
    OBVIOUS
  <1>2. Fit(Wi!KeyNavEnter(f).up)
    <2> DEFINE u == f.up
               v == Wi!KeyNavEnter(f).up
    <2>1. CASE v = u
      BY <2>1 DEF Fit, Standing, Beside
    <2>2. CASE v = u \cup {"panel"} /\ Wi!NavFree(u)
      BY <2>2 DEF Fit, Standing, Beside
    <2> QED
      BY <2>1, <2>2
  <1> QED
    BY <1>1, <1>2

LEMMA FitImageEnter ==
  ASSUME NEW f, IsFrame(f), Fit(f.up)
  PROVE  IsFrame(Wi!KeyImageEnter(f)) /\ Fit(Wi!KeyImageEnter(f).up)
  <1> USE DEF IsFrame, Wi!Open, Wi!Screens, Wi!Typing, Wi!Confirms, Wi!Pickers, Wi!Editors,
              Wi!Elements, Wi!Set, Wi!KeyImageEnter
  <1>1. IsFrame(Wi!KeyImageEnter(f))
    OBVIOUS
  <1>2. Fit(Wi!KeyImageEnter(f).up)
    <2> DEFINE u == f.up
               v == Wi!KeyImageEnter(f).up
    <2>1. CASE v = u
      BY <2>1 DEF Fit, Standing, Beside
    <2>2. CASE v = u \ {"imageEdit"}
      BY <2>2 DEF Fit, Standing, Beside
    <2> QED
      BY <2>1, <2>2
  <1> QED
    BY <1>1, <1>2

LEMMA FitTail ==
  ASSUME NEW f, IsFrame(f), Fit(f.up)
  PROVE  IsFrame(Wi!KeyTail(f)) /\ Fit(Wi!KeyTail(f).up)
  <1> USE DEF IsFrame, Wi!Open, Wi!Screens, Wi!Typing, Wi!Confirms, Wi!Pickers, Wi!Editors,
              Wi!Elements, Wi!Set, Wi!KeyTail
  <1>1. IsFrame(Wi!KeyTail(f))
    OBVIOUS
  <1>2. Fit(Wi!KeyTail(f).up)
    <2> DEFINE u == f.up
               v == Wi!KeyTail(f).up
    <2>1. CASE v = u
      BY <2>1 DEF Fit, Standing, Beside
    <2>2. CASE v = u \cup {"log"} /\ u \subseteq {"panel"}
      BY <2>2 DEF Fit, Standing, Beside
    <2> QED
      BY <2>1, <2>2
  <1> QED
    BY <1>1, <1>2

(* The first of a list that is open. *)
LEMMA FirstIs ==
  ASSUME NEW n \in Nat, NEW order, DOMAIN order = 1..n, NEW u, NEW i \in 1..n, order[i] \in u,
         \A j \in 1..n : j < i => order[j] \notin u
  PROVE  Wi!FirstOpen(order, u) = order[i]
  <1> DEFINE S == {j \in DOMAIN order : order[j] \in u}
  <1>1. i \in S /\ \A j \in S : i <= j
    OBVIOUS
  <1>2. \A x, y \in S : x <= y /\ y <= x => x = y
    OBVIOUS
  <1> HIDE DEF S
  <1>3. Wi!Min(S) = i
    BY <1>1, <1>2 DEF Wi!Min
  <1> QED
    BY <1>3 DEF Wi!FirstOpen, S

LEMMA SomeIsFirst ==
  ASSUME NEW n \in Nat, NEW order, DOMAIN order = 1..n, NEW u,
         \E i \in 1..n : order[i] \in u
  PROVE  \E i \in 1..n : /\ order[i] \in u
                         /\ \A j \in 1..n : j < i => order[j] \notin u
                         /\ Wi!FirstOpen(order, u) = order[i]
  <1> DEFINE S == {j \in 1..n : order[j] \in u}
  <1>0. S \subseteq Nat /\ S # {}
    OBVIOUS
  <1> HIDE DEF S
  <1>1. PICK i \in S : \A j \in S : i <= j
    BY <1>0, LeastNatural
  <1>2. i \in 1..n /\ order[i] \in u /\ \A j \in 1..n : j < i => order[j] \notin u
    <2>1. \A j \in 1..n : j < i => ~(i <= j)
      BY DEF S
    <2> QED
      BY <1>1, <2>1 DEF S
  <1>3. Wi!FirstOpen(order, u) = order[i]
    BY <1>2, FirstIs
  <1> QED
    BY <1>2, <1>3

(* What Esc finds first has nothing open that stands on it. *)
LEMMA EscFinds ==
  ASSUME NEW u, u \subseteq Wi!Elements, u # {}
  PROVE  \E i \in 1..23 : /\ Wi!EscOrder[i] \in u
                          /\ \A j \in 1..23 : j < i => Wi!EscOrder[j] \notin u
                          /\ Wi!FirstOpen(Wi!EscOrder, u) = Wi!EscOrder[i]
  <1>1. DOMAIN Wi!EscOrder = 1..23
    BY DEF Wi!EscOrder
  <1>2. \A w \in Wi!Elements : \E i \in 1..23 : Wi!EscOrder[i] = w
    BY DEF Wi!EscOrder, Wi!Elements, Wi!Screens, Wi!Confirms, Wi!Pickers, Wi!Editors
  <1>3. \E i \in 1..23 : Wi!EscOrder[i] \in u
    BY <1>2
  <1> QED
    BY <1>1, <1>3, SomeIsFirst

LEMMA EscLeavesFit ==
  ASSUME NEW u, Fit(u), NEW i \in 1..23, Wi!EscOrder[i] \in u,
         \A j \in 1..23 : j < i => Wi!EscOrder[j] \notin u
  PROVE  Fit(u \ {Wi!EscOrder[i]})
  <1> DEFINE x == Wi!EscOrder[i]
  <1>1. /\ x = "chaos" => "drill" \notin u
        /\ x = "oracle" => "oracleField" \notin u
        /\ x = "table" => "inspector" \notin u
        /\ x = "browser" => "table" \notin u /\ "inspector" \notin u
        /\ x = "log" => "logFilter" \notin u
        /\ x = "panel" => "evict" \notin u /\ "imageEdit" \notin u /\ "inspector" \notin u
    BY DEF Wi!EscOrder
  <1> HIDE DEF x
  <1>2. Fit(u \ {x})
    BY <1>1 DEF Fit, Standing, Beside
  <1> QED
    BY <1>2 DEF x

LEMMA FitEscape ==
  ASSUME NEW f, IsFrame(f), Fit(f.up)
  PROVE  Fit(Wi!KeyEscape(f).up)
  <1>1. CASE f.up = {}
    <2>1. Wi!KeyEscape(f) = f
      BY <1>1 DEF Wi!KeyEscape
    <2> QED
      BY <2>1
  <1>2. CASE f.up # {}
    <2>1. PICK i \in 1..23 : /\ Wi!EscOrder[i] \in f.up
                             /\ \A j \in 1..23 : j < i => Wi!EscOrder[j] \notin f.up
                             /\ Wi!FirstOpen(Wi!EscOrder, f.up) = Wi!EscOrder[i]
      BY <1>2, EscFinds DEF Fit
    <2>2. Wi!KeyEscape(f).up = f.up \ {Wi!EscOrder[i]}
      BY <1>2, <2>1 DEF Wi!KeyEscape, Wi!Set, IsFrame
    <2>3. Fit(f.up \ {Wi!EscOrder[i]})
      BY <2>1, EscLeavesFit
    <2> QED
      BY <2>2, <2>3
  <1> QED
    BY <1>1, <1>2

(* Every key leaves what fits. *)
LEMMA FitKey ==
  ASSUME NEW f, IsFrame(f), Fit(f.up), NEW k \in Wi!Keys
  PROVE  Fit(Wi!Framed(Wi!Handle(k, f).up))
  <1>1. CASE k = "F1"
    BY <1>1, FitAlmanac DEF Wi!Handle
  <1>2. CASE k = "/"
    BY <1>2, FitSlash DEF Wi!Handle
  <1>3. CASE k = "t"
    BY <1>3, FitPlan DEF Wi!Handle
  <1>4. CASE k = "h"
    BY <1>4, FitAnnals DEF Wi!Handle
  <1>5. CASE k = "o"
    BY <1>5, FitWorkloads DEF Wi!Handle
  <1>6. CASE k = ":"
    BY <1>6, FitBrowser DEF Wi!Handle
  <1>7. CASE k = "y"
    BY <1>7, FitInspect DEF Wi!Handle
  <1>8. CASE k = "esc"
    BY <1>8, FitEscape, FitFramed DEF Wi!Handle
  <1>9. CASE k = "c"
    BY <1>9, FitC, FitFramed DEF Wi!Handle
  <1>10. CASE k = "]"
    BY <1>10, FitNavCity, FitFramed DEF Wi!Handle
  <1>11. CASE k = "n"
    BY <1>11, FitNavNext, FitFramed DEF Wi!Handle
  <1>12. CASE k = "enter"
    <2> DEFINE a == Wi!KeyLogEnter(f)
               b == Wi!KeyPickerEnter(a)
               c == Wi!KeyNsEnter(b)
               d == Wi!KeyNavEnter(c)
               e == Wi!KeyImageEnter(d)
    <2>1. IsFrame(a) /\ Fit(a.up)
      BY FitLogEnter
    <2> HIDE DEF a
    <2>2. IsFrame(b) /\ Fit(b.up)
      BY <2>1, FitPickerEnter
    <2> HIDE DEF b
    <2>3. IsFrame(c) /\ Fit(c.up)
      BY <2>2, FitNsEnter
    <2> HIDE DEF c
    <2>4. IsFrame(d) /\ Fit(d.up)
      BY <2>3, FitNavEnter
    <2> HIDE DEF d
    <2>5. Fit(e.up)
      BY <2>4, FitImageEnter
    <2>6. Wi!Handle(k, f) = e
      BY <1>12 DEF Wi!Handle, a, b, c, d, e
    <2> HIDE DEF e
    <2> QED
      BY <2>5, <2>6, FitFramed
  <1>13. CASE k = "l"
    BY <1>13, FitTail, FitFramed DEF Wi!Handle
  <1> QED
    BY <1>1, <1>2, <1>3, <1>4, <1>5, <1>6, <1>7, <1>8, <1>9, <1>10, <1>11, <1>12, <1>13 DEF
           Wi!Keys

-----------------------------------------------------------------------------
(* What a click leaves of a frame. *)
Kept(f, g) == IsFrame(g) /\ g.opened = f.opened

LEMMA FitOnMap ==
  ASSUME NEW at0, NEW f, IsFrame(f), Fit(f.up), NEW g \in Wi!OnMap(at0, f)
  PROVE  IsFrame(g) /\ (at0 # "middle" => g.opened = f.opened) /\ Fit(g.up)
  <1> DEFINE u == f.up
             v == g.up
  <1>1. /\ IsFrame(g) /\ (at0 # "middle" => g.opened = f.opened)
        /\ \/ v = u
           \/ v = u \cup {"panel"} /\ Wi!NavFree(u)
    <2>1. CASE ~(at0 = "middle" /\ Wi!Nav(f))
      <3>1. g = f
        BY <2>1 DEF Wi!OnMap
      <3> QED
        BY <3>1
    <2>2. CASE at0 = "middle" /\ Wi!Nav(f)
      <3>1. \/ g = Wi!Took(f, "map")
            \/ \E p \in {{}, {"panel"}} : \E s \in BOOLEAN :
                 g = [Wi!Took(f, "map") EXCEPT !.selected = s, !.up = @ \cup p, !.opened = p]
        BY <2>2 DEF Wi!OnMap
      <3>2. CASE g = Wi!Took(f, "map")
        BY <2>2, <3>2 DEF Wi!Took, IsFrame
      <3>3. ASSUME NEW p \in {{}, {"panel"}}, NEW s \in BOOLEAN,
                   g = [Wi!Took(f, "map") EXCEPT !.selected = s, !.up = @ \cup p, !.opened = p]
            PROVE  IsFrame(g) /\ v = u \cup p
        BY <3>3 DEF Wi!Took, IsFrame
      <3> QED
        BY <2>2, <3>1, <3>2, <3>3 DEF Wi!Nav
    <2> QED
      BY <2>1, <2>2
  <1> HIDE DEF v
  <1>2. ASSUME v = u PROVE Fit(v)
    BY <1>2
  <1>3. ASSUME v = u \cup {"panel"} /\ Wi!NavFree(u) PROVE Fit(v)
    BY <1>3 DEF Wi!NavFree, Fit, Standing, Beside, Wi!Open, Wi!Screens, Wi!Confirms,
                Wi!Pickers, Wi!Editors, Wi!Elements
  <1> QED
    BY <1>1, <1>2, <1>3 DEF v

LEMMA FitOnPanel ==
  ASSUME NEW at0, NEW f, IsFrame(f), Fit(f.up), NEW g \in Wi!OnPanel(at0, f)
  PROVE  Kept(f, g) /\ Fit(g.up)
  <1> DEFINE u == f.up
             v == g.up
  <1>1. /\ Kept(f, g)
        /\ \/ v = u
           \/ v = (u \ {"panel", "imageEdit"}) \ {"log", "logFilter"} /\ ~Wi!Open(u, {"plan", "log", "evict", "inspector"})
           \/ v = u \cup {"imageEdit"} /\ "panel" \in u /\ ~Wi!Open(u, {"plan", "log", "evict", "inspector"})
           \/ \E w \in {"log", "inspector", "evict"} : v = u \cup {w} /\ "panel" \in u /\ "imageEdit" \notin u /\ ~Wi!Open(u, {"plan", "log", "evict", "inspector"})
    BY DEF Wi!OnPanel, Wi!PanelTakes, Wi!Took, Wi!Set, Wi!Of, Wi!Owns, IsFrame, Kept
  <1> HIDE DEF v
  <1>2. ASSUME v = u PROVE Fit(v)
    BY <1>2 DEF Fit, Standing, Beside, Wi!Open, Wi!Screens, Wi!Confirms, Wi!Pickers,
                Wi!Editors, Wi!Elements
  <1>3. ASSUME v = (u \ {"panel", "imageEdit"}) \ {"log", "logFilter"} /\ ~Wi!Open(u, {"plan", "log", "evict", "inspector"}) PROVE Fit(v)
    BY <1>3 DEF Fit, Standing, Beside, Wi!Open, Wi!Screens, Wi!Confirms, Wi!Pickers,
                Wi!Editors, Wi!Elements
  <1>4. ASSUME v = u \cup {"imageEdit"} /\ "panel" \in u /\ ~Wi!Open(u, {"plan", "log", "evict", "inspector"}) PROVE Fit(v)
    BY <1>4 DEF Fit, Standing, Beside, Wi!Open, Wi!Screens, Wi!Confirms, Wi!Pickers,
                Wi!Editors, Wi!Elements
  <1>5. ASSUME \E w \in {"log", "inspector", "evict"} : v = u \cup {w} /\ "panel" \in u /\ "imageEdit" \notin u /\ ~Wi!Open(u, {"plan", "log", "evict", "inspector"}) PROVE Fit(v)
    BY <1>5 DEF Fit, Standing, Beside, Wi!Open, Wi!Screens, Wi!Confirms, Wi!Pickers,
                Wi!Editors, Wi!Elements
  <1> QED
    BY <1>1, <1>2, <1>3, <1>4, <1>5 DEF v

LEMMA FitOnPlan ==
  ASSUME NEW f, IsFrame(f), Fit(f.up), NEW g \in Wi!OnPlan(f)
  PROVE  Kept(f, g) /\ Fit(g.up)
  <1> DEFINE u == f.up
             v == g.up
  <1>1. /\ Kept(f, g)
        /\ \/ v = u
           \/ v = u \cup {"commit"} /\ "plan" \in u
           \/ v = u \ {"plan"}
    BY DEF Wi!OnPlan, Wi!Took, Wi!Set, Wi!Of, Wi!Owns, IsFrame, Kept
  <1> HIDE DEF v
  <1>2. ASSUME v = u PROVE Fit(v)
    BY <1>2 DEF Fit, Standing, Beside, Wi!Open, Wi!Screens, Wi!Confirms, Wi!Pickers,
                Wi!Editors, Wi!Elements
  <1>3. ASSUME v = u \cup {"commit"} /\ "plan" \in u PROVE Fit(v)
    BY <1>3 DEF Fit, Standing, Beside, Wi!Open, Wi!Screens, Wi!Confirms, Wi!Pickers,
                Wi!Editors, Wi!Elements
  <1>4. ASSUME v = u \ {"plan"} PROVE Fit(v)
    BY <1>4 DEF Fit, Standing, Beside, Wi!Open, Wi!Screens, Wi!Confirms, Wi!Pickers,
                Wi!Editors, Wi!Elements
  <1> QED
    BY <1>1, <1>2, <1>3, <1>4 DEF v

LEMMA FitOnLog ==
  ASSUME NEW f, IsFrame(f), Fit(f.up), NEW g \in Wi!OnLog(f)
  PROVE  Kept(f, g) /\ Fit(g.up)
  <1> DEFINE u == f.up
             v == g.up
  <1>1. /\ Kept(f, g)
        /\ \/ v = u
    BY DEF Wi!OnLog, Wi!Took, Wi!Set, Wi!Of, Wi!Owns, IsFrame, Kept
  <1> HIDE DEF v
  <1>2. ASSUME v = u PROVE Fit(v)
    BY <1>2 DEF Fit, Standing, Beside, Wi!Open, Wi!Screens, Wi!Confirms, Wi!Pickers,
                Wi!Editors, Wi!Elements
  <1> QED
    BY <1>1, <1>2 DEF v

LEMMA FitOnBar ==
  ASSUME NEW at0, NEW f, IsFrame(f), Fit(f.up), NEW g \in Wi!OnBar(at0, f)
  PROVE  Kept(f, g) /\ Fit(g.up)
  <1> DEFINE u == f.up
             v == g.up
  <1>1. /\ Kept(f, g)
        /\ \/ v = u
           \/ v = u \ {"menu"}
           \/ v = (u \ {"menu"}) \cup {"menu"} /\ Wi!MenuLive(u)
           \/ v = u \cup {"menu"} /\ Wi!MenuLive(u)
           \/ \E w \in Wi!MenuItems : v = (u \ {"menu"}) \cup {w} /\ "menu" \in u
    BY DEF Wi!OnBar, Wi!Took, Wi!Set, Wi!Of, Wi!Owns, IsFrame, Kept
  <1> HIDE DEF v
  <1>2. ASSUME v = u PROVE Fit(v)
    BY <1>2 DEF Fit, Standing, Beside, Wi!MenuLive, Wi!MenuItems, Wi!Open, Wi!Screens,
                Wi!Confirms, Wi!Pickers, Wi!Editors, Wi!Elements
  <1>3. ASSUME v = u \ {"menu"} PROVE Fit(v)
    BY <1>3 DEF Fit, Standing, Beside, Wi!MenuLive, Wi!MenuItems, Wi!Open, Wi!Screens,
                Wi!Confirms, Wi!Pickers, Wi!Editors, Wi!Elements
  <1>4. ASSUME v = (u \ {"menu"}) \cup {"menu"} /\ Wi!MenuLive(u) PROVE Fit(v)
    BY <1>4 DEF Fit, Standing, Beside, Wi!MenuLive, Wi!MenuItems, Wi!Open, Wi!Screens,
                Wi!Confirms, Wi!Pickers, Wi!Editors, Wi!Elements
  <1>5. ASSUME v = u \cup {"menu"} /\ Wi!MenuLive(u) PROVE Fit(v)
    BY <1>5 DEF Fit, Standing, Beside, Wi!MenuLive, Wi!MenuItems, Wi!Open, Wi!Screens,
                Wi!Confirms, Wi!Pickers, Wi!Editors, Wi!Elements
  <1>6. ASSUME \E w \in Wi!MenuItems : v = (u \ {"menu"}) \cup {w} /\ "menu" \in u PROVE Fit(v)
    BY <1>6 DEF Fit, Standing, Beside, Wi!MenuLive, Wi!MenuItems, Wi!Open, Wi!Screens,
                Wi!Confirms, Wi!Pickers, Wi!Editors, Wi!Elements
  <1> QED
    BY <1>1, <1>2, <1>3, <1>4, <1>5, <1>6 DEF v

LEMMA FitOnPicker ==
  ASSUME NEW f, IsFrame(f), Fit(f.up), NEW g \in Wi!OnPicker(f)
  PROVE  Kept(f, g) /\ Fit(g.up)
  <1> DEFINE u == f.up
             v == g.up
  <1>1. /\ Kept(f, g)
        /\ \/ v = u
           \/ "picker" \in u /\ v = ((u \ {"picker"}) \ {"panel"}) \ {"log", "logFilter"}
    BY DEF Wi!OnPicker, Wi!Switched, Wi!Took, Wi!Set, Wi!Of, Wi!Owns, IsFrame, Kept
  <1> HIDE DEF v
  <1>2. ASSUME v = u PROVE Fit(v)
    BY <1>2 DEF Fit, Standing, Beside, Wi!Open, Wi!Screens, Wi!Confirms, Wi!Pickers,
                Wi!Editors, Wi!Elements
  <1>3. ASSUME "picker" \in u /\ v = ((u \ {"picker"}) \ {"panel"}) \ {"log", "logFilter"} PROVE Fit(v)
    BY <1>3 DEF Fit, Standing, Beside, Wi!Open, Wi!Screens, Wi!Confirms, Wi!Pickers,
                Wi!Editors, Wi!Elements
  <1> QED
    BY <1>1, <1>2, <1>3 DEF v

LEMMA FitOnNsPicker ==
  ASSUME NEW f, IsFrame(f), Fit(f.up), NEW g \in Wi!OnNsPicker(f)
  PROVE  Kept(f, g) /\ Fit(g.up)
  <1> DEFINE u == f.up
             v == g.up
  <1>1. /\ Kept(f, g)
        /\ \/ v = u
           \/ v = u \ {"nsPicker"}
    BY DEF Wi!OnNsPicker, Wi!Took, Wi!Set, Wi!Of, Wi!Owns, IsFrame, Kept
  <1> HIDE DEF v
  <1>2. ASSUME v = u PROVE Fit(v)
    BY <1>2 DEF Fit, Standing, Beside, Wi!Open, Wi!Screens, Wi!Confirms, Wi!Pickers,
                Wi!Editors, Wi!Elements
  <1>3. ASSUME v = u \ {"nsPicker"} PROVE Fit(v)
    BY <1>3 DEF Fit, Standing, Beside, Wi!Open, Wi!Screens, Wi!Confirms, Wi!Pickers,
                Wi!Editors, Wi!Elements
  <1> QED
    BY <1>1, <1>2, <1>3 DEF v

LEMMA FitOnChaos ==
  ASSUME NEW f, IsFrame(f), Fit(f.up), NEW g \in Wi!OnChaos(f)
  PROVE  Kept(f, g) /\ Fit(g.up)
  <1> DEFINE u == f.up
             v == g.up
  <1>1. /\ Kept(f, g)
        /\ \/ v = u
           \/ v = u \ {"chaos"} /\ "drill" \notin u
           \/ v = u \cup {"drill"} /\ "chaos" \in u
    BY DEF Wi!OnChaos, Wi!Took, Wi!Set, Wi!Of, Wi!Owns, IsFrame, Kept
  <1> HIDE DEF v
  <1>2. ASSUME v = u PROVE Fit(v)
    BY <1>2 DEF Fit, Standing, Beside, Wi!Open, Wi!Screens, Wi!Confirms, Wi!Pickers,
                Wi!Editors, Wi!Elements
  <1>3. ASSUME v = u \ {"chaos"} /\ "drill" \notin u PROVE Fit(v)
    BY <1>3 DEF Fit, Standing, Beside, Wi!Open, Wi!Screens, Wi!Confirms, Wi!Pickers,
                Wi!Editors, Wi!Elements
  <1>4. ASSUME v = u \cup {"drill"} /\ "chaos" \in u PROVE Fit(v)
    BY <1>4 DEF Fit, Standing, Beside, Wi!Open, Wi!Screens, Wi!Confirms, Wi!Pickers,
                Wi!Editors, Wi!Elements
  <1> QED
    BY <1>1, <1>2, <1>3, <1>4 DEF v

LEMMA FitOnInspector ==
  ASSUME NEW f, IsFrame(f), Fit(f.up), NEW g \in Wi!OnInspector(f)
  PROVE  Kept(f, g) /\ Fit(g.up)
  <1> DEFINE u == f.up
             v == g.up
  <1>1. /\ Kept(f, g)
        /\ \/ v = u
           \/ v = u \ {"inspector"}
    BY DEF Wi!OnInspector, Wi!Took, Wi!Set, Wi!Of, Wi!Owns, IsFrame, Kept
  <1> HIDE DEF v
  <1>2. ASSUME v = u PROVE Fit(v)
    BY <1>2 DEF Fit, Standing, Beside, Wi!Open, Wi!Screens, Wi!Confirms, Wi!Pickers,
                Wi!Editors, Wi!Elements
  <1>3. ASSUME v = u \ {"inspector"} PROVE Fit(v)
    BY <1>3 DEF Fit, Standing, Beside, Wi!Open, Wi!Screens, Wi!Confirms, Wi!Pickers,
                Wi!Editors, Wi!Elements
  <1> QED
    BY <1>1, <1>2, <1>3 DEF v

LEMMA FitOnBrowser ==
  ASSUME NEW f, IsFrame(f), Fit(f.up), NEW g \in Wi!OnBrowser(f)
  PROVE  Kept(f, g) /\ Fit(g.up)
  <1> DEFINE u == f.up
             v == g.up
  <1>1. /\ Kept(f, g)
        /\ \/ v = u
           \/ v = u \ {"browser", "table"} /\ "inspector" \notin u
           \/ v = u \ {"table"} /\ "inspector" \notin u
           \/ v = u \cup {"inspector"} /\ "table" \in u
           \/ v = u \cup {"table"} /\ "browser" \in u
    BY DEF Wi!OnBrowser, Wi!Took, Wi!Set, Wi!Of, Wi!Owns, IsFrame, Kept
  <1> HIDE DEF v
  <1>2. ASSUME v = u PROVE Fit(v)
    BY <1>2 DEF Fit, Standing, Beside, Wi!Open, Wi!Screens, Wi!Confirms, Wi!Pickers,
                Wi!Editors, Wi!Elements
  <1>3. ASSUME v = u \ {"browser", "table"} /\ "inspector" \notin u PROVE Fit(v)
    BY <1>3 DEF Fit, Standing, Beside, Wi!Open, Wi!Screens, Wi!Confirms, Wi!Pickers,
                Wi!Editors, Wi!Elements
  <1>4. ASSUME v = u \ {"table"} /\ "inspector" \notin u PROVE Fit(v)
    BY <1>4 DEF Fit, Standing, Beside, Wi!Open, Wi!Screens, Wi!Confirms, Wi!Pickers,
                Wi!Editors, Wi!Elements
  <1>5. ASSUME v = u \cup {"inspector"} /\ "table" \in u PROVE Fit(v)
    BY <1>5 DEF Fit, Standing, Beside, Wi!Open, Wi!Screens, Wi!Confirms, Wi!Pickers,
                Wi!Editors, Wi!Elements
  <1>6. ASSUME v = u \cup {"table"} /\ "browser" \in u PROVE Fit(v)
    BY <1>6 DEF Fit, Standing, Beside, Wi!Open, Wi!Screens, Wi!Confirms, Wi!Pickers,
                Wi!Editors, Wi!Elements
  <1> QED
    BY <1>1, <1>2, <1>3, <1>4, <1>5, <1>6 DEF v

LEMMA FitOnConfirm ==
  ASSUME NEW w \in Wi!Confirms, NEW f, IsFrame(f), Fit(f.up), NEW g \in Wi!OnConfirm(w, f)
  PROVE  Kept(f, g) /\ Fit(g.up)
  <1> DEFINE u == f.up
             v == g.up
  <1>1. /\ Kept(f, g)
        /\ \/ v = u
           \/ v = u \ {w}
    BY DEF Wi!OnConfirm, Wi!Took, Wi!Set, Wi!Of, Wi!Owns, IsFrame, Kept
  <1> HIDE DEF v
  <1>2. ASSUME v = u PROVE Fit(v)
    BY <1>2 DEF Fit, Standing, Beside, Wi!Open, Wi!Screens, Wi!Confirms, Wi!Pickers,
                Wi!Editors, Wi!Elements
  <1>3. ASSUME v = u \ {w} PROVE Fit(v)
    BY <1>3 DEF Fit, Standing, Beside, Wi!Open, Wi!Screens, Wi!Confirms, Wi!Pickers,
                Wi!Editors, Wi!Elements
  <1> QED
    BY <1>1, <1>2, <1>3 DEF v

LEMMA FitOnScreen ==
  ASSUME NEW w \in Wi!Screens \ {"browser", "chaos"}, NEW f, IsFrame(f), Fit(f.up),
         NEW g \in Wi!OnScreen(w, f)
  PROVE  Kept(f, g) /\ Fit(g.up)
  <1> DEFINE u == f.up
             v == g.up
  <1>1. /\ Kept(f, g)
        /\ \/ v = u
           \/ w = "oracle" /\ v = u \ {"oracle", "oracleField"}
           \/ w # "oracle" /\ v = u \ {w}
           \/ v = u \cup {"oracleField"} /\ "oracle" \in u
           \/ v = u \ {"oracleField"}
           \/ v = (u \ {"workloads"}) \cup {"panel"} /\ "workloads" \in u
    <2>1. CASE w \notin u
      BY <2>1 DEF Wi!OnScreen, Kept
    <2>2. CASE w \in u /\ w = "oracle"
      <3>1. Wi!Of(w) = {"oracle", "oracleField"}
        BY <2>2 DEF Wi!Of, Wi!Owns
      <3> QED
        BY <2>2, <3>1 DEF Wi!OnScreen, Wi!Took, Wi!Set, IsFrame, Kept
    <2>3. CASE w \in u /\ w # "oracle"
      <3>1. Wi!Of(w) = {w}
        BY <2>3 DEF Wi!Of, Wi!Owns, Wi!Screens
      <3>2. CASE w = "workloads"
        <4> DEFINE h == Wi!Took(f, w)
                   c == Wi!Set(h, u \ Wi!Of(w))
        <4>1. IsFrame(h) /\ h.up = u /\ h.opened = f.opened
          BY DEF Wi!Took, IsFrame
        <4>2. IsFrame(c) /\ c.up = u \ {w} /\ c.opened = f.opened
          BY <3>1, <4>1 DEF Wi!Set, IsFrame
        <4>3. \/ g = h \/ g = c
              \/ \E s \in {TRUE, f.selected} :
                   g = [c EXCEPT !.up = @ \cup {"panel"}, !.selected = s]
          BY <2>3, <3>2 DEF Wi!OnScreen
        <4> HIDE DEF h, c
        <4>4. CASE g = h \/ g = c
          BY <2>3, <4>1, <4>2, <4>4 DEF Kept
        <4>5. ASSUME NEW s, g = [c EXCEPT !.up = @ \cup {"panel"}, !.selected = s]
              PROVE  Kept(f, g) /\ v = (u \ {w}) \cup {"panel"}
          BY <4>2, <4>5 DEF IsFrame, Kept
        <4> QED
          BY <2>3, <3>2, <4>3, <4>4, <4>5
      <3>3. CASE w = "almanac"
        BY <2>3, <3>1, <3>3 DEF Wi!OnScreen, Wi!Took, Wi!Set, IsFrame, Kept
      <3>4. CASE w \notin {"workloads", "almanac"}
        BY <2>3, <3>1, <3>4 DEF Wi!OnScreen, Wi!Took, Wi!Set, IsFrame, Kept
      <3> QED
        BY <3>2, <3>3, <3>4
    <2> QED
      BY <2>1, <2>2, <2>3
  <1> HIDE DEF v
  <1>2. ASSUME v = u PROVE Fit(v)
    BY <1>2 DEF Fit, Standing, Beside, Wi!Open, Wi!Screens, Wi!Confirms, Wi!Pickers,
                Wi!Editors, Wi!Elements
  <1>3. ASSUME w = "oracle" /\ v = u \ {"oracle", "oracleField"} PROVE Fit(v)
    BY <1>3 DEF Fit, Standing, Beside, Wi!Open, Wi!Screens, Wi!Confirms, Wi!Pickers,
                Wi!Editors, Wi!Elements
  <1>4. ASSUME w # "oracle" /\ v = u \ {w} PROVE Fit(v)
    BY <1>4 DEF Fit, Standing, Beside, Wi!Open, Wi!Screens, Wi!Confirms, Wi!Pickers,
                Wi!Editors, Wi!Elements
  <1>5. ASSUME v = u \cup {"oracleField"} /\ "oracle" \in u PROVE Fit(v)
    BY <1>5 DEF Fit, Standing, Beside, Wi!Open, Wi!Screens, Wi!Confirms, Wi!Pickers,
                Wi!Editors, Wi!Elements
  <1>6. ASSUME v = u \ {"oracleField"} PROVE Fit(v)
    BY <1>6 DEF Fit, Standing, Beside, Wi!Open, Wi!Screens, Wi!Confirms, Wi!Pickers,
                Wi!Editors, Wi!Elements
  <1>7. ASSUME v = (u \ {"workloads"}) \cup {"panel"} /\ "workloads" \in u PROVE Fit(v)
    BY <1>7 DEF Fit, Standing, Beside, Wi!Open, Wi!Screens, Wi!Confirms, Wi!Pickers,
                Wi!Editors, Wi!Elements
  <1> QED
    BY <1>1, <1>2, <1>3, <1>4, <1>5, <1>6, <1>7 DEF v

(* Under the namespace picker a row of the column opens a drill-down, which the
   same click then closes. *)
Crossed(u) == snap /\ u = {"nsPicker", "panel"}

LEMMA FitOnColumn ==
  ASSUME NEW at0, NEW f, IsFrame(f), Fit(f.up), NEW g \in Wi!OnColumn(at0, f)
  PROVE  Kept(f, g) /\ (Fit(g.up) \/ (at0 = "row" /\ Crossed(g.up)))
  <1> DEFINE u == f.up
             v == g.up
  <1>1. /\ Kept(f, g)
        /\ \/ v = u
           \/ v = u \cup {"panel"} /\ Wi!ColumnFree(u) /\ at0 = "row" /\ snap
    BY DEF Wi!OnColumn, Wi!Took, IsFrame, Kept
  <1> HIDE DEF v
  <1>2. ASSUME v = u PROVE Fit(v)
    BY <1>2
  <1>3. ASSUME v = u \cup {"panel"} /\ Wi!ColumnFree(u) /\ at0 = "row" /\ snap
        PROVE  Fit(v) \/ (at0 = "row" /\ Crossed(v))
    <2>1. CASE "nsPicker" \notin u
      <3>1. Fit(v)
        BY <1>3, <2>1 DEF Wi!ColumnFree, Fit, Standing, Beside, Wi!Open, Wi!Screens,
                          Wi!Confirms, Wi!Pickers, Wi!Editors, Wi!Elements
      <3> QED
        BY <3>1
    <2>2. CASE "nsPicker" \in u
      <3>1. u = {"nsPicker"}
        BY <1>3, <2>2 DEF Wi!ColumnFree, Fit, Beside, Wi!Open, Wi!Screens
      <3> QED
        BY <1>3, <3>1 DEF Crossed
    <2> QED
      BY <2>1, <2>2
  <1> QED
    BY <1>1, <1>2, <1>3 DEF v

LEMMA PanelUncrosses ==
  ASSUME NEW f, IsFrame(f), Crossed(f.up), f.opened = {}, NEW g \in Wi!OnPanel("row", f)
  PROVE  Kept(f, g) /\ Fit(g.up)
  <1>1. Wi!PanelTakes(f)
    BY DEF Wi!PanelTakes, Crossed, Wi!Open
  <1>2. g = Wi!Set(Wi!Took(f, "panel"), (f.up \ Wi!Of("panel")) \ Wi!Of("log"))
    BY <1>1 DEF Wi!OnPanel
  <1>3. Kept(f, g) /\ g.up = (f.up \ Wi!Of("panel")) \ Wi!Of("log")
    BY <1>2 DEF Wi!Set, Wi!Took, IsFrame, Kept
  <1>4. g.up = {"nsPicker"}
    BY <1>3 DEF Crossed, Wi!Of, Wi!Owns
  <1>5. Fit({"nsPicker"})
    BY DEF Fit, Standing, Beside, Wi!Elements, Wi!Pickers
  <1> QED
    BY <1>3, <1>4, <1>5

(* What the frame is once the first i receivers have had the click. *)
Ok(i, at0, f) ==
  /\ IsFrame(f)
  /\ at0 # "middle" => f.opened = {}
  /\ Fit(f.up) \/ (i = 2 /\ at0 = "row" /\ Crossed(f.up))

LEMMA ReactOk ==
  ASSUME NEW i \in 1..21, NEW at0, NEW f, Ok(i - 1, at0, f),
         NEW g \in Wi!React(Wi!Receivers[i], at0, f)
  PROVE  Ok(i, at0, g)
  <1> DEFINE w == Wi!Receivers[i]
  <1>1. CASE g = f /\ i # 3
    <2>1. Fit(f.up)
      BY <1>1 DEF Ok
    <2> QED
      BY <1>1, <2>1 DEF Ok
  <1>2. CASE i = 3
    <2>1. w = "panel"
      BY <1>2 DEF Wi!Receivers
    <2>2. g \in Wi!OnPanel(at0, f)
      BY <2>1 DEF Wi!React, Wi!Confirms
    <2>3. CASE Fit(f.up)
      <3>1. Kept(f, g) /\ Fit(g.up)
        BY <2>2, <2>3, FitOnPanel DEF Ok
      <3> QED
        BY <3>1 DEF Ok, Kept
    <2>4. CASE ~Fit(f.up)
      <3>1. at0 = "row" /\ Crossed(f.up) /\ IsFrame(f) /\ f.opened = {}
        BY <2>4 DEF Ok
      <3>2. Kept(f, g) /\ Fit(g.up)
        BY <2>2, <3>1, PanelUncrosses
      <3> QED
        BY <3>1, <3>2 DEF Ok, Kept
    <2> QED
      BY <2>3, <2>4
  <1>3. CASE i # 3 /\ g # f
    <2>0. IsFrame(f) /\ Fit(f.up) /\ (at0 # "middle" => f.opened = {})
      BY <1>3 DEF Ok
    <2> SUFFICES /\ IsFrame(g) /\ (at0 # "middle" => g.opened = f.opened)
                 /\ Fit(g.up) \/ (i = 2 /\ at0 = "row" /\ Crossed(g.up))
      BY <2>0 DEF Ok
    <2>1. CASE w = "map"
      BY <2>0, <2>1, <1>3, FitOnMap DEF Wi!React, Wi!Confirms
    <2>2. CASE w = "column"
      <3>1. i = 2
        BY <2>2 DEF Wi!Receivers
      <3> QED
        BY <2>0, <2>2, <3>1, <1>3, FitOnColumn DEF Wi!React, Wi!Confirms, Kept
    <2>3. CASE w = "plan"
      BY <2>0, <2>3, <1>3, FitOnPlan DEF Wi!React, Wi!Confirms, Kept
    <2>4. CASE w = "log"
      BY <2>0, <2>4, <1>3, FitOnLog DEF Wi!React, Wi!Confirms, Kept
    <2>5. CASE w = "menu"
      BY <2>0, <2>5, <1>3, FitOnBar DEF Wi!React, Wi!Confirms, Kept
    <2>6. CASE w = "picker"
      BY <2>0, <2>6, <1>3, FitOnPicker DEF Wi!React, Wi!Confirms, Kept
    <2>7. CASE w = "nsPicker"
      BY <2>0, <2>7, <1>3, FitOnNsPicker DEF Wi!React, Wi!Confirms, Kept
    <2>8. CASE w = "chaos"
      BY <2>0, <2>8, <1>3, FitOnChaos DEF Wi!React, Wi!Confirms, Kept
    <2>9. CASE w = "inspector"
      BY <2>0, <2>9, <1>3, FitOnInspector DEF Wi!React, Wi!Confirms, Kept
    <2>10. CASE w = "browser"
      BY <2>0, <2>10, <1>3, FitOnBrowser DEF Wi!React, Wi!Confirms, Kept
    <2>11. CASE w \in Wi!Confirms
      <3>1. g \in Wi!OnConfirm(w, f)
        BY <2>11, <1>3 DEF Wi!React, Wi!Confirms
      <3> QED
        BY <2>0, <2>11, <3>1, FitOnConfirm DEF Kept
    <2>12. CASE w \in Wi!Screens \ {"browser", "chaos"}
      <3>1. g \in Wi!OnScreen(w, f)
        BY <2>12, <1>3 DEF Wi!React, Wi!Confirms, Wi!Screens
      <3> QED
        BY <2>0, <2>12, <3>1, FitOnScreen DEF Kept
    <2>13. w = "panel" => i = 3
      BY DEF Wi!Receivers
    <2>14. w \in {"map", "column", "panel", "plan", "log", "menu", "picker", "nsPicker",
                  "inspector"} \cup Wi!Screens \cup Wi!Confirms
      BY DEF Wi!Receivers, Wi!Screens, Wi!Confirms
    <2> QED
      BY <1>3, <2>1, <2>2, <2>3, <2>4, <2>5, <2>6, <2>7, <2>8, <2>9, <2>10, <2>11, <2>12,
         <2>13, <2>14
  <1> QED
    BY <1>1, <1>2, <1>3

(* The recursion of Passed, out of its LET. *)
Handed(at0, by, i) ==
  IF i = 0 THEN {Wi!Frame} ELSE UNION {Wi!React(Wi!Receivers[i], at0, g) : g \in by[i - 1]}

PassedBy(at0) == CHOOSE by : by = [i \in 0..Len(Wi!Receivers) |-> Handed(at0, by, i)]

LEMMA PassedIs ==
  ASSUME NEW at0
  PROVE  Wi!Passed(at0) = PassedBy(at0)[21] /\ Len(Wi!Receivers) = 21
  <1>1. Len(Wi!Receivers) = 21
    BY DEF Wi!Receivers
  <1>2. Wi!Passed(at0) = PassedBy(at0)[Len(Wi!Receivers)]
    BY DEF Wi!Passed, PassedBy, Handed
  <1> QED
    BY <1>1, <1>2

LEMMA ByIs ==
  ASSUME NEW at0
  PROVE  PassedBy(at0) = [i \in 0..21 |-> Handed(at0, PassedBy(at0), i)]
  <1> DEFINE Does(f, k) == f = [c \in 0..k |-> Handed(at0, f, c)]
             T == {k \in 0..21 : \E f : Does(f, k)}
  <1>1. 0 \in T
    <2>1. Does([c \in 0..0 |-> {Wi!Frame}], 0)
      BY DEF Handed
    <2> QED
      BY <2>1
  <1>2. ASSUME NEW k \in 1..21, k - 1 \in T
        PROVE  k \in T
    <2>1. PICK f : Does(f, k - 1)
      BY <1>2
    <2> DEFINE g == [c \in 0..k |-> IF c = k THEN Handed(at0, f, k) ELSE f[c]]
    <2>2. \A c \in 0..k : g[c] = Handed(at0, f, c)
      <3>1. \A c \in 0..k : c # k => c \in 0..(k - 1)
        OBVIOUS
      <3> QED
        BY <2>1, <3>1
    <2>3. \A c \in 0..k : c # 0 => g[c - 1] = f[c - 1]
      OBVIOUS
    <2>4. \A c \in 0..k : Handed(at0, f, c) = Handed(at0, g, c)
      BY <2>3 DEF Handed
    <2> HIDE DEF g
    <2>5. g = [c \in 0..k |-> g[c]]
      BY DEF g
    <2>6. Does(g, k)
      BY <2>2, <2>4, <2>5
    <2> QED
      BY <2>6
  <1> HIDE DEF T
  <1>3. T = 0..21
    <2>1. T \in SUBSET (0..21)
      BY DEF T
    <2> QED
      BY <1>1, <1>2, <2>1, UpFromZero
  <1>4. PICK f : Does(f, 21)
    <2>1. 21 \in T
      BY <1>3
    <2> QED
      BY <2>1 DEF T
  <1>5. f = [c \in 0..21 |-> Handed(at0, f, c)]
    BY <1>4
  <1> QED
    BY <1>5, PassedIs DEF PassedBy

LEMMA FitClick ==
  ASSUME NEW at0, Fit(up), NEW f \in Wi!Passed(at0)
  PROVE  Fit(f.up)
  <1> DEFINE by == PassedBy(at0)
             T == {k \in 0..21 : \A g \in by[k] : Ok(k, at0, g)}
  <1>0. \A k \in 0..21 : by[k] = Handed(at0, by, k)
    BY ByIs
  <1> HIDE DEF by
  <1>1. 0 \in T
    <2>1. by[0] = {Wi!Frame}
      BY <1>0 DEF Handed
    <2>2. IsFrame(Wi!Frame) /\ Wi!Frame.opened = {} /\ Wi!Frame.up = up
      BY DEF Wi!Frame, IsFrame
    <2> QED
      BY <2>1, <2>2 DEF Ok
  <1>2. ASSUME NEW k \in 1..21, k - 1 \in T
        PROVE  k \in T
    <2>1. by[k] = UNION {Wi!React(Wi!Receivers[k], at0, g) : g \in by[k - 1]}
      BY <1>0 DEF Handed
    <2>2. ASSUME NEW g \in by[k] PROVE Ok(k, at0, g)
      <3>1. PICK h \in by[k - 1] : g \in Wi!React(Wi!Receivers[k], at0, h)
        BY <2>1
      <3>2. Ok(k - 1, at0, h)
        BY <1>2, <3>1
      <3> QED
        BY <3>1, <3>2, ReactOk
    <2> QED
      BY <2>2
  <1> HIDE DEF T
  <1>3. T = 0..21
    <2>1. T \in SUBSET (0..21)
      BY DEF T
    <2> QED
      BY <1>1, <1>2, <2>1, UpFromZero
  <1>4. Ok(21, at0, f)
    BY <1>3, PassedIs DEF T, by
  <1> QED
    BY <1>4 DEF Ok

(* The window's invariant, and that it is inductive. *)
LEMMA FitInductive ==
  ASSUME Fit(up), [Wi!Next]_windowVars
  PROVE  Fit(up')
  <1>1. ASSUME NEW k \in Wi!Keys, Wi!Press(k) PROVE Fit(up')
    <2>1. IsFrame(Wi!Frame) /\ Wi!Frame.up = up
      BY DEF Wi!Frame, IsFrame
    <2>2. up' = Wi!Framed(Wi!Handle(k, Wi!Frame).up)
      BY <1>1 DEF Wi!Press, Wi!Ends
    <2> QED
      BY <2>1, <2>2, FitKey
  <1>2. ASSUME NEW at0 \in Wi!Places, Wi!Click(at0) PROVE Fit(up')
    <2>1. PICK f \in Wi!Passed(at0) : Wi!Ends(f, at0)
      BY <1>2 DEF Wi!Click
    <2>2. up' = Wi!Framed(f.up)
      BY <2>1 DEF Wi!Ends
    <2> QED
      BY <2>2, FitClick, FitFramed
  <1>3. ASSUME Wi!TurnApplied PROVE Fit(up')
    <2>1. Fit(up \ {"plan"})
      BY DEF Fit, Standing, Beside
    <2> QED
      BY <1>3, <2>1, FitFramed DEF Wi!TurnApplied
  <1>4. ASSUME Wi!TurnRefused \/ Wi!SnapshotGoes \/ Wi!SwitchFails \/ Wi!SnapshotComes
               \/ UNCHANGED windowVars
        PROVE  Fit(up')
    <2>1. up' = up
      BY <1>4 DEF Wi!TurnRefused, Wi!SnapshotGoes, Wi!SwitchFails, Wi!SnapshotComes, windowVars,
                  Wi!Outside
    <2> QED
      BY <2>1
  <1> QED
    BY <1>1, <1>2, <1>3, <1>4 DEF Wi!Next

LEMMA FitStarts == Init => Fit(up)
  BY DEF Init, Wi!Init, Fit, Standing, Beside

LEMMA FitStep == Fit(up) /\ [Next]_vars => Fit(up')
  <1> SUFFICES ASSUME Fit(up), [Next]_vars PROVE Fit(up')
    OBVIOUS
  <1>1. [Wi!Next]_windowVars
    BY DEF Next, vars
  <1> QED
    BY <1>1, FitInductive

LEMMA FitAlways == Spec => []Fit(up)
  <1> DEFINE I == Fit(up)
  <1>1. Init => I
    BY FitStarts
  <1>2. I /\ [Next]_vars => I'
    BY FitStep
  <1> HIDE DEF I
  <1>3. Spec => []I
    BY <1>1, <1>2, PTL DEF Spec
  <1> QED
    BY <1>3 DEF I

LEMMA FitHolds == Fit(up) => NothingIsOrphaned
  <1> SUFFICES ASSUME Fit(up) PROVE Wi!NothingIsOrphaned
    BY DEF NothingIsOrphaned
  <1>1. /\ Wi!Of("browser") = {"browser", "table"} /\ Wi!Of("log") = {"log", "logFilter"}
        /\ Wi!Of("oracle") = {"oracle", "oracleField"} /\ Wi!Of("panel") = {"panel", "imageEdit"}
        /\ DOMAIN Wi!Owns = {"browser", "log", "oracle", "panel"}
    BY DEF Wi!Of, Wi!Owns
  <1>2. \A w \in DOMAIN Wi!Owns : Wi!Open(up, Wi!Of(w)) => w \in up
    BY <1>1 DEF Fit, Standing, Wi!Open
  <1> QED
    BY <1>2 DEF Fit, Standing, Wi!NothingIsOrphaned

(* In every state of the window a confirmation has what it stands on, and an editor
   its window: no key, click, context switch or applied turn, in whatever order,
   closes one from under the other. *)
THEOREM NobodyIsOrphaned == Spec => []NothingIsOrphaned
  BY FitAlways, FitHolds, PTL

-----------------------------------------------------------------------------
(* Esc: what it finds first belongs to what is drawn on top. *)
LEMMA FramedIs ==
  ASSUME NEW u, Fit(u)
  PROVE  Wi!Framed(u) = u
  <1>1. CASE "menu" \in u
    BY <1>1 DEF Fit, Beside, Wi!Framed, Wi!MenuLive, Wi!Open, Wi!Pickers, Wi!Screens,
                Wi!Confirms
  <1>2. CASE "menu" \notin u
    BY <1>2 DEF Wi!Framed
  <1> QED
    BY <1>1, <1>2

(* The place in the drawing order of the window that owns the i-th of Esc's order. *)
DrawnAt == <<1, 2, 3, 6, 13, 12, 11, 10, 9, 9, 8, 7, 4, 5, 5, 18, 14, 15, 17, 17, 19, 16, 19>>

LEMMA TopOwnsIt ==
  ASSUME NEW u, Fit(u), NEW i \in 1..23, Wi!EscOrder[i] \in u,
         \A j \in 1..23 : j < i => Wi!EscOrder[j] \notin u
  PROVE  \/ Wi!EscOrder[i] = "plan" /\ {"log", "plan"} \subseteq u
         \/ Wi!EscOrder[i] \in Wi!Of(Wi!Topmost(u))
  <1> DEFINE x == Wi!EscOrder[i]
             t == DrawnAt[i]
  <1>1. SUFFICES ASSUME ~(x = "plan" /\ {"log", "plan"} \subseteq u)
                 PROVE  x \in Wi!Of(Wi!Topmost(u))
    OBVIOUS
  <1>2. t \in 1..19 /\ x \in Wi!Of(Wi!DrawOrder[t])
    BY DEF DrawnAt, Wi!EscOrder, Wi!DrawOrder, Wi!Of, Wi!Owns
  <1>3. Wi!DrawOrder[t] \in u
    <2>1. x \in u
      OBVIOUS
    <2>2. \/ Wi!DrawOrder[t] = x
          \/ x = "oracleField" /\ Wi!DrawOrder[t] = "oracle"
          \/ x = "table" /\ Wi!DrawOrder[t] = "browser"
          \/ x = "logFilter" /\ Wi!DrawOrder[t] = "log"
          \/ x = "imageEdit" /\ Wi!DrawOrder[t] = "panel"
      BY DEF DrawnAt, Wi!EscOrder, Wi!DrawOrder
    <2> HIDE DEF x
    <2> QED
      BY <2>1, <2>2 DEF Fit, Standing
  <1>4. \A j \in 1..19 : j < t => Wi!DrawOrder[j] \notin u
    BY <1>1 DEF DrawnAt, Wi!EscOrder, Wi!DrawOrder, Fit, Standing, Beside
  <1>5. Wi!Topmost(u) = Wi!DrawOrder[t]
    <2>1. DOMAIN Wi!DrawOrder = 1..19
      BY DEF Wi!DrawOrder
    <2> DEFINE order == Wi!DrawOrder
               m == 19
    <2>2. t \in 1..m /\ m \in Nat
      BY <1>2
    <2> HIDE DEF t
    <2>3. /\ DOMAIN order = 1..m /\ order[t] \in u
          /\ \A j \in 1..m : j < t => order[j] \notin u
      BY <1>3, <1>4, <2>1
    <2> HIDE DEF order, m
    <2>4. Wi!FirstOpen(order, u) = order[t]
      BY <2>2, <2>3, FirstIs
    <2> QED
      BY <2>4 DEF Wi!Topmost, order
  <1> QED
    BY <1>2, <1>5

(* The steps of EscPeelsTheTop, and of ConfirmsOwnTheClick below. *)
EscStep ==
  input' = "esc" /\ up # {} =>
    \E w \in {Wi!Topmost(up)} \cup (IF {"log", "plan"} \subseteq up THEN {"plan"} ELSE {}) :
      \E gone \in Wi!Of(w) : up' = up \ {gone}

LEMMA EscSteps ==
  ASSUME Fit(up), Wi!Next, input' = "esc", up # {}
  PROVE  EscStep
  <1>1. Wi!Press("esc")
    BY DEF Wi!Next, Wi!Press, Wi!Click, Wi!Ends, Wi!Places, Wi!TurnApplied, Wi!TurnRefused,
           Wi!SnapshotGoes, Wi!SwitchFails, Wi!SnapshotComes, Wi!Outside
  <1>2. PICK i \in 1..23 : /\ Wi!EscOrder[i] \in up
                           /\ \A j \in 1..23 : j < i => Wi!EscOrder[j] \notin up
                           /\ Wi!FirstOpen(Wi!EscOrder, up) = Wi!EscOrder[i]
    BY EscFinds DEF Fit
  <1> DEFINE x == Wi!EscOrder[i]
  <1>3. up' = up \ {x}
    <2>1. up' = Wi!Framed(Wi!KeyEscape(Wi!Frame).up)
      BY <1>1 DEF Wi!Press, Wi!Ends, Wi!Handle
    <2>2. Wi!KeyEscape(Wi!Frame).up = up \ {x}
      BY <1>2 DEF Wi!KeyEscape, Wi!Frame, Wi!Set
    <2>3. Fit(up \ {x})
      BY <1>2, EscLeavesFit
    <2> QED
      BY <2>1, <2>2, <2>3, FramedIs
  <1>4. \/ x = "plan" /\ {"log", "plan"} \subseteq up
        \/ x \in Wi!Of(Wi!Topmost(up))
    BY <1>2, TopOwnsIt
  <1>5. "plan" \in Wi!Of("plan")
    BY DEF Wi!Of, Wi!Owns
  <1> HIDE DEF x
  <1>6. CASE x = "plan" /\ {"log", "plan"} \subseteq up
    BY <1>3, <1>5, <1>6 DEF EscStep
  <1>7. CASE x \in Wi!Of(Wi!Topmost(up))
    BY <1>3, <1>7 DEF EscStep
  <1> QED
    BY <1>4, <1>6, <1>7

(* Esc closes one thing: the topmost overlay or the editor in it, but for the review
   under a log overlay, which goes first. *)
THEOREM EscClosesTheTop == Spec => EscPeelsTheTop
  <1>1. Fit(up) /\ [Next]_vars => [EscStep]_windowVars
    <2> SUFFICES ASSUME Fit(up), [Next]_vars, ~UNCHANGED windowVars PROVE EscStep
      OBVIOUS
    <2>1. Wi!Next
      BY DEF Next, vars
    <2>2. CASE input' = "esc" /\ up # {}
      BY <2>1, <2>2, EscSteps
    <2>3. CASE ~(input' = "esc" /\ up # {})
      BY <2>3 DEF EscStep
    <2> QED
      BY <2>2, <2>3
  <1>2. Spec => [][EscStep]_windowVars
    BY <1>1, FitAlways, PTL DEF Spec
  <1> QED
    BY <1>2 DEF EscPeelsTheTop, Wi!EscPeelsTheTop, EscStep, Wi!vars, windowVars

-----------------------------------------------------------------------------
(* A confirmation has the click to itself. *)
(* Nobody but the confirmation itself acts on the click, whatever it lands on. *)
LEMMA OthersPass ==
  ASSUME NEW at0, NEW w, NEW f, f.up = up,
         \/ up = {"evict", "panel"} /\ w # "evict"
         \/ up = {"chaos", "drill"} /\ w # "drill"
  PROVE  Wi!React(w, at0, f) = {f}
  <1>1. CASE w = "map"
    BY <1>1 DEF Wi!React, Wi!OnMap, Wi!Nav, Wi!NavFree, Wi!Open, Wi!Screens, Wi!Confirms
  <1>2. CASE w = "column"
    BY <1>2 DEF Wi!React, Wi!OnColumn, Wi!ColumnFree, Wi!Open, Wi!Screens, Wi!Confirms
  <1>3. CASE w = "panel"
    BY <1>3 DEF Wi!React, Wi!OnPanel, Wi!PanelTakes, Wi!Open, Wi!Confirms
  <1>4. CASE w = "menu"
    BY <1>4 DEF Wi!React, Wi!OnBar, Wi!MenuLive, Wi!Open, Wi!Screens, Wi!Confirms
  <1>5. CASE w = "chaos"
    BY <1>5 DEF Wi!React, Wi!OnChaos, Wi!Confirms
  <1>6. CASE w \notin {"map", "column", "panel", "menu", "chaos"}
    <2>1. w \notin up
      BY <1>6
    <2> QED
      BY <1>6, <2>1 DEF Wi!React
  <1> QED
    BY <1>1, <1>2, <1>3, <1>4, <1>5, <1>6

(* Once the first i receivers have had the click of a frame in which w, the n-th of
   them, is the only one not to pass it on. *)
Owned(i, n, w, f) ==
  IsFrame(f) /\ f.took \subseteq {w} /\ (i < n => f.up = up)

LEMMA OwnedSteps ==
  ASSUME NEW at0, NEW i \in 1..21, NEW n, NEW w,
         \/ up = {"evict", "panel"} /\ n = 19 /\ w = "evict"
         \/ up = {"chaos", "drill"} /\ n = 21 /\ w = "drill",
         NEW f, Owned(i - 1, n, w, f), NEW g \in Wi!React(Wi!Receivers[i], at0, f)
  PROVE  Owned(i, n, w, g)
  <1>1. CASE i < n
    <2>1. f.up = up
      BY <1>1 DEF Owned
    <2>2. \/ up = {"evict", "panel"} /\ Wi!Receivers[i] # "evict"
          \/ up = {"chaos", "drill"} /\ Wi!Receivers[i] # "drill"
      BY <1>1 DEF Wi!Receivers
    <2>3. Wi!React(Wi!Receivers[i], at0, f) = {f}
      BY <2>1, <2>2, OthersPass
    <2>4. g = f
      BY <2>3
    <2> QED
      BY <2>1, <2>4 DEF Owned
  <1>2. CASE i = n
    <2>1. Wi!Receivers[i] = w /\ w \in Wi!Confirms /\ w \in up
      BY <1>2 DEF Wi!Receivers, Wi!Confirms
    <2>2. g \in Wi!OnConfirm(w, f)
      <3>1. w \in {"evict", "drill"}
        OBVIOUS
      <3> QED
        BY <2>1, <3>1 DEF Wi!React, Wi!Confirms
    <2>3. IsFrame(f) /\ f.took \subseteq {w}
      BY DEF Owned
    <2>4. IsFrame(g) /\ g.took \subseteq {w}
      BY <2>2, <2>3 DEF Wi!OnConfirm, Wi!Took, Wi!Set, IsFrame
    <2> QED
      BY <1>2, <2>4 DEF Owned
  <1>3. CASE i > n
    <2>1. Wi!Receivers[i] \in {"commit", "drill"} /\ Wi!Receivers[i] \notin up
      BY <1>3 DEF Wi!Receivers
    <2>2. g = f
      BY <2>1 DEF Wi!React
    <2> QED
      BY <1>3, <2>2 DEF Owned
  <1> QED
    BY <1>1, <1>2, <1>3

LEMMA ClickIsOwned ==
  ASSUME NEW at0, NEW n, NEW w,
         \/ up = {"evict", "panel"} /\ n = 19 /\ w = "evict"
         \/ up = {"chaos", "drill"} /\ n = 21 /\ w = "drill",
         NEW f \in Wi!Passed(at0)
  PROVE  f.took \subseteq {w}
  <1> DEFINE by == PassedBy(at0)
             T == {k \in 0..21 : \A g \in by[k] : Owned(k, n, w, g)}
  <1>0. \A k \in 0..21 : by[k] = Handed(at0, by, k)
    BY ByIs
  <1> HIDE DEF by
  <1>1. 0 \in T
    <2>1. by[0] = {Wi!Frame}
      BY <1>0 DEF Handed
    <2>2. IsFrame(Wi!Frame) /\ Wi!Frame.took = {} /\ Wi!Frame.up = up
      BY DEF Wi!Frame, IsFrame
    <2> QED
      BY <2>1, <2>2 DEF Owned
  <1>2. ASSUME NEW k \in 1..21, k - 1 \in T
        PROVE  k \in T
    <2>1. by[k] = UNION {Wi!React(Wi!Receivers[k], at0, g) : g \in by[k - 1]}
      BY <1>0 DEF Handed
    <2>2. ASSUME NEW g \in by[k] PROVE Owned(k, n, w, g)
      <3>1. PICK h \in by[k - 1] : g \in Wi!React(Wi!Receivers[k], at0, h)
        BY <2>1
      <3>2. Owned(k - 1, n, w, h)
        BY <1>2, <3>1
      <3> QED
        BY <3>1, <3>2, OwnedSteps
    <2> QED
      BY <2>2
  <1> HIDE DEF T
  <1>3. T = 0..21
    <2>1. T \in SUBSET (0..21)
      BY DEF T
    <2> QED
      BY <1>1, <1>2, <2>1, UpFromZero
  <1>4. Owned(21, n, w, f)
    BY <1>3, PassedIs DEF T, by
  <1> QED
    BY <1>4 DEF Owned

(* A key gives nobody a click. *)
LEMMA KeysTakeNothing ==
  ASSUME NEW f, IsFrame(f), NEW k \in Wi!Keys
  PROVE  Wi!Handle(k, f).took = f.took
  <1>1. /\ Wi!KeyAlmanac(f).took = f.took /\ IsFrame(Wi!KeyAlmanac(f))
        /\ Wi!KeyPlan(f).took = f.took /\ Wi!KeyAnnals(f).took = f.took
    BY DEF Wi!KeyAlmanac, Wi!KeyPlan, Wi!KeyAnnals, Wi!Toggle, Wi!Set, IsFrame
  <1>2. /\ Wi!KeyWorkloads(f).took = f.took /\ Wi!KeyBrowser(f).took = f.took
        /\ Wi!KeyInspect(f).took = f.took /\ Wi!KeyEscape(f).took = f.took
    BY DEF Wi!KeyWorkloads, Wi!KeyBrowser, Wi!KeyInspect, Wi!KeyEscape, Wi!Set, IsFrame
  <1>3. /\ Wi!KeyNavCity(f).took = f.took /\ Wi!KeyNavNext(f).took = f.took
        /\ Wi!KeyTail(f).took = f.took
    BY DEF Wi!KeyNavCity, Wi!KeyNavNext, Wi!KeyTail, Wi!Set, IsFrame
  <1>4. \A g : IsFrame(g) => Wi!KeyLogSlash(g).took = g.took
    BY DEF Wi!KeyLogSlash, Wi!Set, IsFrame
  <1>5. Wi!KeyLogSlash(Wi!KeyAlmanac(f)).took = f.took
    BY <1>1, <1>4
  <1>6. \A g : IsFrame(g) => Wi!KeyNavC(g).took = g.took
    BY DEF Wi!KeyNavC, Wi!Set, IsFrame
  <1>7. \A g : IsFrame(g) => IsFrame(Wi!KeyPickerC(g)) /\ Wi!KeyPickerC(g).took = g.took
    BY DEF Wi!KeyPickerC, Wi!Set, IsFrame
  <1>8. Wi!KeyNavC(Wi!KeyPickerC(f)).took = f.took
    BY <1>6, <1>7
  <1>9. \A g : IsFrame(g) => IsFrame(Wi!KeyLogEnter(g)) /\ Wi!KeyLogEnter(g).took = g.took
    BY DEF Wi!KeyLogEnter, Wi!Set, IsFrame
  <1>10. \A g : IsFrame(g) => IsFrame(Wi!KeyPickerEnter(g)) /\ Wi!KeyPickerEnter(g).took = g.took
    BY DEF Wi!KeyPickerEnter, Wi!Switched, IsFrame
  <1>11. \A g : IsFrame(g) => IsFrame(Wi!KeyNsEnter(g)) /\ Wi!KeyNsEnter(g).took = g.took
    BY DEF Wi!KeyNsEnter, Wi!Set, IsFrame
  <1>12. \A g : IsFrame(g) => IsFrame(Wi!KeyNavEnter(g)) /\ Wi!KeyNavEnter(g).took = g.took
    BY DEF Wi!KeyNavEnter, Wi!Set, IsFrame
  <1>13. \A g : IsFrame(g) => Wi!KeyImageEnter(g).took = g.took
    BY DEF Wi!KeyImageEnter, Wi!Set, IsFrame
  <1>14. Wi!KeyImageEnter(Wi!KeyNavEnter(Wi!KeyNsEnter(Wi!KeyPickerEnter(Wi!KeyLogEnter(f))))).took
           = f.took
    BY <1>9, <1>10, <1>11, <1>12, <1>13
  <1> QED
    BY <1>1, <1>2, <1>3, <1>5, <1>8, <1>14 DEF Wi!Handle, Wi!Keys

OwnStep ==
  \A w \in {"evict", "drill"} : w \in up /\ "commit" \notin up => took' \subseteq {w}

LEMMA OwnSteps ==
  ASSUME Fit(up), Wi!Next
  PROVE  OwnStep
  <1> SUFFICES ASSUME NEW w \in {"evict", "drill"}, w \in up, "commit" \notin up
               PROVE  took' \subseteq {w}
    BY DEF OwnStep
  <1>1. ASSUME NEW k \in Wi!Keys, Wi!Press(k) PROVE took' = {}
    <2>1. IsFrame(Wi!Frame) /\ Wi!Frame.took = {}
      BY DEF Wi!Frame, IsFrame
    <2> QED
      BY <1>1, <2>1, KeysTakeNothing DEF Wi!Press, Wi!Ends
  <1>2. ASSUME NEW at0 \in Wi!Places, Wi!Click(at0) PROVE took' \subseteq {w}
    <2>1. PICK f \in Wi!Passed(at0) : took' = f.took
      BY <1>2 DEF Wi!Click, Wi!Ends
    <2>2. CASE w = "evict"
      <3>1. up = {"evict", "panel"}
        BY <2>2 DEF Fit, Standing, Beside
      <3> QED
        BY <2>1, <2>2, <3>1, ClickIsOwned
    <2>3. CASE w = "drill"
      <3>1. up = {"chaos", "drill"}
        BY <2>3 DEF Fit, Standing, Beside
      <3> QED
        BY <2>1, <2>3, <3>1, ClickIsOwned
    <2> QED
      BY <2>2, <2>3
  <1>3. ASSUME Wi!TurnApplied \/ Wi!TurnRefused \/ Wi!SnapshotGoes \/ Wi!SwitchFails
               \/ Wi!SnapshotComes
        PROVE  took' = {}
    BY <1>3 DEF Wi!TurnApplied, Wi!TurnRefused, Wi!SnapshotGoes, Wi!SwitchFails,
                Wi!SnapshotComes, Wi!Outside
  <1> QED
    BY <1>1, <1>2, <1>3 DEF Wi!Next

(* While the confirmation of an eviction or of a drill is up (and no commit's) no
   other window, not the column, the map or the menu bar either, is given a click. *)
THEOREM ClicksAreOwned == Spec => ConfirmsOwnTheClick
  <1>1. Fit(up) /\ [Next]_vars => [OwnStep]_windowVars
    <2> SUFFICES ASSUME Fit(up), [Next]_vars, ~UNCHANGED windowVars PROVE OwnStep
      OBVIOUS
    <2>1. Wi!Next
      BY DEF Next, vars
    <2> QED
      BY <2>1, OwnSteps
  <1>2. Spec => [][OwnStep]_windowVars
    BY <1>1, FitAlways, PTL DEF Spec
  <1> QED
    BY <1>2 DEF ConfirmsOwnTheClick, Wi!ConfirmsOwnTheClick, OwnStep, Wi!vars, windowVars
=============================================================================
