-------------------------- MODULE LayoutStoreProofs --------------------------
(***************************************************************************)
(* Proofs about LayoutStore for any contexts and clusters.  The inductive  *)
(* invariant says where each of the places a map can be in - the file, the *)
(* world loop's memory, the published snapshot, the save on the way out -  *)
(* stands with respect to the cluster connected to, step by step of a      *)
(* context switch and of an exit.                                          *)
(***************************************************************************)
EXTENDS LayoutStore, TLAPS

(* Two fingerprints do not contradict each other. *)
Agree(f, g) == None \in {f, g} \/ f = g

(* The loop's fingerprint is its cluster's, or was unreadable; both threads
   end together, and nothing is shown then. *)
ConnectionIsKnown ==
  /\ gui = "off" <=> net = "off"
  /\ net = "off" => shown = None
  /\ net # "off" => hot.fp \in {None, hot.cluster} /\ ident \in Ident

(* A save on exit that no switch overlaps saves what the loop would. *)
ExitIsOurs ==
  ~straddled /\ gui \in {"ident", "snapshot"} =>
    net = "loop" /\ leaving.ctx = hot.ctx /\ leaving.fp = hot.fp

(* The file under the loop's name is its cluster's, as far as anyone knows. *)
FileIsOurs ==
  ~straddled /\ net \in {"loop", "clear"} =>
    files[hot.ctx] = None \/ Agree(files[hot.ctx].fp, hot.fp)

MapsAreOurs ==
  ~told /\ ~straddled =>
    /\ net \in {"loop", "clear"} => OnlyOwn(prior, hot.cluster)
    /\ net = "loop" /\ shown # None => OnlyOwn(shown, hot.cluster)
    /\ gui = "snapshot" /\ leaving.map # None => OnlyOwn(leaving.map, hot.cluster)

FilesAreOurs ==
  ~told /\ ~straddled =>
    \A ctx \in Contexts :
      files[ctx] # None /\ files[ctx].fp # None => OnlyOwn(files[ctx].map, files[ctx].fp)

IInv ==
  /\ TypeOK
  /\ ConnectionIsKnown
  /\ ExitIsOurs
  /\ FileIsOurs
  /\ MapsAreOurs
  /\ FilesAreOurs

-----------------------------------------------------------------------------
(* What the operators on maps and files do.                                  *)

LEMMA BareFacts == Bare \in Map /\ \A c \in Clusters : OnlyOwn(Bare, c)
  BY DEF Bare, Map, Ground, OnlyOwn

(* A tick draws nobody's ground but the connected cluster's. *)
LEMMA BuiltFacts ==
  ASSUME NEW m \in Map, NEW c \in Clusters, NEW p \in BOOLEAN
  PROVE  /\ Built(m, c, p) \in Map
         /\ OnlyOwn(m, c) => OnlyOwn(Built(m, c, p), c)
  BY DEF Built, Map, Ground, OnlyOwn

LEMMA CompactedFacts ==
  ASSUME NEW m \in Map, NEW c \in Clusters
  PROVE  /\ Compacted(m) \in Map
         /\ OnlyOwn(m, c) => OnlyOwn(Compacted(m), c)
  BY DEF Compacted, Map, Ground, OnlyOwn

(* A save touches the file of one context. *)
LEMMA WriteFacts ==
  ASSUME files \in [Contexts -> Saved \cup {None}],
         NEW ctx \in Contexts, NEW fp \in Clusters \cup {None}, NEW m, NEW ok \in BOOLEAN,
         ok => m \in Map
  PROVE  /\ Write(ctx, fp, m, ok) \in [Contexts -> Saved \cup {None}]
         /\ \A x \in Contexts :
              \/ Write(ctx, fp, m, ok)[x] = files[x]
              \/ x = ctx /\ ok /\ Write(ctx, fp, m, ok)[x] = [fp |-> fp, map |-> m]
  <1>1. CASE ok
    <2>1. [fp |-> fp, map |-> m] \in Saved
      BY <1>1 DEF Saved
    <2> QED
      BY <1>1, <2>1 DEF Write
  <1>2. CASE ~ok
    BY <1>2 DEF Write
  <1> QED
    BY <1>1, <1>2

(* Saving under a fingerprint what is that cluster's alone. *)
LEMMA FilesAfterWrite ==
  ASSUME IInv, NEW ctx \in Contexts, NEW fp \in Clusters \cup {None}, NEW m,
         NEW ok \in BOOLEAN, ok => m \in Map,
         files' = Write(ctx, fp, m, ok),
         told' = told, straddled => straddled',
         ~told' /\ ~straddled' /\ fp # None /\ ok => OnlyOwn(m, fp)
  PROVE  FilesAreOurs' /\ files' \in [Contexts -> Saved \cup {None}]
  <1>0. files \in [Contexts -> Saved \cup {None}]
    BY DEF IInv, TypeOK
  <1>1. /\ files' \in [Contexts -> Saved \cup {None}]
        /\ \A x \in Contexts :
             \/ files'[x] = files[x]
             \/ x = ctx /\ ok /\ files'[x] = [fp |-> fp, map |-> m]
    BY <1>0, WriteFacts
  <1> QED
    BY <1>1 DEF IInv, FilesAreOurs

-----------------------------------------------------------------------------
(* The inductive invariant, one action at a time.                            *)

LEMMA InitInv == Init => IInv
  <1> SUFFICES ASSUME Init PROVE IInv
    OBVIOUS
  <1>1. TypeOK
    BY BareFacts DEF Init, TypeOK
  <1>2. ConnectionIsKnown /\ ExitIsOurs /\ FileIsOurs /\ MapsAreOurs /\ FilesAreOurs
    BY DEF Init, ConnectionIsKnown, ExitIsOurs, FileIsOurs, MapsAreOurs, FilesAreOurs
  <1> QED
    BY <1>1, <1>2 DEF IInv

LEMMA RepointInv ==
  ASSUME IInv, NEW ctx \in Contexts, NEW c \in Clusters, Repoint(ctx, c)
  PROVE  IInv'
  <1> USE DEF Repoint, world
  <1>1. TypeOK'
    BY DEF IInv, TypeOK
  <1>2. ConnectionIsKnown' /\ ExitIsOurs' /\ FileIsOurs' /\ MapsAreOurs' /\ FilesAreOurs'
    BY DEF IInv, ConnectionIsKnown, ExitIsOurs, FileIsOurs, MapsAreOurs, FilesAreOurs, OnlyOwn
  <1> QED
    BY <1>1, <1>2 DEF IInv

(* Loading a map: another cluster's file is set aside and a bare map used, and a
   file no one can tell is used after a word to the operator. *)
LEMMA LoadFacts ==
  ASSUME IInv, NEW ctx \in Contexts, NEW c \in Clusters, NEW fp \in {c, None},
         Load(ctx, c, fp)
  PROVE  /\ hot' = [ctx |-> ctx, cluster |-> c, fp |-> fp] /\ hot' \in Connection
         /\ ident' = [ctx |-> ctx, fp |-> fp] /\ ident' \in Ident
         /\ prior' \in Map /\ saved' \in Map
         /\ told' \in BOOLEAN /\ (told => told')
         /\ files' \in [Contexts -> Saved \cup {None}]
         /\ \A x \in Contexts : files'[x] \in {files[x], None}
         /\ files'[ctx] = None \/ Agree(files'[ctx].fp, fp)
         /\ ~told' /\ ~straddled => OnlyOwn(prior', c)
  <1> USE DEF Load
  <1>1. files \in [Contexts -> Saved \cup {None}] /\ told \in BOOLEAN
    BY DEF IInv, TypeOK
  <1>2. files[ctx] # None => files[ctx].fp \in Clusters \cup {None} /\ files[ctx].map \in Map
    BY <1>1 DEF Saved
  <1>3. hot' \in Connection /\ ident' \in Ident
    BY DEF Connection, Ident
  <1>4. prior' \in Map /\ saved' \in Map
    BY <1>2, BareFacts DEF Loaded
  <1>5. /\ files' \in [Contexts -> Saved \cup {None}]
        /\ \A x \in Contexts : files'[x] \in {files[x], None}
        /\ files'[ctx] = None \/ Agree(files'[ctx].fp, fp)
    BY <1>1, <1>2 DEF SetAside, Mismatch, Agree
  <1>6. ASSUME ~told', ~straddled
        PROVE  OnlyOwn(prior', c)
    <2>1. CASE files[ctx] = None \/ Mismatch(ctx, fp)
      BY <2>1, BareFacts DEF Loaded
    <2>2. CASE files[ctx] # None /\ ~Mismatch(ctx, fp)
      <3>1. prior' = files[ctx].map /\ ~told /\ ~Unverified(ctx, fp)
        BY <1>1, <1>6, <2>2 DEF Loaded
      <3>2. files[ctx].fp = c /\ files[ctx].fp # None
        BY <2>2, <3>1 DEF Mismatch, Unverified
      <3>3. OnlyOwn(files[ctx].map, files[ctx].fp)
        BY <1>6, <2>2, <3>1, <3>2 DEF IInv, FilesAreOurs
      <3> QED
        BY <3>1, <3>2, <3>3
    <2> QED
      BY <2>1, <2>2
  <1>7. told' \in BOOLEAN /\ (told => told')
    BY <1>1 DEF Unverified
  <1> QED
    BY <1>3, <1>4, <1>5, <1>6, <1>7

LEMMA StartInv ==
  ASSUME IInv, NEW ctx \in Contexts, NEW fp \in Clusters \cup {None}, Start(ctx, fp)
  PROVE  IInv'
  <1> DEFINE c == target[ctx]
  <1>1. /\ c \in Clusters /\ fp \in {c, None} /\ Load(ctx, c, fp)
        /\ net' = "loop" /\ gui' = "up"
        /\ UNCHANGED <<target, shown, compactReq, switchReq, leaving, straddled>>
        /\ shown = None
    BY DEF Start, IInv, TypeOK, ConnectionIsKnown
  <1> HIDE DEF c
  <1>2. /\ hot' = [ctx |-> ctx, cluster |-> c, fp |-> fp] /\ hot' \in Connection
        /\ ident' = [ctx |-> ctx, fp |-> fp] /\ ident' \in Ident
        /\ prior' \in Map /\ saved' \in Map
        /\ told' \in BOOLEAN /\ (told => told')
        /\ files' \in [Contexts -> Saved \cup {None}]
        /\ \A x \in Contexts : files'[x] \in {files[x], None}
        /\ files'[ctx] = None \/ Agree(files'[ctx].fp, fp)
        /\ ~told' /\ ~straddled => OnlyOwn(prior', c)
    BY <1>1, LoadFacts
  <1>3. TypeOK'
    BY <1>1, <1>2 DEF IInv, TypeOK
  <1>4. ConnectionIsKnown' /\ ExitIsOurs'
    BY <1>1, <1>2 DEF ConnectionIsKnown, ExitIsOurs
  <1>5. FileIsOurs' /\ MapsAreOurs'
    BY <1>1, <1>2 DEF FileIsOurs, MapsAreOurs
  <1>6. FilesAreOurs'
    BY <1>1, <1>2 DEF IInv, FilesAreOurs
  <1> QED
    BY <1>3, <1>4, <1>5, <1>6 DEF IInv

(* What the connection is while the loop runs. *)
LEMMA HotFacts ==
  ASSUME IInv, net # "off"
  PROVE  /\ hot \in Connection
         /\ hot.ctx \in Contexts /\ hot.cluster \in Clusters
         /\ hot.fp \in Clusters \cup {None}
         /\ hot.fp # None => hot.fp = hot.cluster
  BY DEF IInv, TypeOK, ConnectionIsKnown, Connection

(* A tick, whether it saves or not, under the loop's own identity. *)
LEMMA LoopStep ==
  ASSUME IInv, net = "loop",
         NEW ok \in BOOLEAN, prior' \in Map, shown' \in Map,
         OnlyOwn(prior, hot.cluster) =>
           OnlyOwn(prior', hot.cluster) /\ OnlyOwn(shown', hot.cluster),
         files' = Write(hot.ctx, hot.fp, prior', ok),
         saved' \in Map, compactReq' \in BOOLEAN,
         UNCHANGED <<target, net, hot, ident, switchReq, gui, leaving, told, straddled>>
  PROVE  IInv'
  <1>1. /\ hot.ctx \in Contexts /\ hot.cluster \in Clusters
        /\ hot.fp \in Clusters \cup {None}
        /\ hot.fp # None => hot.fp = hot.cluster
    BY HotFacts
  <1>2. ~told /\ ~straddled =>
          OnlyOwn(prior', hot.cluster) /\ OnlyOwn(shown', hot.cluster)
    BY DEF IInv, MapsAreOurs
  <1>3. FilesAreOurs' /\ files' \in [Contexts -> Saved \cup {None}]
    BY <1>1, <1>2, FilesAfterWrite
  <1>4. TypeOK'
    BY <1>3 DEF IInv, TypeOK
  <1>5. ConnectionIsKnown' /\ ExitIsOurs'
    BY DEF IInv, ConnectionIsKnown, ExitIsOurs
  <1>6. FileIsOurs'
    <2>1. files \in [Contexts -> Saved \cup {None}]
      BY DEF IInv, TypeOK
    <2>2. \/ files'[hot.ctx] = files[hot.ctx]
          \/ files'[hot.ctx] = [fp |-> hot.fp, map |-> prior']
      BY <1>1, <2>1, WriteFacts
    <2> QED
      BY <2>2 DEF IInv, FileIsOurs, Agree
  <1>7. MapsAreOurs'
    BY <1>2 DEF IInv, MapsAreOurs, OnlyOwn
  <1> QED
    BY <1>3, <1>4, <1>5, <1>6, <1>7 DEF IInv

LEMMA TicksInv ==
  ASSUME IInv, NEW p \in BOOLEAN, NEW ok \in BOOLEAN,
         Tick(p) \/ CadenceTick(p, ok) \/ CompactTick(p, ok)
  PROVE  IInv'
  <1> DEFINE built == Built(prior, hot.cluster, p)
  <1>1. net = "loop"
    BY DEF Tick, CadenceTick, CompactTick
  <1>2. hot.cluster \in Clusters /\ prior \in Map /\ saved \in Map
    BY <1>1, HotFacts DEF IInv, TypeOK
  <1>3. built \in Map /\ (OnlyOwn(prior, hot.cluster) => OnlyOwn(built, hot.cluster))
    BY <1>2, BuiltFacts
  <1>4. /\ Compacted(built) \in Map
        /\ OnlyOwn(built, hot.cluster) => OnlyOwn(Compacted(built), hot.cluster)
    BY <1>2, <1>3, CompactedFacts
  <1>5. files = Write(hot.ctx, hot.fp, prior', FALSE)
    BY DEF Write
  <1>6. compactReq \in BOOLEAN
    BY DEF IInv, TypeOK
  <1>7. CASE Tick(p)
    <2>1. /\ prior' = built /\ shown' = built /\ files' = files /\ saved' = saved
          /\ compactReq' = compactReq
          /\ UNCHANGED <<target, net, hot, ident, switchReq, gui, leaving, told, straddled>>
      BY <1>7 DEF Tick
    <2> HIDE DEF built
    <2> QED
      BY <1>1, <1>2, <1>3, <1>5, <1>6, <2>1, LoopStep
  <1>8. CASE CadenceTick(p, ok)
    <2>1. /\ prior' = built /\ shown' = built
          /\ files' = Write(hot.ctx, hot.fp, prior', ok)
          /\ saved' \in {built, saved}
          /\ compactReq' = compactReq
          /\ UNCHANGED <<target, net, hot, ident, switchReq, gui, leaving, told, straddled>>
      BY <1>8 DEF CadenceTick, SavedAfter
    <2> HIDE DEF built
    <2> QED
      BY <1>1, <1>2, <1>3, <1>6, <2>1, LoopStep
  <1>9. CASE CompactTick(p, ok)
    <2> DEFINE wrote == ok /\ prior' # built
    <2>1. /\ prior' = Compacted(built) /\ shown' = built
          /\ files' = Write(hot.ctx, hot.fp, prior', wrote)
          /\ saved' = prior' /\ compactReq' = FALSE
          /\ UNCHANGED <<target, net, hot, ident, switchReq, gui, leaving, told, straddled>>
      BY <1>9 DEF CompactTick
    <2>2. wrote \in BOOLEAN
      OBVIOUS
    <2> HIDE DEF built, wrote
    <2> QED
      BY <1>1, <1>3, <1>4, <2>1, <2>2, LoopStep
  <1> QED
    BY <1>7, <1>8, <1>9

(* The outgoing map is saved under the outgoing identity. *)
LEMMA SwitchSaveInv ==
  ASSUME IInv, NEW ok \in BOOLEAN, SwitchSave(ok)
  PROVE  IInv'
  <1> DEFINE wrote == ok /\ prior # saved
  <1>1. /\ net = "loop" /\ net' = "fingerprint" /\ wrote \in BOOLEAN
        /\ switchReq # None /\ switchReq' = None
        /\ files' = Write(hot.ctx, hot.fp, prior, wrote)
        /\ hot' = [ctx |-> switchReq, cluster |-> target[switchReq], fp |-> None]
        /\ straddled' = (straddled \/ Exiting)
        /\ UNCHANGED <<target, prior, saved, ident, shown, compactReq, gui, leaving, told>>
    BY DEF SwitchSave
  <1> HIDE DEF wrote
  <1>2. /\ hot.ctx \in Contexts /\ hot.fp \in Clusters \cup {None}
        /\ hot.fp # None => hot.fp = hot.cluster
    BY <1>1, HotFacts
  <1>3. prior \in Map /\ straddled \in BOOLEAN /\ told \in BOOLEAN
    BY DEF IInv, TypeOK
  <1>4. ~told /\ ~straddled => OnlyOwn(prior, hot.cluster)
    BY <1>1 DEF IInv, MapsAreOurs
  <1>5. FilesAreOurs' /\ files' \in [Contexts -> Saved \cup {None}]
    BY <1>1, <1>2, <1>3, <1>4, FilesAfterWrite
  <1>6. hot' \in Connection
    BY <1>1 DEF IInv, TypeOK, Connection
  <1>7. TypeOK'
    BY <1>1, <1>5, <1>6 DEF IInv, TypeOK, Exiting
  <1>8. ConnectionIsKnown' /\ ExitIsOurs' /\ FileIsOurs' /\ MapsAreOurs'
    BY <1>1 DEF IInv, ConnectionIsKnown, ExitIsOurs, FileIsOurs, MapsAreOurs, Exiting
  <1> QED
    BY <1>5, <1>7, <1>8 DEF IInv

LEMMA SwitchLoadInv ==
  ASSUME IInv, NEW fp \in Clusters \cup {None}, SwitchLoad(fp)
  PROVE  IInv'
  <1> DEFINE ctx == hot.ctx
             c == hot.cluster
  <1>1. /\ net = "fingerprint" /\ net' = "clear" /\ fp \in {c, None} /\ Load(ctx, c, fp)
        /\ straddled' = (straddled \/ Exiting)
        /\ UNCHANGED <<target, shown, compactReq, switchReq, gui, leaving>>
    BY DEF SwitchLoad
  <1>2. ctx \in Contexts /\ c \in Clusters
    BY <1>1, HotFacts
  <1> HIDE DEF ctx, c
  <1>3. /\ hot' = [ctx |-> ctx, cluster |-> c, fp |-> fp] /\ hot' \in Connection
        /\ ident' = [ctx |-> ctx, fp |-> fp] /\ ident' \in Ident
        /\ prior' \in Map /\ saved' \in Map
        /\ told' \in BOOLEAN /\ (told => told')
        /\ files' \in [Contexts -> Saved \cup {None}]
        /\ \A x \in Contexts : files'[x] \in {files[x], None}
        /\ files'[ctx] = None \/ Agree(files'[ctx].fp, fp)
        /\ ~told' /\ ~straddled => OnlyOwn(prior', c)
    BY <1>1, <1>2, LoadFacts
  <1>4. TypeOK'
    BY <1>1, <1>3 DEF IInv, TypeOK, Exiting
  <1>5. ConnectionIsKnown' /\ ExitIsOurs'
    BY <1>1, <1>3 DEF IInv, ConnectionIsKnown, ExitIsOurs, Exiting
  <1>6. FileIsOurs' /\ MapsAreOurs'
    BY <1>1, <1>3 DEF FileIsOurs, MapsAreOurs, Exiting
  <1>7. FilesAreOurs'
    BY <1>1, <1>3 DEF IInv, FilesAreOurs
  <1> QED
    BY <1>4, <1>5, <1>6, <1>7 DEF IInv

LEMMA SwitchEndsInv ==
  ASSUME IInv, SwitchClear \/ SwitchFails
  PROVE  IInv'
  <1>1. CASE SwitchClear
    <2> USE <1>1 DEF SwitchClear, IInv
    <2>1. TypeOK' /\ ConnectionIsKnown' /\ ExitIsOurs'
      BY DEF TypeOK, ConnectionIsKnown, ExitIsOurs, Exiting
    <2>2. FileIsOurs' /\ MapsAreOurs' /\ FilesAreOurs'
      BY DEF FileIsOurs, MapsAreOurs, FilesAreOurs, OnlyOwn, Exiting
    <2> QED
      BY <2>1, <2>2
  <1>2. CASE SwitchFails
    <2> USE <1>2 DEF SwitchFails, IInv
    <2>1. TypeOK' /\ ConnectionIsKnown' /\ ExitIsOurs'
      BY DEF TypeOK, ConnectionIsKnown, ExitIsOurs
    <2>2. FileIsOurs' /\ MapsAreOurs' /\ FilesAreOurs'
      BY DEF FileIsOurs, MapsAreOurs, FilesAreOurs, OnlyOwn
    <2> QED
      BY <2>1, <2>2
  <1> QED
    BY <1>1, <1>2

LEMMA RequestsInv ==
  ASSUME IInv, RequestCompact \/ \E ctx \in Contexts : RequestSwitch(ctx)
  PROVE  IInv'
  <1>1. /\ compactReq' \in BOOLEAN /\ switchReq' \in Contexts \cup {None}
        /\ UNCHANGED <<target, files, net, hot, prior, saved, ident, shown, gui,
                       leaving, told, straddled>>
    BY DEF RequestCompact, RequestSwitch, IInv, TypeOK
  <1>2. TypeOK' /\ ConnectionIsKnown' /\ ExitIsOurs'
    BY <1>1 DEF IInv, TypeOK, ConnectionIsKnown, ExitIsOurs
  <1>3. FileIsOurs' /\ MapsAreOurs' /\ FilesAreOurs'
    BY <1>1 DEF IInv, FileIsOurs, MapsAreOurs, FilesAreOurs, OnlyOwn
  <1> QED
    BY <1>2, <1>3 DEF IInv

(* The exit reads the identity, then the snapshot; both are the loop's unless a
   switch is under way. *)
LEMMA ExitReadsInv ==
  ASSUME IInv, ExitIdent \/ ExitSnapshot
  PROVE  IInv'
  <1>1. CASE ExitIdent
    <2> USE <1>1 DEF ExitIdent, world
    <2>1. TypeOK'
      BY DEF IInv, TypeOK, ConnectionIsKnown
    <2>2. ConnectionIsKnown' /\ FileIsOurs' /\ MapsAreOurs' /\ FilesAreOurs'
      BY DEF IInv, ConnectionIsKnown, FileIsOurs, MapsAreOurs, FilesAreOurs, OnlyOwn
    <2>3. ExitIsOurs'
      <3>1. ~straddled' => net = "loop"
        BY DEF IInv, TypeOK, ConnectionIsKnown
      <3> QED
        BY <3>1 DEF IInv, TypeOK, ExitIsOurs
    <2> QED
      BY <2>1, <2>2, <2>3 DEF IInv
  <1>2. CASE ExitSnapshot
    <2> USE <1>2 DEF ExitSnapshot, world
    <2>1. TypeOK'
      BY DEF IInv, TypeOK, Ident
    <2>2. ConnectionIsKnown' /\ ExitIsOurs' /\ FileIsOurs' /\ FilesAreOurs'
      BY DEF IInv, ConnectionIsKnown, ExitIsOurs, FileIsOurs, FilesAreOurs, OnlyOwn
    <2>3. MapsAreOurs'
      <3>1. leaving'.map = shown
        OBVIOUS
      <3> QED
        BY <3>1 DEF IInv, ExitIsOurs, MapsAreOurs, OnlyOwn
    <2> QED
      BY <2>1, <2>2, <2>3 DEF IInv
  <1> QED
    BY <1>1, <1>2

LEMMA ExitSaveInv ==
  ASSUME IInv, NEW ok \in BOOLEAN, ExitSave(ok)
  PROVE  IInv'
  <1> DEFINE wrote == ok /\ leaving.map # None
  <1>1. /\ gui = "snapshot" /\ gui' = "closing" /\ wrote \in BOOLEAN
        /\ wrote => leaving.map # None
        /\ files' = Write(leaving.ctx, leaving.fp, leaving.map, wrote)
        /\ UNCHANGED <<target, net, world, told, straddled>>
    BY DEF ExitSave
  <1> HIDE DEF wrote
  <1>2. /\ leaving.ctx \in Contexts /\ leaving.fp \in Clusters \cup {None}
        /\ leaving.map \in Map \cup {None}
    BY <1>1 DEF IInv, TypeOK
  <1>3. ~straddled => /\ net = "loop" /\ leaving.ctx = hot.ctx /\ leaving.fp = hot.fp
                      /\ hot.fp \in {None, hot.cluster}
    BY <1>1 DEF IInv, ExitIsOurs, ConnectionIsKnown
  <1>4. ~told /\ ~straddled /\ wrote => OnlyOwn(leaving.map, hot.cluster)
    BY <1>1 DEF IInv, MapsAreOurs
  <1>5. FilesAreOurs' /\ files' \in [Contexts -> Saved \cup {None}]
    BY <1>1, <1>2, <1>3, <1>4, FilesAfterWrite
  <1>6. TypeOK'
    BY <1>1, <1>5 DEF IInv, TypeOK, world
  <1>7. ConnectionIsKnown' /\ ExitIsOurs' /\ MapsAreOurs'
    BY <1>1 DEF IInv, ConnectionIsKnown, ExitIsOurs, MapsAreOurs, OnlyOwn, world
  <1>8. FileIsOurs'
    <2>1. files \in [Contexts -> Saved \cup {None}]
      BY DEF IInv, TypeOK
    <2>2. \A x \in Contexts :
            \/ files'[x] = files[x]
            \/ x = leaving.ctx /\ files'[x] = [fp |-> leaving.fp, map |-> leaving.map]
      BY <1>1, <1>2, <2>1, WriteFacts
    <2>3. net # "off" => hot.ctx \in Contexts
      BY HotFacts
    <2> QED
      BY <1>1, <1>3, <2>2, <2>3 DEF IInv, FileIsOurs, Agree, world
  <1> QED
    BY <1>5, <1>6, <1>7, <1>8 DEF IInv

LEMMA StopInv ==
  ASSUME IInv, Stop
  PROVE  IInv'
  <1> USE DEF Stop, Off
  <1>1. TypeOK'
    BY BareFacts DEF IInv, TypeOK
  <1>2. ConnectionIsKnown' /\ ExitIsOurs' /\ FileIsOurs' /\ MapsAreOurs' /\ FilesAreOurs'
    BY DEF IInv, ConnectionIsKnown, ExitIsOurs, FileIsOurs, MapsAreOurs, FilesAreOurs, OnlyOwn
  <1> QED
    BY <1>1, <1>2 DEF IInv

LEMMA NextInv == IInv /\ [Next]_vars => IInv'
  <1> SUFFICES ASSUME IInv, [Next]_vars PROVE IInv'
    OBVIOUS
  <1>1. CASE \E ctx \in Contexts, c \in Clusters : Repoint(ctx, c)
    BY <1>1, RepointInv
  <1>2. CASE \E ctx \in Contexts, fp \in Clusters \cup {None} : Start(ctx, fp)
    BY <1>2, StartInv
  <1>3. CASE \/ \E populated \in BOOLEAN : Tick(populated)
             \/ \E populated, ok \in BOOLEAN : CadenceTick(populated, ok)
             \/ \E populated, ok \in BOOLEAN : CompactTick(populated, ok)
    BY <1>3, TicksInv
  <1>4. CASE \E ok \in BOOLEAN : SwitchSave(ok)
    BY <1>4, SwitchSaveInv
  <1>5. CASE \E fp \in Clusters \cup {None} : SwitchLoad(fp)
    BY <1>5, SwitchLoadInv
  <1>6. CASE SwitchClear \/ SwitchFails
    BY <1>6, SwitchEndsInv
  <1>7. CASE RequestCompact \/ \E ctx \in Contexts : RequestSwitch(ctx)
    BY <1>7, RequestsInv
  <1>8. CASE ExitIdent \/ ExitSnapshot
    BY <1>8, ExitReadsInv
  <1>9. CASE \E ok \in BOOLEAN : ExitSave(ok)
    BY <1>9, ExitSaveInv
  <1>10. CASE Stop
    BY <1>10, StopInv
  <1>11. CASE UNCHANGED vars
    <2> USE <1>11 DEF vars, world
    <2>1. TypeOK' /\ ConnectionIsKnown' /\ ExitIsOurs'
      BY DEF IInv, TypeOK, ConnectionIsKnown, ExitIsOurs
    <2>2. FileIsOurs' /\ MapsAreOurs' /\ FilesAreOurs'
      BY DEF IInv, FileIsOurs, MapsAreOurs, FilesAreOurs, OnlyOwn
    <2> QED
      BY <2>1, <2>2 DEF IInv
  <1> QED
    BY <1>1, <1>2, <1>3, <1>4, <1>5, <1>6, <1>7, <1>8, <1>9, <1>10, <1>11 DEF Next

(* IInv holds in every state of every behaviour. *)
THEOREM Inductive == Spec => []IInv
  BY InitInv, NextInv, PTL DEF Spec

-----------------------------------------------------------------------------
(* Every variable holds what the Rust types allow, and the window saves under the
   world loop's own identity (layout_ident), for any contexts and clusters. *)
THEOREM TypeCorrect == Spec => []TypeOK
  <1>1. IInv => TypeOK
    BY DEF IInv
  <1> QED
    BY <1>1, Inductive, PTL

(* No ground of one cluster turns up on the map of another, in memory or on disk,
   without a word to the operator: the fingerprint check of layout_store.rs, the
   switch of net.rs and the save on exit of main.rs keep it so together. *)
THEOREM OwnGroundOnly == Spec => []NoSilentForeignGround
  <1>1. IInv => NoSilentForeignGround
    BY DEF IInv, MapsAreOurs, FilesAreOurs, NoSilentForeignGround
  <1> QED
    BY <1>1, Inductive, PTL

-----------------------------------------------------------------------------
(* What NoMapOverwrittenByAnotherCluster says of one step. *)
NoneOverwritten ==
  \A ctx \in Contexts :
    files[ctx] # None /\ files'[ctx] # None => Agree(files[ctx].fp, files'[ctx].fp)

(* A save under a name that agrees with what is on the disk. *)
LEMMA SaveAgrees ==
  ASSUME IInv, NEW c \in Contexts, NEW fp \in Clusters \cup {None}, NEW m,
         NEW ok \in BOOLEAN, ok => m \in Map,
         files' = Write(c, fp, m, ok),
         files[c] = None \/ Agree(files[c].fp, fp)
  PROVE  NoneOverwritten
  <1>1. files \in [Contexts -> Saved \cup {None}]
    BY DEF IInv, TypeOK
  <1>2. \A x \in Contexts :
          \/ files'[x] = files[x]
          \/ x = c /\ files'[x] = [fp |-> fp, map |-> m]
    BY <1>1, WriteFacts
  <1> QED
    BY <1>2 DEF NoneOverwritten, Agree

LEMMA NextOverwritesNone ==
  ASSUME IInv, Next, ~straddled'
  PROVE  NoneOverwritten
  <1>1. CASE files' = files
    BY <1>1 DEF NoneOverwritten, Agree
  <1>2. ASSUME NEW ctx \in Contexts, NEW fp \in Clusters \cup {None},
               Start(ctx, fp) \/ SwitchLoad(fp)
        PROVE  NoneOverwritten
    <2>1. \A x \in Contexts : files'[x] \in {files[x], None}
      <3>1. files \in [Contexts -> Saved \cup {None}]
        BY DEF IInv, TypeOK
      <3>2. files' = SetAside(ctx, fp) \/ files' = SetAside(hot.ctx, fp)
        BY <1>2 DEF Start, SwitchLoad, Load
      <3> QED
        BY <3>1, <3>2 DEF SetAside
    <2> QED
      BY <2>1 DEF NoneOverwritten, Agree
  <1>3. ASSUME NEW p \in BOOLEAN, NEW ok \in BOOLEAN,
               CadenceTick(p, ok) \/ CompactTick(p, ok)
        PROVE  NoneOverwritten
    <2> DEFINE built == Built(prior, hot.cluster, p)
    <2>1. net = "loop" /\ ~straddled /\ prior' \in {built, Compacted(built)}
      BY <1>3 DEF CadenceTick, CompactTick
    <2>a. \/ files' = Write(hot.ctx, hot.fp, prior', ok)
          \/ files' = Write(hot.ctx, hot.fp, prior', ok /\ prior' # built)
      BY <1>3 DEF CadenceTick, CompactTick
    <2>b. PICK wrote \in BOOLEAN : files' = Write(hot.ctx, hot.fp, prior', wrote)
      BY <2>a
    <2>2. /\ hot.ctx \in Contexts /\ hot.cluster \in Clusters
          /\ hot.fp \in Clusters \cup {None}
      BY <2>1, HotFacts
    <2>3. built \in Map
      BY <2>2, BuiltFacts DEF IInv, TypeOK
    <2>4. Compacted(built) \in Map
      BY <2>2, <2>3, CompactedFacts
    <2>5. files[hot.ctx] = None \/ Agree(files[hot.ctx].fp, hot.fp)
      BY <2>1 DEF IInv, FileIsOurs
    <2> HIDE DEF built
    <2> QED
      BY <2>1, <2>b, <2>2, <2>3, <2>4, <2>5, SaveAgrees
  <1>4. ASSUME NEW ok \in BOOLEAN, SwitchSave(ok)
        PROVE  NoneOverwritten
    <2> DEFINE wrote == ok /\ prior # saved
    <2>1. /\ net = "loop" /\ wrote \in BOOLEAN /\ ~straddled
          /\ files' = Write(hot.ctx, hot.fp, prior, wrote)
      BY <1>4 DEF SwitchSave
    <2>2. /\ hot.ctx \in Contexts /\ hot.fp \in Clusters \cup {None} /\ prior \in Map
      BY <2>1, HotFacts DEF IInv, TypeOK
    <2>3. files[hot.ctx] = None \/ Agree(files[hot.ctx].fp, hot.fp)
      BY <2>1 DEF IInv, FileIsOurs
    <2> HIDE DEF wrote
    <2> QED
      BY <2>1, <2>2, <2>3, SaveAgrees
  <1>5. ASSUME NEW ok \in BOOLEAN, ExitSave(ok)
        PROVE  NoneOverwritten
    <2> DEFINE wrote == ok /\ leaving.map # None
    <2>1. /\ gui = "snapshot" /\ wrote \in BOOLEAN /\ ~straddled
          /\ wrote => leaving.map # None
          /\ files' = Write(leaving.ctx, leaving.fp, leaving.map, wrote)
      BY <1>5 DEF ExitSave
    <2>2. /\ leaving.ctx \in Contexts /\ leaving.fp \in Clusters \cup {None}
          /\ leaving.map \in Map \cup {None}
      BY <2>1 DEF IInv, TypeOK
    <2>3. files[leaving.ctx] = None \/ Agree(files[leaving.ctx].fp, leaving.fp)
      BY <2>1 DEF IInv, ExitIsOurs, FileIsOurs
    <2> HIDE DEF wrote
    <2> QED
      BY <2>1, <2>2, <2>3, SaveAgrees
  <1>6. \/ files' = files
        \/ \E ctx \in Contexts, fp \in Clusters \cup {None} : Start(ctx, fp)
        \/ \E fp \in Clusters \cup {None} : SwitchLoad(fp)
        \/ \E p, ok \in BOOLEAN : CadenceTick(p, ok) \/ CompactTick(p, ok)
        \/ \E ok \in BOOLEAN : SwitchSave(ok) \/ ExitSave(ok)
    BY DEF Next, Repoint, Tick, SwitchClear, SwitchFails, RequestCompact, RequestSwitch,
           ExitIdent, ExitSnapshot, Stop, world
  <1>7. ASSUME NEW fp \in Clusters \cup {None}, SwitchLoad(fp)
        PROVE  NoneOverwritten
    <2>1. hot.ctx \in Contexts
      BY <1>7, HotFacts DEF SwitchLoad
    <2> QED
      BY <1>2, <1>7, <2>1
  <1> QED
    BY <1>1, <1>2, <1>3, <1>4, <1>5, <1>6, <1>7

(* No write replaces a map drawn for another, identified cluster: a file of
   another fingerprint is out of the way before anything is saved under its name,
   by the loop's saves and by the one on exit (layout_io::load, net.rs, main.rs). *)
THEOREM ForeignMapsSurvive == Spec => NoMapOverwrittenByAnotherCluster
  <1> DEFINE Step == ~straddled' => \A ctx \in Contexts :
               files[ctx] # None /\ files'[ctx] # None =>
                 None \in {files[ctx].fp, files'[ctx].fp} \/ files[ctx].fp = files'[ctx].fp
  <1>1. IInv /\ [Next]_vars => [Step]_vars
    <2> SUFFICES ASSUME IInv, Next, ~straddled' PROVE Step
      OBVIOUS
    <2>1. NoneOverwritten
      BY NextOverwritesNone
    <2> QED
      BY <2>1 DEF NoneOverwritten, Agree
  <1> QED
    BY <1>1, Inductive, PTL DEF Spec, NoMapOverwrittenByAnotherCluster
=============================================================================
