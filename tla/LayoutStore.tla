----------------------------- MODULE LayoutStore -----------------------------
(***************************************************************************)
(* How the map outlives the process: the layout the world loop carries, the *)
(* file it is saved to (crates/kubernation/src/layout_io.rs and             *)
(* state/layout_store.rs), the identity check on loading, context switches, *)
(* compaction, the save on the way out, and processes killed anywhere.      *)
(*                                                                          *)
(* Two threads share this state: the world loop of net.rs ("net") and the   *)
(* window of main.rs ("gui").  A map is abstracted to what each cluster's   *)
(* nodes have on it: nothing, occupied slots, or only ghosts.               *)
(***************************************************************************)
CONSTANTS
  Contexts,  (* kubeconfig context names                                     *)
  Repointed, (* those the kubeconfig may point at another cluster later      *)
  Clusters,  (* the clusters a context may point at; also their fingerprints *)
  None       (* an absent Option                                             *)

ASSUME StoreAssumption == None \notin Clusters \cup Contexts /\ Repointed \subseteq Contexts

VARIABLES
  target,      (* the cluster each kubeconfig context points at now          *)
  files,       (* the saved map of each context, or None                     *)
  net,         (* world loop: "off", "loop", or a step of a context switch   *)
  hot,         (* its connection: context, cluster and fingerprint           *)
  prior,       (* prior_hot: the map the next tick starts from               *)
  saved,       (* saved_layout: the map believed to be on disk               *)
  ident,       (* layout_ident: what the gui saves under                     *)
  shown,       (* the layout inside the published snapshot, or None          *)
  compactReq,  (* compact_req                                                *)
  switchReq,   (* the mailbox `switch'                                       *)
  gui,         (* "off", "up", or how far the save on exit has got           *)
  leaving,     (* what the save on exit has read so far                      *)
  told,        (* history: a map was ever restored with a warning            *)
  straddled    (* history: a save on exit ever overlapped a context switch   *)

world  == <<hot, prior, saved, ident, shown, compactReq, switchReq>>
vars   == <<target, files, net, world, gui, leaving, told, straddled>>

-----------------------------------------------------------------------------
Ground == {"bare", "occupied", "ghost"}
Map    == [Clusters -> Ground]
Bare   == [c \in Clusters |-> "bare"]
Saved  == [fp : Clusters \cup {None}, map : Map]

(* build_carrying: everything on the prior map is kept, vacated unless its
   node is observed; `populated' says whether the cluster has nodes now. *)
Built(m, cluster, populated) ==
  [c \in Clusters |->
     IF c = cluster /\ populated THEN "occupied"
     ELSE IF m[c] = "bare" THEN "bare" ELSE "ghost"]

(* Layout::compact *)
Compacted(m) == [c \in Clusters |-> IF m[c] = "ghost" THEN "bare" ELSE m[c]]

(* layout_io::save; `ok' is whether the write succeeds. *)
Write(ctx, fp, m, ok) ==
  IF ok THEN [files EXCEPT ![ctx] = [fp |-> fp, map |-> m]] ELSE files

(* Mutant: a saved map is trusted because its context name matches. *)
MismatchNever(ctx, fp) == FALSE

(* from_stored: both fingerprints are known, and they differ. *)
Mismatch(ctx, fp) ==
  /\ files[ctx] # None
  /\ None \notin {files[ctx].fp, fp}
  /\ files[ctx].fp # fp

Unverified(ctx, fp) == files[ctx] # None /\ None \in {files[ctx].fp, fp}

(* The map layout_io::load returns. *)
Loaded(ctx, fp) ==
  IF files[ctx] = None \/ Mismatch(ctx, fp) THEN Bare ELSE files[ctx].map

(* Mutant: a refused file is left where the next save overwrites it. *)
SetAsideNever(ctx, fp) == files

(* layout_io::load renames another cluster's file aside. *)
SetAside(ctx, fp) ==
  IF Mismatch(ctx, fp) THEN [files EXCEPT ![ctx] = None] ELSE files

(* What both a start and a switch do with the map of the context. *)
Load(ctx, cluster, fp) ==
  /\ hot' = [ctx |-> ctx, cluster |-> cluster, fp |-> fp]
  /\ prior' = Loaded(ctx, fp)
  /\ saved' = prior'
  /\ files' = SetAside(ctx, fp)
  /\ ident' = [ctx |-> ctx, fp |-> fp]
  /\ told' = (told \/ Unverified(ctx, fp))

Exiting == gui \in {"ident", "snapshot", "closing"}

Off ==
  /\ net' = "off" /\ gui' = "off"
  /\ hot' = None /\ ident' = None /\ shown' = None /\ leaving' = None
  /\ prior' = Bare /\ saved' = Bare
  /\ compactReq' = FALSE /\ switchReq' = None

Init ==
  /\ target \in [Contexts -> Clusters]
  /\ files = [c \in Contexts |-> None]
  /\ net = "off" /\ gui = "off"
  /\ hot = None /\ ident = None /\ shown = None /\ leaving = None
  /\ prior = Bare /\ saved = Bare
  /\ compactReq = FALSE /\ switchReq = None
  /\ told = FALSE /\ straddled = FALSE

-----------------------------------------------------------------------------
(* Outside the program: a context is pointed at another cluster. *)
Repoint(ctx, cluster) ==
  /\ ctx \in Repointed
  /\ target[ctx] # cluster
  /\ target' = [target EXCEPT ![ctx] = cluster]
  /\ UNCHANGED <<files, net, world, gui, leaving, told, straddled>>

(* A process starts on a context; the fingerprint may be unreadable. *)
Start(ctx, fp) ==
  /\ net = "off" /\ gui = "off"
  /\ fp \in {target[ctx], None}
  /\ Load(ctx, target[ctx], fp)
  /\ net' = "loop" /\ gui' = "up"
  /\ UNCHANGED <<target, shown, compactReq, switchReq, leaving, straddled>>

(* A ready, dirty tick that writes nothing. *)
Tick(populated) ==
  /\ net = "loop" /\ ~compactReq
  /\ prior' = Built(prior, hot.cluster, populated)
  /\ shown' = prior'
  /\ UNCHANGED <<target, files, net, hot, saved, ident, compactReq, switchReq,
                 gui, leaving, told, straddled>>

(* Mutant: the save on the cadence does not note what it has saved. *)
SavedAfterNever(m, ok) == saved

SavedAfter(m, ok) == IF ok THEN m ELSE saved

(* The same on a multiple of LAYOUT_SAVE_TICKS, when the map has changed. *)
CadenceTick(populated, ok) ==
  /\ net = "loop" /\ ~compactReq
  /\ prior' = Built(prior, hot.cluster, populated)
  /\ prior' # saved
  /\ files' = Write(hot.ctx, hot.fp, prior', ok)
  /\ saved' = SavedAfter(prior', ok)
  /\ shown' = prior'
  /\ UNCHANGED <<target, net, hot, ident, compactReq, switchReq,
                 gui, leaving, told, straddled>>

(* A tick that finds a compaction asked for: the snapshot it publishes was
   built before the compaction, and saved_layout is set whatever was written. *)
CompactTick(populated, ok) ==
  /\ net = "loop" /\ compactReq
  /\ LET built == Built(prior, hot.cluster, populated)
     IN  /\ prior' = Compacted(built)
         /\ shown' = built
         /\ files' = Write(hot.ctx, hot.fp, prior', ok /\ prior' # built)
  /\ saved' = prior'
  /\ compactReq' = FALSE
  /\ UNCHANGED <<target, net, hot, ident, switchReq, gui, leaving, told, straddled>>

(* The switch: connected, the outgoing map is saved if it has changed. *)
SwitchSave(ok) ==
  /\ net = "loop" /\ switchReq # None
  /\ net' = "fingerprint"
  /\ switchReq' = None
  /\ files' = Write(hot.ctx, hot.fp, prior, ok /\ prior # saved)
  /\ hot' = [ctx |-> switchReq, cluster |-> target[switchReq], fp |-> None]
  /\ straddled' = (straddled \/ Exiting)
  /\ UNCHANGED <<target, prior, saved, ident, shown, compactReq, gui, leaving, told>>

SwitchLoad(fp) ==
  /\ net = "fingerprint"
  /\ fp \in {hot.cluster, None}
  /\ Load(hot.ctx, hot.cluster, fp)
  /\ net' = "clear"
  /\ straddled' = (straddled \/ Exiting)
  /\ UNCHANGED <<target, shown, compactReq, switchReq, gui, leaving>>

(* The old cluster's snapshot goes last. *)
SwitchClear ==
  /\ net = "clear"
  /\ net' = "loop"
  /\ shown' = None
  /\ straddled' = (straddled \/ Exiting)
  /\ UNCHANGED <<target, files, hot, prior, saved, ident, compactReq, switchReq,
                 gui, leaving, told>>

(* The new cluster cannot be reached: nothing but the status line changes. *)
SwitchFails ==
  /\ net = "loop" /\ switchReq # None
  /\ switchReq' = None
  /\ UNCHANGED <<target, files, net, hot, prior, saved, ident, shown, compactReq,
                 gui, leaving, told, straddled>>

-----------------------------------------------------------------------------
RequestCompact ==
  /\ gui = "up"
  /\ compactReq' = TRUE
  /\ UNCHANGED <<target, files, net, hot, prior, saved, ident, shown, switchReq,
                 gui, leaving, told, straddled>>

RequestSwitch(ctx) ==
  /\ gui = "up"
  /\ switchReq' = ctx
  /\ UNCHANGED <<target, files, net, hot, prior, saved, ident, shown, compactReq,
                 gui, leaving, told, straddled>>

(* The save on the way out: layout_ident() and snapshot() are two reads. *)
ExitIdent ==
  /\ gui = "up"
  /\ gui' = "ident"
  /\ leaving' = ident
  /\ straddled' = (straddled \/ net \in {"fingerprint", "clear"})
  /\ UNCHANGED <<target, files, net, world, told>>

ExitSnapshot ==
  /\ gui = "ident"
  /\ gui' = "snapshot"
  /\ leaving' = [ctx |-> leaving.ctx, fp |-> leaving.fp, map |-> shown]
  /\ UNCHANGED <<target, files, net, world, told, straddled>>

ExitSave(ok) ==
  /\ gui = "snapshot"
  /\ gui' = "closing"
  /\ leaving' = None
  /\ files' = Write(leaving.ctx, leaving.fp, leaving.map, ok /\ leaving.map # None)
  /\ UNCHANGED <<target, net, world, told, straddled>>

(* The process ends: at the end of an exit, or killed at any other point. *)
Stop ==
  /\ net # "off"
  /\ Off
  /\ UNCHANGED <<target, files, told, straddled>>

Next ==
  \/ \E ctx \in Contexts, c \in Clusters : Repoint(ctx, c)
  \/ \E ctx \in Contexts, fp \in Clusters \cup {None} : Start(ctx, fp)
  \/ \E populated \in BOOLEAN : Tick(populated)
  \/ \E populated, ok \in BOOLEAN : CadenceTick(populated, ok)
  \/ \E populated, ok \in BOOLEAN : CompactTick(populated, ok)
  \/ \E ok \in BOOLEAN : SwitchSave(ok)
  \/ \E fp \in Clusters \cup {None} : SwitchLoad(fp)
  \/ SwitchClear
  \/ SwitchFails
  \/ RequestCompact
  \/ \E ctx \in Contexts : RequestSwitch(ctx)
  \/ ExitIdent
  \/ ExitSnapshot
  \/ \E ok \in BOOLEAN : ExitSave(ok)
  \/ Stop

(* The world loop keeps running, and the disk does not refuse every write.  A
   saving tick is never out of reach: the SLO sample makes every eighth tick
   rebuild, every twentieth tick may save, so every fortieth does both. *)
Fairness ==
  /\ WF_vars(\E ok \in BOOLEAN : SwitchSave(ok))
  /\ WF_vars(\E fp \in Clusters \cup {None} : SwitchLoad(fp))
  /\ WF_vars(SwitchClear)
  /\ WF_vars(\E populated, ok \in BOOLEAN : CompactTick(populated, ok))
  /\ SF_vars(\E populated \in BOOLEAN : CadenceTick(populated, TRUE))

Spec == Init /\ [][Next]_vars /\ Fairness

-----------------------------------------------------------------------------
Ident == [ctx : Contexts, fp : Clusters \cup {None}]
Connection == [ctx : Contexts, cluster : Clusters, fp : Clusters \cup {None}]

(* Every variable holds what the Rust types allow, and between context switches
   the identity the window saves under is the world loop's own. *)
TypeOK ==
  /\ target \in [Contexts -> Clusters]
  /\ files \in [Contexts -> Saved \cup {None}]
  /\ net \in {"off", "loop", "fingerprint", "clear"}
  /\ hot \in Connection \cup {None}
  /\ net # "off" => hot \in Connection
  /\ prior \in Map /\ saved \in Map
  /\ ident \in Ident \cup {None}
  /\ net \in {"loop", "clear"} => ident = [ctx |-> hot.ctx, fp |-> hot.fp]
  /\ shown \in Map \cup {None}
  /\ compactReq \in BOOLEAN /\ told \in BOOLEAN /\ straddled \in BOOLEAN
  /\ switchReq \in Contexts \cup {None}
  /\ gui \in {"off", "up", "ident", "snapshot", "closing"}
  /\ gui = "ident" => leaving \in Ident
  /\ gui = "snapshot" =>
       leaving \in [ctx : Contexts, fp : Clusters \cup {None}, map : Map \cup {None}]

(* A map never carries ground of a cluster other than the one it is used for,
   in memory or in a file that names its cluster, unless the operator was told
   that a map could not be verified: not through repointed contexts, switches,
   kills, nor the save on exit (unless a switch was under way during it). *)
OnlyOwn(m, cluster) == \A c \in Clusters \ {cluster} : m[c] = "bare"

NoSilentForeignGround ==
  ~told /\ ~straddled =>
    /\ net \in {"loop", "clear"} => OnlyOwn(prior, hot.cluster)
    /\ \A ctx \in Contexts :
         files[ctx] # None /\ files[ctx].fp # None =>
           OnlyOwn(files[ctx].map, files[ctx].fp)

(* No write replaces a map drawn for another, identified cluster: layout_io::load
   moves such a file aside before anything is saved under its name. *)
NoMapOverwrittenByAnotherCluster ==
  [][~straddled' => \A ctx \in Contexts :
       files[ctx] # None /\ files'[ctx] # None =>
         None \in {files[ctx].fp, files'[ctx].fp} \/ files[ctx].fp = files'[ctx].fp]_vars

(* While the session runs on, a map that differs from the one believed saved
   is eventually saved, although writes may fail and nodes come and go. *)
UnsavedMapIsSaved ==
  (net = "loop" /\ prior # saved) ~> (net # "loop" \/ prior = saved)
=============================================================================
