------------------------------ MODULE GatedTurn ------------------------------
(***************************************************************************)
(* What a commit promises of a planned turn, with the dry-runs, the patches  *)
(* and the mailboxes out of sight.  A turn is taken up whole.  Either one of *)
(* its changes does not pass, and it is given up with nothing written; or    *)
(* all do, and from then on each of them is written at most once, to the     *)
(* cluster the turn was taken up on, and the answer waits until each has     *)
(* been tried.  The answer and the Annals claim nothing but writes.          *)
(***************************************************************************)
CONSTANTS Clusters, Change

VARIABLES
  here,    (* the cluster connected to                                     *)
  commit,  (* the turn in hand                                             *)
  written, (* every write there ever was, with its cluster                 *)
  annals,  (* our own writes, as the timeline of this cluster has them     *)
  answer   (* what the review says of the last commit: nothing or one claim *)

Idle == [phase |-> "idle", turn |-> {}, passed |-> {}, left |-> {}, wrote |-> {}]

Init ==
  /\ here \in Clusters
  /\ commit = Idle /\ written = {} /\ annals = {} /\ answer = {}

Begin ==
  /\ commit.phase = "idle"
  /\ \E turn \in SUBSET Change :
       commit' = [phase |-> "trying", turn |-> turn, passed |-> {}, left |-> turn, wrote |-> {}]
  /\ UNCHANGED <<here, written, annals, answer>>

Pass ==
  /\ commit.phase = "trying"
  /\ \E ch \in commit.turn : commit' = [commit EXCEPT !.passed = @ \cup {ch}]
  /\ UNCHANGED <<here, written, annals, answer>>

(* The gate. *)
Open ==
  /\ commit.phase = "trying" /\ commit.passed = commit.turn
  /\ commit' = [commit EXCEPT !.phase = "writing"]
  /\ UNCHANGED <<here, written, annals, answer>>

Refuse ==
  /\ commit.phase = "trying" /\ commit.passed # commit.turn
  /\ commit' = Idle
  /\ answer' = {[applied |-> FALSE, ok |-> {}]}
  /\ UNCHANGED <<here, written, annals>>

(* One change is tried, and may take effect. *)
Write ==
  /\ commit.phase = "writing"
  /\ \E ch \in commit.left :
       \/ /\ commit' = [commit EXCEPT !.left = @ \ {ch}, !.wrote = @ \cup {ch}]
          /\ written' = written \cup {<<here, ch>>}
       \/ /\ commit' = [commit EXCEPT !.left = @ \ {ch}]
          /\ UNCHANGED written
  /\ UNCHANGED <<here, annals, answer>>

Report ==
  /\ commit.phase = "writing" /\ commit.left = {}
  /\ \E ok \in SUBSET commit.wrote :
       /\ answer' = {[applied |-> TRUE, ok |-> ok]}
       /\ annals' = annals \cup ok
  /\ commit' = Idle
  /\ UNCHANGED <<here, written>>

(* Another cluster, whose Annals are empty; never under a commit. *)
Leave ==
  /\ commit.phase = "idle"
  /\ here' \in Clusters
  /\ annals' = {}
  /\ UNCHANGED <<commit, written, answer>>

Forget ==
  /\ answer' = {}
  /\ UNCHANGED <<here, commit, written, annals>>

Next == Begin \/ Pass \/ Open \/ Refuse \/ Write \/ Report \/ Leave \/ Forget

Spec == Init /\ [][Next]_<<here, commit, written, annals, answer>>
=============================================================================
