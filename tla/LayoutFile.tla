----------------------------- MODULE LayoutFile -----------------------------
(***************************************************************************)
(* How one saved map gets onto the disk (crates/kubernation/src/layout_io.rs):*)
(* removing a stale temporary file, creating it anew, writing, syncing and    *)
(* renaming it over the map, each a step at which the process may be killed   *)
(* or the machine lose power.  LayoutStore takes a save as one step.          *)
(*                                                                           *)
(* Two threads save: the world loop, again and again, and the window once on *)
(* its way out, after which the process is gone whatever the loop is at.     *)
(* They use one temporary name.  A file is an inode; `dir' is what the names *)
(* lead to.  Its directory is taken to be as durable as its last sync.       *)
(***************************************************************************)
CONSTANTS
  Inodes,  (* bound: enough for both names and both savers                  *)
  None

Savers == {"loop", "exit"}

VARIABLES
  alive,       (* the process runs                                           *)
  dir,         (* the inode of the map and of the temporary file, or None    *)
  data,        (* of an inode: "empty", the saver half way, "whole", "torn"  *)
  durable,     (* the inodes whose data is on the disk                       *)
  at,          (* of a saver: the step it has taken last                     *)
  fd,          (* of a saver: the file it has open, or None                  *)
  overlapped   (* history: one saver ever began while the other was at it    *)

vars == <<alive, dir, data, durable, at, fd, overlapped>>

(* Mutant: the map is written in place. *)
InPlace == "map"
Temp == "tmp"

(* A saver is through, done or failed; after the window's the process ends. *)
Through(s) ==
  LET ended == IF s = "exit" THEN Savers ELSE {s} IN
  /\ alive' = (s # "exit")
  /\ at' = [o \in Savers |-> IF o \in ended THEN "idle" ELSE at[o]]
  /\ fd' = [o \in Savers |-> IF o \in ended THEN None ELSE fd[o]]

Fails(s) == Through(s) /\ UNCHANGED <<dir, data, durable, overlapped>>

Remove(s) ==
  /\ alive /\ at[s] = "idle"
  /\ dir' = [dir EXCEPT ![Temp] = None]
  /\ at' = [at EXCEPT ![s] = "removed"]
  /\ overlapped' = (overlapped \/ \E o \in Savers \ {s} : at[o] # "idle")
  /\ UNCHANGED <<alive, data, durable, fd>>

(* File::create: a new file, or the one of that name cut to nothing. *)
Create(s) ==
  /\ alive /\ at[s] = "removed"
  /\ \/ Fails(s)
     \/ LET used == {dir[n] : n \in DOMAIN dir} \cup {fd[o] : o \in Savers}
            i == IF dir[Temp] # None THEN dir[Temp] ELSE CHOOSE j \in Inodes : j \notin used
        IN
          /\ dir' = [dir EXCEPT ![Temp] = i]
          /\ data' = [data EXCEPT ![i] = "empty"]
          /\ durable' = durable \ {i}
          /\ fd' = [fd EXCEPT ![s] = i]
          /\ at' = [at EXCEPT ![s] = "created"]
          /\ UNCHANGED <<alive, overlapped>>

(* The bytes of a second writer land among those of the first. *)
Write(s) ==
  /\ alive /\ at[s] \in {"created", "half"}
  /\ \/ Fails(s)
     \/ LET on == data[fd[s]] IN
          /\ data' = [data EXCEPT ![fd[s]] =
                        IF at[s] = "created" /\ on = "empty" THEN s
                        ELSE IF at[s] = "half" /\ on = s THEN "whole" ELSE "torn"]
          /\ durable' = durable \ {fd[s]}
          /\ at' = [at EXCEPT ![s] = IF @ = "created" THEN "half" ELSE "written"]
          /\ UNCHANGED <<alive, dir, fd, overlapped>>

Sync(s) ==
  /\ alive /\ at[s] = "written"
  /\ \/ Fails(s)
     \/ /\ durable' = durable \cup {fd[s]}
        /\ at' = [at EXCEPT ![s] = "synced"] /\ fd' = [fd EXCEPT ![s] = None]
        /\ UNCHANGED <<alive, dir, data, overlapped>>

Rename(s) ==
  /\ alive /\ at[s] = "synced"
  /\ \/ Fails(s)
     \/ /\ dir[Temp] # None
        /\ dir' = [dir EXCEPT !["map"] = dir[Temp], ![Temp] = None]
        /\ Through(s)
        /\ UNCHANGED <<data, durable, overlapped>>

(* A kill loses nothing written; a loss of power what was not synced. *)
Killed(power) ==
  /\ alive /\ alive' = FALSE
  /\ data' = [i \in Inodes |-> IF power /\ i \notin durable THEN "empty" ELSE data[i]]
  /\ at' = [o \in Savers |-> "idle"] /\ fd' = [o \in Savers |-> None]
  /\ UNCHANGED <<dir, durable, overlapped>>

(* load: a map that does not parse is renamed aside. *)
Start ==
  /\ ~alive /\ alive' = TRUE
  /\ dir' = IF dir["map"] # None /\ data[dir["map"]] # "whole"
              THEN [dir EXCEPT !["map"] = None] ELSE dir
  /\ UNCHANGED <<data, durable, at, fd, overlapped>>

Init ==
  /\ alive = FALSE /\ overlapped = FALSE
  /\ dir = [n \in {"map", "tmp"} |-> None]
  /\ data = [i \in Inodes |-> "empty"] /\ durable = {}
  /\ at = [s \in Savers |-> "idle"] /\ fd = [s \in Savers |-> None]

Next ==
  \/ \E s \in Savers : Remove(s) \/ Create(s) \/ Write(s) \/ Sync(s) \/ Rename(s)
  \/ \E power \in BOOLEAN : Killed(power)
  \/ Start

Spec == Init /\ [][Next]_vars

-----------------------------------------------------------------------------
(* "Atomic temp + rename so a crash mid-write cannot truncate a layout"
   (layout_io.rs:6-8): whenever the process is gone, killed, out of power or
   ended, the saved map is whole - if the loop was never saving when the window
   began to, nor the other way round.  (If it was, the window may rename the empty
   file the loop has just created, and end the process.) *)
CrashNeverTruncates ==
  ~alive /\ ~overlapped /\ dir["map"] # None => data[dir["map"]] = "whole"
=============================================================================
