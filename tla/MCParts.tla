------------------------------- MODULE MCParts -------------------------------
(***************************************************************************)
(* The instances of Parts that are checked.                                  *)
(***************************************************************************)
EXTENDS Parts

(* Two nodes and three workloads, on a map small enough to be crowded: provinces
   of one or two rows, two columns and one to overflow into, two berths. *)
MCSpreads == {<<0, 0>>, <<1, 0>>, <<0, 1>>, <<1, 1>>, <<1, 2>>}

Survey(zoneOf, zoneOrd, last, col, row, ns) ==
  [zoneOf |-> zoneOf, zoneOrd |-> zoneOrd, last |-> last, col |-> col,
   row |-> row, ns |-> ns, exposed |-> <<2, 1, 3>>]

(* One zone whose cities want the same cell or different ones; two zones, the
   later name west of the earlier; a zone with room for one node. *)
MCSurveys ==
  {Survey(<<1, 1>>, <<1, 0>>, 1, col, row, <<1, 1, 1>>) :
     col \in {<<0, 0, 1>>, <<0, 0, 0>>}, row \in {<<0, 0, 0>>, <<1, 0, 0>>}}
  \cup {Survey(<<1, 2>>, <<1, 0>>, 0, <<0, 1, 0>>, <<0, 0, 1>>, <<1, 2, 2>>),
        Survey(<<1, 1>>, <<0, 1>>, 0, <<1, 1, 0>>, <<1, 1, 0>>, <<2, 1, 2>>)}

MCExtents == <<2, 3>>

-----------------------------------------------------------------------------
(* Two pods, of one workload, of one Job, or of a workload and of nothing. *)
Web == <<"deploy", "web">>
Job == <<"Job", "batch">>
MCWorkloads == {Web}

Pod(phase, waiting, deleting, oom, flapping) ==
  [phase |-> phase, waiting |-> waiting, deleting |-> deleting, oom |-> oom,
   flapping |-> flapping]

MCPodStates ==
  {Pod("Running", "none", FALSE, FALSE, TRUE),
   Pod("Running", "CrashLoopBackOff", FALSE, TRUE, FALSE),
   Pod("Failed", "none", FALSE, FALSE, TRUE),
   Pod("Unschedulable", "none", FALSE, FALSE, FALSE),
   Pod("Failed", "none", TRUE, TRUE, FALSE)}

MCOwners == {<<Web, Web>>, <<Job, Job>>, <<None, Web>>}
MCEvents == {<<"Pod", 1>>, <<"Node", "node">>}
=============================================================================
