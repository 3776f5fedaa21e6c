-------------------------------- MODULE Slo ---------------------------------
(***************************************************************************)
(* The error budget of one workload (kubernation-core/src/state/slo.rs): a   *)
(* ring of availability samples, pushed by the world loop every two seconds  *)
(* (net.rs), and the verdict read off it with three windows over its newest  *)
(* samples.  The constants of the code are CONSTANTS here and have the       *)
(* code's values in the runs.                                                *)
(*                                                                           *)
(* The ring is its length and the ages of its down samples, the newest of    *)
(* age 0.  Budgets are in thousandths and the burn rates are compared by     *)
(* cross-multiplication: at the budgets and with the few dips of the runs no *)
(* verdict hangs on a tie between a rate and a burn threshold, where the     *)
(* floating point of the code could fall on either side.                     *)
(***************************************************************************)
EXTENDS Naturals, FiniteSets

CONSTANTS
  WINDOW,        (* samples kept                                             *)
  MIN_SAMPLES,   (* below this there is no verdict                           *)
  BURN_ACTIVE, BURN_SHORT, BURN_LONG,  (* the three windows                  *)
  BURN_LONG_MIN, (* samples before a slow burn                               *)
  BURN_FAST, BURN_SLOW, BURN_HOT,      (* thresholds, in tenths of the budget *)
  Budgets,       (* allowed unavailability, thousandths: 1 - target          *)
  MaxDips        (* bound: down samples in the ring                          *)

ASSUME SloAssumption ==
  /\ {WINDOW, MIN_SAMPLES, BURN_ACTIVE, BURN_SHORT, BURN_LONG} \subseteq Nat \ {0}
  /\ {BURN_LONG_MIN, BURN_FAST, BURN_SLOW, BURN_HOT, MaxDips} \subseteq Nat
  /\ Budgets \subseteq Nat \ {0}

(* The windows are slices of the ring, a slow burn waits for no more than the long
   one, and a slow burn over it is faster than the budget lasts ("BURN_FAST >
   BURN_SLOW > BURN_HOT > 1"). *)
ASSUME WindowsAssumption ==
  /\ BURN_SHORT <= WINDOW /\ BURN_LONG_MIN <= BURN_LONG /\ BURN_LONG <= WINDOW
  /\ BURN_SLOW > 10

VARIABLES
  samples,  (* the length of the ring: 0 also when the workload has none     *)
  downs,    (* the ages of its down samples                                  *)
  budget    (* the budget the resolved target leaves                         *)

vars == <<samples, downs, budget>>

Least(a, b) == IF a < b THEN a ELSE b

-----------------------------------------------------------------------------
(* from_ring *)

(* The down samples among the newest w; a variant which takes the oldest w. *)
Oldest(w) == {a \in downs : a >= samples - Least(samples, w)}
Recent(w) == {a \in downs : a < w}

(* burn_over(w) >= tenths / 10: the down-rate over the window, over the budget. *)
Burns(w, tenths) ==
  Cardinality(Recent(w)) * 10000 >= tenths * budget * Least(samples, w)

Spent  == Cardinality(downs) * 1000 >= samples * budget
Active == Recent(BURN_ACTIVE) # {}

Fast == Active /\ Burns(BURN_SHORT, BURN_FAST) /\ Burns(BURN_LONG, BURN_SLOW)
(* A slow burn, and a variant without the confirmation by the long window. *)
SlowUnconfirmed ==
  Active /\ samples >= BURN_LONG_MIN /\ Burns(BURN_SHORT, BURN_HOT)
Slow ==
  /\ Active /\ samples >= BURN_LONG_MIN
  /\ Burns(BURN_LONG, BURN_SLOW) /\ Burns(BURN_SHORT, BURN_HOT)

Verdict ==
  IF samples < MIN_SAMPLES THEN "Warming"
  ELSE IF Spent THEN "Breached"
  ELSE IF Fast THEN "FastBurn"
  ELSE IF Slow THEN "SlowBurn"
  ELSE "Healthy"

(* budget_concern: what the attention queue would say. *)
Severity == CASE Verdict \in {"Breached", "FastBurn"} -> 2
              [] Verdict = "SlowBurn" -> 1
              [] OTHER -> 0

-----------------------------------------------------------------------------
(* record, for a workload that is wanted: one sample, up if a replica is ready. *)
Push ==
  samples' = Least(samples + 1, WINDOW)
Older == {a + 1 : a \in {d \in downs : d + 1 < WINDOW}}

SampleUp   == Push /\ downs' = Older /\ UNCHANGED budget
SampleDown ==
  /\ Cardinality(Older) < MaxDips
  /\ Push /\ downs' = Older \cup {0} /\ UNCHANGED budget

(* Scaled to zero, or gone, at a single sample: the ring is pruned; a context
   switch clears every ring, and the overrides with them. *)
Forget == samples > 0 /\ samples' = 0 /\ downs' = {} /\ budget' \in Budgets

(* The stepper of the city window, or the workload's annotation. *)
Retarget == budget' \in Budgets \ {budget} /\ UNCHANGED <<samples, downs>>

Init == samples = 0 /\ downs = {} /\ budget \in Budgets

Next == SampleUp \/ SampleDown \/ Forget \/ Retarget

Spec == Init /\ [][Next]_vars

-----------------------------------------------------------------------------
(* Once out of the warm-up an answered sample never makes the alarm worse, an
   unanswered one never better, whatever falls out of the ring and of each
   window at the same step; and a looser target never makes it worse. *)
VerdictFollowsTheSample ==
  [][samples >= MIN_SAMPLES =>
       /\ SampleUp => Severity' <= Severity
       /\ SampleDown => Severity' >= Severity
       /\ Retarget /\ budget' > budget => Severity' <= Severity]_vars

(* "A one-sample blip (long window cold) and a recovered incident (not active)
   both stay quiet" (slo.rs:29-31), as far as it holds: with budget left there is
   no alarm without two down samples, one of them among the newest.  (With the
   budget spent there is: in a ring of 8 to 100 samples at the default target a
   single dip is Breached, and stays so after the recovery.) *)
BurnIsNoBlip ==
  Verdict \in {"SlowBurn", "FastBurn"} =>
    Cardinality(downs) >= 2 /\ \E a \in downs : a < BURN_ACTIVE
=============================================================================
