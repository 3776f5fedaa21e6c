------------------------------ MODULE SloProofs ------------------------------
(***************************************************************************)
(* The verdict on an error budget, for every size of the ring, of its        *)
(* windows and of the thresholds: what one sample can do to it, and between  *)
(* which targets a single dip raises an alarm.                               *)
(*                                                                           *)
(* What makes it hard is that one push moves every window at once: a dip may *)
(* fall out of the short window, the long one and the ring at the very step  *)
(* that brings the next one in.                                              *)
(***************************************************************************)
EXTENDS Slo, TLAPS, FiniteSetTheorems


(* The ring holds samples numbered by age, and no more of them than its size. *)
RingInv ==
  /\ samples \in 0..WINDOW
  /\ downs \in SUBSET Nat /\ \A a \in downs : a < samples
  /\ budget \in Budgets

-----------------------------------------------------------------------------
LEMMA Sizes ==
  /\ WINDOW \in Nat \ {0} /\ MIN_SAMPLES \in Nat \ {0} /\ BURN_ACTIVE \in Nat \ {0}
  /\ BURN_SHORT \in Nat \ {0} /\ BURN_LONG \in Nat \ {0} /\ BURN_LONG_MIN \in Nat
  /\ BURN_FAST \in Nat /\ BURN_SLOW \in Nat /\ BURN_HOT \in Nat
  /\ BURN_SHORT <= WINDOW /\ BURN_LONG <= WINDOW /\ BURN_LONG_MIN <= BURN_LONG
  /\ BURN_SLOW > 10
  BY SloAssumption, WindowsAssumption

LEMMA InTheRing ==
  ASSUME RingInv
  PROVE  /\ samples \in Nat /\ samples <= WINDOW /\ budget \in Nat
         /\ \A a \in downs : a \in Nat /\ a < samples
  BY Sizes, SloAssumption DEF RingInv

LEMMA Finite ==
  ASSUME RingInv
  PROVE  /\ IsFiniteSet(downs) /\ Cardinality(downs) \in 0..samples
         /\ \A w : /\ IsFiniteSet(Recent(w))
                   /\ Cardinality(Recent(w)) \in 0..Cardinality(downs)
  <1>0. 0 \in Int /\ samples - 1 \in Int /\ samples \in Nat
    BY InTheRing
  <1>1. downs \in SUBSET (0..(samples - 1))
    BY <1>0, InTheRing
  <1>2. IsFiniteSet(0..(samples - 1)) /\ Cardinality(0..(samples - 1)) = samples
    <2>1. /\ IsFiniteSet(0..(samples - 1))
          /\ Cardinality(0..(samples - 1)) =
               IF 0 > samples - 1 THEN 0 ELSE (samples - 1) - 0 + 1
      BY <1>0, FS_Interval
    <2> QED
      BY <1>0, <2>1
  <1>3. IsFiniteSet(downs) /\ Cardinality(downs) <= samples
    BY <1>1, <1>2, FS_Subset
  <1>4. ASSUME NEW w
        PROVE  IsFiniteSet(Recent(w)) /\ Cardinality(Recent(w)) <= Cardinality(downs)
    <2>1. Recent(w) \in SUBSET downs
      BY DEF Recent
    <2> QED
      BY <1>3, <2>1, FS_Subset
  <1> QED
    BY <1>0, <1>3, <1>4, FS_CardinalityType

(* Growing older changes no count. *)
LEMMA Shifted ==
  ASSUME NEW S \in SUBSET Nat, IsFiniteSet(S)
  PROVE  /\ IsFiniteSet({a + 1 : a \in S})
         /\ Cardinality({a + 1 : a \in S}) = Cardinality(S)
  <1> DEFINE T == {a + 1 : a \in S}
             f == [a \in S |-> a + 1]
  <1>1. f \in Bijection(S, T)
    BY DEF Bijection, Injection, Surjection, IsInjective
  <1>2. ExistsBijection(S, T)
    BY <1>1 DEF ExistsBijection
  <1> QED
    BY <1>2, FS_Bijection

(* The dips which are still within a window one sample later. *)
Staying(w) == {a \in downs : a + 1 < w}

LEMMA StayingCounts ==
  ASSUME RingInv, NEW w \in Nat
  PROVE  /\ IsFiniteSet(Staying(w)) /\ Cardinality(Staying(w)) \in Nat
         /\ Cardinality(Staying(w)) <= Cardinality(Recent(w))
         /\ Cardinality(Recent(w)) <= Cardinality(Staying(w)) + 1
         /\ samples < w => Cardinality(Recent(w)) = Cardinality(Staying(w))
  <1>1. IsFiniteSet(Recent(w))
    BY Finite
  <1>2. Staying(w) = Recent(w) \ {w - 1}
    <2>1. \A a \in downs : a + 1 < w <=> a < w /\ a # w - 1
      BY InTheRing
    <2> QED
      BY <2>1 DEF Staying, Recent
  <1>3. /\ IsFiniteSet(Staying(w))
        /\ Cardinality(Staying(w)) =
             IF w - 1 \in Recent(w) THEN Cardinality(Recent(w)) - 1 ELSE Cardinality(Recent(w))
    BY <1>1, <1>2, FS_RemoveElement
  <1>4. samples < w => w - 1 \notin Recent(w)
    BY InTheRing DEF Recent
  <1>5. Cardinality(Recent(w)) \in Nat /\ Cardinality(Staying(w)) \in Nat
    BY <1>1, <1>3, FS_CardinalityType
  <1> QED
    BY <1>3, <1>4, <1>5

(* What a window holds after a push: what stays, one older, and the new sample. *)
LEMMA AfterUp ==
  ASSUME RingInv, SampleUp, NEW w \in Nat, w <= WINDOW
  PROVE  Cardinality(Recent(w)') = Cardinality(Staying(w))
  <1> DEFINE S == Staying(w)
             T == {a + 1 : a \in S}
  <1>1. Recent(w)' = T
    BY Sizes, InTheRing DEF Recent, Staying, SampleUp, Older
  <1>2. S \in SUBSET Nat /\ IsFiniteSet(S)
    BY StayingCounts, InTheRing DEF Staying
  <1> HIDE DEF S
  <1>3. Cardinality(T) = Cardinality(S)
    BY <1>2, Shifted
  <1> QED
    BY <1>1, <1>3 DEF S

LEMMA AfterDown ==
  ASSUME RingInv, SampleDown, NEW w \in Nat \ {0}, w <= WINDOW
  PROVE  Cardinality(Recent(w)') = Cardinality(Staying(w)) + 1
  <1> DEFINE S == Staying(w)
             T == {a + 1 : a \in S}
  <1>1. Recent(w)' = T \cup {0}
    BY Sizes, InTheRing DEF Recent, Staying, SampleDown, Older
  <1>2. S \in SUBSET Nat /\ IsFiniteSet(S)
    BY StayingCounts, InTheRing DEF Staying
  <1> HIDE DEF S
  <1>3. IsFiniteSet(T) /\ Cardinality(T) = Cardinality(S)
    BY <1>2, Shifted
  <1>4. 0 \notin T
    BY <1>2
  <1> HIDE DEF T
  <1> QED
    BY <1>1, <1>3, <1>4, FS_AddElement DEF S

-----------------------------------------------------------------------------
(* Products. *)
LEMMA Grows ==
  ASSUME NEW k \in Nat, NEW m \in Nat, NEW n \in Nat, m <= n
  PROVE  k * m <= k * n /\ m * k <= n * k
  OBVIOUS

(* A rate over L samples which c of them exceed is exceeded by one more of each. *)
LEMMA OneMoreOfEach ==
  ASSUME NEW c \in Nat, NEW L \in Nat \ {0}, NEW k \in Nat, c <= L,
         c * 10000 >= k * L
  PROVE  (c + 1) * 10000 >= k * (L + 1)
  <1>1. k <= 10000
    <2>1. SUFFICES ASSUME k >= 10001 PROVE FALSE
      OBVIOUS
    <2>2. k * L >= 10001 * L
      BY <2>1, Grows
    <2> QED
      BY <2>2
  <1>2. k * (L + 1) = k * L + k
    OBVIOUS
  <1> QED
    BY <1>1, <1>2

-----------------------------------------------------------------------------
(* The budget is spent when the whole ring burns at its own rate. *)
LEMMA SpentIsABurn ==
  ASSUME RingInv
  PROVE  Spent <=> Burns(WINDOW, 10)
  <1>1. Recent(WINDOW) = downs /\ Least(samples, WINDOW) = samples
    BY Sizes, InTheRing DEF Recent, Least
  <1>2. budget \in Nat /\ samples \in Nat /\ Cardinality(downs) \in Nat
    BY Finite, InTheRing
  <1>3. budget * samples \in Nat /\ samples * budget = budget * samples
          /\ 10 * budget * samples = 10 * (budget * samples)
    BY <1>2
  <1> QED
    BY <1>1, <1>2, <1>3 DEF Spent, Burns

(* An answered sample heats up no window, ... *)
LEMMA UpCools ==
  ASSUME RingInv, SampleUp, NEW w \in Nat, w <= WINDOW, NEW t \in Nat, Burns(w, t)'
  PROVE  Burns(w, t)
  <1> DEFINE k == t * budget
             c == Cardinality(Recent(w))
             d == Cardinality(Recent(w)')
  <1>1. budget' = budget /\ budget \in Nat /\ samples' = Least(samples + 1, WINDOW)
    BY InTheRing DEF SampleUp, Push
  <1>2. k \in Nat /\ c \in Nat /\ d \in Nat /\ d <= c
    <2>1. Cardinality(Recent(w)) \in Nat
      BY Finite, InTheRing
    <2> QED
      BY <1>1, <2>1, AfterUp, StayingCounts
  <1>3. /\ Least(samples, w) \in Nat /\ Least(samples', w) \in Nat
        /\ Least(samples, w) <= Least(samples', w)
    BY <1>1, InTheRing, Sizes DEF Least
  <1>4. d * 10000 >= k * Least(samples', w)
    BY <1>1 DEF Burns, Least
  <1>5. k * Least(samples, w) <= k * Least(samples', w)
    BY <1>2, <1>3, Grows
  <1>6. k * Least(samples, w) \in Nat /\ k * Least(samples', w) \in Nat
    BY <1>2, <1>3
  <1>7. c * 10000 >= k * Least(samples, w)
    <2> HIDE DEF c, d, k
    <2> QED
      BY <1>2, <1>4, <1>5, <1>6
  <1> QED
    BY <1>7 DEF Burns

(* ... and an unanswered one cools none. *)
LEMMA DownHeats ==
  ASSUME RingInv, SampleDown, samples > 0, NEW w \in Nat \ {0}, w <= WINDOW,
         NEW t \in Nat, Burns(w, t)
  PROVE  Burns(w, t)'
  <1> DEFINE k == t * budget
             c == Cardinality(Recent(w))
             d == Cardinality(Recent(w)')
  <1>1. budget' = budget /\ budget \in Nat /\ samples' = Least(samples + 1, WINDOW)
    BY InTheRing DEF SampleDown, Push
  <1>2. k \in Nat /\ c \in Nat /\ d \in Nat /\ c <= samples
    <2>1. c \in Nat /\ c <= samples
      BY Finite, InTheRing
    <2>2. d \in Nat
      BY AfterDown, StayingCounts
    <2> QED
      BY <1>1, <2>1, <2>2
  <1>3. d >= c /\ (samples < w => d = c + 1)
    BY <1>2, AfterDown, StayingCounts
  <1>4. c * 10000 >= k * Least(samples, w)
    BY DEF Burns
  <1>5. d * 10000 >= k * Least(samples', w)
    <2>1. CASE samples >= w
      <3>1. Least(samples, w) = w /\ Least(samples', w) = w
        BY <1>1, <2>1, InTheRing, Sizes DEF Least
      <3>2. k * w \in Nat
        BY <1>2
      <3> HIDE DEF c, d, k
      <3> QED
        BY <1>2, <1>3, <1>4, <3>1, <3>2
    <2>2. CASE samples < w
      <3>1. Least(samples, w) = samples /\ Least(samples', w) = samples + 1
        BY <1>1, <2>2, InTheRing, Sizes DEF Least
      <3>2. samples \in Nat \ {0}
        BY InTheRing
      <3>3. d = c + 1 /\ c * 10000 >= k * samples
        BY <1>3, <1>4, <2>2, <3>1
      <3> HIDE DEF c, d, k
      <3>4. (c + 1) * 10000 >= k * (samples + 1)
        BY <1>2, <3>2, <3>3, OneMoreOfEach
      <3> QED
        BY <3>1, <3>3, <3>4
    <2> QED
      BY <2>1, <2>2, InTheRing
  <1> QED
    BY <1>1, <1>5 DEF Burns, Least

(* A looser target cools every window. *)
LEMMA LooserCools ==
  ASSUME RingInv, NEW b \in Nat, budget <= b, budget' = b, samples' = samples, downs' = downs,
         NEW w \in Nat, NEW t \in Nat, Burns(w, t)'
  PROVE  Burns(w, t)
  <1> DEFINE c == Cardinality(Recent(w))
             L == Least(samples, w)
  <1>1. c \in Nat /\ L \in Nat /\ budget \in Nat
    BY Finite, InTheRing DEF Least
  <1>2. c * 10000 >= t * b * L
    BY DEF Burns, Recent, Least
  <1> HIDE DEF c, L
  <1>3. t * budget <= t * b /\ t * budget \in Nat /\ t * b \in Nat
    BY <1>1, Grows
  <1>4. t * budget * L <= t * b * L /\ t * budget * L \in Nat /\ t * b * L \in Nat
    BY <1>1, <1>3, Grows
  <1>5. c * 10000 >= t * budget * L
    BY <1>1, <1>2, <1>4
  <1> QED
    BY <1>5 DEF Burns, c, L

(* In a ring no longer than the long window a burn over that window has spent the
   budget: with budget left, the long window confirms nothing before it is full. *)
LEMMA LongIsFull ==
  ASSUME RingInv, samples > 0, Burns(BURN_LONG, BURN_SLOW), ~Spent
  PROVE  samples > BURN_LONG
  <1> DEFINE c == Cardinality(downs)
             p == budget * samples
  <1>1. SUFFICES ASSUME samples <= BURN_LONG PROVE FALSE
    BY InTheRing, Sizes
  <1>2. Recent(BURN_LONG) = downs /\ Least(samples, BURN_LONG) = samples
    BY <1>1, InTheRing, Sizes DEF Recent, Least
  <1>3. /\ c \in Nat /\ p \in Nat /\ samples * budget = p
        /\ BURN_SLOW * budget * samples = BURN_SLOW * p
    BY Finite, InTheRing, Sizes
  <1>4. c * 10000 >= BURN_SLOW * p /\ c * 1000 < p
    BY <1>2, <1>3 DEF Burns, Spent
  <1> HIDE DEF c, p
  <1>5. BURN_SLOW * p >= 10 * p
    BY <1>3, Grows, Sizes
  <1>6. BURN_SLOW * p \in Nat
    BY <1>3, Sizes
  <1> QED
    BY <1>3, <1>4, <1>5, <1>6

-----------------------------------------------------------------------------
(* The ring holds at most WINDOW samples and its dips are among them, whatever is
   recorded and pruned (record, slo.rs). *)
THEOREM Inductive == Spec => []RingInv
  <1>1. Init => RingInv
    BY Sizes DEF Init, RingInv
  <1>2. RingInv /\ [Next]_vars => RingInv'
    <2> SUFFICES ASSUME RingInv, [Next]_vars PROVE RingInv'
      OBVIOUS
    <2>1. CASE SampleUp
      <3>1. samples' \in 0..WINDOW /\ samples' = Least(samples + 1, WINDOW)
        BY <2>1, Sizes, InTheRing DEF SampleUp, Push, Least
      <3>2. \A a \in downs' : a \in Nat /\ a < samples'
        BY <2>1, <3>1, Sizes, InTheRing DEF SampleUp, Older, Least
      <3> QED
        BY <2>1, <3>1, <3>2 DEF RingInv, SampleUp
    <2>2. CASE SampleDown
      <3>1. samples' \in 1..WINDOW /\ samples' = Least(samples + 1, WINDOW)
        BY <2>2, Sizes, InTheRing DEF SampleDown, Push, Least
      <3>2. \A a \in downs' : a \in Nat /\ a < samples'
        BY <2>2, <3>1, Sizes, InTheRing DEF SampleDown, Older, Least
      <3> QED
        BY <2>2, <3>1, <3>2 DEF RingInv, SampleDown
    <2>3. CASE Forget
      BY <2>3, Sizes DEF Forget, RingInv
    <2>4. CASE Retarget
      BY <2>4 DEF Retarget, RingInv
    <2>5. CASE UNCHANGED vars
      BY <2>5 DEF vars, RingInv
    <2> QED
      BY <2>1, <2>2, <2>3, <2>4, <2>5 DEF Next
  <1> QED
    BY <1>1, <1>2, PTL DEF Spec

(* The alarms one above the other, and what of a state with an alarm is used of
   the one before a step and of the one after it. *)
Alarms ==
  /\ Spent <=> Burns(WINDOW, 10)
  /\ samples > 0 /\ Burns(BURN_LONG, BURN_SLOW) /\ ~Spent => samples > BURN_LONG
  /\ samples >= MIN_SAMPLES =>
       /\ Severity \in 0..2
       /\ Severity >= 1 <=> Spent \/ Fast \/ Slow
       /\ Severity = 2 <=> Spent \/ Fast

LEMMA AlarmsRank == RingInv => Alarms
  <1> SUFFICES ASSUME RingInv PROVE Alarms
    OBVIOUS
  <1>1. ASSUME samples >= MIN_SAMPLES
        PROVE  /\ Severity \in 0..2
               /\ Severity >= 1 <=> Spent \/ Fast \/ Slow
               /\ Severity = 2 <=> Spent \/ Fast
    <2>1. ~(samples < MIN_SAMPLES)
      BY <1>1, InTheRing, Sizes
    <2>2. /\ Spent \/ Fast => Verdict \in {"Breached", "FastBurn"}
          /\ ~(Spent \/ Fast) /\ Slow => Verdict = "SlowBurn"
          /\ ~(Spent \/ Fast) /\ ~Slow => Verdict = "Healthy"
      BY <2>1 DEF Verdict
    <2> QED
      BY <2>2 DEF Severity
  <1> QED
    BY <1>1, SpentIsABurn, LongIsFull DEF Alarms

LEMMA AlarmsRankNext == RingInv' => Alarms'
  BY AlarmsRank, PTL

LEMMA UpNeverWorse ==
  ASSUME RingInv, RingInv', samples >= MIN_SAMPLES, SampleUp
  PROVE  Severity' <= Severity
  <1>1. /\ samples \in Nat \ {0} /\ samples' \in Nat \ {0}
        /\ samples <= samples' /\ samples' <= samples + 1 /\ samples' >= MIN_SAMPLES
    BY InTheRing, Sizes DEF SampleUp, Push, Least
  <1>2. Spent' => Spent
    <2>1. Spent' <=> Burns(WINDOW, 10)'
      BY AlarmsRankNext DEF Alarms
    <2> QED
      BY <2>1, UpCools, SpentIsABurn, Sizes
  <1>3. Active' => Active
    BY InTheRing, Sizes DEF Active, Recent, SampleUp, Older
  <1>4. Fast' => Fast
    BY <1>3, UpCools, Sizes DEF Fast
  <1>5. Slow' /\ ~Spent' => Slow
    <2> SUFFICES ASSUME Slow', ~Spent' PROVE Slow
      OBVIOUS
    <2>1. samples' > BURN_LONG
      <3>1. Burns(BURN_LONG, BURN_SLOW)'
        BY DEF Slow
      <3> QED
        BY <1>1, <3>1, AlarmsRankNext DEF Alarms
    <2>2. samples >= BURN_LONG_MIN
      BY <1>1, <2>1, Sizes
    <2> QED
      BY <1>3, <2>2, UpCools, Sizes DEF Slow
  <1> QED
    BY <1>1, <1>2, <1>4, <1>5, AlarmsRank, AlarmsRankNext DEF Alarms

LEMMA DownNeverBetter ==
  ASSUME RingInv, RingInv', samples >= MIN_SAMPLES, SampleDown
  PROVE  Severity' >= Severity
  <1>1. /\ samples > 0 /\ samples \in Nat /\ samples' \in Nat
        /\ samples <= samples' /\ samples' >= MIN_SAMPLES
    BY InTheRing, Sizes DEF SampleDown, Push, Least
  <1>2. Active'
    BY Sizes DEF Active, Recent, SampleDown
  <1>3. Fast => Fast'
    BY <1>1, <1>2, DownHeats, Sizes DEF Fast
  <1>4. Slow => Slow'
    <2>1. samples >= BURN_LONG_MIN => samples' >= BURN_LONG_MIN
      BY <1>1, Sizes
    <2> QED
      BY <1>1, <1>2, <2>1, DownHeats, Sizes DEF Slow
  <1>5. Spent => Spent'
    <2>1. Spent => Burns(WINDOW, 10)'
      BY <1>1, SpentIsABurn, DownHeats, Sizes
    <2> QED
      BY <2>1, AlarmsRankNext DEF Alarms
  <1> QED
    BY <1>1, <1>3, <1>4, <1>5, AlarmsRank, AlarmsRankNext DEF Alarms

LEMMA LooserNeverWorse ==
  ASSUME RingInv, RingInv', samples >= MIN_SAMPLES, Retarget, budget' > budget
  PROVE  Severity' <= Severity
  <1>1. /\ samples' = samples /\ downs' = downs /\ budget \in Nat /\ budget' \in Nat
        /\ budget <= budget'
    BY InTheRing, SloAssumption DEF Retarget
  <1>2. \A w \in Nat, t \in Nat : Burns(w, t)' => Burns(w, t)
    BY <1>1, LooserCools
  <1>3. (Spent' => Spent) /\ (Fast' => Fast) /\ (Slow' => Slow)
    <2>1. Active' <=> Active
      BY <1>1 DEF Active, Recent
    <2>2. Spent' => Spent
      <3>1. Spent' => Burns(WINDOW, 10)'
        BY AlarmsRankNext DEF Alarms
      <3> QED
        BY <3>1, <1>2, SpentIsABurn, Sizes
    <2> QED
      BY <1>1, <1>2, <2>1, <2>2, Sizes DEF Fast, Slow
  <1> QED
    BY <1>1, <1>3, AlarmsRank, AlarmsRankNext DEF Alarms

(* from_ring and record: out of the warm-up an answered sample never makes the
   alarm worse and an unanswered one never better, whatever leaves the windows and
   the ring at that step, and loosening the target never makes it worse. *)
THEOREM VerdictIsMonotone == Spec => VerdictFollowsTheSample
  <1> DEFINE Follows ==
        samples >= MIN_SAMPLES =>
          /\ SampleUp => Severity' <= Severity
          /\ SampleDown => Severity' >= Severity
          /\ Retarget /\ budget' > budget => Severity' <= Severity
  <1>1. RingInv /\ RingInv' => Follows
    BY UpNeverWorse, DownNeverBetter, LooserNeverWorse
  <1> HIDE DEF Follows
  <1>2. Spec => [][Follows]_vars
    BY <1>1, Inductive, PTL
  <1> QED
    BY <1>2 DEF VerdictFollowsTheSample, Follows

-----------------------------------------------------------------------------
(* The budgets at which the verdict tells a blip from a burn: those which a single
   dip in a whole ring spends, and those loose enough for the long window not to
   confirm one.  With the code's constants that is all but 5 to 8 thousandths. *)
BlipIsTold(b) == b * WINDOW <= 1000 \/ BURN_SLOW * b * BURN_LONG > 10000

(* "A one-sample blip (long window cold) and a recovered incident (not active)
   both stay quiet" (slo.rs:29-31): under every target at which the windows tell
   them apart there is no burn alarm without two dips, one of them recent. *)
THEOREM QuietOnABlip ==
  ASSUME \A b \in Budgets : BlipIsTold(b)
  PROVE  Spec => []BurnIsNoBlip
  <1>1. RingInv => BurnIsNoBlip
    <2> SUFFICES ASSUME RingInv, Verdict \in {"SlowBurn", "FastBurn"}
                 PROVE  Cardinality(downs) >= 2 /\ \E a \in downs : a < BURN_ACTIVE
      BY DEF BurnIsNoBlip
    <2>1. /\ ~(samples < MIN_SAMPLES) /\ ~Spent
          /\ Active /\ Burns(BURN_LONG, BURN_SLOW)
      BY DEF Verdict, Fast, Slow
    <2>2. PICK a \in downs : a < BURN_ACTIVE
      BY <2>1 DEF Active, Recent
    <2>3. samples > BURN_LONG
      BY <2>1, LongIsFull, InTheRing, Sizes
    <2>4. Cardinality(downs) \in Nat \ {0}
      BY <2>2, Finite, FS_EmptySet, InTheRing
    <2>5. SUFFICES ASSUME Cardinality(downs) = 1 PROVE FALSE
      BY <2>2, <2>4
    <2>6. 10000 >= BURN_SLOW * budget * BURN_LONG
      <3>1. Cardinality(Recent(BURN_LONG)) \in Nat /\ Cardinality(Recent(BURN_LONG)) <= 1
        BY <2>5, Finite
      <3>2. Least(samples, BURN_LONG) = BURN_LONG
        BY <2>3, InTheRing, Sizes DEF Least
      <3>3. Cardinality(Recent(BURN_LONG)) * 10000 >= BURN_SLOW * budget * BURN_LONG
        BY <2>1, <3>2 DEF Burns
      <3>4. BURN_SLOW * budget * BURN_LONG \in Nat
        BY Sizes, InTheRing
      <3> QED
        BY <3>1, <3>3, <3>4
    <2>7. 1000 < samples * budget
      BY <2>1, <2>5, InTheRing DEF Spent
    <2>8. samples * budget <= budget * WINDOW
      <3>1. samples * budget = budget * samples
        BY InTheRing
      <3>2. budget * samples <= budget * WINDOW
        BY Grows, InTheRing, Sizes
      <3> QED
        BY <3>1, <3>2
    <2>9. samples * budget \in Nat /\ budget * WINDOW \in Nat
            /\ BURN_SLOW * budget * BURN_LONG \in Nat
      BY InTheRing, Sizes
    <2> QED
      BY <2>6, <2>7, <2>8, <2>9 DEF BlipIsTold, RingInv
  <1> QED
    BY <1>1, Inductive, PTL

(* At every other target the claim is false: a ring filled but for one dip, which
   has just happened, does raise a burn alarm, if the short window is as hot. *)
THEOREM BlipAlarmsInBetween ==
  ASSUME budget \in Budgets, ~BlipIsTold(budget), samples = WINDOW, downs = {0},
         MIN_SAMPLES <= WINDOW, BURN_HOT * BURN_SHORT <= BURN_SLOW * BURN_LONG
  PROVE  Verdict \in {"SlowBurn", "FastBurn"}
  <1>1. budget \in Nat /\ budget * WINDOW > 1000 /\ BURN_SLOW * budget * BURN_LONG <= 10000
    BY Sizes, SloAssumption DEF BlipIsTold
  <1>2. \A w \in Nat \ {0} : Recent(w) = {0} /\ Cardinality(Recent(w)) = 1
    <2>1. \A w \in Nat \ {0} : Recent(w) = {0}
      BY DEF Recent
    <2> QED
      BY <2>1, FS_Singleton
  <1>3. ~Spent
    <2>1. Cardinality(downs) = 1
      BY FS_Singleton
    <2>2. samples * budget = budget * WINDOW /\ samples * budget \in Nat
      BY <1>1, Sizes
    <2> QED
      BY <1>1, <2>1, <2>2 DEF Spent
  <1>4. Active
    BY <1>2, Sizes DEF Active
  <1>5. Burns(BURN_LONG, BURN_SLOW)
    BY <1>1, <1>2, Sizes DEF Burns, Least
  <1>6. Burns(BURN_SHORT, BURN_HOT)
    <2>1. BURN_HOT * budget * BURN_SHORT = (BURN_HOT * BURN_SHORT) * budget
            /\ BURN_SLOW * budget * BURN_LONG = (BURN_SLOW * BURN_LONG) * budget
      BY <1>1, Sizes
    <2>2. (BURN_HOT * BURN_SHORT) * budget <= (BURN_SLOW * BURN_LONG) * budget
      BY <1>1, Sizes, Grows
    <2>3. BURN_HOT * budget * BURN_SHORT <= 10000
      BY <1>1, <2>1, <2>2, Sizes
    <2>4. Least(samples, BURN_SHORT) = BURN_SHORT
      BY Sizes DEF Least
    <2> QED
      BY <1>2, <2>3, <2>4, Sizes DEF Burns
  <1>7. Slow /\ ~(samples < MIN_SAMPLES)
    BY <1>4, <1>5, <1>6, Sizes DEF Slow
  <1> QED
    BY <1>3, <1>7 DEF Verdict
=============================================================================
