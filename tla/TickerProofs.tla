---------------------------- MODULE TickerProofs ----------------------------
(***************************************************************************)
(* Proofs about Ticker, for every interval and every bound on delays.      *)
(***************************************************************************)
EXTENDS Ticker, TLAPS

\* The ticks are one interval apart.
LEMMA TickStep ==
  ASSUME NEW r \in Nat
  PROVE  /\ r * Interval \in Nat
         /\ (r + 1) * Interval = r * Interval + Interval
         /\ r > 0 => r - 1 \in Nat /\ r * Interval = (r - 1) * Interval + Interval
         /\ 0 * Interval = 0
  BY IntervalAssumption

\* The longest wait after the begin of a round covers the round, and the sleep.
LEMMA LongestCovers ==
  Longest \in Nat /\ Longest >= MaxCollect /\ Longest >= Interval + MaxLate
  BY IntervalAssumption, DelayAssumption DEF Longest

\* The invariant holds at first.
LEMMA Initially == Init => IndInv
<1> SUFFICES ASSUME Init PROVE IndInv
  OBVIOUS
<1> USE IntervalAssumption, DelayAssumption DEF Init
<1>1. fits \in BOOLEAN /\ (fits => MaxLate <= Interval)
  <2>1. fits \in BOOLEAN /\ (fits => ~(MaxLate > Interval))
    BY Zenon
  <2> QED
    BY <2>1
<1>2. TypeOK
  BY <1>1 DEF TypeOK
<1>3. RoundInReach /\ TickOfPlace /\ StopFollowsRound /\ NeverEarly /\ LatenessDoesNotAddUp
  BY TickStep DEF RoundInReach, TickOfPlace, StopFollowsRound, NeverEarly, LatenessDoesNotAddUp
<1>4. ClockAtPlace
  BY <1>1 DEF ClockAtPlace
<1> QED
  BY <1>2, <1>3, <1>4 DEF IndInv

\* Every step keeps it.
LEMMA Inductive == IndInv /\ [Next]_vars => IndInv'
<1> SUFFICES ASSUME IndInv, [Next]_vars PROVE IndInv'
  OBVIOUS
<1> USE IntervalAssumption, DelayAssumption, LongestCovers
<1> USE DEF IndInv, TypeOK, RoundInReach, TickOfPlace, ClockAtPlace, StopFollowsRound,
            NeverEarly, LatenessDoesNotAddUp
<1>1. CASE Elapses
  <2>1. /\ now' = now + 1
        /\ UNCHANGED pc /\ UNCHANGED next_tick /\ UNCHANGED rounds
        /\ UNCHANGED begun /\ UNCHANGED asked
    BY <1>1 DEF Elapses
  <2>2. UNCHANGED running
    BY <1>1 DEF Elapses
  <2>3. /\ fits' \in BOOLEAN
        /\ fits' => fits
        /\ fits' => (pc = "collect" => now + 1 + MaxLate <= begun + Interval)
    BY <1>1, Zenon DEF Elapses
  <2>4. \/ pc = "collect" /\ now < begun + MaxCollect
        \/ pc = "sleep" /\ now < next_tick + MaxLate
    BY <1>1 DEF Elapses
  <2>5. TypeOK'
    BY <2>1, <2>2, <2>3
  <2>6. RoundInReach' /\ TickOfPlace' /\ NeverEarly'
    BY <2>1, <2>4, TickStep
  <2>7. ClockAtPlace'
    BY <2>1, <2>3, <2>4
  <2>8. StopFollowsRound'
    BY <2>1, <2>2
  <2>9. LatenessDoesNotAddUp'
    BY <2>1, <2>3
  <2> QED
    BY <2>5, <2>6, <2>7, <2>8, <2>9
<1>2. CASE Stop
  <2>1. /\ running' = FALSE /\ asked' = now
        /\ UNCHANGED pc /\ UNCHANGED now /\ UNCHANGED next_tick
        /\ UNCHANGED rounds /\ UNCHANGED begun
    BY <1>2 DEF Stop
  <2>2. UNCHANGED fits
    BY <1>2 DEF Stop
  <2>3. begun <= now /\ now # -1
    OBVIOUS
  <2>4. TypeOK' /\ StopFollowsRound'
    <3>1. StopFollowsRound'
      BY <2>1, <2>3
    <3>2. TypeOK'
      BY <2>1, <2>2
    <3> QED
      BY <3>1, <3>2
  <2>5. RoundInReach' /\ TickOfPlace' /\ NeverEarly'
    BY <2>1 DEF Longest
  <2>6. ClockAtPlace' /\ LatenessDoesNotAddUp'
    BY <2>1, <2>2
  <2> QED
    BY <2>4, <2>5, <2>6
<1>3. CASE BeginRound
  <2>1. /\ pc = "check" /\ pc' = "collect" /\ rounds' = rounds + 1 /\ begun' = now
        /\ UNCHANGED now /\ UNCHANGED next_tick /\ UNCHANGED asked
    BY <1>3 DEF BeginRound
  <2>2. running /\ UNCHANGED running /\ UNCHANGED fits
    BY <1>3 DEF BeginRound
  <2>3. TypeOK' /\ StopFollowsRound'
    BY <2>1, <2>2
  <2>4. RoundInReach' /\ TickOfPlace' /\ NeverEarly'
    BY <2>1, TickStep
  <2>5. now >= next_tick /\ (fits => now <= next_tick + MaxLate)
    BY <2>1
  <2>6. LatenessDoesNotAddUp'
    BY <2>1, <2>2, <2>5
  <2>7. ClockAtPlace'
    BY <2>1, <2>2, <2>5
  <2> QED
    BY <2>3, <2>4, <2>6, <2>7
<1>4. CASE Return
  <2>1. /\ pc = "check" /\ pc' = "returned"
        /\ UNCHANGED now /\ UNCHANGED next_tick /\ UNCHANGED rounds
        /\ UNCHANGED begun /\ UNCHANGED asked
    BY <1>4 DEF Return
  <2>2. UNCHANGED running /\ UNCHANGED fits
    BY <1>4 DEF Return
  <2>3. TypeOK' /\ StopFollowsRound'
    BY <2>1, <2>2
  <2>4. RoundInReach' /\ TickOfPlace' /\ NeverEarly'
    BY <2>1 DEF Longest
  <2>5. ClockAtPlace' /\ LatenessDoesNotAddUp'
    BY <2>1, <2>2
  <2> QED
    BY <2>3, <2>4, <2>5
<1>5. CASE EndRound
  BY <1>5, TickStep DEF EndRound
<1>6. CASE Pace
  BY <1>6, TickStep DEF Pace
<1>7. CASE Wake
  BY <1>7, TickStep DEF Wake
<1>8. CASE Over \/ UNCHANGED vars
  <2>1. /\ UNCHANGED pc /\ UNCHANGED now /\ UNCHANGED next_tick /\ UNCHANGED rounds
        /\ UNCHANGED begun /\ UNCHANGED asked
    BY <1>8 DEF Over, vars
  <2>2. UNCHANGED running /\ UNCHANGED fits
    BY <1>8 DEF Over, vars
  <2>3. TypeOK' /\ StopFollowsRound'
    BY <2>1, <2>2
  <2>4. RoundInReach' /\ TickOfPlace' /\ NeverEarly'
    BY <2>1 DEF Longest
  <2>5. ClockAtPlace' /\ LatenessDoesNotAddUp'
    BY <2>1, <2>2
  <2> QED
    BY <2>3, <2>4, <2>5
<1> QED
  BY <1>1, <1>2, <1>3, <1>4, <1>5, <1>6, <1>7, <1>8 DEF Next

\* The loop keeps to its ticks, whatever its rounds take.
THEOREM Invariance == Spec => []IndInv
  BY Initially, Inductive, PTL DEF Spec

\* Exposer::run() begins no round before its tick, also after overruns.
THEOREM EarlyTheorem == Spec => []NeverEarly
<1>1. IndInv => NeverEarly
  BY DEF IndInv
<1> QED
  BY <1>1, Invariance, PTL

\* When run() sleeps, every tick so far has had its round: overruns are made up for.
THEOREM TickTheorem == Spec => []NoTickLost
<1>1. IndInv => NoTickLost
  <2> SUFFICES ASSUME IndInv, pc = "sleep", now < next_tick
               PROVE  (rounds - 1) * Interval <= now /\ now < rounds * Interval
    BY DEF NoTickLost
  <2>1. rounds > 0 /\ rounds \in Nat
    BY DEF IndInv, TypeOK, RoundInReach
  <2>2. begun >= (rounds - 1) * Interval /\ begun <= now
    BY <2>1 DEF IndInv, NeverEarly, RoundInReach
  <2>3. next_tick = rounds * Interval
    BY DEF IndInv, TickOfPlace
  <2> QED
    BY <2>1, <2>2, <2>3, TickStep DEF IndInv, TypeOK
<1> QED
  BY <1>1, Invariance, PTL

\* If rounds and wake-ups fit into the interval, run() is never late by more than a wake-up.
THEOREM LatenessTheorem == Spec => []LatenessDoesNotAddUp
<1>1. IndInv => LatenessDoesNotAddUp
  BY DEF IndInv
<1> QED
  BY <1>1, Invariance, PTL

\* After stop(), run() goes on for the longest round, or interval and wake-up, at most.
THEOREM StopTheorem == Spec => []StopIsPrompt
<1>1. IndInv => StopIsPrompt
  BY LongestCovers DEF IndInv, TypeOK, RoundInReach, StopFollowsRound, StopIsPrompt
<1> QED
  BY <1>1, Invariance, PTL
=============================================================================
