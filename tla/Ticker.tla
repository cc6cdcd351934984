------------------------------- MODULE Ticker -------------------------------
(***************************************************************************)
(* The pace of Exposer::run(): rounds on a grid of ticks, one interval     *)
(* apart, which a round that takes longer than the interval overruns.      *)
(*                                                                         *)
(* Time is the steady clock in whole units since run() read it first.  A   *)
(* round takes up to MaxCollect (every call in it times out or returns),   *)
(* and the thread wakes up to MaxLate after the tick it sleeps for.        *)
(***************************************************************************)
EXTENDS Integers

CONSTANTS
  Interval,    \* interval; the command line admits 0, a loop without pause
  MaxCollect,  \* the longest collect()
  MaxLate,     \* the longest delay of the wake-up
  MaxTime      \* bound on the time

ASSUME IntervalAssumption == Interval \in Nat
ASSUME DelayAssumption == MaxCollect \in Nat /\ MaxLate \in Nat
ASSUME TimeAssumption == MaxTime \in Nat

VARIABLES
  pc,         \* where run() is
  now,        \* clock::now()
  next_tick,
  running,
  rounds,     \* the rounds begun (history)
  begun,      \* when the latest round began (history)
  fits,       \* every round so far leaves room for a late wake-up (history)
  asked       \* when stop() was first called, -1 if it was not (history)

vars == <<pc, now, next_tick, running, rounds, begun, fits, asked>>

TypeOK ==
  /\ pc \in {"check", "collect", "pace", "sleep", "returned"}
  /\ now \in Nat /\ next_tick \in Nat
  /\ running \in BOOLEAN
  /\ rounds \in Nat /\ begun \in Nat
  /\ fits \in BOOLEAN
  /\ asked \in Nat \cup {-1}

\* run() sets its flag and reads the clock.
Init ==
  /\ pc = "check"
  /\ now = 0 /\ next_tick = 0
  /\ running = TRUE
  /\ rounds = 0 /\ begun = 0
  /\ fits = ~(MaxLate > Interval)
  /\ asked = -1

-----------------------------------------------------------------------------
(* The clock and the watcher                                               *)

\* Time passes in a round and in a sleep, the rest takes none.
Elapses ==
  /\ now < MaxTime
  /\ \/ pc = "collect" /\ now < begun + MaxCollect
     \/ pc = "sleep" /\ now < next_tick + MaxLate
  /\ now' = now + 1
  /\ fits' = (fits /\ (pc = "collect" => now + 1 + MaxLate <= begun + Interval))
  /\ UNCHANGED <<pc, next_tick, running, rounds, begun, asked>>

\* The watcher, or a FatalError, calls stop().
Stop ==
  /\ running
  /\ running' = FALSE
  /\ asked' = now
  /\ UNCHANGED <<pc, now, next_tick, rounds, begun, fits>>

-----------------------------------------------------------------------------
(* run()                                                                   *)

BeginRound ==
  /\ pc = "check"
  /\ running
  /\ pc' = "collect"
  /\ rounds' = rounds + 1
  /\ begun' = now
  /\ UNCHANGED <<now, next_tick, running, fits, asked>>

\* The loop condition fails.
Return ==
  /\ pc = "check"
  /\ ~running
  /\ pc' = "returned"
  /\ UNCHANGED <<now, next_tick, running, rounds, begun, fits, asked>>

\* Mutant: the next tick is counted from now.
EndRoundDrifts ==
  /\ pc = "collect"
  /\ pc' = "pace"
  /\ next_tick' = now + Interval
  /\ UNCHANGED <<now, running, rounds, begun, fits, asked>>

\* collect() returns, the next tick follows the last one.
EndRound ==
  /\ pc = "collect"
  /\ pc' = "pace"
  /\ next_tick' = next_tick + Interval
  /\ UNCHANGED <<now, running, rounds, begun, fits, asked>>

\* Mutant: a round that was too long costs the ticks it overran.
PaceSkips ==
  /\ pc = "pace"
  /\ IF now < next_tick THEN pc' = "sleep" /\ UNCHANGED next_tick
                        ELSE pc' = "check" /\ next_tick' = now
  /\ UNCHANGED <<now, running, rounds, begun, fits, asked>>

\* Mutant: the thread sleeps for an interval whatever the time is.
PaceAlways ==
  /\ pc = "pace"
  /\ pc' = "sleep"
  /\ next_tick' = IF now < next_tick THEN next_tick ELSE now + Interval
  /\ UNCHANGED <<now, running, rounds, begun, fits, asked>>

Pace ==
  /\ pc = "pace"
  /\ pc' = IF now < next_tick THEN "sleep" ELSE "check"
  /\ UNCHANGED <<now, next_tick, running, rounds, begun, fits, asked>>

\* sleep_until() returns at the tick or later.
Wake ==
  /\ pc = "sleep"
  /\ now >= next_tick
  /\ pc' = "check"
  /\ UNCHANGED <<now, next_tick, running, rounds, begun, fits, asked>>

\* run() has returned, or the bound on time ends the behaviour.
Over ==
  /\ pc = "returned" \/ now = MaxTime
  /\ UNCHANGED vars

Next ==
  \/ Elapses \/ Stop
  \/ BeginRound \/ Return \/ EndRound \/ Pace \/ Wake
  \/ Over

Spec == Init /\ [][Next]_vars

-----------------------------------------------------------------------------
(* Properties                                                              *)

\* No round begins before its tick, however many were late before it.
NeverEarly == rounds > 0 => begun >= (rounds - 1) * Interval

\* A thread that sleeps has caught up: it has begun as many rounds as ticks have come,
\* none more, and none less for the rounds that took too long.
NoTickLost ==
  pc = "sleep" /\ now < next_tick =>
    (rounds - 1) * Interval <= now /\ now < rounds * Interval

\* As long as every round leaves room for a late wake-up, each begins at its tick, not
\* later than the wake-up allows: one that is late makes no other late.
LatenessDoesNotAddUp ==
  fits /\ rounds > 0 => begun <= (rounds - 1) * Interval + MaxLate

\* How long the loop goes on after stop() is bounded by a round, or an interval and a
\* late wake-up, however far behind its ticks it is when it is stopped.
Longest == IF MaxCollect > Interval + MaxLate THEN MaxCollect ELSE Interval + MaxLate
StopIsPrompt == asked # -1 => now <= asked + Longest

-----------------------------------------------------------------------------
(* The inductive invariant                                                 *)

\* Before the first round no time passes; after it the latest round lies in the past,
\* and no further back than a round and the sleep after it can take.
RoundInReach ==
  IF rounds = 0 THEN pc \in {"check", "returned"} /\ now = 0 /\ begun = 0
                ELSE begun <= now /\ now <= begun + Longest

\* next_tick is the tick of the round under way, else that of the next round.
TickOfPlace ==
  /\ pc = "collect" => rounds > 0 /\ next_tick = (rounds - 1) * Interval
  /\ pc # "collect" => next_tick = rounds * Interval

\* Where the clock can be at each place.
ClockAtPlace ==
  /\ pc \in {"check", "returned"} => now >= next_tick
  /\ pc \in {"collect", "pace"} => now <= begun + MaxCollect
  /\ pc = "sleep" => now <= next_tick + MaxLate
  /\ fits => MaxLate <= Interval
  /\ pc = "check" /\ fits => now <= next_tick + MaxLate
  /\ pc \in {"collect", "pace"} /\ fits => now + MaxLate <= begun + Interval

\* No round begins after a stop.
StopFollowsRound ==
  /\ running <=> asked = -1
  /\ ~running => begun <= asked /\ asked <= now

\* The loop keeps to its ticks.
IndInv ==
  /\ TypeOK /\ RoundInReach /\ TickOfPlace /\ ClockAtPlace /\ StopFollowsRound
  /\ NeverEarly /\ LatenessDoesNotAddUp
=============================================================================
