----------------------- MODULE ClusterCollectorProofs -----------------------
(*****************************************************************************)
(* Proofs about the cluster collector, for every set of nodes, with a        *)
(* heartbeat or without: Membership, the life of the heartbeat keys and the  *)
(* count of the nodes, and then ClusterImpl, the connection beneath.         *)
(*****************************************************************************)
EXTENDS Membership, ClusterImpl, FiniteSetTheorems, TLAPS

\* What is counted: every key once, and those that came again.
CountKept == scan.count = Cardinality(scan.seen) + scan.again

\* The last SET of a node that is down reaches Redis within its flight, and what it
\* sets is gone when the node is forgotten.
DeadFades ==
  \A n \in Nodes : phase[n] = "down" =>
    /\ wire[n] > 0 => wire[n] + timer[n] <= MaxFlight
    /\ life[n] > 0 => life[n] + timer[n] <= Forgotten

\* Nothing of a forgotten node is left, and the sample has not seen its key.
GoneIsGone ==
  \A n \in scan.gone :
    phase[n] = "down" /\ life[n] = 0 /\ wire[n] = 0 /\ n \notin scan.seen

\* The sleep of a heartbeat thread is never longer than the interval.
SleepIsShort ==
  \A n \in Nodes : phase[n] = "asleep" => 1 <= timer[n] /\ timer[n] <= Interval

\* A key that was renewed in time has lost no more of its life than the answer took.
AnswerIsFresh ==
  \A n \in Nodes : phase[n] = "answered" /\ timer[n] <= MaxDelay => life[n] + timer[n] >= TTL

\* The key of a node in ok outlives the sleep and the longest heartbeat in time after it.
OkOutlives ==
  \A n \in ok :
    /\ phase[n] # "down"
    /\ phase[n] = "asleep" => life[n] > timer[n] + MaxDelay
    /\ phase[n] # "asleep" => timer[n] <= MaxDelay
    /\ phase[n] \in {"due", "sent"} => life[n] + timer[n] > MaxDelay

\* The steady nodes are in ok, and their keys have been there since the sample began.
SteadyStays == scan.steady \subseteq ok \intersect scan.stayed

IndInv ==
  /\ CountKept
  /\ DeadFades /\ GoneIsGone
  /\ SleepIsShort /\ AnswerIsFresh /\ OkOutlives /\ SteadyStays

-----------------------------------------------------------------------------
(* Lemmas                                                                  *)

\* The interval, the delays and the flight in numbers.
LEMMA Times ==
  /\ TTL \in Nat /\ MaxDelay \in Nat /\ MaxFlight \in Nat /\ Interval \in Nat
  /\ Interval >= 1 /\ MaxFlight >= 1 /\ TTL >= 1
  /\ TTL > Interval + MaxDelay + MaxDelay
  /\ Forgotten \in Nat /\ Forgotten = TTL + MaxFlight - 1
<1>1. Interval \in Nat
  BY TimeAssumption DEF Interval
<1> QED
  BY <1>1, TimeAssumption, RenewalAssumption, FlightAssumption DEF Forgotten

\* Time that runs out.
LEMMA LessType == ASSUME NEW k \in Nat
                  PROVE  /\ Less(k) \in Nat /\ Less(k) <= k
                         /\ k > 0 => Less(k) = k - 1
                         /\ k = 0 => Less(k) = 0
  BY DEF Less

\* A set of nodes has a number of members, no larger than that of a superset.
LEMMA NodeSets ==
  ASSUME NEW S \in SUBSET Nodes, NEW T \in SUBSET Nodes
  PROVE  /\ IsFiniteSet(S) /\ Cardinality(S) \in Nat
         /\ S \subseteq T => Cardinality(S) <= Cardinality(T)
         /\ Cardinality(S \union T) + Cardinality(T \intersect S)
              = Cardinality(S) + Cardinality(T)
<1>1. IsFiniteSet(S) /\ IsFiniteSet(T)
  BY NodesAssumption, FS_Subset
<1>2. Cardinality(S) \in Nat /\ Cardinality(T) \in Nat
  BY <1>1, FS_CardinalityType
<1>3. S \subseteq T => Cardinality(S) <= Cardinality(T)
  BY <1>1, FS_Subset
<1>4. Cardinality(S \union T)
        = Cardinality(S) + Cardinality(T) - Cardinality(S \intersect T)
  BY <1>1, FS_Union
<1>5. IsFiniteSet(S \intersect T) /\ S \intersect T = T \intersect S
  BY <1>1, FS_Subset
<1>6. Cardinality(S \intersect T) \in Nat
  BY <1>5, FS_CardinalityType
<1>7. Cardinality(S \intersect T) = Cardinality(T \intersect S)
  BY <1>5, Zenon
<1>8. Cardinality(S \union T) + Cardinality(T \intersect S) = Cardinality(S) + Cardinality(T)
  BY <1>2, <1>4, <1>6, <1>7
<1> QED
  BY <1>1, <1>2, <1>3, <1>8

\* What a unit of time makes of a timer, by the place of its thread.
LEMMA PassesType ==
  ASSUME TypeOK, SleepIsShort, NEW n \in Nodes
  PROVE  /\ Passes(n) \in Nat
         /\ Wakes(n) => phase[n] = "asleep" /\ timer[n] = 1 /\ Passes(n) = 0
         /\ phase[n] = "asleep" /\ ~Wakes(n) => Passes(n) = timer[n] - 1 /\ timer[n] > 1
         /\ phase[n] = "down" =>
              Passes(n) = IF timer[n] < Forgotten THEN timer[n] + 1 ELSE Forgotten
         /\ Waiting(n) =>
              Passes(n) = IF timer[n] <= MaxDelay THEN timer[n] + 1 ELSE timer[n]
<1>1. timer[n] \in Nat
  BY DEF TypeOK
<1>2. phase[n] \in {"down", "due", "sent", "answered", "asleep"}
  BY DEF TypeOK
<1>3. CASE Wakes(n)
  BY <1>1, <1>3 DEF Wakes, Waiting, Passes, SleepIsShort
<1>4. CASE phase[n] = "asleep" /\ ~Wakes(n)
  BY <1>1, <1>4 DEF Wakes, Waiting, Passes
<1>5. CASE phase[n] = "down"
  BY <1>1, <1>5, Times DEF Wakes, Waiting, Passes
<1>6. CASE Waiting(n)
  BY <1>1, <1>6 DEF Wakes, Waiting, Passes
<1> QED
  BY <1>2, <1>3, <1>4, <1>5, <1>6 DEF Waiting

\* A node in ok has a key.
LEMMA OkIsAlive ==
  ASSUME TypeOK, AnswerIsFresh, OkOutlives, NEW n \in ok
  PROVE  life[n] > 0
  BY Times DEF TypeOK, AnswerIsFresh, OkOutlives

\* What an answer makes of the sample.
LEMMA PageType ==
  ASSUME TypeOK, NEW keys \in SUBSET Alive
  PROVE  /\ Page(keys) \in Samples
         /\ Page(keys).on = scan.on
         /\ Page(keys).pages > 0
         /\ Page(keys).count = scan.count + Cardinality(keys)
         /\ Page(keys).seen = scan.seen \union keys
         /\ Page(keys).again = scan.again + Cardinality(keys \intersect scan.seen)
         /\ Page(keys).stayed = scan.stayed
         /\ Page(keys).steady = scan.steady
         /\ Page(keys).gone = scan.gone
<1>1. keys \in SUBSET Nodes /\ keys \intersect scan.seen \in SUBSET Nodes
  BY DEF Alive
<1>2. Cardinality(keys) \in Nat /\ Cardinality(keys \intersect scan.seen) \in Nat
  BY <1>1, NodeSets
<1>3. scan \in Samples
  BY DEF TypeOK
<1> DEFINE c == scan.count + Cardinality(keys)
           s == scan.seen \union keys
           a == scan.again + Cardinality(keys \intersect scan.seen)
<1>4. c \in Nat /\ s \in SUBSET Nodes /\ a \in Nat
  BY <1>1, <1>2, <1>3 DEF Samples
<1> HIDE DEF c, s, a
<1> DEFINE x1 == [scan EXCEPT !.pages = @ + 1]
           x2 == [x1 EXCEPT !.count = c]
           x3 == [x2 EXCEPT !.seen = s]
           x4 == [x3 EXCEPT !.again = a]
<1> HIDE DEF x2, x3, x4
<1>5. x1 \in Samples /\ x1.pages > 0 /\ x1 = [scan EXCEPT !.pages = x1.pages]
  BY <1>3 DEF Samples
<1> HIDE DEF x1
<1>6. x2 \in Samples /\ x2 = [x1 EXCEPT !.count = c]
  BY <1>4, <1>5 DEF x2, Samples
<1>7. x3 \in Samples /\ x3 = [x2 EXCEPT !.seen = s]
  BY <1>4, <1>6 DEF x3, Samples
<1>8. x4 \in Samples /\ x4 = [x3 EXCEPT !.again = a]
  BY <1>4, <1>7 DEF x4, Samples
<1>9. /\ x4 \in Samples
      /\ x4.on = scan.on /\ x4.pages > 0 /\ x4.count = c /\ x4.seen = s /\ x4.again = a
      /\ x4.stayed = scan.stayed /\ x4.steady = scan.steady /\ x4.gone = scan.gone
  BY <1>3, <1>5, <1>6, <1>7, <1>8 DEF Samples
<1>10. Page(keys) = x4
  BY Zenon DEF Page, Count, c, s, a, x1, x2, x3, x4
<1> QED
  BY <1>9, <1>10, Zenon DEF c, s, a

\* What a lapse makes of the sample.
LEMMA LapseScan ==
  ASSUME TypeOK, NEW S, Lapse(S)
  PROVE  /\ ok' = ok \ S /\ scan' \in Samples
         /\ scan'.on = scan.on /\ scan'.pages = scan.pages /\ scan'.count = scan.count
         /\ scan'.seen = scan.seen /\ scan'.again = scan.again
         /\ scan'.stayed = scan.stayed /\ scan'.steady = scan.steady \ S
         /\ scan'.gone = scan.gone
  BY DEF TypeOK, Samples, Lapse

\* What a unit of time makes of it.
LEMMA TickScan ==
  ASSUME TypeOK, NEW A \in SUBSET Nodes, NEW B \in SUBSET Nodes,
         scan' = [scan EXCEPT !.steady = A, !.stayed = B]
  PROVE  /\ scan' \in Samples
         /\ scan'.on = scan.on /\ scan'.pages = scan.pages /\ scan'.count = scan.count
         /\ scan'.seen = scan.seen /\ scan'.again = scan.again
         /\ scan'.stayed = B /\ scan'.steady = A
         /\ scan'.gone = scan.gone
<1> DEFINE x1 == [scan EXCEPT !.steady = A]
           x2 == [x1 EXCEPT !.stayed = B]
<1> HIDE DEF x2
<1>1. x1 \in Samples /\ x1 = [scan EXCEPT !.steady = A]
  BY DEF TypeOK, Samples
<1> HIDE DEF x1
<1>2. x2 \in Samples /\ x2 = [x1 EXCEPT !.stayed = B]
  BY <1>1 DEF x2, Samples
<1>3. scan' = x2
  BY Zenon DEF x1, x2
<1> QED
  BY <1>1, <1>2, <1>3 DEF TypeOK, Samples

\* What the start of a node makes of it.
LEMMA StartScan ==
  ASSUME TypeOK, NEW n, scan' = [scan EXCEPT !.gone = @ \ {n}]
  PROVE  /\ scan' \in Samples
         /\ scan'.on = scan.on /\ scan'.pages = scan.pages /\ scan'.count = scan.count
         /\ scan'.seen = scan.seen /\ scan'.again = scan.again
         /\ scan'.stayed = scan.stayed /\ scan'.steady = scan.steady
         /\ scan'.gone = scan.gone \ {n}
  BY DEF TypeOK, Samples

\* A sample that begins.
LEMMA BeginScan ==
  ASSUME TypeOK, BeginSample
  PROVE  /\ scan' \in Samples
         /\ scan'.on /\ scan'.pages = 0 /\ scan'.count = 0
         /\ scan'.seen = {} /\ scan'.again = 0
         /\ scan'.stayed = Alive /\ scan'.steady = ok
         /\ scan'.gone = {n \in Nodes : phase[n] = "down" /\ timer[n] >= Forgotten}
<1> DEFINE G == {n \in Nodes : phase[n] = "down" /\ timer[n] >= Forgotten}
<1>1. Alive \in SUBSET Nodes /\ ok \in SUBSET Nodes /\ G \in SUBSET Nodes
  BY DEF Alive, TypeOK
<1>2. scan' = [Idle EXCEPT !.on = TRUE, !.stayed = Alive, !.steady = ok, !.gone = G]
  BY DEF BeginSample
<1> HIDE DEF G
<1>3. scan' = [on |-> TRUE, pages |-> 0, count |-> 0, seen |-> {}, again |-> 0,
               stayed |-> Alive, steady |-> ok, gone |-> G]
  BY <1>2 DEF Idle
<1> QED
  BY <1>1, <1>3 DEF Samples, G

\* A sample that has ended.
LEMMA LastScan ==
  ASSUME NEW x \in Samples, scan' = [x EXCEPT !.on = FALSE]
  PROVE  /\ scan' \in Samples
         /\ ~scan'.on /\ scan'.pages = x.pages /\ scan'.count = x.count
         /\ scan'.seen = x.seen /\ scan'.again = x.again
         /\ scan'.stayed = x.stayed /\ scan'.steady = x.steady /\ scan'.gone = x.gone
  BY DEF Samples

\* A sample that fails leaves the scan idle.
LEMMA FailScan ==
  ASSUME scan' = Idle
  PROVE  /\ scan' \in Samples
         /\ ~scan'.on /\ scan'.pages = 0 /\ scan'.count = 0
         /\ scan'.seen = {} /\ scan'.again = 0
         /\ scan'.stayed = {} /\ scan'.steady = {} /\ scan'.gone = {}
  BY DEF Samples, Idle

\* An answer, the last or not, adds its keys to the sample.
LEMMA AnswerScan ==
  ASSUME TypeOK, ScanPage \/ LastPage
  PROVE  /\ scan' \in Samples /\ scan'.pages > 0
         /\ scan'.stayed = scan.stayed /\ scan'.steady = scan.steady
         /\ scan'.gone = scan.gone
         /\ \E keys \in SUBSET Alive :
              /\ scan'.count = scan.count + Cardinality(keys)
              /\ scan'.seen = scan.seen \union keys
              /\ scan'.again = scan.again + Cardinality(keys \intersect scan.seen)
         /\ LastPage => ~scan'.on /\ scan'.stayed \subseteq scan'.seen
         /\ ScanPage => scan'.on
         /\ UNCHANGED node
<1>1. CASE ScanPage
  <2>1. PICK keys \in SUBSET Alive : scan' = Page(keys)
    BY <1>1 DEF ScanPage
  <2>2. scan.on /\ UNCHANGED node
    BY <1>1 DEF ScanPage
  <2>3. ~LastPage
    <3> SUFFICES ASSUME LastPage PROVE FALSE
      OBVIOUS
    <3>1. PICK k \in SUBSET Alive : scan' = [Page(k) EXCEPT !.on = FALSE]
      BY DEF LastPage
    <3>2. Page(k) \in Samples
      BY PageType
    <3>3. ~scan'.on
      BY <3>1, <3>2, LastScan
    <3> QED
      BY <2>1, <2>2, <3>3, PageType
  <2> QED
    BY <1>1, <2>1, <2>2, <2>3, PageType
<1>2. CASE LastPage
  <2>1. PICK keys \in SUBSET Alive :
          /\ scan.stayed \subseteq scan.seen \union keys
          /\ scan' = [Page(keys) EXCEPT !.on = FALSE]
    BY <1>2 DEF LastPage
  <2>2. UNCHANGED node /\ scan.on
    BY <1>2 DEF LastPage
  <2> DEFINE x == Page(keys)
  <2>3. x \in Samples
    BY PageType
  <2>4. /\ scan' \in Samples /\ ~scan'.on
        /\ scan'.pages = x.pages /\ scan'.count = x.count
        /\ scan'.seen = x.seen /\ scan'.again = x.again
        /\ scan'.stayed = x.stayed /\ scan'.steady = x.steady /\ scan'.gone = x.gone
    BY <2>1, <2>3, LastScan
  <2>5. ~ScanPage
    <3> SUFFICES ASSUME ScanPage PROVE FALSE
      OBVIOUS
    <3>1. PICK k \in SUBSET Alive : scan' = Page(k)
      BY DEF ScanPage
    <3> QED
      BY <2>2, <2>4, <3>1, PageType
  <2> HIDE DEF x
  <2>6. /\ x.pages > 0 /\ x.stayed = scan.stayed /\ x.steady = scan.steady
        /\ x.gone = scan.gone
        /\ x.count = scan.count + Cardinality(keys)
        /\ x.seen = scan.seen \union keys
        /\ x.again = scan.again + Cardinality(keys \intersect scan.seen)
    BY PageType DEF x
  <2> QED
    BY <2>1, <2>2, <2>4, <2>5, <2>6
<1> QED
  BY <1>1, <1>2

-----------------------------------------------------------------------------
(* Types                                                                   *)

\* The initial state satisfies the invariant.
LEMMA InitHolds == Init => TypeOK /\ IndInv
<1> SUFFICES ASSUME Init PROVE TypeOK /\ IndInv
  OBVIOUS
<1>1. TypeOK
  <2>1. scan \in Samples
    BY DEF Init, Idle, Samples
  <2> QED
    BY <2>1, Times DEF Init, TypeOK
<1>2. CountKept
  BY FS_EmptySet DEF Init, Idle, CountKept
<1>3. DeadFades /\ SleepIsShort /\ AnswerIsFresh
  BY Times DEF Init, DeadFades, SleepIsShort, AnswerIsFresh
<1>4. GoneIsGone /\ OkOutlives /\ SteadyStays
  BY DEF Init, Idle, GoneIsGone, OkOutlives, SteadyStays
<1> QED
  BY <1>1, <1>2, <1>3, <1>4 DEF IndInv

\* A step of the sample.
LEMMA SampleType == TypeOK /\ Sample => TypeOK' /\ UNCHANGED node
<1> SUFFICES ASSUME TypeOK, Sample PROVE TypeOK' /\ UNCHANGED node
  OBVIOUS
<1>1. UNCHANGED node
  BY DEF Sample, BeginSample, ScanPage, LastPage, SampleFails
<1>2. scan' \in Samples
  BY BeginScan, AnswerScan, FailScan DEF Sample, SampleFails
<1> QED
  BY <1>1, <1>2 DEF TypeOK, node, Samples

\* Every step keeps the types.
LEMMA TypeStep == TypeOK /\ SleepIsShort /\ [Next]_vars => TypeOK'
<1> SUFFICES ASSUME TypeOK, SleepIsShort, [Next]_vars PROVE TypeOK'
  OBVIOUS
<1> USE Times
<1>1. CASE Tick
  <2>1. /\ life' = [n \in Nodes |-> Less(life[n])]
        /\ wire' = [n \in Nodes |-> Less(wire[n])]
        /\ timer' = [n \in Nodes |-> Passes(n)]
        /\ phase' = [n \in Nodes |-> IF Wakes(n) THEN "due" ELSE phase[n]]
    BY <1>1 DEF Tick
  <2>2. life' \in [Nodes -> 0 .. TTL] /\ wire' \in [Nodes -> 0 .. MaxFlight]
    BY <2>1, LessType DEF TypeOK
  <2>3. timer' \in [Nodes -> Nat]
    BY <2>1, PassesType
  <2>4. phase' \in [Nodes -> {"down", "due", "sent", "answered", "asleep"}]
    BY <2>1 DEF TypeOK
  <2>5. ok' \subseteq Nodes /\ scan' \in Samples
    <3>1. PICK late \in SUBSET Nodes :
            /\ ok' = ok \ late
            /\ scan' = [scan EXCEPT !.steady = @ \ late, !.stayed = {n \in @ : life[n] > 1}]
      BY <1>1 DEF Tick
    <3>2. scan.steady \ late \in SUBSET Nodes /\ {n \in scan.stayed : life[n] > 1} \in SUBSET Nodes
      BY DEF TypeOK, Samples
    <3> QED
      BY <3>1, <3>2, TickScan DEF TypeOK
  <2> QED
    BY <2>2, <2>3, <2>4, <2>5 DEF TypeOK, Samples
<1>2. ASSUME NEW n \in Nodes, Starts(n) PROVE TypeOK'
  BY <1>2, StartScan DEF TypeOK, Samples, Starts
<1>3. ASSUME NEW n \in Nodes, Send(n) PROVE TypeOK'
  BY <1>3 DEF TypeOK, Samples, Send
<1>4. ASSUME NEW n \in Nodes, Answer(n) PROVE TypeOK'
  BY <1>4 DEF TypeOK, Samples, Answer, Sleeps
<1>5. ASSUME NEW n \in Nodes, BeatFails(n) PROVE TypeOK'
  BY <1>5, LapseScan DEF TypeOK, Samples, BeatFails, Sleeps
<1>6. ASSUME NEW n \in Nodes, Rejected(n) PROVE TypeOK'
  BY <1>6, LapseScan DEF TypeOK, Samples, Rejected, Sleeps
<1>7. ASSUME NEW n \in Nodes, Applied(n) PROVE TypeOK'
  BY <1>7 DEF TypeOK, Samples, Applied
<1>8. ASSUME NEW n \in Nodes, Dies(n) PROVE TypeOK'
  BY <1>8, LapseScan DEF TypeOK, Samples, Dies
<1>9. CASE Sample
  BY <1>9, SampleType
<1>10. CASE UNCHANGED vars
  BY <1>10 DEF TypeOK, Samples, vars, node
<1> QED
  BY <1>1, <1>2, <1>3, <1>4, <1>5, <1>6, <1>7, <1>8, <1>9, <1>10 DEF Next, Beats

-----------------------------------------------------------------------------
(* The steps of the invariant                                              *)

\* Nodes and time do not touch what the sample has counted.
LEMMA CountedIsKept ==
  ASSUME TypeOK, [Next]_vars, ~Sample
  PROVE  /\ scan'.on = scan.on /\ scan'.pages = scan.pages
         /\ scan'.count = scan.count /\ scan'.seen = scan.seen /\ scan'.again = scan.again
         /\ scan'.gone \subseteq scan.gone
<1> DEFINE Kept == /\ scan'.on = scan.on /\ scan'.pages = scan.pages
                   /\ scan'.count = scan.count /\ scan'.seen = scan.seen
                   /\ scan'.again = scan.again
                   /\ scan'.gone \subseteq scan.gone
<1>1. CASE Tick
  <2>1. PICK late \in SUBSET Nodes :
          scan' = [scan EXCEPT !.steady = @ \ late, !.stayed = {n \in @ : life[n] > 1}]
    BY <1>1 DEF Tick
  <2>2. scan.steady \ late \in SUBSET Nodes /\ {n \in scan.stayed : life[n] > 1} \in SUBSET Nodes
    BY DEF TypeOK, Samples
  <2> QED
    BY <2>1, <2>2, TickScan
<1>2. ASSUME NEW n \in Nodes, Starts(n) PROVE Kept
  BY <1>2, StartScan DEF Starts
<1>3. ASSUME NEW n \in Nodes, BeatFails(n) \/ Rejected(n) \/ Dies(n) PROVE Kept
  BY <1>3, LapseScan DEF BeatFails, Rejected, Dies
<1>4. ASSUME NEW n \in Nodes, Send(n) \/ Answer(n) \/ Applied(n) PROVE Kept
  BY <1>4 DEF Send, Answer, Applied
<1>5. CASE UNCHANGED vars
  BY <1>5 DEF vars
<1> QED
  BY <1>1, <1>2, <1>3, <1>4, <1>5 DEF Next, Beats

\* Every key that comes is counted, once as new or once as come again.
LEMMA CountStep == TypeOK /\ CountKept /\ [Next]_vars => CountKept'
<1> SUFFICES ASSUME TypeOK, CountKept, [Next]_vars PROVE CountKept'
  OBVIOUS
<1>1. CASE ~Sample
  BY <1>1, CountedIsKept DEF CountKept
<1>2. CASE BeginSample
  BY <1>2, BeginScan, FS_EmptySet DEF CountKept
<1>3. CASE SampleFails
  BY <1>3, FailScan, FS_EmptySet DEF CountKept, SampleFails
<1>4. CASE ScanPage \/ LastPage
  <2>1. PICK keys \in SUBSET Alive :
          /\ scan'.count = scan.count + Cardinality(keys)
          /\ scan'.seen = scan.seen \union keys
          /\ scan'.again = scan.again + Cardinality(keys \intersect scan.seen)
    BY <1>4, AnswerScan
  <2>2. keys \in SUBSET Nodes /\ scan.seen \in SUBSET Nodes
    BY DEF Alive, TypeOK, Samples
  <2>3. keys \intersect scan.seen \in SUBSET Nodes /\ scan.seen \union keys \in SUBSET Nodes
    BY <2>2
  <2> DEFINE c == Cardinality(keys)
             d == Cardinality(keys \intersect scan.seen)
             e == Cardinality(scan.seen)
             f == Cardinality(scan.seen \union keys)
  <2>4. c \in Nat /\ d \in Nat /\ e \in Nat /\ f \in Nat
    BY <2>2, <2>3, NodeSets
  <2>5. f + d = e + c
    BY <2>2, NodeSets
  <2>6. scan.count = e + scan.again /\ scan.count \in Nat /\ scan.again \in Nat
    BY DEF CountKept, TypeOK, Samples
  <2>7. scan'.count = scan.count + c /\ scan'.again = scan.again + d
        /\ Cardinality(scan'.seen) = f
    BY <2>1
  <2> HIDE DEF c, d, e, f
  <2> QED
    BY <2>4, <2>5, <2>6, <2>7 DEF CountKept
<1> QED
  BY <1>1, <1>2, <1>3, <1>4 DEF Sample

\* Neither time nor a late SET keeps the key of a node that is down.
LEMMA FadeStep == TypeOK /\ SleepIsShort /\ DeadFades /\ [Next]_vars => DeadFades'
<1> SUFFICES ASSUME TypeOK, SleepIsShort, DeadFades, [Next]_vars,
                    NEW n \in Nodes, phase'[n] = "down"
             PROVE  /\ wire'[n] > 0 => wire'[n] + timer'[n] <= MaxFlight
                    /\ life'[n] > 0 => life'[n] + timer'[n] <= Forgotten
  BY DEF DeadFades
<1> USE Times
<1>0. /\ life[n] \in Nat /\ life[n] <= TTL /\ wire[n] \in Nat /\ wire[n] <= MaxFlight
      /\ timer[n] \in Nat
  BY DEF TypeOK
<1>1. CASE Tick
  <2>1. /\ life'[n] = Less(life[n]) /\ wire'[n] = Less(wire[n]) /\ timer'[n] = Passes(n)
        /\ phase[n] = "down"
    BY <1>1 DEF Tick
  <2>2. Passes(n) = IF timer[n] < Forgotten THEN timer[n] + 1 ELSE Forgotten
    BY <2>1, PassesType
  <2> QED
    BY <1>0, <2>1, <2>2, LessType DEF DeadFades
<1>2. ASSUME NEW o \in Nodes, Starts(o) \/ Send(o) \/ Answer(o) \/ BeatFails(o) \/ Rejected(o)
      PROVE  n # o /\ phase[n] = "down" /\ timer'[n] = timer[n]
             /\ life'[n] = life[n] /\ wire'[n] = wire[n]
  BY <1>2 DEF TypeOK, Starts, Send, Answer, BeatFails, Rejected, Sleeps
<1>3. ASSUME NEW o \in Nodes, Applied(o)
      PROVE  /\ phase[n] = "down" /\ timer'[n] = timer[n]
             /\ o # n => life'[n] = life[n] /\ wire'[n] = wire[n]
             /\ o = n => wire[n] > 0 /\ life'[n] = TTL /\ wire'[n] = 0
  BY <1>3 DEF TypeOK, Applied
<1>4. ASSUME NEW o \in Nodes, Dies(o)
      PROVE  /\ life'[n] = life[n] /\ wire'[n] = wire[n]
             /\ o # n => phase[n] = "down" /\ timer'[n] = timer[n]
             /\ o = n => timer'[n] = 0
  BY <1>4 DEF TypeOK, Dies
<1>5. CASE Sample \/ UNCHANGED vars
  BY <1>5, SampleType DEF vars, node, DeadFades
<1>6. ASSUME NEW o \in Nodes, Starts(o) \/ Beats(o) \/ Applied(o) \/ Dies(o)
      PROVE  /\ wire'[n] > 0 => wire'[n] + timer'[n] <= MaxFlight
             /\ life'[n] > 0 => life'[n] + timer'[n] <= Forgotten
  <2>1. CASE Starts(o) \/ Beats(o)
    BY <1>0, <1>2, <2>1 DEF DeadFades, Beats
  <2>2. CASE Applied(o)
    BY <1>0, <1>3, <2>2 DEF DeadFades
  <2>3. CASE Dies(o)
    BY <1>0, <1>4, <2>3 DEF DeadFades
  <2> QED
    BY <1>6, <2>1, <2>2, <2>3
<1> QED
  BY <1>1, <1>5, <1>6 DEF Next

\* Nothing brings the key of a forgotten node back while it is down.
LEMMA GoneStep ==
  TypeOK /\ SleepIsShort /\ DeadFades /\ GoneIsGone /\ [Next]_vars => GoneIsGone'
<1> SUFFICES ASSUME TypeOK, SleepIsShort, DeadFades, GoneIsGone, [Next]_vars,
                    NEW n \in scan'.gone
             PROVE  /\ phase'[n] = "down" /\ life'[n] = 0 /\ wire'[n] = 0
                    /\ n \notin scan'.seen
  BY DEF GoneIsGone
<1>0. scan.gone \subseteq Nodes
  BY DEF TypeOK, Samples
<1>1. CASE ~Sample
  <2>1. n \in scan.gone /\ scan'.seen = scan.seen /\ n \in Nodes
    BY <1>0, <1>1, CountedIsKept
  <2>2. phase[n] = "down" /\ life[n] = 0 /\ wire[n] = 0 /\ n \notin scan'.seen
    BY <2>1 DEF GoneIsGone
  <2>3. CASE Tick
    BY <2>1, <2>2, <2>3, LessType DEF Tick, Wakes
  <2>4. ASSUME NEW o \in Nodes, Starts(o) PROVE o # n /\ UNCHANGED <<life, wire>>
    BY <2>1, <2>4, StartScan DEF Starts
  <2>5. ASSUME NEW o \in Nodes, Starts(o) \/ Beats(o)
        PROVE  phase'[n] = "down" /\ life'[n] = 0 /\ wire'[n] = 0
    BY <2>1, <2>2, <2>4, <2>5
       DEF TypeOK, Beats, Starts, Send, Answer, BeatFails, Waiting, Rejected, Sleeps
  <2>6. ASSUME NEW o \in Nodes, Applied(o) \/ Dies(o)
        PROVE  phase'[n] = "down" /\ life'[n] = 0 /\ wire'[n] = 0
    BY <2>1, <2>2, <2>6 DEF TypeOK, Applied, Dies
  <2>7. CASE UNCHANGED vars
    BY <2>2, <2>7 DEF vars, node
  <2> QED
    BY <1>1, <2>2, <2>3, <2>5, <2>6, <2>7 DEF Next
<1>2. CASE BeginSample
  <2>1. n \in Nodes /\ phase[n] = "down" /\ timer[n] >= Forgotten /\ scan'.seen = {}
    BY <1>2, BeginScan
  <2>2. life[n] = 0 /\ wire[n] = 0
    BY <2>1, Times DEF TypeOK, DeadFades
  <2> QED
    BY <1>2, <2>1, <2>2 DEF BeginSample, node
<1>3. CASE SampleFails
  BY <1>3, FailScan DEF SampleFails
<1>4. CASE ScanPage \/ LastPage
  <2>1. n \in scan.gone /\ UNCHANGED node
    BY <1>4, AnswerScan
  <2>2. phase[n] = "down" /\ life[n] = 0 /\ wire[n] = 0 /\ n \notin scan.seen
    BY <2>1 DEF GoneIsGone
  <2>3. n \notin Alive
    BY <2>2 DEF Alive
  <2> QED
    BY <1>4, <2>1, <2>2, <2>3, AnswerScan DEF node
<1> QED
  BY <1>1, <1>2, <1>3, <1>4 DEF Sample

\* Only an attempt that is over sets the sleep.
LEMMA SleepStep == TypeOK /\ SleepIsShort /\ [Next]_vars => SleepIsShort'
<1> SUFFICES ASSUME TypeOK, SleepIsShort, [Next]_vars, NEW n \in Nodes, phase'[n] = "asleep"
             PROVE  1 <= timer'[n] /\ timer'[n] <= Interval
  BY DEF SleepIsShort
<1> USE Times
<1>1. CASE Tick
  <2>1. timer'[n] = Passes(n) /\ phase[n] = "asleep" /\ ~Wakes(n)
    BY <1>1 DEF Tick
  <2> QED
    BY <2>1, PassesType DEF TypeOK, SleepIsShort
<1>2. ASSUME NEW o \in Nodes, Beats(o)
      PROVE  1 <= timer'[n] /\ timer'[n] <= Interval
  BY <1>2 DEF TypeOK, SleepIsShort, Beats, Send, Answer, BeatFails, Rejected, Sleeps
<1>3. ASSUME NEW o \in Nodes, Starts(o) \/ Applied(o) \/ Dies(o)
      PROVE  1 <= timer'[n] /\ timer'[n] <= Interval
  BY <1>3 DEF TypeOK, SleepIsShort, Starts, Applied, Dies
<1>4. CASE Sample \/ UNCHANGED vars
  BY <1>4, SampleType DEF vars, node, SleepIsShort
<1> QED
  BY <1>1, <1>2, <1>3, <1>4 DEF Next

\* What the answer takes is all the key has lost.
LEMMA FreshStep == TypeOK /\ SleepIsShort /\ AnswerIsFresh /\ [Next]_vars => AnswerIsFresh'
<1> SUFFICES ASSUME TypeOK, SleepIsShort, AnswerIsFresh, [Next]_vars,
                    NEW n \in Nodes, phase'[n] = "answered", timer'[n] <= MaxDelay
             PROVE  life'[n] + timer'[n] >= TTL
  BY DEF AnswerIsFresh
<1> USE Times
<1>0. life[n] \in Nat /\ timer[n] \in Nat
  BY DEF TypeOK
<1>1. CASE Tick
  <2>1. timer'[n] = Passes(n) /\ phase[n] = "answered" /\ life'[n] = Less(life[n])
    BY <1>1 DEF Tick
  <2>2. Passes(n) = IF timer[n] <= MaxDelay THEN timer[n] + 1 ELSE timer[n]
    BY <2>1, PassesType DEF Waiting
  <2>3. timer[n] <= MaxDelay
    BY <1>0, <2>1, <2>2
  <2>4. life[n] + timer[n] >= TTL
    BY <2>1, <2>3 DEF AnswerIsFresh
  <2> QED
    BY <1>0, <2>1, <2>2, <2>3, <2>4, LessType
<1>2. ASSUME NEW o \in Nodes, Starts(o) \/ Beats(o) \/ Dies(o)
      PROVE  life'[n] + timer'[n] >= TTL
  BY <1>2 DEF TypeOK, AnswerIsFresh, Beats, Starts, Send, Answer, BeatFails, Rejected,
              Sleeps, Dies
<1>3. ASSUME NEW o \in Nodes, Applied(o)
      PROVE  life'[n] + timer'[n] >= TTL
  <2>1. timer'[n] = timer[n] /\ (o = n => life'[n] = TTL)
        /\ (o # n => life'[n] = life[n] /\ phase[n] = "answered")
    BY <1>3 DEF TypeOK, Applied
  <2> QED
    BY <1>0, <2>1 DEF AnswerIsFresh
<1>4. CASE Sample \/ UNCHANGED vars
  BY <1>4, SampleType DEF vars, node, AnswerIsFresh
<1> QED
  BY <1>1, <1>2, <1>3, <1>4 DEF Next

\* What a node in ok has, in numbers.
LEMMA OutlivesStep ==
  TypeOK /\ SleepIsShort /\ AnswerIsFresh /\ OkOutlives /\ [Next]_vars => OkOutlives'
<1> SUFFICES ASSUME TypeOK, SleepIsShort, AnswerIsFresh, OkOutlives, [Next]_vars, NEW n \in ok'
             PROVE  /\ phase'[n] # "down"
                    /\ phase'[n] = "asleep" => life'[n] > timer'[n] + MaxDelay
                    /\ phase'[n] # "asleep" => timer'[n] <= MaxDelay
                    /\ phase'[n] \in {"due", "sent"} => life'[n] + timer'[n] > MaxDelay
  BY DEF OkOutlives
<1> DEFINE Outlives == /\ phase'[n] # "down"
                       /\ phase'[n] = "asleep" => life'[n] > timer'[n] + MaxDelay
                       /\ phase'[n] # "asleep" => timer'[n] <= MaxDelay
                       /\ phase'[n] \in {"due", "sent"} => life'[n] + timer'[n] > MaxDelay
<1> USE Times
<1>0. n \in Nodes
  BY TypeStep DEF TypeOK
<1>a. /\ life[n] \in Nat /\ timer[n] \in Nat
      /\ phase[n] \in {"down", "due", "sent", "answered", "asleep"}
  BY <1>0 DEF TypeOK
<1>1. CASE Tick
  <2>1. /\ n \in ok /\ ~(Waiting(n) /\ timer[n] >= MaxDelay)
        /\ life'[n] = Less(life[n]) /\ timer'[n] = Passes(n)
        /\ phase'[n] = IF Wakes(n) THEN "due" ELSE phase[n]
    BY <1>0, <1>1 DEF Tick
  <2>2. phase[n] # "down" /\ life[n] > 0 /\ life'[n] = life[n] - 1
    BY <1>a, <2>1, OkIsAlive, LessType DEF OkOutlives
  <2>3. CASE Wakes(n)
    BY <1>0, <1>a, <2>1, <2>2, <2>3, PassesType DEF OkOutlives
  <2>4. CASE phase[n] = "asleep" /\ ~Wakes(n)
    BY <1>0, <1>a, <2>1, <2>2, <2>4, PassesType DEF OkOutlives
  <2>5. CASE Waiting(n)
    BY <1>0, <1>a, <2>1, <2>2, <2>5, PassesType DEF OkOutlives, Waiting, Wakes
  <2> QED
    BY <1>a, <2>2, <2>3, <2>4, <2>5 DEF Waiting
<1>2. ASSUME NEW o \in Nodes, Starts(o) \/ Send(o) \/ BeatFails(o) \/ Rejected(o) \/ Dies(o)
      PROVE  Outlives
  <2>1. n \in ok /\ UNCHANGED life
    BY <1>2, LapseScan DEF Starts, Send, BeatFails, Rejected, Dies
  <2>2. o # n \/ Send(o)
    BY <1>2, <2>1, LapseScan DEF OkOutlives, Starts, BeatFails, Rejected, Dies
  <2> QED
    BY <1>0, <1>2, <2>1, <2>2
       DEF TypeOK, OkOutlives, Starts, Send, BeatFails, Rejected, Dies, Sleeps
<1>3. ASSUME NEW o \in Nodes, Answer(o) PROVE Outlives
  <2>1. CASE o = n
    <3>1. timer[n] <= MaxDelay
      BY <1>3, <2>1 DEF Answer, OkOutlives
    <3>2. life'[n] = life[n] /\ timer'[n] = Interval /\ phase'[n] = "asleep"
          /\ phase[n] = "answered"
      BY <1>0, <1>3, <2>1 DEF TypeOK, Answer, Sleeps
    <3>3. life[n] + timer[n] >= TTL
      BY <1>0, <3>1, <3>2 DEF AnswerIsFresh
    <3> QED
      BY <1>a, <3>1, <3>2, <3>3
  <2>2. CASE o # n
    BY <1>0, <1>3, <2>2 DEF TypeOK, OkOutlives, Answer, Sleeps
  <2> QED
    BY <2>1, <2>2
<1>4. ASSUME NEW o \in Nodes, Applied(o) PROVE Outlives
  <2>1. /\ n \in ok /\ timer'[n] = timer[n]
        /\ o # n => life'[n] = life[n] /\ phase'[n] = phase[n]
        /\ o = n => life'[n] = TTL
        /\ phase'[n] = IF o = n /\ phase[n] = "sent" THEN "answered" ELSE phase[n]
    BY <1>0, <1>4 DEF TypeOK, Applied
  <2> QED
    BY <1>0, <1>a, <2>1 DEF OkOutlives, SleepIsShort
<1>5. CASE Sample \/ UNCHANGED vars
  BY <1>5, SampleType DEF vars, node, OkOutlives
<1> QED
  BY <1>1, <1>2, <1>3, <1>4, <1>5 DEF Next, Beats

\* A key that is renewed in time does not expire under the sample.
LEMMA SteadyStep ==
  TypeOK /\ AnswerIsFresh /\ OkOutlives /\ OkOutlives' /\ AnswerIsFresh' /\ TypeOK'
    /\ SteadyStays /\ [Next]_vars => SteadyStays'
<1> SUFFICES ASSUME TypeOK, AnswerIsFresh, OkOutlives, SteadyStays,
                    TypeOK', AnswerIsFresh', OkOutlives', [Next]_vars
             PROVE  scan'.steady \subseteq ok' \intersect scan'.stayed
  BY DEF SteadyStays
<1> USE DEF SteadyStays
<1>1. CASE Tick
  <2>1. PICK late \in SUBSET Nodes :
          /\ ok' = ok \ late
          /\ scan' = [scan EXCEPT !.steady = @ \ late, !.stayed = {n \in @ : life[n] > 1}]
    BY <1>1 DEF Tick
  <2>2. scan.steady \ late \in SUBSET Nodes /\ {n \in scan.stayed : life[n] > 1} \in SUBSET Nodes
    BY DEF TypeOK, Samples
  <2>3. scan'.steady = scan.steady \ late /\ scan'.stayed = {n \in scan.stayed : life[n] > 1}
    BY <2>1, <2>2, TickScan
  <2>4. ASSUME NEW n \in ok' PROVE life[n] > 1
    <3>1. n \in Nodes /\ life'[n] = Less(life[n]) /\ life[n] \in Nat
      BY <1>1 DEF Tick, TypeOK
    <3>2. life'[n] > 0
      BY Times DEF TypeOK, AnswerIsFresh, OkOutlives
    <3> QED
      BY <3>1, <3>2 DEF Less
  <2> QED
    BY <2>1, <2>3, <2>4
<1>2. ASSUME NEW n \in Nodes, Starts(n) PROVE scan'.steady \subseteq ok' \intersect scan'.stayed
  BY <1>2, StartScan DEF Starts
<1>3. ASSUME NEW n \in Nodes, BeatFails(n) \/ Rejected(n) \/ Dies(n)
      PROVE  scan'.steady \subseteq ok' \intersect scan'.stayed
  BY <1>3, LapseScan DEF BeatFails, Rejected, Dies
<1>4. ASSUME NEW n \in Nodes, Send(n) \/ Answer(n) \/ Applied(n)
      PROVE  scan'.steady \subseteq ok' \intersect scan'.stayed
  BY <1>4 DEF Send, Answer, Applied
<1>5. CASE BeginSample
  <2>1. ASSUME NEW n \in ok PROVE n \in Alive
    BY OkIsAlive DEF TypeOK, Alive
  <2> QED
    BY <1>5, <2>1, BeginScan DEF BeginSample, node
<1>6. CASE SampleFails
  BY <1>6, FailScan DEF SampleFails
<1>7. CASE ScanPage \/ LastPage
  BY <1>7, AnswerScan DEF node
<1>8. CASE UNCHANGED vars
  BY <1>8 DEF vars, node
<1> QED
  BY <1>1, <1>2, <1>3, <1>4, <1>5, <1>6, <1>7, <1>8 DEF Next, Beats, Sample

\* Every step keeps the invariant.
LEMMA StepHolds == (TypeOK /\ IndInv) /\ [Next]_vars => (TypeOK /\ IndInv)'
  BY TypeStep, CountStep, FadeStep, GoneStep, SleepStep, FreshStep, OutlivesStep, SteadyStep
     DEF IndInv

-----------------------------------------------------------------------------
(* The theorems                                                            *)

\* The clocks, the keys and the sample of the cluster keep their types, and no key of a
\* node in time expires, none of a dead one comes back (startHeartbeat(), Redis' EX).
THEOREM Invariance == Spec => [](TypeOK /\ IndInv)
  BY InitHolds, StepHolds, PTL DEF Spec

\* Only the last answer of a SCAN makes countActiveNodes() publish a count.
LEMMA LastPublishes ==
  ASSUME TypeOK, [Next]_vars, Publishes
  PROVE  scan'.stayed \subseteq scan'.seen
<1>1. CASE ~Sample
  BY <1>1, CountedIsKept DEF Publishes
<1>2. CASE BeginSample \/ SampleFails
  BY <1>2, BeginScan, FailScan DEF Publishes, SampleFails
<1>3. CASE ScanPage \/ LastPage
  BY <1>3, AnswerScan DEF Publishes
<1> QED
  BY <1>1, <1>2, <1>3 DEF Sample

\* What is counted, new or again, in numbers.
LEMMA PublishedCount ==
  ASSUME TypeOK', CountKept', NEW S \in SUBSET Nodes
  PROVE  /\ S \subseteq scan'.seen => scan'.count >= Cardinality(S)
         /\ scan'.seen \subseteq S => scan'.count <= Cardinality(S) + scan'.again
<1>1. scan'.seen \in SUBSET Nodes /\ scan'.count \in Nat /\ scan'.again \in Nat
  BY DEF TypeOK, Samples
<1>2. Cardinality(S) \in Nat /\ Cardinality(scan'.seen) \in Nat
  BY <1>1, NodeSets
<1>3. /\ S \subseteq scan'.seen => Cardinality(S) <= Cardinality(scan'.seen)
      /\ scan'.seen \subseteq S => Cardinality(scan'.seen) <= Cardinality(S)
  BY <1>1, NodeSets
<1> QED
  BY <1>1, <1>2, <1>3 DEF CountKept

\* A count that is published includes every node whose heartbeats stayed in time
\* (startHeartbeat(), sendHeartbeatPayload(), countActiveNodes()).
THEOREM SteadyTheorem == Spec => SteadyIsCounted
<1>1. TypeOK /\ IndInv /\ (TypeOK /\ IndInv)' /\ [Next]_vars
        => [Publishes => scan'.count >= Cardinality(scan'.steady)]_vars
  <2> SUFFICES ASSUME TypeOK, IndInv, TypeOK', IndInv', [Next]_vars, Publishes
               PROVE  scan'.count >= Cardinality(scan'.steady)
    OBVIOUS
  <2>1. scan'.steady \subseteq scan'.seen /\ scan'.steady \in SUBSET Nodes
    BY LastPublishes DEF IndInv, SteadyStays, TypeOK, Samples
  <2>2. TypeOK' /\ CountKept'
    BY DEF IndInv
  <2> QED
    BY <2>1, <2>2, PublishedCount
<1> QED
  BY <1>1, Invariance, PTL DEF Spec, SteadyIsCounted

\* A count that is published includes no node that had been dead for the TTL and the
\* flight of a SET when the sample began (EX in sendHeartbeatPayload()).
THEOREM ForgottenTheorem == Spec => DeadIsForgotten
<1>1. TypeOK /\ IndInv /\ (TypeOK /\ IndInv)' /\ [Next]_vars
        => [Publishes => scan'.count <= Cardinality(Nodes \ scan'.gone) + scan'.again]_vars
  <2> SUFFICES ASSUME TypeOK, IndInv, TypeOK', IndInv', [Next]_vars, Publishes
               PROVE  scan'.count <= Cardinality(Nodes \ scan'.gone) + scan'.again
    OBVIOUS
  <2>1. scan'.seen \subseteq Nodes \ scan'.gone /\ Nodes \ scan'.gone \in SUBSET Nodes
    BY DEF IndInv, GoneIsGone, TypeOK, Samples
  <2>2. TypeOK' /\ CountKept'
    BY DEF IndInv
  <2> QED
    BY <2>1, <2>2, PublishedCount
<1> QED
  BY <1>1, Invariance, PTL DEF Spec, DeadIsForgotten

-----------------------------------------------------------------------------
(* The connection shared by sample() and the heartbeat: ClusterImpl          *)

\* The initial state satisfies the inductive invariant.
LEMMA RedisInitInv == RedisInit => RedisInv
<1> SUFFICES ASSUME RedisInit PROVE RedisInv
  OBVIOUS
<1>1. Blank \in Metrics
  BY DEF Blank, Metrics
<1>2. RedisTypeOK
  BY <1>1 DEF RedisInit, RedisTypeOK
<1>3. OneUser /\ ContextAtHand /\ CountIsBacked /\ Begins
  BY DEF RedisInit, OneUser, ContextAtHand, CountIsBacked, Begins, Sampling, Beating
<1>4. OneContext /\ FlagMatchesContext
  BY DEF RedisInit, OneContext, FlagMatchesContext
<1> QED
  BY <1>2, <1>3, <1>4 DEF RedisInv

\* Whatever a step does, it does one of five things to the connection.
LEMMA Moves ==
  [RedisNext]_redisVars => \/ EnsureOk \/ EnsureFails \/ NoReply \/ UNCHANGED shared
                 \/ Breaks \/ Disconnect
BY DEF RedisNext, MainStep, BeatStep, Construct, SampleStart, StopHeartbeat, SampleEnsure,
       Ping, CountEnsure, Scan, Publish, Join, BeatLock, BeatCheck, BeatEnsure, Set,
       Wake, Reachability, Over, Answered, shared, main, redisVars

\* ensureConnection() leaves one context, flagged ...
LEMMA EnsureOkFacts ==
  ASSUME ctx \in {"null", "up", "broken"}, OneContext, FlagMatchesContext, EnsureOk
  PROVE  ctx' \in {"up", "broken"} /\ contexts' = 1 /\ isConnected' = TRUE
<1>1. CASE ctx # "null" /\ isConnected /\ UNCHANGED shared
  BY <1>1 DEF OneContext, FlagMatchesContext, shared
<1>2. CASE (ctx = "null" \/ ~isConnected) /\ ctx' = "up" /\ contexts' = Freed + 1
           /\ isConnected' = TRUE
  <2>1. ctx = "null"
    BY <1>2 DEF FlagMatchesContext
  <2>2. Freed = 0
    BY <2>1 DEF Freed, OneContext
  <2> QED
    BY <1>2, <2>2
<1> QED
  BY <1>1, <1>2 DEF EnsureOk

\* ... and a failure, of it or of a command, none.
LEMMA NoContextFacts ==
  ASSUME OneContext, EnsureFails \/ NoReply \/ Disconnect
  PROVE  ctx' = "null" /\ contexts' = 0 /\ isConnected' = FALSE
<1>1. Freed = 0
  BY DEF Freed, OneContext
<1> QED
  BY <1>1 DEF EnsureFails, NoReply, Disconnect

\* Every step leaves one context, flagged, or none.
LEMMA ConnectionStep ==
  ASSUME RedisInv, [RedisNext]_redisVars
  PROVE  /\ ctx' \in {"null", "up", "broken"}
         /\ contexts' \in Nat
         /\ isConnected' \in BOOLEAN
         /\ OneContext'
         /\ FlagMatchesContext'
<1>0. ctx \in {"null", "up", "broken"} /\ OneContext /\ FlagMatchesContext
  BY DEF RedisInv, RedisTypeOK
<1>1. CASE EnsureOk
  <2>1. ctx' \in {"up", "broken"} /\ contexts' = 1 /\ isConnected' = TRUE
    BY <1>0, <1>1, EnsureOkFacts
  <2> QED
    BY <2>1 DEF OneContext, FlagMatchesContext
<1>2. CASE EnsureFails \/ NoReply \/ Disconnect
  <2>1. ctx' = "null" /\ contexts' = 0 /\ isConnected' = FALSE
    BY <1>0, <1>2, NoContextFacts
  <2> QED
    BY <2>1 DEF OneContext, FlagMatchesContext
<1>3. CASE UNCHANGED shared
  BY <1>3 DEF shared, RedisInv, RedisTypeOK, OneContext, FlagMatchesContext
<1>4. CASE Breaks
  BY <1>4 DEF Breaks, RedisInv, RedisTypeOK, OneContext, FlagMatchesContext
<1> QED
  BY <1>1, <1>2, <1>3, <1>4, Moves

\* The metrics keep their type.
LEMMA MetricsStep ==
  ASSUME RedisInv, [RedisNext]_redisVars
  PROVE  m' \in Metrics /\ published' \in Metrics
<1>1. m \in Metrics /\ published \in Metrics
  BY DEF RedisInv, RedisTypeOK
<1>2. Blank \in Metrics
  BY DEF Blank, Metrics
<1>3. [m EXCEPT !.redisConnected = 1] \in Metrics /\ [m EXCEPT !.count = "-1"] \in Metrics
  BY <1>1 DEF Metrics
<1>4. \A l \in {"ms", "-1"} : [m EXCEPT !.latency = l] \in Metrics
  BY <1>1 DEF Metrics
<1> QED
  BY <1>1, <1>2, <1>3, <1>4
  DEF RedisNext, MainStep, BeatStep, Construct, SampleStart, StopHeartbeat, SampleEnsure,
      Ping, CountEnsure, Uncounted, Scan, Publish, Join, Disconnect, BeatLock, BeatCheck,
      BeatEnsure, Set, Wake, Breaks, Reachability, Over, main, redisVars

\* The program counters, the mutex and the booleans keep their types.
LEMMA ControlStep ==
  ASSUME RedisInv, [RedisNext]_redisVars
  PROVE  /\ mpc' \in {"construct", "idle", "fatal", "join", "disconnect", "gone",
                      "failed"} \cup Sampling
         /\ hpc' \in {"none", "check", "lock", "sleep", "done"} \cup Beating
         /\ mutex' \in {"free", "main", "beat"}
         /\ keepRunning' \in BOOLEAN
         /\ reachable' \in BOOLEAN
<1> USE HeartbeatAssumption DEF Sampling, Beating
<1>1. CASE Construct
  BY <1>1 DEF Construct, RedisInv, RedisTypeOK
<1>2. CASE SampleStart \/ StopHeartbeat \/ MainStep
  BY <1>2 DEF MainStep, SampleStart, StopHeartbeat, SampleEnsure, Ping, CountEnsure,
     Uncounted, Scan, Publish, Join, Disconnect, RedisInv, RedisTypeOK
<1>3. CASE BeatLock \/ BeatStep
  BY <1>3 DEF BeatStep, BeatLock, BeatCheck, BeatEnsure, Set, Wake, main, RedisInv, RedisTypeOK
<1>4. CASE Breaks \/ Reachability \/ UNCHANGED redisVars
  BY <1>4 DEF Breaks, Reachability, main, redisVars, RedisInv, RedisTypeOK
<1> QED
  BY <1>1, <1>2, <1>3, <1>4 DEF RedisNext, Over

\* One user of the connection at a time, and none after the destructor.
LEMMA OneUserStep ==
  ASSUME RedisInv, [RedisNext]_redisVars
  PROVE  OneUser' /\ Begins'
<1> USE HeartbeatAssumption DEF Sampling, Beating, OneUser, Begins
<1>0. OneUser /\ Begins /\ mutex \in {"free", "main", "beat"}
  BY DEF RedisInv, RedisTypeOK
<1>1. CASE Construct
  BY <1>0, <1>1 DEF Construct
<1>2. CASE SampleStart \/ StopHeartbeat \/ Publish \/ Join \/ Disconnect
  BY <1>0, <1>2 DEF SampleStart, StopHeartbeat, Publish, Join, Disconnect
<1>3. CASE SampleEnsure \/ Ping \/ CountEnsure \/ Scan
  BY <1>0, <1>3 DEF SampleEnsure, Ping, CountEnsure, Uncounted, Scan
<1>4. CASE BeatLock \/ BeatStep
  BY <1>0, <1>4 DEF BeatStep, BeatLock, BeatCheck, BeatEnsure, Set, Wake, main
<1>5. CASE Breaks \/ Reachability \/ UNCHANGED redisVars
  BY <1>0, <1>5 DEF Breaks, Reachability, main, redisVars
<1> QED
  BY <1>1, <1>2, <1>3, <1>4, <1>5 DEF RedisNext, MainStep, Over

\* Commands are sent, and counts published, on a context that exists.
LEMMA AtHandStep ==
  ASSUME RedisInv, [RedisNext]_redisVars
  PROVE  ContextAtHand' /\ CountIsBacked'
<1> USE DEF Sampling, Beating
<1>0. /\ ContextAtHand /\ CountIsBacked /\ OneUser /\ Begins
      /\ ctx \in {"null", "up", "broken"} /\ OneContext /\ FlagMatchesContext
      /\ m \in Metrics
  BY DEF RedisInv, RedisTypeOK
<1>1. EnsureOk => ctx' # "null"
  BY <1>0, EnsureOkFacts
<1>2. CASE Construct
  BY <1>0, <1>2 DEF Construct, ContextAtHand, CountIsBacked, Begins
<1>3. CASE SampleStart \/ StopHeartbeat \/ Publish \/ Join \/ Disconnect
  BY <1>0, <1>3 DEF SampleStart, StopHeartbeat, Publish, Join, Disconnect, shared,
     ContextAtHand, CountIsBacked, OneUser
<1>4. CASE SampleEnsure \/ Ping
  BY <1>0, <1>1, <1>4 DEF SampleEnsure, Ping, ContextAtHand, CountIsBacked, OneUser
<1>5. CASE CountEnsure
  BY <1>0, <1>1, <1>5 DEF CountEnsure, Uncounted, ContextAtHand, CountIsBacked, OneUser,
     Metrics
<1>6. CASE Scan
  BY <1>0, <1>6 DEF Scan, Uncounted, Answered, NoReply, shared, ContextAtHand,
     CountIsBacked, OneUser, FlagMatchesContext, Metrics
<1>7. CASE BeatLock \/ BeatCheck \/ Wake
  BY <1>0, <1>7 DEF BeatLock, BeatCheck, Wake, main, shared, ContextAtHand, CountIsBacked
<1>8. CASE BeatEnsure \/ Set
  BY <1>0, <1>1, <1>8 DEF BeatEnsure, Set, main, ContextAtHand, CountIsBacked, OneUser
<1>9. CASE Breaks \/ Reachability \/ UNCHANGED redisVars
  BY <1>0, <1>9 DEF Breaks, Reachability, main, shared, redisVars, ContextAtHand, CountIsBacked
<1> QED
  BY <1>2, <1>3, <1>4, <1>5, <1>6, <1>7, <1>8, <1>9 DEF RedisNext, MainStep, BeatStep, Over

\* The inductive invariant holds in every behaviour.
THEOREM RedisInvariance == RedisSpec => []RedisInv
<1>1. RedisInv /\ [RedisNext]_redisVars => RedisInv'
  BY ConnectionStep, MetricsStep, ControlStep, OneUserStep, AtHandStep DEF RedisInv, RedisTypeOK
<1> QED
  BY RedisInitInv, <1>1, PTL DEF RedisSpec

\* redisMutex_ and the join in the destructor: one user at a time, none after.
THEOREM OneUserTheorem == RedisSpec => []OneUser
<1>1. RedisInv => OneUser
  BY DEF RedisInv
<1> QED
  BY RedisInvariance, <1>1, PTL

\* No command is sent on a null context.
THEOREM ContextTheorem == RedisSpec => []ContextAtHand
<1>1. RedisInv => ContextAtHand
  BY DEF RedisInv
<1> QED
  BY RedisInvariance, <1>1, PTL

\* Every context is freed once, and the flag beside the pointer agrees with it.
THEOREM OneContextTheorem == RedisSpec => [](OneContext /\ FlagMatchesContext)
<1>1. RedisInv => OneContext /\ FlagMatchesContext
  BY DEF RedisInv
<1> QED
  BY RedisInvariance, <1>1, PTL

\* A published count never comes from a broken SCAN.
THEOREM CountTheorem == RedisSpec => []CountIsBacked
<1>1. RedisInv => CountIsBacked
  BY DEF RedisInv
<1> QED
  BY RedisInvariance, <1>1, PTL
=============================================================================
