--------------------------- MODULE SYSImplProofs ---------------------------
(***************************************************************************)
(* Proofs about SYSImpl: unsigned differences give the traffic, for every  *)
(* width of the counters and any set of devices.                           *)
(***************************************************************************)
EXTENDS SYSImpl, TLAPS

\* Unsigned subtraction, by cases.
LEMMA UnsignedDiff ==
  ASSUME NEW c \in Values, NEW l \in Values
  PROVE  /\ (c - l) % W = IF c >= l THEN c - l ELSE c - l + W
         /\ (c - l) % W \in Values
<1>1. CASE c >= l
  BY <1>1, WidthAssumption DEF Values
<1>2. CASE c < l
  BY <1>2, WidthAssumption DEF Values
<1> QED
  BY <1>1, <1>2 DEF Values

\* A number below the width is its own residue.
LEMMA Residue ==
  ASSUME NEW a \in Int, 0 <= a, a < W
  PROVE  a % W = a
BY WidthAssumption

\* Up to twice the width, the residue is the rest.
LEMMA ResidueOver ==
  ASSUME NEW a \in Int, W <= a, a < W + W
  PROVE  a % W = a - W
<1>1. W \in Int /\ W > 0
  BY WidthAssumption
<1> QED
  BY <1>1

\* Unsigned addition, by cases.
LEMMA UnsignedSum ==
  ASSUME NEW c \in Values, NEW n \in Values
  PROVE  /\ (c + n) % W = IF c + n < W THEN c + n ELSE c + n - W
         /\ (c + n) % W \in Values
<1>1. /\ W \in Int /\ c \in Int /\ n \in Int /\ c + n \in Int
      /\ 0 <= c + n /\ c + n < W + W
  BY WidthAssumption DEF Values
<1>2. CASE c + n < W
  <2>1. (c + n) % W = c + n
    BY <1>1, <1>2, Residue
  <2> QED
    BY <1>1, <1>2, <2>1 DEF Values
<1>3. CASE ~(c + n < W)
  <2>1. (c + n) % W = c + n - W
    BY <1>1, <1>3, ResidueOver
  <2> QED
    BY <1>1, <1>3, <2>1 DEF Values
<1> QED
  BY <1>2, <1>3

\* A counter that goes on by n adds n to the difference, wrapped or not, as long as
\* the sum of the differences stays below the width.
LEMMA DiffAdds ==
  ASSUME NEW c \in Values, NEW l \in Values, NEW n \in Values,
         ((c - l) % W) + n < W
  PROVE  (((c + n) % W) - l) % W = ((c - l) % W) + n
<1> DEFINE s == (c + n) % W
<1>1. s \in Values /\ s = IF c + n < W THEN c + n ELSE c + n - W
  BY UnsignedSum
<1>2. (s - l) % W = IF s >= l THEN s - l ELSE s - l + W
  BY <1>1, UnsignedDiff
<1>3. (c - l) % W = IF c >= l THEN c - l ELSE c - l + W
  BY UnsignedDiff
<1> HIDE DEF s
<1>4. (s - l) % W = ((c - l) % W) + n
  <2> DEFINE d == (c - l) % W
             r == (s - l) % W
  <2>1. d = IF c >= l THEN c - l ELSE c - l + W
    BY <1>3
  <2>2. r = IF s >= l THEN s - l ELSE s - l + W
    BY <1>2
  <2>3. d + n < W
    OBVIOUS
  <2> HIDE DEF d, r
  <2> SUFFICES r = d + n
    BY DEF d, r
  <2> QED
    BY <1>1, <2>1, <2>2, <2>3, WidthAssumption DEF Values
<1> QED
  BY <1>4 DEF s

\* The width makes room for zero and for all traffic of an interval.
LEMMA Room == 0 \in Values /\ 0 \in 0 .. MaxMoved /\ 0 .. MaxMoved \subseteq Values
BY WidthAssumption, MovedAssumption DEF Values

\* The initial state satisfies the inductive invariant.
LEMMA InitInv == Init => IndInv
<1> SUFFICES ASSUME Init PROVE IndInv
  OBVIOUS
<1>1. Zero \in [Devices -> Values] /\ Zero \in [Devices -> 0 .. MaxMoved]
  BY Room DEF Zero
<1>2. TypeOK
  BY <1>1 DEF Init, TypeOK
<1>3. RateIsTraffic
  BY DEF Init, RateIsTraffic, Zero
<1>4. StatesMatch
  BY DEF Init, StatesMatch
<1>5. PowerIsRead
  BY DEF Init, PowerIsRead
<1> QED
  BY <1>2, <1>3, <1>4, <1>5 DEF IndInv

\* A sample publishes and remembers values of the declared types.
LEMMA ReadTypes ==
  ASSUME TypeOK, Read
  PROVE  /\ rates' \in [Devices -> Values]
         /\ known' \subseteq Devices /\ last' \in [Devices -> Values]
         /\ power' \in {"-1", "watts"}
         /\ moved' \in [Devices -> 0 .. MaxMoved]
         /\ listed' \subseteq Devices /\ restarted' \subseteq Devices
         /\ account' \in [traffic : [Devices -> 0 .. MaxMoved],
                          restarted : SUBSET Devices]
<1>1. \A d \in Devices : Diff(d) \in Values
  BY UnsignedDiff DEF TypeOK, Diff
<1>2. rates' \in [Devices -> Values]
  BY <1>1, Room DEF Read
<1>3. known' \subseteq Devices /\ last' \in [Devices -> Values]
  BY Room DEF Read, Remember, TypeOK
<1>4. [d \in Devices |-> IF d \in listed \cap present THEN moved[d] ELSE 0]
        \in [Devices -> 0 .. MaxMoved]
  BY Room DEF TypeOK
<1>5. account' \in [traffic : [Devices -> 0 .. MaxMoved], restarted : SUBSET Devices]
  BY <1>4 DEF Read, Record, TypeOK
<1>6. /\ moved' \in [Devices -> 0 .. MaxMoved]
      /\ listed' \subseteq Devices /\ restarted' \subseteq Devices
  BY Room DEF Read, Record, Zero, TypeOK
<1>7. power' \in {"-1", "watts"}
  BY DEF Read, TypeOK
<1> QED
  BY <1>2, <1>3, <1>5, <1>6, <1>7

\* Type correctness is preserved.
LEMMA TypeStep ==
  ASSUME IndInv, [Next]_vars
  PROVE  TypeOK'
<1>0. TypeOK
  BY DEF IndInv
<1> USE <1>0 DEF TypeOK
<1>1. ASSUME NEW d \in Devices, NEW n \in 1 .. MaxMoved, Moves(d, n) PROVE TypeOK'
  <2>1. (counter[d] + n) % W \in Values
    BY Room, UnsignedSum
  <2>2. moved[d] + n \in 0 .. MaxMoved
    BY <1>1, MovedAssumption DEF Moves
  <2> QED
    BY <1>1, <2>1, <2>2 DEF Moves, states, sampled
<1>2. ASSUME NEW d \in Devices, Leaves(d) PROVE TypeOK'
  BY <1>2 DEF Leaves, states, sampled, history
<1>3. ASSUME NEW d \in Devices, Appears(d) PROVE TypeOK'
  BY <1>3, Room DEF Appears, states, sampled
<1>4. CASE OpenFails \/ InitPowerCmd
  BY <1>4 DEF OpenFails, InitPowerCmd, proc, states, sampled, history
<1>5. CASE Baseline
  BY <1>5, ReadTypes DEF Baseline, proc
<1>6. CASE Sample
  BY <1>6, ReadTypes DEF Sample, proc
<1>7. CASE Fetch \/ FetchFails \/ Wake
  BY <1>7 DEF Fetch, FetchFails, Wake, proc, states, sampled, history
<1>8. CASE UNCHANGED vars
  BY <1>8 DEF vars, proc, states, sampled, history
<1> QED
  BY <1>1, <1>2, <1>3, <1>4, <1>5, <1>6, <1>7, <1>8 DEF Next

\* A sample reports the traffic and makes the remembered values fresh.
LEMMA ReadMatches ==
  ASSUME IndInv, Read, UNCHANGED proc
  PROVE  /\ RateIsTraffic'
         /\ known' = listed' /\ restarted' \subseteq listed'
         /\ (\A d \in (listed \cap present) \ restarted : Diff(d) = moved[d])'
<1>0. TypeOK /\ StatesMatch
  BY DEF IndInv
<1>1. RateIsTraffic'
  <2> SUFFICES ASSUME NEW d \in Devices, d \notin account'.restarted
               PROVE  rates'[d] = account'.traffic[d]
    BY DEF RateIsTraffic
  <2>1. /\ rates'[d] = IF d \in present \cap known THEN Diff(d) ELSE 0
        /\ account'.traffic[d] = IF d \in listed \cap present THEN moved[d] ELSE 0
        /\ d \notin restarted
    BY DEF Read, Record
  <2> QED
    BY <1>0, <2>1 DEF StatesMatch
<1>2. known' = listed' /\ restarted' \subseteq listed'
  BY DEF Read, Remember, Record
<1>3. ASSUME NEW d \in present PROVE (counter'[d] - last'[d]) % W = moved'[d]
  <2>1. d \in Devices /\ counter'[d] = counter[d] /\ last'[d] = counter[d]
        /\ moved'[d] = 0 /\ counter[d] \in Values
    BY <1>0, <1>3 DEF TypeOK, Read, Remember, Record, Zero, proc
  <2>2. (counter[d] - counter[d]) % W = 0
    BY <2>1, UnsignedDiff, WidthAssumption DEF Values
  <2> QED
    BY <2>1, <2>2
<1>4. (\A d \in (listed \cap present) \ restarted : Diff(d) = moved[d])'
  BY <1>3 DEF Diff, proc
<1> QED
  BY <1>1, <1>2, <1>4

\* The remembered values keep matching the traffic.
LEMMA MatchStep ==
  ASSUME IndInv, [Next]_vars
  PROVE  RateIsTraffic' /\ StatesMatch'
<1>0. TypeOK /\ RateIsTraffic /\ StatesMatch
  BY DEF IndInv
<1>1. ASSUME NEW d \in Devices, NEW n \in 1 .. MaxMoved, Moves(d, n)
      PROVE  RateIsTraffic' /\ StatesMatch'
  <2>1. UNCHANGED <<rates, account, known, listed, restarted, present, last, life, worker>>
    BY <1>1 DEF Moves, states, sampled
  <2>2. ASSUME NEW e \in (listed \cap present) \ restarted
        PROVE  (counter'[e] - last[e]) % W = moved'[e]
    <3>1. e \in Devices /\ (counter[e] - last[e]) % W = moved[e]
          /\ counter[e] \in Values /\ last[e] \in Values
      BY <1>0, <2>2 DEF StatesMatch, TypeOK, Diff
    <3>2. CASE e # d
      BY <1>0, <1>1, <3>1, <3>2 DEF Moves, TypeOK
    <3>3. CASE e = d
      <4>1. counter'[e] = (counter[e] + n) % W /\ moved'[e] = moved[e] + n
            /\ moved[e] + n <= MaxMoved
        BY <1>0, <1>1, <3>1, <3>3 DEF Moves, TypeOK
      <4>2. n \in Values
        BY Room
      <4>3. moved[e] + n < W
        BY <1>0, <3>1, <4>1, MovedAssumption, WidthAssumption DEF TypeOK
      <4>4. ((counter[e] - last[e]) % W) + n < W
        BY <3>1, <4>3
      <4>5. (((counter[e] + n) % W) - last[e]) % W = ((counter[e] - last[e]) % W) + n
        BY <3>1, <4>2, <4>4, DiffAdds
      <4> QED
        BY <3>1, <4>1, <4>5
    <3> QED
      BY <3>2, <3>3
  <2> QED
    BY <1>0, <2>1, <2>2 DEF RateIsTraffic, StatesMatch, Diff
<1>2. ASSUME NEW d \in Devices, Leaves(d)
      PROVE  RateIsTraffic' /\ StatesMatch'
  BY <1>0, <1>2 DEF Leaves, states, sampled, history, RateIsTraffic, StatesMatch, Diff
<1>3. ASSUME NEW d \in Devices, Appears(d)
      PROVE  RateIsTraffic' /\ StatesMatch'
  BY <1>0, <1>3 DEF Appears, states, sampled, RateIsTraffic, StatesMatch, Diff, TypeOK
<1>4. CASE OpenFails \/ InitPowerCmd
  BY <1>0, <1>4 DEF OpenFails, InitPowerCmd, proc, states, sampled, history, RateIsTraffic,
     StatesMatch, Diff
<1>5. CASE Baseline
  BY <1>5, ReadMatches DEF Baseline, StatesMatch
<1>6. CASE Sample
  BY <1>0, <1>6, ReadMatches DEF Sample, StatesMatch
<1>7. CASE Fetch \/ FetchFails \/ Wake
  BY <1>0, <1>7 DEF Fetch, FetchFails, Wake, proc, states, sampled, history,
     RateIsTraffic, StatesMatch, Diff
<1>8. CASE UNCHANGED vars
  BY <1>0, <1>8 DEF vars, proc, states, sampled, history, RateIsTraffic, StatesMatch, Diff
<1> QED
  BY <1>1, <1>2, <1>3, <1>4, <1>5, <1>6, <1>7, <1>8 DEF Next

\* The cache holds what ipmitool said, and keeps it.
LEMMA PowerStep ==
  ASSUME IndInv, [Next]_vars
  PROVE  PowerIsRead' /\ (power = "watts" => power' = "watts")
<1>0. PowerIsRead /\ StatesMatch /\ TypeOK
  BY DEF IndInv
<1> USE <1>0 DEF PowerIsRead
<1>1. CASE \E d \in Devices : Leaves(d) \/ Appears(d) \/ \E n \in 1 .. MaxMoved : Moves(d, n)
  BY <1>1 DEF Leaves, Appears, Moves, sampled
<1>2. CASE OpenFails \/ InitPowerCmd
  BY <1>2 DEF OpenFails, InitPowerCmd, sampled
<1>3. CASE Baseline \/ Sample
  BY <1>3 DEF Baseline, Sample, Read
<1>4. CASE Fetch \/ FetchFails \/ Wake
  BY <1>4 DEF Fetch, FetchFails, Wake, sampled, StatesMatch, TypeOK
<1>5. CASE UNCHANGED vars
  BY <1>5 DEF vars, sampled
<1> QED
  BY <1>1, <1>2, <1>3, <1>4, <1>5 DEF Next

\* The inductive invariant holds in every behaviour.
THEOREM Invariance == Spec => []IndInv
<1>1. IndInv /\ [Next]_vars => IndInv'
  BY TypeStep, MatchStep, PowerStep DEF IndInv
<1> QED
  BY InitInv, <1>1, PTL DEF Spec

\* What is reported of a device is what it moved.
THEOREM RateTheorem == Spec => []RateIsTraffic
<1>1. IndInv => RateIsTraffic
  BY DEF IndInv
<1> QED
  BY Invariance, <1>1, PTL

\* The power, once read, is never taken back.
THEOREM PowerTheorem == Spec => PowerIsKept
<1>1. IndInv /\ [Next]_vars => [power = "watts" => power' = "watts"]_vars
  BY PowerStep
<1> QED
  BY Invariance, <1>1, PTL DEF Spec, PowerIsKept
=============================================================================
