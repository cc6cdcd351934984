---------------------------- MODULE PowerProofs -----------------------------
(*****************************************************************************)
(* Proofs about the power readings, for every number of devices and every    *)
(* hang limit: PowerContext, how the collectors add them up, and then PCM,   *)
(* whose counters those of the CPUs come from.                               *)
(*****************************************************************************)
EXTENDS PowerContext, PCM, TLAPS

\* The turn of a source.
TurnOf(c) == IF c = "CPU" THEN 1 ELSE IF c = "GPU" THEN 2 ELSE 3

\* p holds the partial sums of what the samples s have for field f.  A sum over a
\* sequence is what such a p ends with; that there is one, and what it ends with, is
\* part of the invariant and grows with the sequence.
IsSum(p, f, s) == p = [i \in 0 .. Len(s) |-> IF i = 0 THEN 0 ELSE p[i - 1] + s[i][f]]

\* A sum is too low by one watt for each device at most, and never too high.
SumsUp(c, f) ==
  /\ \E p : IsSum(p, f, samples)
  /\ \A p : IsSum(p, f, samples) =>
       /\ p[Len(samples)] \in Int
       /\ p[Len(samples)] >= - Len(samples)
       /\ p[Len(samples)] <= real[f]
       /\ c \notin MayBeUnknown => p[Len(samples)] = real[f]

Types ==
  /\ turn \in 0 .. 4
  /\ real \in [Fields -> Nat]
  /\ context = [f \in Fields |-> context[f]]
  /\ total \subseteq Int
  /\ missing \subseteq Sources

\* No reading is left over when no source has its turn.
NothingLeft == turn \in {0, 4} => samples = <<>>

\* What a source has sampled in its turn.
Sampling ==
  \A c \in Sources : TurnOf(c) = turn =>
    /\ samples \in Seq([FieldsOf[c] -> Readings])
    /\ Len(samples) <= Count[c]
    /\ \A f \in FieldsOf[c] : SumsUp(c, f)

\* A source that has its turn, or will have it, has not added anything yet.
NotYet ==
  \A c \in Sources : TurnOf(c) >= turn =>
    /\ c \notin missing
    /\ \A f \in FieldsOf[c] : context[f] = {} /\ (TurnOf(c) > turn => real[f] = 0)

\* What a source has added in its turn.
Added(c, f) ==
  IF c \in missing \/ Count[c] = 0
  THEN context[f] = {}
  ELSE \E v \in Int : /\ context[f] = {v}
                      /\ v >= - Count[c] /\ v <= real[f]
                      /\ c \notin MayBeUnknown => v = real[f]

HasAdded == \A c \in Sources : TurnOf(c) < turn => \A f \in FieldsOf[c] : Added(c, f)

IndInv == Types /\ NothingLeft /\ Sampling /\ NotYet /\ HasAdded

-----------------------------------------------------------------------------
(* Lemmas                                                                  *)

\* The sources and their fields.
LEMMA SourceFacts ==
  ASSUME NEW c \in Sources
  PROVE  /\ TurnOf(c) \in 1 .. 3 /\ Order[TurnOf(c)] = c
         /\ FieldsOf[c] \subseteq Fields /\ Count[c] \in Nat
         /\ \A i \in 0 .. 4 : i # 0 /\ Order[i] = c => i = TurnOf(c)
         /\ \A d \in Sources : d # c => TurnOf(d) # TurnOf(c) /\ FieldsOf[c] \cap FieldsOf[d] = {}
  BY CountAssumption DEF Sources, TurnOf, Order, FieldsOf, Fields

\* Who has the turn.
LEMMA TurnFacts ==
  ASSUME Types, turn # 0
  PROVE  /\ turn = 4 => Collector = "SYS" /\ Collector \notin Sources
         /\ turn # 4 => Collector \in Sources /\ TurnOf(Collector) = turn
         /\ turn \in 1 .. 4
  BY DEF Types, Collector, Order, Sources, TurnOf

\* Every field has its source.
LEMMA FieldFacts ==
  ASSUME NEW f \in Fields
  PROVE  \E c \in Sources : f \in FieldsOf[c]
  BY DEF Fields, Sources, FieldsOf

\* Nothing sampled adds up to nothing.
LEMMA EmptySum ==
  ASSUME NEW f
  PROVE  /\ \E p : IsSum(p, f, <<>>)
         /\ \A p : IsSum(p, f, <<>>) => p[Len(<<>>)] = 0
<1>1. Len(<<>>) = 0
  OBVIOUS
<1>2. IsSum([i \in 0 .. 0 |-> 0], f, <<>>)
  BY <1>1 DEF IsSum
<1>3. ASSUME NEW p, IsSum(p, f, <<>>) PROVE p[0] = 0
  BY <1>1, <1>3 DEF IsSum
<1> QED
  BY <1>1, <1>2, <1>3

\* One sample more adds its reading, and only that.
LEMMA LongerSum ==
  ASSUME NEW f, NEW S, NEW s \in Seq(S), NEW r \in S
  PROVE  /\ Len(Append(s, r)) = Len(s) + 1
         /\ (\E p : IsSum(p, f, s)) => \E p : IsSum(p, f, Append(s, r))
         /\ \A p : IsSum(p, f, Append(s, r)) =>
              \E q : IsSum(q, f, s) /\ p[Len(s) + 1] = q[Len(s)] + r[f]
<1> DEFINE t == Append(s, r)
<1>1. /\ Len(s) \in Nat /\ Len(t) = Len(s) + 1 /\ t[Len(s) + 1] = r
      /\ \A i \in 1 .. Len(s) : t[i] = s[i]
  OBVIOUS
<1> HIDE DEF t
<1>2. ASSUME NEW p, IsSum(p, f, s) PROVE \E q : IsSum(q, f, t)
  <2> DEFINE q == [i \in 0 .. Len(t) |-> IF i \in 0 .. Len(s) THEN p[i] ELSE p[Len(s)] + r[f]]
  <2>1. \A i \in 0 .. Len(s) : q[i] = p[i] /\ p[i] = IF i = 0 THEN 0 ELSE p[i - 1] + s[i][f]
    BY <1>1, <1>2 DEF IsSum
  <2>2. q[Len(t)] = p[Len(s)] + r[f]
    BY <1>1
  <2>3. DOMAIN q = 0 .. Len(t) /\ q = [i \in 0 .. Len(t) |-> q[i]]
    OBVIOUS
  <2> HIDE DEF q
  <2>4. ASSUME NEW i \in 0 .. Len(t)
        PROVE  q[i] = IF i = 0 THEN 0 ELSE q[i - 1] + t[i][f]
    <3>1. CASE i = 0
      BY <1>1, <2>1, <3>1
    <3>2. CASE i \in 1 .. Len(s)
      BY <1>1, <2>1, <3>2
    <3>3. CASE i = Len(t)
      BY <1>1, <2>1, <2>2, <3>3
    <3> QED
      BY <1>1, <3>1, <3>2, <3>3
  <2>5. q = [i \in 0 .. Len(t) |-> IF i = 0 THEN 0 ELSE q[i - 1] + t[i][f]]
    BY <2>3, <2>4
  <2> QED
    BY <2>5 DEF IsSum
<1>3. ASSUME NEW p, IsSum(p, f, t)
      PROVE  \E q : IsSum(q, f, s) /\ p[Len(s) + 1] = q[Len(s)] + r[f]
  <2> DEFINE q == [i \in 0 .. Len(s) |-> p[i]]
  <2>1. \A i \in 0 .. Len(t) : p[i] = IF i = 0 THEN 0 ELSE p[i - 1] + t[i][f]
    BY <1>3 DEF IsSum
  <2>2. \A i \in 0 .. Len(s) : q[i] = p[i]
    OBVIOUS
  <2>3. q = [i \in 0 .. Len(s) |-> q[i]]
    OBVIOUS
  <2> HIDE DEF q
  <2>4. ASSUME NEW i \in 0 .. Len(s)
        PROVE  q[i] = IF i = 0 THEN 0 ELSE q[i - 1] + s[i][f]
    BY <1>1, <2>1, <2>2
  <2>5. q = [i \in 0 .. Len(s) |-> IF i = 0 THEN 0 ELSE q[i - 1] + s[i][f]]
    BY <2>3, <2>4
  <2>6. p[Len(s) + 1] = p[Len(s)] + r[f] /\ q[Len(s)] = p[Len(s)]
    BY <1>1, <2>1, <2>2
  <2> QED
    BY <2>5, <2>6 DEF IsSum
<1> QED
  BY <1>1, <1>2, <1>3 DEF t

\* What SumOf chooses is such a sum.
LEMMA ChosenSum ==
  ASSUME NEW f, NEW s, \E p : IsSum(p, f, s)
  PROVE  \E p : IsSum(p, f, s) /\ SumOf(f, s) = p[Len(s)]
<1> DEFINE q == CHOOSE p : IsSum(p, f, s)
<1>1. IsSum(q, f, s)
  OBVIOUS
<1>2. SumOf(f, s) = q[Len(s)]
  BY DEF SumOf, IsSum
<1> QED
  BY <1>1, <1>2

\* The value of an optional.
LEMMA ValueFacts ==
  /\ ValueOr0({}) = 0
  /\ \A v : ValueOr0({v}) = v
  BY DEF ValueOr0

\* The initial state.
LEMMA InitHolds == Init => IndInv
<1> SUFFICES ASSUME Init PROVE IndInv
  OBVIOUS
<1> USE DEF Init
<1>1. Types
  BY DEF Types, NoPower, NoWatts
<1>2. NothingLeft /\ Sampling /\ HasAdded
  BY SourceFacts DEF NothingLeft, Sampling, HasAdded
<1>3. NotYet
  BY SourceFacts DEF NotYet, NoPower, NoWatts
<1> QED
  BY <1>1, <1>2, <1>3 DEF IndInv

\* The first turn begins with nothing.
LEMMA BeginStep == IndInv /\ BeginRound => IndInv'
<1> SUFFICES ASSUME IndInv, BeginRound PROVE IndInv'
  OBVIOUS
<1> USE DEF BeginRound
<1>1. Types'
  BY DEF IndInv, Types
<1>2. samples = <<>> /\ samples' = <<>>
  BY DEF IndInv, NothingLeft
<1>3. NothingLeft'
  BY <1>2 DEF NothingLeft
<1>4. Sampling'
  <2> SUFFICES ASSUME NEW c \in Sources, TurnOf(c) = 1
               PROVE  /\ samples' \in Seq([FieldsOf[c] -> Readings])
                      /\ Len(samples') <= Count[c]
                      /\ \A f \in FieldsOf[c] : SumsUp(c, f)'
    BY DEF Sampling
  <2>1. Count[c] \in Nat /\ FieldsOf[c] \subseteq Fields
    BY SourceFacts
  <2>2. ASSUME NEW f \in FieldsOf[c] PROVE SumsUp(c, f)'
    <3>1. real'[f] = 0
      BY <2>1, SourceFacts DEF IndInv, NotYet
    <3> QED
      BY <1>2, <3>1, EmptySum DEF SumsUp
  <2> QED
    BY <1>2, <2>1, <2>2
<1>5. NotYet'
  BY SourceFacts DEF IndInv, NotYet
<1>6. HasAdded'
  BY SourceFacts DEF HasAdded
<1> QED
  BY <1>1, <1>3, <1>4, <1>5, <1>6 DEF IndInv

\* One device more is sampled.
LEMMA SampleStep == IndInv /\ SampleDevice => IndInv'
<1> SUFFICES ASSUME IndInv, SampleDevice PROVE IndInv'
  OBVIOUS
<1> DEFINE c == Collector
<1>1. /\ c \in Sources /\ turn \in 1 .. 3 /\ TurnOf(c) = turn
      /\ UNCHANGED <<turn, context, total, missing>>
      /\ Len(samples) # Count[c]
  BY TurnFacts DEF IndInv, SampleDevice, Done
<1>2a. PICK w \in [FieldsOf[c] -> Watts] :
         \E r \in {w} \cup (IF c \in MayBeUnknown THEN {[f \in FieldsOf[c] |-> Unknown]} ELSE {}) :
           /\ samples' = Append(samples, r)
           /\ real' = [f \in Fields |-> IF f \in DOMAIN w THEN real[f] + w[f] ELSE real[f]]
  BY DEF SampleDevice
<1>2. PICK r \in {w} \cup (IF c \in MayBeUnknown THEN {[f \in FieldsOf[c] |-> Unknown]} ELSE {}) :
        /\ samples' = Append(samples, r)
        /\ real' = [f \in Fields |-> IF f \in DOMAIN w THEN real[f] + w[f] ELSE real[f]]
  BY <1>2a
<1>3. PICK d : d = c
  OBVIOUS
<1> HIDE DEF c
<1>4. r \in [FieldsOf[d] -> Readings]
  BY <1>2, <1>3 DEF Readings
<1>5. samples \in Seq([FieldsOf[d] -> Readings]) /\ Len(samples) < Count[d] /\ Count[d] \in Nat
  <2>1. d \in Sources /\ TurnOf(d) = turn /\ Len(samples) # Count[d]
    BY <1>1, <1>3
  <2>2. Count[d] \in Nat
    BY <2>1, SourceFacts
  <2>3. samples \in Seq([FieldsOf[d] -> Readings]) /\ Len(samples) <= Count[d]
    BY <2>1 DEF IndInv, Sampling
  <2> QED
    BY <2>1, <2>2, <2>3
<1>6. /\ samples' \in Seq([FieldsOf[d] -> Readings])
      /\ Len(samples') = Len(samples) + 1 /\ Len(samples') <= Count[d]
      /\ Len(samples) \in Nat
  BY <1>2, <1>4, <1>5
<1>7. \A f \in FieldsOf[d] : /\ f \in Fields /\ w[f] \in Nat /\ real'[f] = real[f] + w[f]
                             /\ r[f] = w[f] \/ (d \in MayBeUnknown /\ r[f] = -1)
  BY <1>1, <1>2, <1>3, SourceFacts, WattsAssumption DEF Watts, Unknown
<1>8. Types'
  BY <1>1, <1>2, WattsAssumption DEF IndInv, Types, Watts
<1>9. NothingLeft'
  BY <1>1 DEF NothingLeft
<1>10. Sampling'
  <2>1. ASSUME NEW f \in FieldsOf[d] PROVE SumsUp(d, f)'
    <3>1. SumsUp(d, f) /\ real[f] \in Nat
      BY <1>1, <1>3, <1>7 DEF IndInv, Sampling, Types
    <3>2. \E p : IsSum(p, f, samples')
      BY <1>2, <1>4, <1>5, <3>1, LongerSum DEF SumsUp
    <3>3. ASSUME NEW p, IsSum(p, f, samples')
          PROVE  /\ p[Len(samples')] \in Int
                 /\ p[Len(samples')] >= - Len(samples')
                 /\ p[Len(samples')] <= real'[f]
                 /\ d \notin MayBeUnknown => p[Len(samples')] = real'[f]
      <4>1. PICK q : IsSum(q, f, samples) /\ p[Len(samples')] = q[Len(samples)] + r[f]
        <5> PICK S : samples \in Seq(S) /\ r \in S
          BY <1>4, <1>5
        <5> PICK s : s = samples
          OBVIOUS
        <5>1. \A x : IsSum(x, f, Append(s, r)) =>
                \E q : IsSum(q, f, s) /\ x[Len(s) + 1] = q[Len(s)] + r[f]
          BY LongerSum
        <5> QED
          BY <1>2, <1>6, <3>3, <5>1
      <4>2. /\ q[Len(samples)] \in Int
            /\ q[Len(samples)] >= - Len(samples)
            /\ q[Len(samples)] <= real[f]
            /\ d \notin MayBeUnknown => q[Len(samples)] = real[f]
        BY <3>1, <4>1 DEF SumsUp
      <4> QED
        BY <1>6, <1>7, <3>1, <4>1, <4>2
    <3> QED
      BY <3>2, <3>3 DEF SumsUp
  <2> QED
    BY <1>1, <1>3, <1>6, <2>1, SourceFacts DEF Sampling
<1>11. \A e \in Sources : e # d => \A f \in FieldsOf[e] : real'[f] = real[f]
  BY <1>1, <1>2, <1>3, SourceFacts
<1>12. NotYet'
  BY <1>1, <1>3, <1>11, SourceFacts DEF IndInv, NotYet
<1>13. HasAdded'
  BY <1>1, <1>3, <1>11, SourceFacts DEF IndInv, HasAdded, Added
<1> QED
  BY <1>8, <1>9, <1>10, <1>12, <1>13 DEF IndInv

\* A source that is done or has failed leaves its turn to the next; what is said of
\* the sources before and after it stays true.
LEMMA TurnPasses ==
  ASSUME IndInv, NEW d \in Sources, TurnOf(d) = turn,
         turn' = turn + 1, samples' = <<>>, UNCHANGED real,
         \A f \in Fields : f \notin FieldsOf[d] => context'[f] = context[f],
         \A c \in Sources : c # d => (c \in missing' <=> c \in missing),
         \A f \in FieldsOf[d] : Added(d, f)'
  PROVE  NothingLeft' /\ Sampling' /\ NotYet' /\ HasAdded'
<1>1. turn \in 1 .. 3
  BY SourceFacts
<1>2. \A c \in Sources : c # d => \A f \in FieldsOf[c] : f \in Fields /\ context'[f] = context[f]
  BY SourceFacts
<1>3. NothingLeft'
  BY DEF NothingLeft
<1>4. Sampling'
  <2> SUFFICES ASSUME NEW c \in Sources, TurnOf(c) = turn + 1
               PROVE  /\ samples' \in Seq([FieldsOf[c] -> Readings])
                      /\ Len(samples') <= Count[c]
                      /\ \A f \in FieldsOf[c] : SumsUp(c, f)'
    BY DEF Sampling
  <2>1. Count[c] \in Nat /\ FieldsOf[c] \subseteq Fields
    BY SourceFacts
  <2>2. ASSUME NEW f \in FieldsOf[c] PROVE SumsUp(c, f)'
    <3>1. real'[f] = 0
      BY <1>1, <2>1 DEF IndInv, NotYet
    <3> QED
      BY <3>1, EmptySum DEF SumsUp
  <2> QED
    BY <2>1, <2>2
<1>5. NotYet'
  <2> SUFFICES ASSUME NEW c \in Sources, TurnOf(c) >= turn + 1
               PROVE  /\ c \notin missing'
                      /\ \A f \in FieldsOf[c] : context'[f] = {} /\ real'[f] = 0
    BY DEF NotYet
  <2>1. TurnOf(c) > turn /\ TurnOf(c) >= turn /\ c # d
    BY <1>1, SourceFacts
  <2> QED
    BY <1>2, <2>1 DEF IndInv, NotYet
<1>6. HasAdded'
  <2> SUFFICES ASSUME NEW c \in Sources, TurnOf(c) < turn + 1, NEW f \in FieldsOf[c]
               PROVE  Added(c, f)'
    BY DEF HasAdded
  <2>1. CASE c = d
    BY <2>1
  <2>2. CASE c # d
    <3>1. TurnOf(c) < turn
      BY <1>1, <2>2, SourceFacts
    <3>2. Added(c, f)
      BY <3>1 DEF IndInv, HasAdded
    <3> QED
      BY <1>2, <2>2, <3>2 DEF Added
  <2> QED
    BY <2>1, <2>2
<1> QED
  BY <1>3, <1>4, <1>5, <1>6

\* A collector that fails is missing, and adds nothing.
LEMMA ThrowStep == IndInv /\ SampleThrows => IndInv'
<1> SUFFICES ASSUME IndInv, SampleThrows PROVE IndInv'
  OBVIOUS
<1>1. /\ turn # 0 /\ Collector \in MayThrow /\ samples' = <<>> /\ turn' = turn + 1
      /\ missing' = missing \cup {Collector}
      /\ context' = context /\ real' = real /\ total' = total
  BY DEF SampleThrows
<1>2. turn \in 1 .. 4 /\ Collector \in Sources /\ turn # 4
  BY <1>1, TurnFacts DEF IndInv, MayThrow, Sources
<1>3. PICK d : d = Collector
  OBVIOUS
<1>4. d \in Sources /\ TurnOf(d) = turn /\ missing' = missing \cup {d}
  BY <1>1, <1>2, <1>3, TurnFacts DEF IndInv
<1>5. Types'
  BY <1>1, <1>2, <1>4 DEF IndInv, Types
<1>6. \A f \in FieldsOf[d] : Added(d, f)'
  BY <1>1, <1>2, <1>4 DEF IndInv, NotYet, Added
<1>7. NothingLeft' /\ Sampling' /\ NotYet' /\ HasAdded'
  BY <1>1, <1>4, <1>6, TurnPasses
<1> QED
  BY <1>5, <1>7 DEF IndInv

\* A source adds what it has sampled.
LEMMA ShareStep == IndInv /\ Share => IndInv'
<1> SUFFICES ASSUME IndInv, Share PROVE IndInv'
  OBVIOUS
<1>1. /\ turn # 0 /\ Collector \in Sources /\ Len(samples) = Count[Collector]
      /\ context' = [f \in Fields |->
           IF f \in FieldsOf[Collector] /\ samples # <<>>
           THEN {ValueOr0(context[f]) + SumOf(f, samples)} ELSE context[f]]
      /\ samples' = <<>> /\ turn' = turn + 1
      /\ real' = real /\ missing' = missing /\ total' = total
  BY DEF Share, Done
<1>2. turn \in 1 .. 3
  BY <1>1, TurnFacts DEF IndInv, Sources
<1>3. PICK d : d = Collector
  OBVIOUS
<1>4. d \in Sources /\ TurnOf(d) = turn /\ Len(samples) = Count[d]
  BY <1>1, <1>2, <1>3, TurnFacts DEF IndInv
<1>5. Types'
  BY <1>1, <1>2 DEF IndInv, Types
<1>6. /\ d \notin missing /\ FieldsOf[d] \subseteq Fields
      /\ samples \in Seq([FieldsOf[d] -> Readings])
      /\ \A f \in FieldsOf[d] : context[f] = {} /\ SumsUp(d, f)
  <2>1. FieldsOf[d] \subseteq Fields
    BY <1>4, SourceFacts
  <2>2. samples \in Seq([FieldsOf[d] -> Readings]) /\ \A f \in FieldsOf[d] : SumsUp(d, f)
    BY <1>4 DEF IndInv, Sampling
  <2>3. TurnOf(d) >= turn
    BY <1>2, <1>4
  <2>4. d \notin missing /\ \A f \in FieldsOf[d] : context[f] = {}
    BY <1>4, <2>3 DEF IndInv, NotYet
  <2> QED
    BY <2>1, <2>2, <2>4
<1>7. ASSUME NEW f \in FieldsOf[d] PROVE Added(d, f)'
  <2>1. CASE samples = <<>>
    BY <1>1, <1>3, <1>4, <1>6, <2>1 DEF Added
  <2>2. CASE samples # <<>>
    <3>1. PICK p : IsSum(p, f, samples) /\ SumOf(f, samples) = p[Len(samples)]
      BY <1>6, ChosenSum DEF SumsUp
    <3>2. PICK v : v = SumOf(f, samples)
      OBVIOUS
    <3>3. /\ v \in Int /\ v >= - Count[d] /\ v <= real[f]
          /\ d \notin MayBeUnknown => v = real[f]
      BY <1>4, <1>6, <3>1, <3>2 DEF SumsUp
    <3>4. context'[f] = {v}
      <4>1. f \in Fields /\ context[f] = {}
        BY <1>6
      <4>2. context'[f] = {ValueOr0(context[f]) + SumOf(f, samples)}
        BY <1>1, <1>3, <2>2, <4>1
      <4>3. ValueOr0(context[f]) = 0
        BY <4>1, ValueFacts
      <4> QED
        BY <3>2, <3>3, <4>2, <4>3
    <3>5. Count[d] # 0
      BY <1>4, <1>6, <2>2
    <3> QED
      BY <1>1, <1>6, <3>3, <3>4, <3>5 DEF Added
  <2> QED
    BY <2>1, <2>2
<1>8. NothingLeft' /\ Sampling' /\ NotYet' /\ HasAdded'
  <2>1. \A f \in Fields : f \notin FieldsOf[d] => context'[f] = context[f]
    BY <1>1, <1>3
  <2> QED
    BY <1>1, <1>4, <1>7, <2>1, TurnPasses
<1> QED
  BY <1>5, <1>8 DEF IndInv

\* Once every source has had its turn a field has a value that is not too high, or none.
LEMMA LowTotal ==
  ASSUME IndInv, turn = 4
  PROVE  TotalPower \in Int /\ TotalPower <= RealTotal
<1>1. ASSUME NEW f \in Fields
      PROVE  /\ ValueOr0(context[f]) \in Int /\ real[f] \in Int
             /\ ValueOr0(context[f]) <= real[f]
  <2>1. PICK c \in Sources : f \in FieldsOf[c]
    BY FieldFacts
  <2>2. Added(c, f) /\ real[f] \in Nat
    BY <2>1, SourceFacts DEF IndInv, HasAdded, Types
  <2>3. CASE context[f] = {}
    BY <2>2, <2>3, ValueFacts
  <2>4. CASE context[f] # {}
    <3>1. PICK v \in Int : context[f] = {v} /\ v <= real[f]
      BY <2>2, <2>4 DEF Added
    <3>2. ValueOr0(context[f]) = v
      BY <3>1, ValueFacts
    <3> QED
      BY <2>2, <3>1, <3>2
  <2> QED
    BY <2>3, <2>4
<1> QED
  BY <1>1 DEF TotalPower, RealTotal, SumOfFields, Fields

\* The round ends with a context that is empty again.
LEMMA PublishStep == IndInv /\ PublishTotal => IndInv'
<1> SUFFICES ASSUME IndInv, PublishTotal PROVE IndInv'
  OBVIOUS
<1>1. /\ turn # 0 /\ Collector = "SYS" /\ turn' = 0 /\ samples' = samples
      /\ context' = NoPower /\ real' = NoWatts /\ missing' = {} /\ total' = {TotalPower}
  BY DEF PublishTotal
<1>2. turn = 4
  BY <1>1, TurnFacts DEF IndInv, Sources
<1>3. Types'
  <2>1. TotalPower \in Int
    BY <1>2, LowTotal
  <2> QED
    BY <1>1, <2>1 DEF Types, NoPower, NoWatts
<1>4. NothingLeft'
  BY <1>1, <1>2 DEF IndInv, NothingLeft
<1>5. Sampling' /\ HasAdded'
  BY <1>1, SourceFacts DEF Sampling, HasAdded
<1>6. NotYet'
  BY <1>1, SourceFacts DEF NotYet, NoPower, NoWatts
<1> QED
  BY <1>3, <1>4, <1>5, <1>6 DEF IndInv

\* The invariant is preserved by every step.
LEMMA StepHolds == IndInv /\ [Next]_vars => IndInv'
<1> SUFFICES ASSUME IndInv, [Next]_vars PROVE IndInv'
  OBVIOUS
<1>1. CASE BeginRound
  BY <1>1, BeginStep
<1>2. CASE SampleDevice
  BY <1>2, SampleStep
<1>3. CASE SampleThrows
  BY <1>3, ThrowStep
<1>4. CASE Share
  BY <1>4, ShareStep
<1>5. CASE PublishTotal
  BY <1>5, PublishStep
<1>6. CASE UNCHANGED vars
  <2>1. UNCHANGED turn /\ UNCHANGED samples /\ UNCHANGED context /\ UNCHANGED real
        /\ UNCHANGED missing /\ UNCHANGED total
    BY <1>6 DEF vars
  <2>2. \A c \in Sources : \A f \in FieldsOf[c] : (SumsUp(c, f) <=> SumsUp(c, f)')
    BY <2>1 DEF SumsUp
  <2>3. (Types /\ NothingLeft)' /\ NotYet' /\ HasAdded'
    BY <2>1 DEF IndInv, Types, NothingLeft, NotYet, HasAdded, Added
  <2>4. Sampling'
    BY <2>1, <2>2 DEF IndInv, Sampling
  <2> QED
    BY <2>3, <2>4 DEF IndInv
<1> QED
  BY <1>1, <1>2, <1>3, <1>4, <1>5, <1>6 DEF Next

-----------------------------------------------------------------------------
(* Theorems                                                                *)

\* In every state the sums so far are neither too high nor lower than one watt for each
\* device, and a source adds to the context in its turn only.
THEOREM Invariance == Spec => []IndInv
<1>1. Init => IndInv
  BY InitHolds
<1>2. IndInv /\ [Next]_vars => IndInv'
  BY StepHolds
<1> QED
  BY <1>1, <1>2, PTL DEF Spec

\* The types: the readings waiting to be shared are those of one source.
THEOREM TypeTheorem == Spec => []TypeOK
<1>1. ASSUME IndInv PROVE TypeOK
  <2>1. /\ turn \in 0 .. Len(Order) /\ real \in [Fields -> Nat]
        /\ total \subseteq Int /\ missing \subseteq Sources
    BY <1>1 DEF IndInv, Types, Order
  <2>2. samples \in Seq(UNION {[FieldsOf[c] -> Readings] : c \in Sources})
    <3>1. CASE samples = <<>>
      BY <3>1
    <3>2. CASE samples # <<>>
      <4>1. PICK c \in Sources : samples \in Seq([FieldsOf[c] -> Readings])
        BY <1>1, <3>2, TurnFacts DEF IndInv, NothingLeft, Sampling, Types
      <4>2. [FieldsOf[c] -> Readings] \subseteq UNION {[FieldsOf[d] -> Readings] : d \in Sources}
        OBVIOUS
      <4> PICK S, T : /\ S = [FieldsOf[c] -> Readings]
                      /\ T = UNION {[FieldsOf[d] -> Readings] : d \in Sources}
        OBVIOUS
      <4> QED
        BY <4>1, <4>2
    <3> QED
      BY <3>1, <3>2
  <2>3. ASSUME NEW f \in Fields
        PROVE  context[f] = {} \/ \E v \in Int : context[f] = {v}
    <3>1. PICK c \in Sources : f \in FieldsOf[c]
      BY FieldFacts
    <3>2. context[f] = {} \/ Added(c, f)
      BY <1>1, <3>1, SourceFacts DEF IndInv, NotYet, HasAdded, Types
    <3> QED
      BY <3>2 DEF Added
  <2>4. context \in [Fields -> SUBSET Int]
    <3>1. context = [f \in Fields |-> context[f]]
      BY <1>1 DEF IndInv, Types
    <3> QED
      BY <2>3, <3>1
  <2> QED
    BY <2>1, <2>2, <2>3, <2>4 DEF TypeOK
<1> QED
  BY <1>1, Invariance, PTL

\* When SYSCollector has its turn only the collectors that failed, and those without
\* devices, lack in the context; the CPU's fields are exact.
THEOREM ContextTheorem == Spec => []ContextIsThere
<1>1. IndInv => ContextIsThere
  <2> SUFFICES ASSUME IndInv, turn # 0, Collector = "SYS",
                      NEW c \in Sources, NEW f \in FieldsOf[c]
               PROVE  IF c \in missing \/ Count[c] = 0
                      THEN context[f] = {}
                      ELSE /\ context[f] # {}
                           /\ ValueOr0(context[f]) >= - Count[c]
                           /\ c \notin MayBeUnknown => ValueOr0(context[f]) = real[f]
    BY DEF ContextIsThere
  <2>1. turn = 4
    BY TurnFacts DEF IndInv, Sources
  <2>2. Added(c, f)
    BY <2>1, SourceFacts DEF IndInv, HasAdded
  <2> QED
    BY <2>2, ValueFacts DEF Added
<1> QED
  BY <1>1, Invariance, PTL

\* The total is never more than what the machine draws: each field the total adds up is
\* at most what the field's devices draw, and a field nobody added to counts nothing.
THEOREM TotalTheorem == Spec => TotalNeverTooHigh
<1>1. ASSUME IndInv, [Next]_vars, turn # 0, turn' = 0
      PROVE  \A t \in total' : t <= RealTotal
  <2>1. PublishTotal
    BY <1>1, TurnFacts
       DEF IndInv, Next, vars, BeginRound, SampleDevice, SampleThrows, Share, Done, MayThrow
  <2>2. turn = 4 /\ total' = {TotalPower}
    BY <1>1, <2>1, TurnFacts DEF IndInv, PublishTotal, Sources
  <2> QED
    BY <1>1, <2>2, LowTotal
<1>2. IndInv /\ [Next]_vars => [turn' = 0 /\ turn # 0 => \A t \in total' : t <= RealTotal]_vars
  BY <1>1
<1> QED
  BY <1>2, Invariance, PTL DEF Spec, TotalNeverTooHigh

-----------------------------------------------------------------------------
(* The counters of the CPUs: PCM                                             *)

\* A snapshot is one.
LEMMA SnapshotType == \A t, e \in Nat : Snapshot(t, e) \in Snapshots
BY DEF Snapshot, Snapshots

\* The initial state satisfies the inductive invariant.
LEMMA PCMInitInv == PCMInit => PCMInv
<1> SUFFICES ASSUME PCMInit PROVE PCMInv
  OBVIOUS
<1>1. Snapshot(0, 0) \in Snapshots
  BY SnapshotType
<1>2. PCMTypeOK
  BY <1>1 DEF PCMInit, PCMTypeOK, Nothing
<1>3. ElapsedIsTheInterval
  BY DEF PCMInit, ElapsedIsTheInterval, Nothing, Snapshot
<1>4. BaselineInPlace
  BY DEF PCMInit, BaselineInPlace, Snapshot
<1>5. CounterFollows
  BY HangLimitAssumption DEF PCMInit, CounterFollows
<1> QED
  BY <1>2, <1>3, <1>4, <1>5 DEF PCMInv

\* Every sample publishes a record of the declared type, timed by its snapshots.
LEMMA PublishFacts ==
  ASSUME PCMInv, Publish
  PROVE  /\ published' \in [from : Snapshots, to : Snapshots, start : Nat, end : Nat]
         /\ published'.from = before /\ published'.to = Snapshot(now, epoch)
         /\ ElapsedIsTheInterval'
<1>1. Snapshot(now, epoch) \in Snapshots
  BY SnapshotType DEF PCMInv, PCMTypeOK
<1>2. before \in Snapshots /\ beforeTime \in Nat /\ now \in Nat /\ before.at = beforeTime
  BY DEF PCMInv, PCMTypeOK, BaselineInPlace
<1>3. published' = [from |-> before, to |-> Snapshot(now, epoch),
                    start |-> beforeTime, end |-> now]
  BY DEF Publish
<1>4. published'.to.at = now
  BY <1>3 DEF Snapshot
<1> QED
  BY <1>1, <1>2, <1>3, <1>4 DEF ElapsedIsTheInterval

\* Type correctness is preserved.
LEMMA PCMTypeStep ==
  ASSUME PCMInv, [PCMNext]_pcmVars
  PROVE  PCMTypeOK'
<1>0. PCMTypeOK
  BY DEF PCMInv
<1>1. \A t, e \in Nat : Snapshot(t, e) \in Snapshots
  BY SnapshotType
<1>2. CASE Tick \/ Hangs \/ InitializeFails \/ Destroy \/ UNCHANGED pcmVars
  <2>1. hung' \in BOOLEAN
    BY <1>0, <1>2 DEF Tick, Hangs, InitializeFails, Destroy, PCMTypeOK, pcmVars, pmu
  <2> QED
    BY <1>0, <1>2, <2>1
    DEF Tick, Hangs, InitializeFails, Destroy, PCMTypeOK, pcmVars, pmu, baseline
<1>3. CASE Initialize
  BY <1>0, <1>1, <1>3 DEF Initialize, PCMTypeOK, pmu
<1>4. CASE SampleSound
  BY <1>0, <1>1, <1>4, PublishFacts DEF SampleSound, Advance, Watch, PCMTypeOK, pmu
<1>5. CASE SampleSuspicious
  BY <1>0, <1>1, <1>5, PublishFacts DEF SampleSuspicious, Advance, Watch, PCMTypeOK, pmu
<1>6. CASE SampleResets
  <2>1. epoch' \in Nat /\ before' = Snapshot(now, epoch') /\ now \in Nat
    BY <1>0, <1>6 DEF SampleResets, NewEpoch, PCMTypeOK
  <2>2. before' \in Snapshots
    BY <1>1, <2>1
  <2> QED
    BY <1>0, <1>6, <2>1, <2>2, PublishFacts DEF SampleResets, PCMTypeOK
<1>7. CASE SampleResetFails
  BY <1>0, <1>7, PublishFacts DEF SampleResetFails, NewEpoch, Watch, PCMTypeOK, baseline
<1> QED
  BY <1>2, <1>3, <1>4, <1>5, <1>6, <1>7 DEF PCMNext, Over

\* The interval of the last sample, the baseline and the counter stay in place.
LEMMA PlaceStep ==
  ASSUME PCMInv, [PCMNext]_pcmVars
  PROVE  ElapsedIsTheInterval' /\ BaselineInPlace' /\ CounterFollows'
<1> USE HangLimitAssumption
<1>0. /\ PCMTypeOK /\ ElapsedIsTheInterval /\ BaselineInPlace /\ CounterFollows
      /\ now \in Nat /\ epoch \in Nat /\ blind \in Nat /\ zeroBandwidthCounter \in Nat
      /\ HangLimit \in Nat
  BY DEF PCMInv, PCMTypeOK
<1>1. Snapshot(now, epoch).at = now /\ Snapshot(now, epoch).epoch = epoch
  BY DEF Snapshot
<1>2. CASE Tick \/ Hangs \/ InitializeFails \/ Destroy \/ UNCHANGED pcmVars
  BY <1>0, <1>2 DEF Tick, Hangs, InitializeFails, Destroy, pcmVars, pmu, baseline,
     ElapsedIsTheInterval, BaselineInPlace, CounterFollows
<1>3. CASE Initialize
  BY <1>0, <1>1, <1>3 DEF Initialize, pmu, ElapsedIsTheInterval, BaselineInPlace,
     CounterFollows
<1>4. CASE SampleSound
  <2>1. ElapsedIsTheInterval' /\ published'.to = Snapshot(now, epoch)
    BY <1>4, PublishFacts DEF SampleSound
  <2>2. BaselineInPlace'
    BY <1>1, <1>4, <2>1 DEF SampleSound, Advance, pmu, BaselineInPlace
  <2>3. CounterFollows'
    BY <1>0, <1>4 DEF SampleSound, Advance, Watch, CounterFollows
  <2> QED
    BY <2>1, <2>2, <2>3
<1>5. CASE SampleSuspicious
  <2>1. ElapsedIsTheInterval' /\ published'.to = Snapshot(now, epoch)
    BY <1>5, PublishFacts DEF SampleSuspicious
  <2>2. BaselineInPlace'
    BY <1>1, <1>5, <2>1 DEF SampleSuspicious, Advance, pmu, BaselineInPlace
  <2>3. CounterFollows'
    BY <1>0, <1>5 DEF SampleSuspicious, Advance, Watch, CounterFollows
  <2> QED
    BY <2>1, <2>2, <2>3
<1>6. CASE SampleResets
  <2>1. ElapsedIsTheInterval'
    BY <1>6, PublishFacts DEF SampleResets
  <2>2. BaselineInPlace'
    BY <1>6 DEF SampleResets, BaselineInPlace, Snapshot
  <2>3. CounterFollows'
    BY <1>0, <1>6 DEF SampleResets, CounterFollows
  <2> QED
    BY <2>1, <2>2, <2>3
<1>7. CASE SampleResetFails
  <2>1. ElapsedIsTheInterval'
    BY <1>7, PublishFacts DEF SampleResetFails
  <2>2. BaselineInPlace'
    BY <1>0, <1>7 DEF SampleResetFails, BaselineInPlace, baseline
  <2>3. CounterFollows'
    BY <1>0, <1>7 DEF SampleResetFails, Watch, CounterFollows
  <2> QED
    BY <2>1, <2>2, <2>3
<1> QED
  BY <1>2, <1>3, <1>4, <1>5, <1>6, <1>7 DEF PCMNext, Over

\* The inductive invariant holds in every behaviour.
THEOREM PCMInvariance == PCMSpec => []PCMInv
<1>1. PCMInv /\ [PCMNext]_pcmVars => PCMInv'
  BY PCMTypeStep, PlaceStep DEF PCMInv
<1> QED
  BY PCMInitInv, <1>1, PTL DEF PCMSpec

\* The rates of every sample are divided by the time they span.
THEOREM ElapsedTheorem == PCMSpec => []ElapsedIsTheInterval
<1>1. PCMInv => ElapsedIsTheInterval
  BY DEF PCMInv
<1> QED
  BY PCMInvariance, <1>1, PTL

\* A hung PMU is noticed within HangLimit samples.
THEOREM HangTheorem == PCMSpec => []HangIsBounded
<1>1. PCMInv => HangIsBounded
  BY HangLimitAssumption DEF PCMInv, PCMTypeOK, CounterFollows, HangIsBounded
<1> QED
  BY PCMInvariance, <1>1, PTL

\* A step that publishes something new is a sample, and starts at the baseline.
LEMMA SampleFrom ==
  ASSUME PCMInv, [PCMNext]_pcmVars, published' # published
  PROVE  published'.from = before /\ published'.to = Snapshot(now, epoch) /\ life = "ready"
<1>1. Publish /\ life = "ready"
  BY DEF PCMNext, Tick, Hangs, Initialize, InitializeFails, SampleSound, SampleSuspicious,
     SampleResets, SampleResetFails, Destroy, Over, pcmVars
<1> QED
  BY <1>1, PublishFacts

\* Samples adjoin each other.
THEOREM AdjoinTheorem == PCMSpec => IntervalsAdjoin
<1>1. PCMInv /\ [PCMNext]_pcmVars =>
        [(published' # published /\ published # Nothing /\ lastReset = "none")
           => published'.from = published.to]_pcmVars
  BY SampleFrom DEF PCMInv, BaselineInPlace
<1> QED
  BY PCMInvariance, <1>1, PTL DEF PCMSpec, IntervalsAdjoin

\* Only a failed reset makes a sample span two epochs.
THEOREM SpikeTheorem == PCMSpec => SpikeNeedsFailedReset
<1>1. PCMInv /\ [PCMNext]_pcmVars =>
        [(published' # published /\ published'.from.epoch # published'.to.epoch)
           => lastReset = "failed"]_pcmVars
  <2> SUFFICES ASSUME PCMInv, [PCMNext]_pcmVars, published' # published, lastReset # "failed"
               PROVE  published'.from.epoch = published'.to.epoch
    OBVIOUS
  <2>1. published'.from = before /\ published'.to = Snapshot(now, epoch) /\ life = "ready"
    BY SampleFrom
  <2>2. before.epoch = epoch
    BY <2>1 DEF PCMInv, BaselineInPlace
  <2> QED
    BY <2>1, <2>2 DEF Snapshot
<1> QED
  BY PCMInvariance, <1>1, PTL DEF PCMSpec, SpikeNeedsFailedReset

\* A failed reset is retried at once.
THEOREM RetryTheorem == PCMSpec => RetryAtOnce
<1>1. PCMInv /\ [PCMNext]_pcmVars =>
        [(lastReset = "failed" /\ blind' > blind) => epoch' > epoch]_pcmVars
  BY HangLimitAssumption
  DEF PCMInv, PCMTypeOK, CounterFollows, PCMNext, Tick, Hangs, Initialize, InitializeFails,
      SampleSound, SampleSuspicious, SampleResets, SampleResetFails, Destroy, Over,
      NewEpoch, Watch, pcmVars, pmu
<1> QED
  BY PCMInvariance, <1>1, PTL DEF PCMSpec, RetryAtOnce
=============================================================================
