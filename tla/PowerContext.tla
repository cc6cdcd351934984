---------------------------- MODULE PowerContext ----------------------------
(***************************************************************************)
(* One round of the power readings: the device collectors sample their     *)
(* devices one after the other and add what they read to sharedPower, from *)
(* which SYSCollector computes the total power of the machine.             *)
(*                                                                         *)
(* Of a sample only the power is kept, in whole watts.  A driver query     *)
(* that fails yields Unknown, -1, for its value and nothing else; a lost   *)
(* device handle (NVML) or inconsistent memory figures (NPUImpl) throw     *)
(* RecoverableError and with it the whole sample away.                     *)
(***************************************************************************)
EXTENDS Integers, Sequences

CONSTANTS
  Count,      \* Count[c]: the number of devices (labels) of collector c
  MaxWatts    \* bound on the power of one device

\* The collectors that feed the context, in the order of main(), and then SYS.
Order == <<"CPU", "GPU", "NPU", "SYS">>
Sources == {"CPU", "GPU", "NPU"}

\* The fields of sharedPower, and which collector adds to which.
Fields == {"cpu_power", "memory_power", "gpu_power", "npu_power"}
FieldsOf ==
  [CPU |-> {"cpu_power", "memory_power"}, GPU |-> {"gpu_power"}, NPU |-> {"npu_power"}]

ASSUME CountAssumption == Count \in [Sources -> Nat]
ASSUME WattsAssumption == MaxWatts \in Nat

\* Only PCM has no way to fail for a value, or for a device.
MayBeUnknown == {"GPU", "NPU"}
MayThrow == {"GPU", "NPU"}

Unknown == -1
Watts == 0 .. MaxWatts
Readings == Watts \cup {Unknown}

VARIABLES
  turn,      \* the collector whose turn it is, an index of Order; 0 in between rounds
  samples,   \* metric_list: the readings of the devices sampled so far
  context,   \* sharedPower: per field no value, {}, or one, {v}
  total,     \* totalPowerWatts as last published, {} if never
  real,      \* per field the power the devices really draw in this round (history)
  missing    \* collectors that did not contribute to this round (history)

vars == <<turn, samples, context, total, real, missing>>

TypeOK ==
  /\ turn \in 0 .. Len(Order)
  /\ samples \in Seq(UNION {[FieldsOf[c] -> Readings] : c \in Sources})
  /\ context \in [Fields -> SUBSET Int]
  /\ \A f \in Fields : context[f] = {} \/ \E v \in context[f] : context[f] = {v}
  /\ total \subseteq Int
  /\ real \in [Fields -> Nat]
  /\ missing \subseteq Sources

NoPower == [f \in Fields |-> {}]
NoWatts == [f \in Fields |-> 0]

Init ==
  /\ turn = 0
  /\ samples = <<>>
  /\ context = NoPower
  /\ total = {}
  /\ real = NoWatts
  /\ missing = {}

-----------------------------------------------------------------------------
(* Helpers                                                                 *)

\* std::optional::value_or(0.0)
ValueOr0(optional) == IF optional = {} THEN 0 ELSE CHOOSE v \in optional : TRUE

SumOfFields(v) == v["cpu_power"] + v["memory_power"] + v["gpu_power"] + v["npu_power"]

\* getTotalPower()
TotalPower == SumOfFields([f \in Fields |-> ValueOr0(context[f])])

\* The sum of what the samples s have for field f.
SumOf(f, s) ==
  LET sum[i \in 0 .. Len(s)] == IF i = 0 THEN 0 ELSE sum[i - 1] + s[i][f]
  IN  sum[Len(s)]

Collector == Order[turn]
Done == turn # 0 /\ Collector \in Sources /\ Len(samples) = Count[Collector]

-----------------------------------------------------------------------------
(* A round                                                                 *)

BeginRound ==
  /\ turn = 0
  /\ turn' = 1
  /\ UNCHANGED <<samples, context, total, real, missing>>

\* The next device draws w and shows r, per field: what it draws, or Unknown.
SampleDevice ==
  /\ turn # 0 /\ Collector \in Sources /\ ~Done
  /\ \E w \in [FieldsOf[Collector] -> Watts] :
     \E r \in {w} \cup (IF Collector \in MayBeUnknown
                        THEN {[f \in FieldsOf[Collector] |-> Unknown]} ELSE {}) :
       /\ samples' = Append(samples, r)
       /\ real' = [f \in Fields |-> IF f \in DOMAIN w THEN real[f] + w[f] ELSE real[f]]
  /\ UNCHANGED <<turn, context, total, missing>>

\* sample() throws: what it has read is lost, the collector's turn is over.
SampleThrows ==
  /\ turn # 0 /\ Collector \in MayThrow /\ ~Done
  /\ samples' = <<>>
  /\ missing' = missing \cup {Collector}
  /\ turn' = turn + 1
  /\ UNCHANGED <<context, total, real>>

\* Mutant: the last device overwrites the sum.
ShareOverwrites ==
  /\ Done
  /\ context' = [f \in Fields |->
       IF f \in FieldsOf[Collector] /\ samples # <<>>
       THEN {samples[Len(samples)][f]} ELSE context[f]]
  /\ samples' = <<>>
  /\ turn' = turn + 1
  /\ UNCHANGED <<total, real, missing>>

\* setContextInfo() of a source, and the rest of collect().
Share ==
  /\ Done
  /\ context' = [f \in Fields |->
       IF f \in FieldsOf[Collector] /\ samples # <<>>
       THEN {ValueOr0(context[f]) + SumOf(f, samples)} ELSE context[f]]
  /\ samples' = <<>>
  /\ turn' = turn + 1
  /\ UNCHANGED <<total, real, missing>>

\* Mutant: the round ends without reSet().
PublishKeepsContext ==
  /\ turn # 0 /\ Collector = "SYS"
  /\ total' = {TotalPower}
  /\ turn' = 0
  /\ real' = NoWatts /\ missing' = {}
  /\ UNCHANGED <<samples, context>>

\* setContextInfo() of SYSCollector, and reSet() at the end of the round.
PublishTotal ==
  /\ turn # 0 /\ Collector = "SYS"
  /\ total' = {TotalPower}
  /\ context' = NoPower
  /\ turn' = 0
  /\ real' = NoWatts /\ missing' = {}
  /\ UNCHANGED samples

Next == BeginRound \/ SampleDevice \/ SampleThrows \/ Share \/ PublishTotal

Spec == Init /\ [][Next]_vars

-----------------------------------------------------------------------------
(* Properties                                                              *)

\* What all devices of the machine really draw.
RealTotal == SumOfFields(real)

\* The total that is published is never more than what the machine draws: values that
\* could not be read, collectors that failed and rounds gone by only ever lower it.
TotalNeverTooHigh ==
  [][turn' = 0 /\ turn # 0 => \A t \in total' : t <= RealTotal]_vars

\* Only a collector that fails lacks in the context when SYS has its turn, and a field
\* is short by no more than what its devices draw and one watt per device.
ContextIsThere ==
  turn # 0 /\ Collector = "SYS" =>
    \A c \in Sources : \A f \in FieldsOf[c] :
      IF c \in missing \/ Count[c] = 0
      THEN context[f] = {}
      ELSE /\ context[f] # {}
           /\ ValueOr0(context[f]) >= - Count[c]
           /\ c \notin MayBeUnknown => ValueOr0(context[f]) = real[f]
=============================================================================
