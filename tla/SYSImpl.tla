------------------------------ MODULE SYSImpl ------------------------------
(***************************************************************************)
(* System sampling: rates from the counters of /proc/diskstats and         *)
(* /proc/net/dev, and the power of the machine, which a worker thread      *)
(* reads from ipmitool into an atomic cache.                               *)
(*                                                                         *)
(* A device stands for a line of either file and its counter for one       *)
(* column, of W values.  The published rates are sums over the devices of  *)
(* what one device contributes; the model keeps the contributions.  A      *)
(* power reading is abstracted to its being there.                         *)
(***************************************************************************)
EXTENDS Integers

CONSTANTS
  Devices,   \* devices that pass the filters
  W,         \* the counters are unsigned integers modulo W (2^64)
  MaxMoved   \* bound on the traffic of a device between two samples

ASSUME WidthAssumption == W \in Nat \ {0}
\* No device moves 2^64 bytes within an interval.
ASSUME MovedAssumption == MaxMoved \in Nat /\ MaxMoved < W

VARIABLES
  life,       \* "probe", "baseline", "ready", or "failed" (FatalError)
  powerCmd,   \* powerParseType_
  worker,     \* where powerThread_ is
  cached,     \* cachedPowerWatts_: "-1" or "watts"
  present,    \* the devices listed in /proc (external)
  counter,    \* their counters (external)
  known,      \* the keys of lastNetStates, lastDiskStates
  last,       \* their values
  rates,      \* what each device contributed to the last sample
  power,      \* systemPowerWatts of the last sample
  moved,      \* the traffic of each device since the last sample (history)
  listed,     \* the devices listed at the last sample (history)
  restarted,  \* listed devices whose counter began anew since then (history)
  account     \* what there was to be reported in the last sample (history)

proc == <<present, counter>>
states == <<known, last>>
sampled == <<rates, power>>
history == <<moved, listed, restarted, account>>
vars == <<life, powerCmd, worker, cached, proc, states, sampled, history>>

Values == 0 .. W - 1

TypeOK ==
  /\ life \in {"probe", "baseline", "ready", "failed"}
  /\ powerCmd \in {"DCMI", "Sensor", "None"}
  /\ worker \in {"none", "fetch", "sleep"}
  /\ cached \in {"-1", "watts"}
  /\ present \subseteq Devices
  /\ counter \in [Devices -> Values]
  /\ known \subseteq Devices
  /\ last \in [Devices -> Values]
  /\ rates \in [Devices -> Values]
  /\ power \in {"-1", "watts"}
  /\ moved \in [Devices -> 0 .. MaxMoved]
  /\ listed \subseteq Devices
  /\ restarted \subseteq Devices
  /\ account \in [traffic : [Devices -> 0 .. MaxMoved], restarted : SUBSET Devices]

Zero == [d \in Devices |-> 0]

Init ==
  /\ life = "probe"
  /\ powerCmd = "None"
  /\ worker = "none"
  /\ cached = "-1"
  /\ present \in SUBSET Devices
  /\ counter \in [Devices -> Values]
  /\ known = {} /\ last = Zero
  /\ rates = Zero /\ power = "-1"
  /\ moved = Zero /\ listed = {} /\ restarted = {}
  /\ account = [traffic |-> Zero, restarted |-> {}]

-----------------------------------------------------------------------------
(* /proc, external                                                         *)

\* A device moves n units: its counter goes on, modulo W.
Moves(d, n) ==
  /\ d \in present
  /\ moved[d] + n <= MaxMoved
  /\ counter' = [counter EXCEPT ![d] = (@ + n) % W]
  /\ moved' = [moved EXCEPT ![d] = @ + n]
  /\ UNCHANGED <<life, powerCmd, worker, cached, present, states, sampled, listed,
                 restarted, account>>

\* A device is unplugged, or its interface taken away.
Leaves(d) ==
  /\ d \in present
  /\ present' = present \ {d}
  /\ UNCHANGED <<life, powerCmd, worker, cached, counter, states, sampled, history>>

\* A device appears, another one perhaps under the same name, and counts from 0.
Appears(d) ==
  /\ d \notin present
  /\ present' = present \cup {d}
  /\ counter' = [counter EXCEPT ![d] = 0]
  /\ moved' = [moved EXCEPT ![d] = 0]
  /\ restarted' = IF d \in listed THEN restarted \cup {d} ELSE restarted
  /\ UNCHANGED <<life, powerCmd, worker, cached, states, sampled, listed, account>>

-----------------------------------------------------------------------------
(* The main thread                                                         *)

\* /proc cannot be opened.
OpenFails ==
  /\ life = "probe"
  /\ life' = "failed"
  /\ UNCHANGED <<powerCmd, worker, cached, proc, states, sampled, history>>

\* initPowerCmd(): the first method that yields a number, or none.
InitPowerCmd ==
  /\ life = "probe"
  /\ powerCmd' \in {"DCMI", "Sensor", "None"}
  /\ life' = "baseline"
  /\ UNCHANGED <<worker, cached, proc, states, sampled, history>>

\* Mutant: a counter below the previous one counts as no traffic.
DiffClamped(d) == IF counter[d] >= last[d] THEN counter[d] - last[d] ELSE 0

\* The difference of two unsigned counters.
Diff(d) == (counter[d] - last[d]) % W

\* lastNetStates = currentStates: devices that are gone are forgotten.
Remember ==
  /\ known' = present
  /\ last' = [d \in Devices |-> IF d \in present THEN counter[d] ELSE 0]

\* What happens to the histories when a sample is taken.
Record ==
  /\ account' = [traffic |-> [d \in Devices |->
                               IF d \in listed \cap present THEN moved[d] ELSE 0],
                 restarted |-> restarted]
  /\ listed' = present
  /\ moved' = Zero
  /\ restarted' = {}

\* sample(): readDisk(), readNetwork(), readPower().
Read ==
  /\ rates' = [d \in Devices |-> IF d \in present \cap known THEN Diff(d) ELSE 0]
  /\ Remember
  /\ power' = cached
  /\ Record

\* The constructor samples once, for the baseline, and starts the worker.
Baseline ==
  /\ life = "baseline"
  /\ Read
  /\ life' = "ready"
  /\ worker' = "fetch"
  /\ UNCHANGED <<powerCmd, cached, proc>>

Sample ==
  /\ life = "ready"
  /\ Read
  /\ UNCHANGED <<life, powerCmd, worker, cached, proc>>

-----------------------------------------------------------------------------
(* The worker thread                                                       *)

\* ipmitool yields a positive number.
Fetch ==
  /\ worker = "fetch"
  /\ powerCmd # "None"
  /\ cached' = "watts"
  /\ worker' = "sleep"
  /\ UNCHANGED <<life, powerCmd, proc, states, sampled, history>>

\* It fails, or yields nothing usable: the cache keeps what it has.
FetchFails ==
  /\ worker = "fetch"
  /\ worker' = "sleep"
  /\ UNCHANGED <<life, powerCmd, cached, proc, states, sampled, history>>

\* Fifty short sleeps; nothing ever raises stopThread_.
Wake ==
  /\ worker = "sleep"
  /\ worker' = "fetch"
  /\ UNCHANGED <<life, powerCmd, cached, proc, states, sampled, history>>

Next ==
  \/ \E d \in Devices : Leaves(d) \/ Appears(d) \/ \E n \in 1 .. MaxMoved : Moves(d, n)
  \/ OpenFails \/ InitPowerCmd \/ Baseline \/ Sample
  \/ Fetch \/ FetchFails \/ Wake

Spec == Init /\ [][Next]_vars

-----------------------------------------------------------------------------
(* Properties                                                              *)

\* What a sample reports of a device is what it moved since the last sample, also
\* across a wrap of its counter, also when it was away for a while, and nothing of
\* what it did before the daemon started - unless it was replaced in between.
RateIsTraffic ==
  \A d \in Devices : d \notin account.restarted => rates[d] = account.traffic[d]

\* One answer of ipmitool is enough for good: later failures do not take the power
\* back.
PowerIsKept ==
  [][power = "watts" => power' = "watts"]_vars

-----------------------------------------------------------------------------
(* The inductive invariant behind the properties.                          *)

\* The remembered value is what the counter was when the traffic began to be
\* counted.
StatesMatch ==
  /\ known = listed
  /\ restarted \subseteq listed
  /\ \A d \in (listed \cap present) \ restarted : Diff(d) = moved[d]
  /\ life \in {"probe", "baseline", "failed"} => listed = {} /\ worker = "none"

PowerIsRead ==
  /\ powerCmd = "None" => cached = "-1"
  /\ power = "watts" => cached = "watts"
  /\ life # "ready" => cached = "-1" /\ power = "-1"

IndInv ==
  /\ TypeOK
  /\ RateIsTraffic
  /\ StatesMatch
  /\ PowerIsRead
=============================================================================
