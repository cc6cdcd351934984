-------------------------------- MODULE PCM --------------------------------
(***************************************************************************)
(* CPU sampling by Intel PCM: a sample is the difference between the       *)
(* counters now and a baseline snapshot, divided by the time between the   *)
(* two; sample() also watches for a hung PMU and programs it again.        *)
(*                                                                         *)
(* A snapshot is abstracted to the instant it was taken at and the epoch   *)
(* of the counters, which starts anew whenever the PMU is cleaned up or    *)
(* programmed: a difference means something only within one epoch.  Per    *)
(* sample the values matter through two facts only: the CPU was busy, and  *)
(* no socket showed any memory traffic.  The PMU itself is external.       *)
(***************************************************************************)
EXTENDS Naturals

CONSTANTS
  HangLimit,  \* suspicious samples in a row before a reset: 50
  MaxTime,    \* bound on the clock
  MaxEpoch    \* bound on the epochs

ASSUME HangLimitAssumption == HangLimit \in Nat \ {0}
ASSUME BoundsAssumption == MaxTime \in Nat /\ MaxEpoch \in Nat

VARIABLES
  life,        \* "new", "ready" (initialized), "failed" (FatalError), "gone"
  now,         \* steady_clock
  epoch,       \* the epoch of the counters (external)
  hung,        \* the PMU counts no memory traffic any more (external)
  before,      \* beforeState
  beforeTime,
  zeroBandwidthCounter,
  published,   \* the last sample: its two snapshots and the time it divides by
  lastReset,   \* how the last resetPCM() since a clean sample ended (history)
  blind        \* samples of a busy system in a row from a hung PMU (history)

pmu == <<epoch, hung>>
baseline == <<before, beforeTime>>
pcmVars == <<life, now, pmu, baseline, zeroBandwidthCounter, published, lastReset, blind>>

Snapshots == [at : Nat, epoch : Nat]

PCMTypeOK ==
  /\ life \in {"new", "ready", "failed", "gone"}
  /\ now \in Nat
  /\ epoch \in Nat
  /\ hung \in BOOLEAN
  /\ before \in Snapshots
  /\ beforeTime \in Nat
  /\ zeroBandwidthCounter \in Nat
  /\ published \in [from : Snapshots, to : Snapshots, start : Nat, end : Nat]
  /\ lastReset \in {"none", "ok", "failed"}
  /\ blind \in Nat

\* snapshot() at instant t of epoch e
Snapshot(t, e) == [at |-> t, epoch |-> e]
Nothing == [from |-> Snapshot(0, 0), to |-> Snapshot(0, 0), start |-> 0, end |-> 0]

PCMInit ==
  /\ life = "new"
  /\ now = 0
  /\ epoch = 0 /\ hung = FALSE
  /\ before = Snapshot(0, 0) /\ beforeTime = 0
  /\ zeroBandwidthCounter = 0
  /\ published = Nothing
  /\ lastReset = "none"
  /\ blind = 0

-----------------------------------------------------------------------------
(* The clock and the PMU                                                   *)

Tick ==
  /\ now < MaxTime
  /\ now' = now + 1
  /\ UNCHANGED <<life, pmu, baseline, zeroBandwidthCounter, published, lastReset, blind>>

Hangs ==
  /\ life = "ready"
  /\ ~hung
  /\ hung' = TRUE
  /\ UNCHANGED <<life, now, epoch, baseline, zeroBandwidthCounter, published, lastReset,
                 blind>>

\* Cleaning the PMU up and programming it starts a new epoch.
NewEpoch == epoch < MaxEpoch /\ epoch' = epoch + 1

-----------------------------------------------------------------------------
(* The sampler                                                             *)

\* initializePCM(): program() succeeds, at once or after resetPMU().
Initialize ==
  /\ life = "new"
  /\ life' = "ready"
  /\ before' = Snapshot(now, epoch) /\ beforeTime' = now
  /\ zeroBandwidthCounter' = 0
  /\ UNCHANGED <<now, pmu, published, lastReset, blind>>

\* No instance, no access, a PMU that stays busy, any other status.
InitializeFails ==
  /\ life = "new"
  /\ life' = "failed"
  /\ UNCHANGED <<now, pmu, baseline, zeroBandwidthCounter, published, lastReset, blind>>

\* The metrics of the sample under way: from the baseline to this instant.
Publish ==
  published' = [from |-> before, to |-> Snapshot(now, epoch),
                start |-> beforeTime, end |-> now]

\* Busy, and no traffic on any socket: certain when the PMU hangs.
Watch(suspicious) ==
  blind' = IF hung /\ suspicious THEN blind + 1 ELSE 0

\* Mutant: beforeTime is not moved along with beforeState.
AdvanceStateOnly ==
  /\ before' = Snapshot(now, epoch) /\ UNCHANGED beforeTime
  /\ UNCHANGED <<life, now, pmu>>

\* Mutant: the snapshots are not swapped.
AdvanceForgotten == UNCHANGED <<life, now, pmu, baseline>>

\* beforeState.swap(afterState), beforeTime = afterTime
Advance ==
  /\ before' = Snapshot(now, epoch) /\ beforeTime' = now
  /\ UNCHANGED <<life, now, pmu>>

\* A sample that looks sound: the system is idle or there is traffic.
SampleSound ==
  /\ life = "ready"
  /\ Publish
  /\ Watch(FALSE)
  /\ zeroBandwidthCounter' = 0
  /\ lastReset' = "none"
  /\ Advance

\* Mutant: the suspicious samples are never counted up.
SuspiciousUncounted ==
  /\ life = "ready"
  /\ zeroBandwidthCounter + 1 < HangLimit
  /\ Publish
  /\ Watch(TRUE)
  /\ zeroBandwidthCounter' = zeroBandwidthCounter
  /\ lastReset' = "none"
  /\ Advance

\* A suspicious one, not yet enough of them.
SampleSuspicious ==
  /\ life = "ready"
  /\ zeroBandwidthCounter + 1 < HangLimit
  /\ Publish
  /\ Watch(TRUE)
  /\ zeroBandwidthCounter' = zeroBandwidthCounter + 1
  /\ lastReset' = "none"
  /\ Advance

\* Mutant: a successful reset leaves the old baseline in place.
ResetKeepsBaseline ==
  /\ life = "ready"
  /\ zeroBandwidthCounter + 1 >= HangLimit
  /\ Publish
  /\ NewEpoch /\ hung' = FALSE
  /\ UNCHANGED baseline
  /\ zeroBandwidthCounter' = 0
  /\ blind' = 0
  /\ lastReset' = "ok"
  /\ UNCHANGED <<life, now>>

\* The sample that calls resetPCM(), which succeeds and takes a new baseline.
SampleResets ==
  /\ life = "ready"
  /\ zeroBandwidthCounter + 1 >= HangLimit
  /\ Publish
  /\ NewEpoch /\ hung' = FALSE
  /\ before' = Snapshot(now, epoch') /\ beforeTime' = now
  /\ zeroBandwidthCounter' = 0
  /\ blind' = 0
  /\ lastReset' = "ok"
  /\ UNCHANGED <<life, now>>

\* ... or whose program() fails: the old baseline stays, and so does the
\* counter, so that the next suspicious sample tries again.
SampleResetFails ==
  /\ life = "ready"
  /\ zeroBandwidthCounter + 1 >= HangLimit
  /\ Publish
  /\ NewEpoch
  /\ zeroBandwidthCounter' = zeroBandwidthCounter + 1
  /\ Watch(TRUE)
  /\ lastReset' = "failed"
  /\ UNCHANGED <<life, now, hung, baseline>>

\* ~PCM: cleanupPCM()
Destroy ==
  /\ life = "ready"
  /\ life' = "gone"
  /\ UNCHANGED <<now, pmu, baseline, zeroBandwidthCounter, published, lastReset, blind>>

\* Nothing left to do.
Over == life \in {"failed", "gone"} /\ UNCHANGED pcmVars

PCMNext ==
  \/ Tick \/ Hangs
  \/ Initialize \/ InitializeFails
  \/ SampleSound \/ SampleSuspicious \/ SampleResets \/ SampleResetFails
  \/ Destroy \/ Over

PCMSpec == PCMInit /\ [][PCMNext]_pcmVars

-----------------------------------------------------------------------------
(* Properties                                                              *)

\* The time a sample divides by is the time between its two snapshots, also for
\* the first sample and for those around a reset: no rate is off by an interval.
ElapsedIsTheInterval ==
  published.start = published.from.at /\ published.end = published.to.at

\* As long as no reset is tried, one sample begins where the last one ended: no
\* energy and no traffic is lost or counted twice.
IntervalsAdjoin ==
  [][(published' # published /\ published # Nothing /\ lastReset = "none")
       => published'.from = published.to]_pcmVars

\* A sample subtracts counters across a reset only if that reset has failed.
SpikeNeedsFailedReset ==
  [][(published' # published /\ published'.from.epoch # published'.to.epoch)
       => lastReset = "failed"]_pcmVars

\* A PMU that hangs under a busy system is programmed again before HangLimit
\* blind samples in a row are published, unless programming it fails.
HangIsBounded == lastReset # "failed" => blind < HangLimit

\* A reset that failed is tried again by the very next suspicious sample.
RetryAtOnce ==
  [][(lastReset = "failed" /\ blind' > blind) => epoch' > epoch]_pcmVars

-----------------------------------------------------------------------------
(* The inductive invariant behind the properties.                          *)

\* The baseline belongs to beforeTime and, unless a reset failed, to the current
\* epoch and to the end of the last sample.
BaselineInPlace ==
  /\ before.at = beforeTime
  /\ lastReset # "failed" /\ life = "ready" => before.epoch = epoch
  /\ lastReset = "none" /\ published # Nothing => before = published.to

\* The counter follows the blind samples and, after a failed reset, stays at its
\* limit.
CounterFollows ==
  /\ blind <= zeroBandwidthCounter
  /\ IF lastReset = "failed" THEN zeroBandwidthCounter >= HangLimit
                             ELSE zeroBandwidthCounter < HangLimit
  /\ life = "new" => published = Nothing /\ zeroBandwidthCounter = 0

PCMInv ==
  /\ PCMTypeOK
  /\ ElapsedIsTheInterval
  /\ BaselineInPlace
  /\ CounterFollows
=============================================================================
