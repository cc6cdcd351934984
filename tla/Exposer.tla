------------------------------ MODULE Exposer ------------------------------
(***************************************************************************)
(* The life of the hwgauge process: main() adds the collectors, starts the *)
(* watcher thread that turns SIGINT into Exposer::stop(), runs the         *)
(* collection loop of Exposer::run() and tears everything down.            *)
(*                                                                         *)
(* Three actors interleave: the main thread (program counter pc), the      *)
(* watcher thread (watcher) and the user, who may send SIGINT at any time. *)
(* They share the atomic flags g_stop_requested and Exposer::running.      *)
(*                                                                         *)
(* One call of Collector::collect() is one step with one of the outcomes   *)
(* the loop tells apart: it returns, or throws a RecoverableError or a     *)
(* FatalError.  A power reading is abstracted to the round it was taken in *)
(* ("this" or "earlier"): what the shared power context may not do is mix  *)
(* rounds.  No counter is kept, so the model has no bound at all.          *)
(***************************************************************************)
EXTENDS Naturals, Sequences

CONSTANTS
  Enabled,      \* the collectors compiled in
  HttpEnabled   \* --http-enable

\* The collectors, in the order in which main() adds them.
Order == <<"CPU", "GPU", "NPU", "SYS", "CLUSTER">>
Collectors == {Order[i] : i \in 1 .. Len(Order)}

ASSUME EnabledAssumption == Enabled \subseteq Collectors
ASSUME HttpAssumption == HttpEnabled \in BOOLEAN

\* The collectors that also have to be asked for: --sysInfo, --clusterInfo.
Optional == {"SYS", "CLUSTER"}

\* The collectors whose setContextInfo() adds their readings to sharedPower.
Sources == {"CPU", "GPU", "NPU"}

\* The collectors whose sample() can throw RecoverableError: NVML (a lost
\* device handle) and NPUImpl (inconsistent memory figures).
MayRecover == {"GPU", "NPU"}

\* The collectors whose constructor can terminate the process: a filesystem_error
\* of PCM::initTempSensors() meets no handler, and SYSImpl is the first member of
\* SYSCollector, so that a later one that fails (CSV file, database) makes the
\* unwinding destroy an SYSImpl whose power thread is joinable.
MayTerminate == {"CPU", "SYS"}

\* The DeviceCollectors: their CSV sink can throw one, too, after setContextInfo().
Filing == Collectors \ {"CLUSTER"}

VARIABLES
  pc,           \* where the main thread is
  next,         \* its loop index, in Order (adding) or collectors (otherwise)
  collectors,   \* Exposer::collectors
  outcome,      \* what each collector did in the current round (history)
  sharedPower,  \* per source, the rounds its accumulated readings stem from
  running,      \* Exposer::running
  stopRequested,\* g_stop_requested
  watcher,      \* where the signal_watcher thread is
  fatal,        \* a FatalError ended the loop (history)
  http          \* the local HTTP server

mainVars == <<pc, next>>
dataVars == <<collectors, outcome, sharedPower>>
vars == <<pc, next, collectors, outcome, sharedPower, running, stopRequested,
          watcher, fatal, http>>

Ended == {"exited", "failed", "aborted", "killed"}
Setup == {"add", "exitReset", "enter"}
Loop == {"check", "collect", "pace"}
Teardown == {"reset", "httpStop", "exited"}
Alive == pc \notin Ended

Outcomes == {"none", "ok", "recoverable", "fatal"}

TypeOK ==
  /\ pc \in Setup \cup {"join"} \cup Loop \cup Teardown \cup Ended
  /\ next \in Nat
  /\ collectors \in Seq(Collectors)
  /\ outcome \in [Collectors -> Outcomes]
  /\ sharedPower \in [Sources -> SUBSET {"this", "earlier"}]
  /\ running \in BOOLEAN
  /\ stopRequested \in BOOLEAN
  /\ watcher \in {"unborn", "poll", "stop", "done"}
  /\ fatal \in BOOLEAN
  /\ http \in {"off", "listening", "stopped"}

NoPower == [s \in Sources |-> {}]
NoOutcome == [c \in Collectors |-> "none"]

Init ==
  /\ pc = "add"
  /\ next = 1
  /\ collectors = <<>>
  /\ outcome = NoOutcome
  /\ sharedPower = NoPower
  /\ running = FALSE
  /\ stopRequested = FALSE
  /\ watcher = "unborn"
  /\ fatal = FALSE
  /\ http = IF HttpEnabled THEN "listening" ELSE "off"

-----------------------------------------------------------------------------
(* Setup: add_collector() once per configured collector.                   *)

Adding == pc = "add" /\ next <= Len(Order)

SkipCollector ==
  /\ Adding
  /\ Order[next] \notin Enabled \/ Order[next] \in Optional
  /\ next' = next + 1
  /\ UNCHANGED <<pc, dataVars, running, stopRequested, watcher, fatal, http>>

AddCollector ==
  /\ Adding
  /\ Order[next] \in Enabled
  /\ collectors' = Append(collectors, Order[next])
  /\ next' = next + 1
  /\ UNCHANGED <<pc, outcome, sharedPower, running, stopRequested, watcher,
                 fatal, http>>

\* The constructor throws FatalError and add_collector() calls
\* exit(EXIT_FAILURE), whose static destruction runs ~Exposer; or the
\* constructor terminates the process.
AddFails ==
  /\ Adding
  /\ Order[next] \in Enabled
  /\ \/ pc' = "exitReset" /\ next' = 1
     \/ Order[next] \in MayTerminate /\ pc' = "aborted" /\ next' = next
  /\ UNCHANGED <<dataVars, running, stopRequested, watcher, fatal, http>>

\* std::signal(SIGINT, signal_handler), then the signal_watcher thread.
StartWatcher ==
  /\ pc = "add"
  /\ next > Len(Order)
  /\ watcher' = "poll"
  /\ pc' = "enter"
  /\ UNCHANGED <<next, dataVars, running, stopRequested, fatal, http>>

-----------------------------------------------------------------------------
(* Exposer::run() and Exposer::collect()                                   *)

\* running.store(true): unconditional, whatever the watcher did before.
EnterRun ==
  /\ pc = "enter"
  /\ running' = TRUE
  /\ pc' = "check"
  /\ UNCHANGED <<next, dataVars, stopRequested, watcher, fatal, http>>

\* What a new round makes of the readings a source still has in the context.
Aged(readings) == IF readings = {} THEN {} ELSE {"earlier"}

BeginRound ==
  /\ pc = "check"
  /\ running
  /\ pc' = "collect"
  /\ next' = 1
  /\ outcome' = NoOutcome
  /\ sharedPower' = [s \in Sources |-> Aged(sharedPower[s])]
  /\ UNCHANGED <<collectors, running, stopRequested, watcher, fatal, http>>

LeaveRun ==
  /\ pc = "check"
  /\ ~running
  /\ pc' = "join"
  /\ UNCHANGED <<next, dataVars, running, stopRequested, watcher, fatal, http>>

Current == collectors[next]
Visiting == pc = "collect" /\ next <= Len(collectors)

\* setContextInfo() of a source adds its readings; the others add nothing.
Contribute(c) ==
  IF c \in Sources THEN [sharedPower EXCEPT ![c] = @ \cup {"this"}]
                   ELSE sharedPower

CollectOk ==
  /\ Visiting
  /\ outcome' = [outcome EXCEPT ![Current] = "ok"]
  /\ sharedPower' = Contribute(Current)
  /\ next' = next + 1
  /\ UNCHANGED <<pc, collectors, running, stopRequested, watcher, fatal, http>>

\* collect() throws before setContextInfo(), or after it.
RecoverableError(c) ==
  \/ c \in MayRecover /\ UNCHANGED sharedPower
  \/ c \in Filing /\ sharedPower' = Contribute(c)

\* Mutant: the handler of RecoverableError returns instead of continuing.
RecoverableReturns ==
  /\ Visiting
  /\ RecoverableError(Current)
  /\ outcome' = [outcome EXCEPT ![Current] = "recoverable"]
  /\ pc' = "pace"
  /\ UNCHANGED <<next, collectors, running, stopRequested, watcher, fatal, http>>

\* The handler logs and the loop continues.
CollectRecoverable ==
  /\ Visiting
  /\ RecoverableError(Current)
  /\ outcome' = [outcome EXCEPT ![Current] = "recoverable"]
  /\ next' = next + 1
  /\ UNCHANGED <<pc, collectors, running, stopRequested, watcher, fatal, http>>

\* sample() or the database write throws FatalError, before or after
\* setContextInfo(): stop() and return, without resetting the context.
CollectFatal ==
  /\ Visiting
  /\ outcome' = [outcome EXCEPT ![Current] = "fatal"]
  /\ sharedPower' \in {sharedPower, Contribute(Current)}
  /\ running' = FALSE
  /\ fatal' = TRUE
  /\ pc' = "pace"
  /\ UNCHANGED <<next, collectors, stopRequested, watcher, http>>

\* Mutant: no reSet() at the end of a round.
EndRoundNoReset ==
  /\ pc = "collect"
  /\ next > Len(collectors)
  /\ pc' = "pace"
  /\ UNCHANGED <<next, dataVars, running, stopRequested, watcher, fatal, http>>

EndRound ==
  /\ pc = "collect"
  /\ next > Len(collectors)
  /\ sharedPower' = NoPower
  /\ pc' = "pace"
  /\ UNCHANGED <<next, collectors, outcome, running, stopRequested, watcher,
                 fatal, http>>

\* Mutant: running is raised at the head of every iteration.
PaceRestarts ==
  /\ pc = "pace"
  /\ pc' = "check"
  /\ running' = TRUE
  /\ UNCHANGED <<next, dataVars, stopRequested, watcher, fatal, http>>

\* sleep_until(next_tick), or no sleep when the round overran the interval.
Pace ==
  /\ pc = "pace"
  /\ pc' = "check"
  /\ UNCHANGED <<next, dataVars, running, stopRequested, watcher, fatal, http>>

-----------------------------------------------------------------------------
(* Teardown                                                                *)

\* Mutant: the watcher is detached instead of joined.
JoinWithoutWaiting ==
  /\ pc = "join"
  /\ pc' = "reset"
  /\ next' = 1
  /\ UNCHANGED <<dataVars, running, stopRequested, watcher, fatal, http>>

\* signal_watcher.join()
JoinWatcher ==
  /\ pc = "join"
  /\ watcher = "done"
  /\ pc' = "reset"
  /\ next' = 1
  /\ UNCHANGED <<dataVars, running, stopRequested, watcher, fatal, http>>

Destroying == pc \in {"reset", "exitReset"}

\* exposer.reset(), or the static destruction run by exit(): collectors are
\* destroyed first to last.  ~SYSImpl neither stops nor joins powerThread_.
DestroyCollector ==
  /\ Destroying
  /\ next <= Len(collectors)
  /\ IF Current = "SYS"
       THEN pc' = "aborted" /\ next' = next
       ELSE pc' = pc /\ next' = next + 1
  /\ UNCHANGED <<dataVars, running, stopRequested, watcher, fatal, http>>

FinishDestruction ==
  /\ Destroying
  /\ next > Len(collectors)
  /\ pc' = IF pc = "reset" THEN "httpStop" ELSE "failed"
  /\ UNCHANGED <<next, dataVars, running, stopRequested, watcher, fatal, http>>

StopHttp ==
  /\ pc = "httpStop"
  /\ pc' = "exited"
  /\ http' = IF HttpEnabled THEN "stopped" ELSE "off"
  /\ UNCHANGED <<next, dataVars, running, stopRequested, watcher, fatal>>

-----------------------------------------------------------------------------
(* The watcher thread and the user                                         *)

WatcherSees ==
  /\ Alive
  /\ watcher = "poll"
  /\ stopRequested
  /\ watcher' = "stop"
  /\ UNCHANGED <<mainVars, dataVars, running, stopRequested, fatal, http>>

\* Mutant: the watcher logs "Stopping exposer" and forgets to call stop().
WatcherForgetsStop ==
  /\ Alive
  /\ watcher = "stop"
  /\ watcher' = "done"
  /\ UNCHANGED <<mainVars, dataVars, running, stopRequested, fatal, http>>

\* exposer->stop()
WatcherStops ==
  /\ Alive
  /\ watcher = "stop"
  /\ running' = FALSE
  /\ watcher' = "done"
  /\ UNCHANGED <<mainVars, dataVars, stopRequested, fatal, http>>

\* SIGINT with signal_handler installed.
Sigint ==
  /\ Alive
  /\ pc \notin {"add", "exitReset"}
  /\ ~stopRequested
  /\ stopRequested' = TRUE
  /\ UNCHANGED <<mainVars, dataVars, running, watcher, fatal, http>>

\* SIGINT while its default disposition, or static destruction, is under way.
SigintKills ==
  /\ pc \in {"add", "exitReset"}
  /\ pc' = "killed"
  /\ UNCHANGED <<next, dataVars, running, stopRequested, watcher, fatal, http>>

\* The process is gone: no thread takes a step any more.
Gone == ~Alive /\ UNCHANGED vars

MainStep ==
  \/ SkipCollector \/ AddCollector \/ AddFails
  \/ StartWatcher \/ EnterRun \/ BeginRound \/ LeaveRun
  \/ CollectOk \/ CollectRecoverable \/ CollectFatal \/ EndRound \/ Pace
  \/ JoinWatcher \/ DestroyCollector \/ FinishDestruction \/ StopHttp

WatcherStep == WatcherSees \/ WatcherStops

Next == MainStep \/ WatcherStep \/ Sigint \/ SigintKills \/ Gone

Spec == Init /\ [][Next]_vars

\* Both threads are scheduled, and no call they make blocks forever; the
\* user owes no signal.
Fairness == WF_vars(MainStep) /\ WF_vars(WatcherStep)
FairSpec == Spec /\ Fairness
-----------------------------------------------------------------------------
(* Properties                                                              *)

\* The shared power context holds the readings of every source that succeeded in
\* this round, none of one that has yet to come and none of an earlier round:
\* SYSCollector's total never mixes rounds, though a round may end by an exception
\* of any collector, thrown before or after it contributed.
PowerIsThisRound ==
  pc = "collect" =>
    \A s \in Sources :
      /\ sharedPower[s] \subseteq {"this"}
      /\ outcome[s] = "ok" => sharedPower[s] = {"this"}
      /\ outcome[s] = "none" => sharedPower[s] = {}

\* When SYSCollector publishes the total, every source that was added has
\* already had its turn in this round.
TotalIsComplete ==
  Visiting /\ Current = "SYS" =>
    \A i \in 1 .. Len(collectors) :
      collectors[i] \in Sources => outcome[collectors[i]] # "none"

\* The teardown is orderly.  It begins only after SIGINT (a FatalError alone leaves
\* the process idle in signal_watcher.join()), and main does not destroy a collector
\* before the watcher thread, which uses the exposer, has ended and the flag is down;
\* the process exits with every collector destroyed and the HTTP server stopped.
OrderlyExit ==
  /\ pc \in Teardown => stopRequested /\ watcher = "done" /\ ~running
  /\ pc = "exited" => next > Len(collectors) /\ http # "listening"

\* Once the flag is down inside the loop, by the watcher or by a FatalError,
\* it stays down and no new round begins.
StopIsFinal ==
  [][(pc \in Loop /\ ~running) => (~running' /\ (pc = "check" => pc' # "collect"))]_vars

\* A round is left only when every collector had its turn, or by a FatalError;
\* a RecoverableError never costs another collector its turn.
RoundsAreWhole ==
  [][(pc = "collect" /\ pc' = "pace") =>
       (fatal' \/ \A i \in 1 .. Len(collectors) : outcome[collectors[i]] # "none")]_vars

\* The abstract state that a state of the process stands for.
Phase ==
  IF pc \in Ended THEN "ended"
  ELSE IF pc \in Setup THEN "starting"
  ELSE IF fatal \/ pc \in {"join"} \cup Teardown THEN "idle"
  ELSE "collecting"
Roster == {collectors[i] : i \in 1 .. Len(collectors)}
Served == {c \in Collectors : outcome[c] # "none"}

Service == INSTANCE CollectionService WITH
  phase <- Phase, roster <- Roster, served <- Served, asked <- stopRequested

\* The process implements the abstract service.
ImplementsService == Service!SSpec

\* SIGINT ends the process when the watcher has yet to act upon it with the loop
\* running, or when a FatalError has ended the loop.
StopInLoopEnds ==
  (stopRequested /\ (fatal \/ (pc \in Loop /\ watcher \in {"poll", "stop"}))) ~> ~Alive

\* As long as nobody stops the loop, every collector added gets its turn in
\* round after round, whatever recoverable errors the others meet.
NobodyStarves ==
  \A c \in Enabled :
    (pc = "check" /\ running /\ c \in Roster)
      ~> ((pc = "collect" /\ outcome[c] # "none") \/ ~running)

\* main.cpp:160, "Press Ctrl+C to stop exposer": SIGINT stops the process.
CtrlCStops == (stopRequested /\ Alive) ~> ~Alive

-----------------------------------------------------------------------------
(* The inductive invariant behind the safety properties.                   *)

\* collectors follows main()'s order: no collector twice, sources before SYS.
OrderKept ==
  /\ \A i, j \in 1 .. Len(collectors) :
       collectors[i] = collectors[j] => i = j
  /\ \A i, j \in 1 .. Len(collectors) :
       collectors[i] = "SYS" /\ collectors[j] \in Sources => j < i
  /\ pc = "add" =>
       \A i \in 1 .. Len(collectors) :
         \E k \in 1 .. Len(Order) : k < next /\ collectors[i] = Order[k]

\* Inside a round the collectors before next had their turn, the others not;
\* between rounds all of them had it, or no round has begun.
TurnsTaken ==
  /\ pc \in Setup => outcome = NoOutcome
  /\ pc = "collect" =>
       /\ next \in 1 .. Len(collectors) + 1
       /\ \A i \in 1 .. Len(collectors) :
            outcome[collectors[i]] = "none" <=> i >= next
       /\ Served \subseteq Roster
  /\ pc = "pace" /\ ~fatal => Served = Roster
  /\ pc = "check" /\ ~fatal => outcome = NoOutcome \/ Served = Roster

\* What holds of the flags, the threads and the context at each place.
Stages ==
  /\ pc \in {"add", "exitReset"} => watcher = "unborn" /\ ~stopRequested
  /\ watcher \in {"stop", "done"} => stopRequested
  /\ pc \in Loop /\ ~running /\ ~fatal => watcher = "done"
  /\ pc \in {"join"} \cup Teardown => ~running
  /\ fatal => ~running /\ pc \notin Setup \cup {"collect"}
  /\ pc \in Teardown => watcher = "done"
  /\ pc = "exited" => http # "listening"
  /\ pc \in {"httpStop", "exited"} => next > Len(collectors)
  /\ pc \in {"add", "reset", "exitReset"} => next >= 1
  /\ pc \in {"add", "enter", "check", "pace"} /\ ~fatal => sharedPower = NoPower

\* The strengthening that makes the safety properties inductive.
IndInv ==
  /\ TypeOK
  /\ OrderKept
  /\ TurnsTaken
  /\ Stages
  /\ PowerIsThisRound
=============================================================================
