-------------------------- MODULE ExposerProofs --------------------------
(***************************************************************************)
(* Proofs about Exposer, for every set of enabled collectors.              *)
(***************************************************************************)
EXTENDS Exposer, TLAPS

\* The order in which main() adds the collectors: five different ones, the
\* power sources before SYSCollector.
LEMMA OrderFacts ==
  /\ Len(Order) = 5
  /\ \A k \in 1 .. 5 : Order[k] \in Collectors
  /\ \A k, l \in 1 .. 5 : Order[k] = Order[l] => k = l
  /\ \A k \in 1 .. 5 : Order[k] = "SYS" <=> k = 4
  /\ \A k \in 1 .. 5 : Order[k] \in Sources <=> k <= 3
  /\ Collectors = {"CPU", "GPU", "NPU", "SYS", "CLUSTER"}
<1>1. Len(Order) = 5
  BY DEF Order
<1>2. /\ Order[1] = "CPU" /\ Order[2] = "GPU" /\ Order[3] = "NPU"
      /\ Order[4] = "SYS" /\ Order[5] = "CLUSTER"
  BY DEF Order
<1>3. \A k \in 1 .. 5 : k = 1 \/ k = 2 \/ k = 3 \/ k = 4 \/ k = 5
  OBVIOUS
<1>4. Collectors = {"CPU", "GPU", "NPU", "SYS", "CLUSTER"}
  BY <1>1, <1>2, <1>3 DEF Collectors
<1> QED
  BY <1>1, <1>2, <1>3, <1>4 DEF Sources

\* The initial state satisfies the inductive invariant.
LEMMA InitInv == Init => IndInv
<1> SUFFICES ASSUME Init PROVE IndInv
  OBVIOUS
<1>1. TypeOK
  <2>1. collectors \in Seq(Collectors)
    BY DEF Init
  <2>2. outcome \in [Collectors -> Outcomes] /\ sharedPower \in [Sources -> SUBSET {"this", "earlier"}]
    BY DEF Init, NoOutcome, NoPower, Outcomes
  <2> QED
    BY <2>1, <2>2 DEF Init, TypeOK, Setup
<1>2. OrderKept /\ TurnsTaken /\ Stages /\ PowerIsThisRound
  BY OrderFacts
  DEF Init, OrderKept, TurnsTaken, Stages, PowerIsThisRound, Setup, Loop, Teardown,
      NoOutcome, NoPower
<1> QED
  BY <1>1, <1>2 DEF IndInv

\* Every step keeps the types.
LEMMA TypeStep == IndInv /\ [Next]_vars => TypeOK'
<1> SUFFICES ASSUME IndInv, [Next]_vars PROVE TypeOK'
  OBVIOUS
<1> USE DEF IndInv, TypeOK, Setup, Loop, Teardown, Ended, mainVars, dataVars
<1>1. CASE SkipCollector \/ AddFails \/ StartWatcher
  BY <1>1 DEF SkipCollector, AddFails, StartWatcher, Adding
<1>2. CASE AddCollector
  <2>1. Order[next] \in Collectors
    BY <1>2, EnabledAssumption DEF AddCollector, Adding
  <2> QED
    BY <1>2, <2>1 DEF AddCollector, Adding
<1>3. CASE EnterRun \/ LeaveRun \/ EndRound \/ Pace
  BY <1>3 DEF EnterRun, LeaveRun, EndRound, Pace, NoPower
<1>4. CASE BeginRound
  BY <1>4 DEF BeginRound, NoOutcome, Aged, Outcomes
<1>5. CASE CollectOk \/ CollectRecoverable \/ CollectFatal
  <2>1. Contribute(Current) \in [Sources -> SUBSET {"this", "earlier"}]
    BY DEF Contribute
  <2>2. outcome' \in [Collectors -> Outcomes]
    BY <1>5 DEF CollectOk, CollectRecoverable, CollectFatal, Outcomes
  <2>3. sharedPower' \in [Sources -> SUBSET {"this", "earlier"}]
    BY <1>5, <2>1 DEF CollectOk, CollectRecoverable, CollectFatal, RecoverableError
  <2>4. pc' \in {"collect", "pace"} /\ next' \in Nat
    BY <1>5 DEF CollectOk, CollectRecoverable, CollectFatal, Visiting
  <2>5. UNCHANGED <<collectors, stopRequested, watcher, http>>
    BY <1>5 DEF CollectOk, CollectRecoverable, CollectFatal
  <2>6. running' \in BOOLEAN /\ fatal' \in BOOLEAN
    BY <1>5 DEF CollectOk, CollectRecoverable, CollectFatal
  <2> QED
    BY <2>2, <2>3, <2>4, <2>5, <2>6
<1>6. CASE JoinWatcher \/ DestroyCollector \/ FinishDestruction \/ StopHttp
  BY <1>6 DEF JoinWatcher, DestroyCollector, FinishDestruction, StopHttp, Destroying
<1>7. CASE WatcherStep \/ Sigint \/ SigintKills
  BY <1>7 DEF WatcherStep, WatcherSees, WatcherStops, Sigint, SigintKills
<1>8. CASE UNCHANGED vars
  BY <1>8 DEF vars
<1> QED
  BY <1>1, <1>2, <1>3, <1>4, <1>5, <1>6, <1>7, <1>8 DEF Next, MainStep, Gone

\* Every step keeps the collectors in main()'s order.
LEMMA OrderStep == IndInv /\ [Next]_vars => OrderKept'
<1> SUFFICES ASSUME IndInv, [Next]_vars PROVE OrderKept'
  OBVIOUS
<1> USE DEF IndInv, OrderKept
<1>1. CASE SkipCollector
  BY <1>1 DEF SkipCollector, dataVars, TypeOK, Adding
<1>2. CASE AddCollector
  <2>1. /\ collectors \in Seq(Collectors)
        /\ next \in Nat /\ next <= 5
        /\ Order[next] \in Collectors
        /\ pc = "add" /\ pc' = "add" /\ next' = next + 1
        /\ collectors' = Append(collectors, Order[next])
    BY <1>2, EnabledAssumption, OrderFacts DEF AddCollector, Adding, TypeOK
  <2>2. next >= 1
    BY <2>1 DEF Stages
  <2>3. /\ Len(collectors') = Len(collectors) + 1
        /\ \A i \in 1 .. Len(collectors) : collectors'[i] = collectors[i]
        /\ collectors'[Len(collectors) + 1] = Order[next]
    BY <2>1
  <2>4. \A i \in 1 .. Len(collectors) :
          \E k \in 1 .. 5 : k < next /\ collectors[i] = Order[k]
    BY <2>1, OrderFacts
  <2>5. \A i \in 1 .. Len(collectors) : collectors[i] # Order[next]
    BY <2>1, <2>2, <2>4, OrderFacts
  <2>6. \A i, j \in 1 .. Len(collectors') :
          collectors'[i] = collectors'[j] => i = j
    BY <2>1, <2>3, <2>5
  <2>7. \A i \in 1 .. Len(collectors) :
          collectors[i] = "SYS" => Order[next] \notin Sources
    BY <2>1, <2>2, <2>4, OrderFacts
  <2>8. Order[next] = "SYS" => Order[next] \notin Sources
    BY DEF Sources
  <2>9. \A i, j \in 1 .. Len(collectors') :
          collectors'[i] = "SYS" /\ collectors'[j] \in Sources => j < i
    BY <2>1, <2>3, <2>7, <2>8
  <2>10. \A i \in 1 .. Len(collectors') :
          \E k \in 1 .. 5 : k < next' /\ collectors'[i] = Order[k]
    BY <2>1, <2>2, <2>3, <2>4
  <2> QED
    BY <2>1, <2>6, <2>9, <2>10, OrderFacts
<1>3. CASE Next /\ ~SkipCollector /\ ~AddCollector
  <2>1. UNCHANGED collectors /\ (pc' = "add" => pc = "add" /\ UNCHANGED next)
    BY <1>3 DEF Next, MainStep, WatcherStep, AddFails, StartWatcher, EnterRun,
       BeginRound, LeaveRun, CollectOk, CollectRecoverable, CollectFatal,
       EndRound, Pace, JoinWatcher, DestroyCollector, FinishDestruction, StopHttp,
       WatcherSees, WatcherStops, Sigint, SigintKills, Gone, vars, mainVars,
       dataVars, Visiting, Destroying, Adding
  <2> QED
    BY <2>1
<1>4. CASE UNCHANGED vars
  BY <1>4 DEF vars
<1> QED
  BY <1>1, <1>2, <1>3, <1>4

\* Every step keeps account of whose turn it was.
LEMMA TurnsStep == IndInv /\ [Next]_vars => TurnsTaken'
<1> SUFFICES ASSUME IndInv, [Next]_vars PROVE TurnsTaken'
  OBVIOUS
<1> USE DEF IndInv, TurnsTaken, Setup
<1>1. CASE SkipCollector \/ AddCollector \/ AddFails \/ StartWatcher \/ SigintKills
  BY <1>1 DEF SkipCollector, AddCollector, AddFails, StartWatcher, SigintKills,
     Adding, dataVars
<1>2. CASE EnterRun
  BY <1>2 DEF EnterRun, dataVars
<1>3. CASE BeginRound
  <2>1. /\ pc' = "collect" /\ next' = 1 /\ outcome' = NoOutcome
        /\ UNCHANGED <<collectors, fatal>>
        /\ collectors \in Seq(Collectors)
    BY <1>3 DEF BeginRound, TypeOK
  <2>2. Served' = {}
    BY <2>1 DEF Served, NoOutcome
  <2>3. \A i \in 1 .. Len(collectors) : outcome'[collectors[i]] = "none"
    BY <2>1 DEF NoOutcome
  <2> QED
    BY <2>1, <2>2, <2>3
<1>4. CASE CollectOk \/ CollectRecoverable
  <2>1. /\ pc = "collect" /\ pc' = "collect" /\ next' = next + 1
        /\ UNCHANGED <<collectors, fatal>>
        /\ next \in 1 .. Len(collectors)
        /\ collectors \in Seq(Collectors)
        /\ outcome \in [Collectors -> Outcomes]
    BY <1>4 DEF CollectOk, CollectRecoverable, Visiting, TypeOK
  <2>2. PICK o \in {"ok", "recoverable"} : outcome' = [outcome EXCEPT ![collectors[next]] = o]
    BY <1>4 DEF CollectOk, CollectRecoverable, Current
  <2>3. \A i \in 1 .. Len(collectors) : outcome'[collectors[i]] = "none" <=> i >= next'
    BY <2>1, <2>2 DEF OrderKept
  <2>4. collectors[next] \in Roster
    BY <2>1 DEF Roster
  <2>5. Roster' = Roster
    BY <2>1 DEF Roster
  <2>6. Served' \subseteq Roster'
    BY <2>1, <2>2, <2>4, <2>5 DEF Served
  <2> QED
    BY <2>1, <2>3, <2>6
<1>5. CASE CollectFatal
  BY <1>5 DEF CollectFatal
<1>6. CASE EndRound
  <2>1. /\ pc = "collect" /\ pc' = "pace"
        /\ UNCHANGED <<outcome, collectors, fatal>>
        /\ next > Len(collectors)
        /\ next \in Nat
        /\ collectors \in Seq(Collectors)
    BY <1>6 DEF EndRound, TypeOK
  <2>2. \A i \in 1 .. Len(collectors) : outcome[collectors[i]] # "none"
    BY <2>1
  <2>3. Roster \subseteq Served
    BY <2>1, <2>2 DEF Roster, Served
  <2>4. Served' = Roster'
    BY <2>1, <2>3 DEF Roster, Served
  <2> QED
    BY <2>1, <2>4
<1>7. CASE Pace
  BY <1>7 DEF Pace, dataVars, Served, Roster
<1>8. CASE LeaveRun \/ JoinWatcher \/ DestroyCollector \/ FinishDestruction \/ StopHttp
  BY <1>8 DEF LeaveRun, JoinWatcher, DestroyCollector, FinishDestruction, StopHttp,
     Destroying, dataVars
<1>9. CASE WatcherStep \/ Sigint
  BY <1>9 DEF WatcherStep, WatcherSees, WatcherStops, Sigint, mainVars, dataVars,
     Served, Roster
<1>10. CASE UNCHANGED vars
  BY <1>10 DEF vars, Served, Roster
<1> QED
  BY <1>1, <1>2, <1>3, <1>4, <1>5, <1>6, <1>7, <1>8, <1>9, <1>10
  DEF Next, MainStep, Gone

\* Every step keeps what the stages say of flags, threads and context.
LEMMA StagesStep == IndInv /\ [Next]_vars => Stages'
<1> SUFFICES ASSUME IndInv, [Next]_vars PROVE Stages'
  OBVIOUS
<1> USE DEF IndInv, Stages, Setup, Loop, Teardown
<1>1. CASE SkipCollector \/ AddCollector \/ AddFails \/ StartWatcher \/ SigintKills
  BY <1>1 DEF SkipCollector, AddCollector, AddFails, StartWatcher, SigintKills,
     Adding, dataVars, TypeOK
<1>2. CASE EnterRun \/ LeaveRun \/ Pace
  BY <1>2 DEF EnterRun, LeaveRun, Pace, dataVars, TypeOK
<1>3. CASE BeginRound \/ EndRound
  BY <1>3 DEF BeginRound, EndRound, TypeOK
<1>4. CASE CollectOk \/ CollectRecoverable
  BY <1>4 DEF CollectOk, CollectRecoverable, Visiting
<1>5. CASE CollectFatal
  BY <1>5 DEF CollectFatal, Visiting
<1>6. CASE JoinWatcher \/ DestroyCollector \/ FinishDestruction \/ StopHttp
  BY <1>6 DEF JoinWatcher, DestroyCollector, FinishDestruction, StopHttp,
     Destroying, dataVars, TypeOK
<1>7. CASE WatcherStep \/ Sigint
  BY <1>7 DEF WatcherStep, WatcherSees, WatcherStops, Sigint, mainVars, dataVars,
     Alive, Ended
<1>8. CASE UNCHANGED vars
  BY <1>8 DEF vars
<1> QED
  BY <1>1, <1>2, <1>3, <1>4, <1>5, <1>6, <1>7, <1>8 DEF Next, MainStep, Gone

\* Every step keeps the context to the readings of this round.
LEMMA PowerStep == IndInv /\ [Next]_vars => PowerIsThisRound'
<1> SUFFICES ASSUME IndInv, [Next]_vars, pc' = "collect", NEW s \in Sources
             PROVE  /\ sharedPower'[s] \subseteq {"this"}
                    /\ outcome'[s] = "ok" => sharedPower'[s] = {"this"}
                    /\ outcome'[s] = "none" => sharedPower'[s] = {}
  BY DEF PowerIsThisRound, Sources
<1> USE DEF IndInv, PowerIsThisRound
<1>1. s \in Collectors
  BY OrderFacts DEF Sources
<1>2. CASE BeginRound
  <2>1. pc = "check" /\ ~fatal
    BY <1>2 DEF BeginRound, Stages
  <2>2. sharedPower = NoPower
    BY <2>1 DEF Stages
  <2> QED
    BY <1>1, <1>2, <2>2 DEF BeginRound, Aged, NoPower, NoOutcome
<1>3. CASE CollectOk \/ CollectRecoverable
  <2>1. /\ pc = "collect"
        /\ next \in 1 .. Len(collectors)
        /\ collectors \in Seq(Collectors)
        /\ outcome \in [Collectors -> Outcomes]
        /\ sharedPower \in [Sources -> SUBSET {"this", "earlier"}]
    BY <1>3 DEF CollectOk, CollectRecoverable, Visiting, TypeOK, TurnsTaken
  <2>2. Current \in Collectors /\ outcome[Current] = "none"
    BY <2>1 DEF TurnsTaken, Current
  <2>3. CASE s = Current
    <3>1. sharedPower[s] = {}
      BY <2>1, <2>2, <2>3
    <3>2. CASE CollectOk
      BY <2>1, <2>2, <2>3, <3>1, <3>2 DEF CollectOk, Contribute
    <3>3. CASE CollectRecoverable
      BY <2>1, <2>2, <2>3, <3>1, <3>3 DEF CollectRecoverable, RecoverableError, Contribute
    <3> QED
      BY <1>3, <3>2, <3>3
  <2>4. CASE s # Current
    BY <1>1, <1>3, <2>1, <2>4 DEF CollectOk, CollectRecoverable, RecoverableError, Contribute
  <2> QED
    BY <2>3, <2>4
<1>4. CASE UNCHANGED <<pc, sharedPower, outcome>>
  BY <1>4
<1>5. pc' = "collect" => BeginRound \/ CollectOk \/ CollectRecoverable
                           \/ UNCHANGED <<pc, sharedPower, outcome>>
  BY DEF Next, MainStep, WatcherStep, SkipCollector, AddCollector, AddFails,
     StartWatcher, EnterRun, LeaveRun, CollectFatal, EndRound, Pace, JoinWatcher,
     DestroyCollector, FinishDestruction, StopHttp, WatcherSees, WatcherStops,
     Sigint, SigintKills, Gone, vars, mainVars, dataVars, Adding, Destroying
<1> QED
  BY <1>2, <1>3, <1>4, <1>5

-----------------------------------------------------------------------------

\* The inductive invariant holds in every behaviour of the process, whatever
\* the set of collectors and however the threads and SIGINT interleave.
THEOREM Invariance == Spec => []IndInv
<1>1. IndInv /\ [Next]_vars => IndInv'
  BY TypeStep, OrderStep, TurnsStep, StagesStep, PowerStep DEF IndInv
<1> QED
  BY InitInv, <1>1, PTL DEF Spec

\* The types are kept by every behaviour of the process.
THEOREM TypeCorrect == Spec => []TypeOK
<1>1. IndInv => TypeOK
  BY DEF IndInv
<1> QED
  BY Invariance, <1>1, PTL

\* Exposer::collect() and its reSet(): the context never mixes two rounds.
THEOREM PowerTheorem == Spec => []PowerIsThisRound
<1>1. IndInv => PowerIsThisRound
  BY DEF IndInv
<1> QED
  BY Invariance, <1>1, PTL

\* main()'s order of add_collector(): SYSCollector sums up after every source.
THEOREM TotalTheorem == Spec => []TotalIsComplete
<1>1. IndInv => TotalIsComplete
  <2> SUFFICES ASSUME IndInv, Visiting, Current = "SYS",
                      NEW i \in 1 .. Len(collectors), collectors[i] \in Sources
               PROVE  outcome[collectors[i]] # "none"
    BY DEF TotalIsComplete
  <2>1. next \in 1 .. Len(collectors) /\ collectors[next] = "SYS"
    BY DEF IndInv, TypeOK, TurnsTaken, Visiting, Current
  <2>2. i < next
    BY <2>1 DEF IndInv, OrderKept
  <2> QED
    BY <2>1, <2>2 DEF IndInv, TurnsTaken, Visiting, TypeOK
<1> QED
  BY Invariance, <1>1, PTL

\* main() tears down only on SIGINT, joins the watcher before exposer.reset(), so
\* that it never calls stop() on a destroyed exposer, and leaves nothing behind.
THEOREM ExitTheorem == Spec => []OrderlyExit
<1>1. IndInv => OrderlyExit
  BY DEF IndInv, Stages, OrderlyExit, Teardown
<1> QED
  BY Invariance, <1>1, PTL

\* Nothing raises the flag again once it is down inside the loop.
THEOREM StopTheorem == Spec => StopIsFinal
<1>1. [Next]_vars => [(pc \in Loop /\ ~running) =>
                        (~running' /\ (pc = "check" => pc' # "collect"))]_vars
  BY DEF Next, MainStep, WatcherStep, SkipCollector, AddCollector, AddFails,
     StartWatcher, EnterRun, BeginRound, LeaveRun, CollectOk, CollectRecoverable,
     CollectFatal, EndRound, Pace, JoinWatcher, DestroyCollector,
     FinishDestruction, StopHttp, WatcherSees, WatcherStops, Sigint, SigintKills,
     Gone, Loop, vars, mainVars, Adding, Destroying, Visiting
<1> QED
  BY <1>1, PTL DEF Spec, StopIsFinal

\* A round is left early only by a FatalError.
THEOREM RoundTheorem == Spec => RoundsAreWhole
<1>1. IndInv /\ [Next]_vars =>
        [(pc = "collect" /\ pc' = "pace") =>
           (fatal' \/ \A i \in 1 .. Len(collectors) : outcome[collectors[i]] # "none")]_vars
  <2> SUFFICES ASSUME IndInv, Next, pc = "collect", pc' = "pace", ~fatal',
                      NEW i \in 1 .. Len(collectors)
               PROVE  outcome[collectors[i]] # "none"
    OBVIOUS
  <2>1. EndRound
    BY DEF Next, MainStep, WatcherStep, SkipCollector, AddCollector, AddFails,
       StartWatcher, EnterRun, BeginRound, LeaveRun, CollectOk, CollectRecoverable,
       CollectFatal, Pace, JoinWatcher, DestroyCollector, FinishDestruction,
       StopHttp, WatcherSees, WatcherStops, Sigint, SigintKills, Gone, vars,
       mainVars, Adding, Destroying, Visiting
  <2> QED
    BY <2>1 DEF IndInv, TurnsTaken, TypeOK, EndRound
<1> QED
  BY Invariance, <1>1, PTL DEF Spec, RoundsAreWhole

-----------------------------------------------------------------------------
(* The process implements CollectionService.                               *)

\* The initial state maps to an initial state of the service.
LEMMA InitRefines == Init => Service!SInit
<1> SUFFICES ASSUME Init PROVE Service!SInit
  OBVIOUS
<1>1. Phase = "starting"
  BY DEF Init, Phase, Setup, Ended
<1>2. Roster = {} /\ Served = {}
  BY DEF Init, Roster, Served, NoOutcome
<1> QED
  BY <1>1, <1>2 DEF Init, Service!SInit

\* Every step of the process is a step of the service or a stutter.
LEMMA StepRefines ==
  IndInv /\ [Next]_vars => [Service!SNext]_<<Phase, Roster, Served, stopRequested>>
<1> SUFFICES ASSUME IndInv, [Next]_vars
             PROVE  Service!SNext \/ UNCHANGED <<Phase, Roster, Served, stopRequested>>
  OBVIOUS
<1> USE DEF Phase, Setup, Loop, Teardown, Ended
<1>1. CASE AddCollector
  <2>1. /\ pc = "add" /\ pc' = "add" /\ UNCHANGED <<outcome, fatal, stopRequested>>
        /\ next \in 1 .. 5
        /\ collectors \in Seq(Collectors)
        /\ collectors' = Append(collectors, Order[next])
        /\ Order[next] \in Collectors
    BY <1>1, EnabledAssumption, OrderFacts
    DEF AddCollector, Adding, IndInv, TypeOK, Stages
  <2>2. Roster' = Roster \cup {Order[next]}
    BY <2>1 DEF Roster
  <2>3. Order[next] \notin Roster
    BY <2>1, OrderFacts DEF Roster, IndInv, OrderKept
  <2>4. UNCHANGED <<Phase, Served, stopRequested>> /\ Phase = "starting"
    BY <2>1 DEF Served
  <2>5. Service!Enlist(Order[next])
    BY <2>2, <2>3, <2>4 DEF Service!Enlist
  <2> QED
    BY <2>1, <2>5 DEF Service!SNext
<1>2. CASE SkipCollector \/ StartWatcher \/ WatcherStep
  BY <1>2 DEF SkipCollector, StartWatcher, WatcherStep, WatcherSees, WatcherStops,
     Adding, Roster, Served, mainVars, dataVars
<1>3. CASE AddFails \/ SigintKills
  <2>1. /\ Phase = "starting" /\ Phase' \in {"starting", "ended"}
        /\ UNCHANGED <<Roster, Served, stopRequested>>
    BY <1>3 DEF AddFails, SigintKills, Adding, dataVars, Roster, Served
  <2> QED
    BY <2>1 DEF Service!SNext, Service!End
<1>4. CASE EnterRun
  <2>1. Phase = "starting" /\ Phase' = "collecting"
    BY <1>4 DEF EnterRun, IndInv, Stages
  <2>2. UNCHANGED <<Roster, Served, stopRequested>>
    BY <1>4 DEF EnterRun, dataVars, Roster, Served
  <2> QED
    BY <2>1, <2>2 DEF Service!SNext, Service!Start
<1>5. CASE BeginRound
  <2>1. Phase = "collecting" /\ UNCHANGED <<Phase, Roster, stopRequested>>
    BY <1>5 DEF BeginRound, Roster, IndInv, Stages
  <2>2. Served' = {} /\ (Served = {} \/ Served = Roster)
    BY <1>5 DEF BeginRound, Served, NoOutcome, IndInv, TurnsTaken, Stages
  <2> QED
    BY <2>1, <2>2 DEF Service!SNext, Service!CloseRound
<1>6. CASE LeaveRun
  <2>1. UNCHANGED <<Roster, Served, stopRequested>>
    BY <1>6 DEF LeaveRun, dataVars, Roster, Served
  <2>2. CASE fatal
    BY <1>6, <2>1, <2>2 DEF LeaveRun
  <2>3. CASE ~fatal
    <3>1. Phase = "collecting" /\ Phase' = "idle" /\ stopRequested
      BY <1>6, <2>3 DEF LeaveRun, IndInv, Stages
    <3>2. Served = {} \/ Served = Roster
      BY <1>6, <2>3 DEF LeaveRun, Served, NoOutcome, IndInv, TurnsTaken
    <3> QED
      BY <2>1, <3>1, <3>2 DEF Service!SNext, Service!Cease
  <2> QED
    BY <2>2, <2>3
<1>7. CASE CollectOk \/ CollectRecoverable \/ CollectFatal
  <2>1. /\ pc = "collect" /\ ~fatal
        /\ next \in 1 .. Len(collectors)
        /\ UNCHANGED <<collectors, stopRequested>>
        /\ collectors \in Seq(Collectors)
        /\ outcome \in [Collectors -> Outcomes]
    <3>1. Visiting /\ UNCHANGED <<collectors, stopRequested>>
      BY <1>7 DEF CollectOk, CollectRecoverable, CollectFatal
    <3>2. collectors \in Seq(Collectors) /\ outcome \in [Collectors -> Outcomes]
      BY DEF IndInv, TypeOK
    <3> QED
      BY <3>1, <3>2 DEF Visiting, IndInv, TurnsTaken, Stages
  <2>2. PICK o \in {"ok", "recoverable", "fatal"} :
          outcome' = [outcome EXCEPT ![Current] = o]
    BY <1>7 DEF CollectOk, CollectRecoverable, CollectFatal
  <2>3. Current \in Collectors /\ Current \in Roster \ Served
    BY <2>1 DEF Current, Roster, Served, IndInv, TurnsTaken
  <2>4. Served' = Served \cup {Current}
    BY <2>1, <2>2, <2>3 DEF Served
  <2>5. Roster' = Roster
    BY <2>1 DEF Roster
  <2>6. Phase = "collecting"
    BY <2>1
  <2>7. CASE CollectOk \/ CollectRecoverable
    <3>1. Phase' = Phase
      BY <2>7 DEF CollectOk, CollectRecoverable
    <3>2. Service!Serve(Current)
      BY <2>1, <2>3, <2>4, <2>5, <2>6, <3>1 DEF Service!Serve
    <3> QED
      BY <2>3, <3>2 DEF Service!SNext
  <2>8. CASE CollectFatal
    <3>1. Phase' = "idle"
      BY <2>8 DEF CollectFatal
    <3>2. Service!BreakDown(Current)
      BY <2>1, <2>3, <2>4, <2>5, <2>6, <3>1 DEF Service!BreakDown
    <3> QED
      BY <2>3, <3>2 DEF Service!SNext
  <2> QED
    BY <1>7, <2>7, <2>8
<1>8. CASE EndRound \/ Pace \/ JoinWatcher
  BY <1>8 DEF EndRound, Pace, JoinWatcher, dataVars, Roster, Served
<1>9. CASE DestroyCollector \/ FinishDestruction \/ StopHttp
  <2>1. UNCHANGED <<Roster, Served, stopRequested>>
    BY <1>9 DEF DestroyCollector, FinishDestruction, StopHttp, dataVars, Roster, Served
  <2>2. CASE pc = "exitReset"
    <3>1. Phase = "starting" /\ Phase' \in {"starting", "ended"}
      BY <1>9, <2>2 DEF DestroyCollector, FinishDestruction, StopHttp
    <3> QED
      BY <2>1, <3>1 DEF Service!SNext, Service!End
  <2>3. CASE pc # "exitReset"
    <3>1. stopRequested
      BY <1>9, <2>3 DEF DestroyCollector, FinishDestruction, StopHttp, Destroying,
         IndInv, Stages
    <3>2. Phase = "idle" /\ Phase' \in {"idle", "ended"}
      BY <1>9, <2>3 DEF DestroyCollector, FinishDestruction, StopHttp, Destroying
    <3> QED
      BY <2>1, <3>1, <3>2 DEF Service!SNext, Service!End
  <2> QED
    BY <2>2, <2>3
<1>10. CASE Sigint
  <2>1. Phase # "ended" /\ stopRequested' = TRUE /\ UNCHANGED <<Phase, Roster, Served>>
    BY <1>10 DEF Sigint, Alive, mainVars, dataVars, Roster, Served
  <2> QED
    BY <2>1 DEF Service!SNext, Service!Ask
<1>11. CASE UNCHANGED vars
  BY <1>11 DEF vars, Roster, Served
<1> QED
  BY <1>1, <1>2, <1>3, <1>4, <1>5, <1>6, <1>7, <1>8, <1>9, <1>10, <1>11
  DEF Next, MainStep, Gone

\* The whole process, threads, flags and failures, implements the service:
\* exactly-once rounds until the user asks for the end or a collector breaks.
THEOREM Refinement == Spec => ImplementsService
<1>1. IndInv /\ [Next]_vars => [Service!SNext]_(Service!svars)
  BY StepRefines DEF Service!svars
<1> QED
  BY InitRefines, Invariance, <1>1, PTL
  DEF Spec, ImplementsService, Service!SSpec
=============================================================================
