--------------------------- MODULE HttpApiProofs ---------------------------
(***************************************************************************)
(* Proofs about HttpApi, for any number of routes, workers and rounds.     *)
(***************************************************************************)
EXTENDS HttpApi, TLAPS

\* The actions of the main thread that leave data, mutexes and requests alone.
Quiet ==
  \/ Start \/ Run \/ BeginRound \/ LeaveLoop \/ Destroyed \/ Stop \/ Join
  \/ \E r \in Routes : AddFails(r) \/ SkipWrite(r)
  \/ Listens \/ ListenFails \/ ThreadEnds

\* Next, action by action.
LEMMA NextCases ==
  ASSUME [Next]_vars
  PROVE  \/ Quiet
         \/ \E r \in Routes : Add(r) \/ Destroy(r) \/ WriteTime(r) \/ WriteData(r)
         \/ \E w \in Workers, r \in Routes : Accept(w, r)
         \/ \E w \in Workers : \/ Found(w) \/ Missed(w) \/ ReadGrowing(w)
                               \/ ReadTime(w) \/ ReadData(w) \/ ReadDestroyed(w)
                               \/ LockDestroyed(w)
         \/ UNCHANGED vars
BY DEF Next, Quiet, Writing, Handling, Over

\* What all quiet actions leave unchanged.
LEMMA QuietFrame ==
  ASSUME Quiet
  PROVE  UNCHANGED <<api, mutex, requests>>
BY DEF Quiet, Start, Run, BeginRound, LeaveLoop, Destroyed, Stop, Join, AddFails,
   SkipWrite, Listens, ListenFails, ThreadEnds

\* The initial state satisfies the inductive invariant.
LEMMA InitInv == Init => IndInv
<1> SUFFICES ASSUME Init PROVE IndInv
  OBVIOUS
<1>1. NotFound \in Answers /\ NotFound.kind = "404"
  BY RoundsAssumption DEF NotFound, Answers, Rounds
<1>2. TypeOK
  BY <1>1, RoundsAssumption DEF Init, TypeOK, Rounds
<1>3. AnswerIsOneRound
  BY <1>1 DEF Init, AnswerIsOneRound
<1>4. Stages
  BY DEF Init, Stages, Busy
<1>5. Locks
  BY NoneAssumption DEF Init, Locks
<1>6. CoveredIsServed
  BY DEF Init, CoveredIsServed
<1>7. ServerDown
  BY DEF Init, ServerDown, Busy
<1> QED
  BY <1>2, <1>3, <1>4, <1>5, <1>6, <1>7 DEF IndInv

\* Quiet actions preserve types.
LEMMA QuietTypes ==
  ASSUME TypeOK, Quiet
  PROVE  TypeOK'
<1>1. UNCHANGED <<api, mutex, requests>>
  BY QuietFrame
<1>2. /\ pc' \in {"start", "adding", "loop", "write", "destroying", "stop", "join", "ended"}
      /\ thread' \in {"none", "starting", "listening", "closing", "ended"}
  BY DEF TypeOK, Quiet, Start, Run, BeginRound, LeaveLoop, Destroyed, Stop, Join, AddFails,
     SkipWrite, Listens, ListenFails, ThreadEnds, main
<1>3. toAdd' \subseteq Routes /\ due' \subseteq Routes
  BY DEF TypeOK, Quiet, Start, Run, BeginRound, LeaveLoop, Destroyed, Stop, Join, AddFails,
     SkipWrite, Listens, ListenFails, ThreadEnds, main
<1>4. round' \in Rounds
  BY RoundsAssumption
     DEF TypeOK, Quiet, Start, Run, BeginRound, LeaveLoop, Destroyed, Stop, Join, AddFails,
     SkipWrite, Listens, ListenFails, ThreadEnds, main, Rounds
<1> QED
  BY <1>1, <1>2, <1>3, <1>4 DEF TypeOK, api, requests

\* An answer is an answer.
LEMMA AnswerTypes ==
  ASSUME TypeOK, NEW w \in Workers, want[w] \in Routes
  PROVE  /\ NotFound \in Answers /\ Undefined \in Answers
         /\ Snapshot(seen[w], data[want[w]]) \in Answers
BY RoundsAssumption DEF TypeOK, NotFound, Undefined, Snapshot, Answers, Rounds

\* Types are preserved.
LEMMA TypeStep ==
  ASSUME TypeOK, [Next]_vars
  PROVE  TypeOK'
<1>1. CASE Quiet
  BY <1>1, QuietTypes
<1>2. ASSUME NEW r \in Routes, Add(r) PROVE TypeOK'
  BY <1>2 DEF Add, TypeOK
<1>3. ASSUME NEW r \in Routes, Destroy(r) PROVE TypeOK'
  BY <1>3 DEF Destroy, TypeOK, main
<1>4. ASSUME NEW r \in Routes, WriteTime(r) PROVE TypeOK'
  BY <1>4 DEF WriteTime, TypeOK, requests
<1>5. ASSUME NEW r \in Routes, WriteData(r) PROVE TypeOK'
  BY <1>5 DEF WriteData, TypeOK, requests
<1>6. ASSUME NEW w \in Workers, NEW r \in Routes, Accept(w, r) PROVE TypeOK'
  BY <1>6 DEF Accept, TypeOK, main, api
<1>7. ASSUME NEW w \in Workers, Found(w) \/ LockDestroyed(w) PROVE TypeOK'
  BY <1>7 DEF Found, LockDestroyed, TypeOK, main, api
<1>8. ASSUME NEW w \in Workers, Missed(w) \/ ReadGrowing(w) \/ ReadDestroyed(w) PROVE TypeOK'
  <2>1. NotFound \in Answers /\ Undefined \in Answers
    BY RoundsAssumption DEF NotFound, Undefined, Answers, Rounds
  <2> QED
    BY <1>8, <2>1 DEF Missed, ReadGrowing, ReadDestroyed, Reply, TypeOK, main, api
<1>9. ASSUME NEW w \in Workers, ReadTime(w) PROVE TypeOK'
  BY <1>9 DEF ReadTime, TypeOK, main, api
<1>10. ASSUME NEW w \in Workers, ReadData(w) PROVE TypeOK'
  <2>1. Snapshot(seen[w], data[want[w]]) \in Answers
    BY <1>10, AnswerTypes DEF ReadData, TypeOK
  <2> QED
    BY <1>10, <2>1 DEF ReadData, Reply, TypeOK, main, api
<1>11. CASE UNCHANGED vars
  BY <1>11 DEF vars, main, api, requests, TypeOK
<1> QED
  BY <1>1, <1>2, <1>3, <1>4, <1>5, <1>6, <1>7, <1>8, <1>9, <1>10, <1>11, NextCases

\* A handler that holds the mutex answers with the round in its object.
LEMMA AnswerInLock ==
  ASSUME TypeOK, Locks, NEW w \in Workers, ReadData(w)
  PROVE  seen[w] = data[want[w]]
<1>1. mutex[want[w]] = w /\ seen[w] = time[want[w]] /\ want[w] \in objects
  BY DEF ReadData, Locks
<1>2. mutex[want[w]] # "main"
  BY <1>1, NoneAssumption
<1> QED
  BY <1>1, <1>2 DEF Locks

\* Answers stay whole.
LEMMA AnswerStep ==
  ASSUME TypeOK, Locks, AnswerIsOneRound, [Next]_vars
  PROVE  AnswerIsOneRound'
<1>1. CASE answer' = answer
  BY <1>1 DEF AnswerIsOneRound
<1>2. ASSUME NEW w \in Workers, Missed(w) \/ ReadGrowing(w) \/ ReadDestroyed(w)
      PROVE AnswerIsOneRound'
  BY <1>2 DEF Missed, ReadGrowing, ReadDestroyed, Reply, AnswerIsOneRound, TypeOK,
     NotFound, Undefined
<1>3. ASSUME NEW w \in Workers, ReadData(w) PROVE AnswerIsOneRound'
  <2>1. answer' = [answer EXCEPT ![w] = Snapshot(seen[w], data[want[w]])]
    BY <1>3 DEF ReadData, Reply
  <2>2. seen[w] = data[want[w]]
    BY <1>3, AnswerInLock
  <2> QED
    BY <2>1, <2>2 DEF AnswerIsOneRound, TypeOK, Snapshot
<1>4. Quiet => answer' = answer
  BY QuietFrame DEF requests
<1> QED
  BY <1>1, <1>2, <1>3, <1>4, NextCases
     DEF Add, Destroy, WriteTime, WriteData, Accept, Found, LockDestroyed, ReadTime, vars,
         requests

\* Stages: Quiet actions.
LEMMA QuietStages ==
  ASSUME TypeOK, Stages, ServerDown, Quiet
  PROVE  Stages'
<1>1. UNCHANGED <<api, mutex, requests>>
  BY QuietFrame
<1>2. CASE BeginRound
  <2>1. round \in Nat
    BY RoundsAssumption DEF TypeOK, Rounds
  <2>2. ASSUME NEW r \in Routes PROVE data[r] < round + 1 /\ data[r] <= round + 1
    <3>1. data[r] \in Nat /\ data[r] <= round
      BY RoundsAssumption DEF Stages, TypeOK, Rounds
    <3> QED
      BY <2>1, <3>1
  <2>3. objects \subseteq table
    BY DEF TypeOK
  <2> QED
    BY <1>1, <1>2, <2>2, <2>3 DEF BeginRound, Stages, api, requests, Busy
<1>3. CASE ~BeginRound
  <2>1. /\ due' \subseteq due /\ toAdd' \subseteq toAdd /\ round' = round
        /\ pc' \in {"start", "adding", "loop", "write"} =>
             pc \in {"start", "adding", "loop", "write"}
        /\ pc' \in {"start", "adding"} => pc \in {"start", "adding"}
    BY <1>3 DEF Quiet, Start, Run, LeaveLoop, Destroyed, Stop, Join, AddFails,
       SkipWrite, Listens, ListenFails, ThreadEnds, main
  <2> QED
    BY <1>1, <2>1 DEF Stages, api, requests, Busy
<1> QED
  BY <1>2, <1>3

\* Stages are preserved.
LEMMA StagesStep ==
  ASSUME TypeOK, Stages, Locks, ServerDown, [Next]_vars
  PROVE  Stages'
<1>1. CASE Quiet
  BY <1>1, QuietStages
<1>2. ASSUME NEW r \in Routes, Add(r) PROVE Stages'
  BY <1>2 DEF Add, Stages, Busy
<1>3. ASSUME NEW r \in Routes, Destroy(r) PROVE Stages'
  BY <1>3 DEF Destroy, Stages, main
<1>4. ASSUME NEW r \in Routes, WriteTime(r) PROVE Stages'
  <2>1. toAdd' = toAdd /\ r \notin toAdd
    BY <1>4 DEF WriteTime, Stages, TypeOK
  <2> QED
    BY <1>4, <2>1 DEF WriteTime, Stages, TypeOK, requests
<1>5. ASSUME NEW r \in Routes, WriteData(r) PROVE Stages'
  BY <1>5, RoundsAssumption DEF WriteData, Stages, Locks, TypeOK, requests, Rounds
<1>6. ASSUME NEW w \in Workers, NEW r \in Routes, Accept(w, r) PROVE Stages'
  BY <1>6 DEF Accept, Stages, TypeOK, main, api, Busy, OnOffer
<1>7. ASSUME NEW w \in Workers, Found(w) \/ LockDestroyed(w) PROVE Stages'
  BY <1>7 DEF Found, LockDestroyed, Stages, TypeOK, main, api, Busy
<1>8. ASSUME NEW w \in Workers, Missed(w) \/ ReadGrowing(w) \/ ReadDestroyed(w) PROVE Stages'
  BY <1>8 DEF Missed, ReadGrowing, ReadDestroyed, Reply, Stages, TypeOK, main, api, Busy
<1>9. ASSUME NEW w \in Workers, ReadTime(w) PROVE Stages'
  BY <1>9 DEF ReadTime, Stages, TypeOK, main, api, Busy
<1>10. ASSUME NEW w \in Workers, ReadData(w) PROVE Stages'
  BY <1>10 DEF ReadData, Reply, Stages, TypeOK, main, api, Busy
<1>11. CASE UNCHANGED vars
  BY <1>11 DEF vars, main, api, requests, Stages, Busy
<1> QED
  BY <1>1, <1>2, <1>3, <1>4, <1>5, <1>6, <1>7, <1>8, <1>9, <1>10, <1>11, NextCases

\* Mutexes keep protecting what they protect.
LEMMA LocksStep ==
  ASSUME TypeOK, Locks, Stages, [Next]_vars
  PROVE  Locks'
<1>1. CASE Quiet
  <2>1. UNCHANGED <<api, mutex, requests>>
    BY <1>1, QuietFrame
  <2>2. pc = "write" => pc' = "write" /\ due' = due /\ round' = round
    BY <1>1 DEF Quiet, Start, Run, BeginRound, LeaveLoop, Destroyed, Stop, Join, AddFails,
       SkipWrite, Listens, ListenFails, ThreadEnds, main
  <2> QED
    BY <2>1, <2>2 DEF Locks, api, requests
<1>2. ASSUME NEW r \in Routes, Add(r) PROVE Locks'
  BY <1>2 DEF Add, Locks, TypeOK, Stages
<1>3. ASSUME NEW r \in Routes, Destroy(r) PROVE Locks'
  BY <1>3 DEF Destroy, Locks, main
<1>4. ASSUME NEW r \in Routes, WriteTime(r) PROVE Locks'
  BY <1>4, NoneAssumption DEF WriteTime, Locks, TypeOK, requests
<1>5. ASSUME NEW r \in Routes, WriteData(r) PROVE Locks'
  BY <1>5, NoneAssumption DEF WriteData, Locks, TypeOK, requests
<1>6. ASSUME NEW w \in Workers, NEW r \in Routes, Accept(w, r) PROVE Locks'
  BY <1>6 DEF Accept, Locks, TypeOK, main, api
<1>7. ASSUME NEW w \in Workers, Found(w) \/ LockDestroyed(w) PROVE Locks'
  BY <1>7 DEF Found, LockDestroyed, Locks, TypeOK, main, api
<1>8. ASSUME NEW w \in Workers, Missed(w) \/ ReadGrowing(w) \/ ReadDestroyed(w) PROVE Locks'
  BY <1>8 DEF Missed, ReadGrowing, ReadDestroyed, Reply, Locks, TypeOK, main, api
<1>9. ASSUME NEW w \in Workers, ReadTime(w) PROVE Locks'
  BY <1>9, NoneAssumption DEF ReadTime, Locks, TypeOK, main, api
<1>10. ASSUME NEW w \in Workers, ReadData(w) PROVE Locks'
  BY <1>10, NoneAssumption DEF ReadData, Reply, Locks, TypeOK, main, api
<1>11. CASE UNCHANGED vars
  BY <1>11 DEF vars, main, api, requests, Locks
<1> QED
  BY <1>1, <1>2, <1>3, <1>4, <1>5, <1>6, <1>7, <1>8, <1>9, <1>10, <1>11, NextCases

\* Covered requests keep their objects.
LEMMA CoveredStep ==
  ASSUME TypeOK, Stages, CoveredIsServed, [Next]_vars
  PROVE  CoveredIsServed'
<1>1. CASE Quiet
  BY <1>1, QuietFrame DEF CoveredIsServed, Busy, api, requests
<1>2. ASSUME NEW r \in Routes, Add(r) PROVE CoveredIsServed'
  BY <1>2 DEF Add, CoveredIsServed, Stages, Busy
<1>3. ASSUME NEW r \in Routes, Destroy(r) PROVE CoveredIsServed'
  BY <1>3 DEF Destroy, CoveredIsServed, Busy
<1>4. ASSUME NEW r \in Routes, WriteTime(r) \/ WriteData(r) PROVE CoveredIsServed'
  BY <1>4 DEF WriteTime, WriteData, CoveredIsServed, Busy, requests
<1>5. ASSUME NEW w \in Workers, NEW r \in Routes, Accept(w, r) PROVE CoveredIsServed'
  BY <1>5 DEF Accept, CoveredIsServed, Busy, TypeOK, Stages, OnOffer, api
<1>6. ASSUME NEW w \in Workers,
             Found(w) \/ Missed(w) \/ ReadGrowing(w) \/ ReadTime(w) \/ ReadData(w)
               \/ ReadDestroyed(w) \/ LockDestroyed(w)
      PROVE  CoveredIsServed'
  BY <1>6 DEF Found, Missed, ReadGrowing, ReadTime, ReadData, ReadDestroyed, LockDestroyed,
     Reply, CoveredIsServed, Busy, TypeOK, api
<1>7. CASE UNCHANGED vars
  BY <1>7 DEF vars, api, requests, CoveredIsServed, Busy
<1> QED
  BY <1>1, <1>2, <1>3, <1>4, <1>5, <1>6, <1>7, NextCases

\* The end of the server.
LEMMA ServerStep ==
  ASSUME TypeOK, ServerDown, [Next]_vars
  PROVE  ServerDown'
<1>1. CASE Quiet
  <2>1. Busy' = Busy
    BY <1>1, QuietFrame DEF Busy, requests
  <2> QED
    BY <1>1, <2>1 DEF Quiet, Start, Run, BeginRound, LeaveLoop, Destroyed, Stop, Join,
       AddFails, SkipWrite, Listens, ListenFails, ThreadEnds, main, ServerDown, TypeOK
<1>2. ASSUME NEW r \in Routes, Add(r) \/ Destroy(r) \/ WriteTime(r) \/ WriteData(r)
      PROVE  ServerDown'
  BY <1>2 DEF Add, Destroy, WriteTime, WriteData, main, requests, ServerDown, Busy
<1>3. ASSUME NEW w \in Workers, NEW r \in Routes, Accept(w, r) PROVE ServerDown'
  BY <1>3 DEF Accept, ServerDown, main
<1>4. ASSUME NEW w \in Workers,
             Found(w) \/ Missed(w) \/ ReadGrowing(w) \/ ReadTime(w) \/ ReadData(w)
               \/ ReadDestroyed(w) \/ LockDestroyed(w)
      PROVE  ServerDown'
  <2>1. w \in Busy /\ Busy' \subseteq Busy /\ UNCHANGED <<pc, thread>>
    BY <1>4 DEF Found, Missed, ReadGrowing, ReadTime, ReadData, ReadDestroyed, LockDestroyed,
       Reply, Busy, TypeOK, main
  <2> QED
    BY <2>1 DEF ServerDown
<1>5. CASE UNCHANGED vars
  BY <1>5 DEF vars, main, requests, ServerDown, Busy
<1> QED
  BY <1>1, <1>2, <1>3, <1>4, <1>5, NextCases

\* The inductive invariant holds in every behaviour.
THEOREM Invariance == Spec => []IndInv
<1>1. IndInv /\ [Next]_vars => IndInv'
  BY TypeStep, AnswerStep, StagesStep, LocksStep, CoveredStep, ServerStep DEF IndInv
<1> QED
  BY InitInv, <1>1, PTL DEF Spec

\* Type correctness.
THEOREM TypeCorrect == Spec => []TypeOK
<1>1. IndInv => TypeOK
  BY DEF IndInv
<1> QED
  BY Invariance, <1>1, PTL

\* Every answer with metrics is one round.
THEOREM AnswerTheorem == Spec => []AnswerIsOneRound
<1>1. IndInv => AnswerIsOneRound
  BY DEF IndInv
<1> QED
  BY Invariance, <1>1, PTL

\* Nothing runs on when main() returns.
THEOREM EndTheorem == Spec => []NothingRunsOn
<1>1. IndInv => NothingRunsOn
  BY DEF IndInv, ServerDown, NothingRunsOn
<1> QED
  BY Invariance, <1>1, PTL

\* Every step is a step of the register, or none.
LEMMA RegisterStep ==
  ASSUME IndInv, [Next]_vars
  PROVE  [Register!AbstractNext]_Register!abstract
<1>0. TypeOK /\ Stages /\ Locks /\ CoveredIsServed /\ ServerDown
  BY DEF IndInv
<1> USE DEF Register!AbstractNext, Register!abstract
<1>1. CASE Quiet
  <2>1. UNCHANGED <<data, Busy, want, covered, answer, table>>
    BY <1>1, QuietFrame DEF api, requests, Busy
  <2>2. OnOffer' = OnOffer \/ OnOffer' = {} \/ (OnOffer = {} /\ OnOffer' = table)
    BY <2>1 DEF OnOffer
  <2>3. table \subseteq Routes
    BY <1>0 DEF TypeOK
  <2> QED
    BY <2>1, <2>2, <2>3 DEF Register!Open, Register!Close
<1>2. ASSUME NEW r \in Routes, Add(r) PROVE UNCHANGED Register!abstract
  BY <1>2 DEF Add, OnOffer, Busy
<1>3. ASSUME NEW r \in Routes, Destroy(r) PROVE Register!Withdraw
  BY <1>3 DEF Destroy, OnOffer, Busy, main, Register!Withdraw
<1>4. ASSUME NEW r \in Routes, WriteTime(r) PROVE UNCHANGED Register!abstract
  BY <1>4 DEF WriteTime, OnOffer, Busy, requests
<1>5. ASSUME NEW r \in Routes, WriteData(r) PROVE Register!Store
  <2>1. r \in due
    BY <1>0, <1>5 DEF WriteData, Locks
  <2>2. data' = [data EXCEPT ![r] = round] /\ data'[r] = round
    BY <1>0, <1>5 DEF WriteData, TypeOK
  <2>3. data'[r] > data[r]
    BY <1>0, <2>1, <2>2, RoundsAssumption DEF Stages, TypeOK, Rounds
  <2>4. UNCHANGED <<OnOffer, Busy, want, covered, answer>>
    BY <1>5 DEF WriteData, OnOffer, Busy, requests
  <2> QED
    BY <2>2, <2>3, <2>4 DEF Register!Store
<1>6. ASSUME NEW w \in Workers, NEW r \in Routes, Accept(w, r) PROVE Register!Ask
  <2>1. w \in Workers \ Busy /\ Busy' = Busy \cup {w}
    BY <1>0, <1>6 DEF Accept, Busy, TypeOK
  <2>2. UNCHANGED <<data, OnOffer, answer>>
    BY <1>6 DEF Accept, OnOffer, main, api
  <2> QED
    BY <1>6, <2>1, <2>2 DEF Accept, Register!Ask
<1>7. ASSUME NEW w \in Workers, Found(w) \/ ReadTime(w) \/ LockDestroyed(w)
      PROVE  UNCHANGED Register!abstract
  BY <1>0, <1>7 DEF Found, ReadTime, LockDestroyed, OnOffer, Busy, main, api, TypeOK
<1>8. ASSUME NEW w \in Workers, NEW a \in Answers, wpc[w] # "idle", Reply(w, a),
             w \in covered => a = Register!Whole(data[want[w]]),
             UNCHANGED <<main, api, want, covered>>
      PROVE  Register!Tell
  <2>1. w \in Busy /\ Busy' = Busy \ {w}
    BY <1>0, <1>8 DEF Reply, Busy, TypeOK
  <2>2. UNCHANGED <<data, OnOffer>>
    BY <1>8 DEF OnOffer, main, api
  <2> QED
    BY <1>8, <2>1, <2>2 DEF Reply, Register!Tell
<1>9. ASSUME NEW w \in Workers, Missed(w) \/ ReadGrowing(w) \/ ReadDestroyed(w)
      PROVE  Register!Tell
  <2>1. NotFound \in Answers /\ Undefined \in Answers
    BY RoundsAssumption DEF NotFound, Undefined, Answers, Rounds
  <2>2. w \notin covered
    BY <1>0, <1>9 DEF Missed, ReadGrowing, ReadDestroyed, CoveredIsServed, Busy, TypeOK
  <2> QED
    BY <1>8, <1>9, <2>1, <2>2 DEF Missed, ReadGrowing, ReadDestroyed
<1>10. ASSUME NEW w \in Workers, ReadData(w) PROVE Register!Tell
  <2>1. Snapshot(seen[w], data[want[w]]) \in Answers
    BY <1>0, <1>10, AnswerTypes DEF ReadData, TypeOK
  <2>2. Snapshot(seen[w], data[want[w]]) = Register!Whole(data[want[w]])
    BY <1>0, <1>10, AnswerInLock DEF Snapshot, Register!Whole
  <2> QED
    BY <1>8, <1>10, <2>1, <2>2 DEF ReadData
<1>11. CASE UNCHANGED vars
  BY <1>11 DEF vars, main, api, requests, OnOffer, Busy
<1> QED
  BY <1>1, <1>2, <1>3, <1>4, <1>5, <1>6, <1>7, <1>9, <1>10, <1>11, NextCases

\* In the loop, the API is an atomic register.
THEOREM Refinement == Spec => ImplementsRegister
<1>1. Init => Register!AbstractInit
  <2>1. NotFound \in Answers
    BY RoundsAssumption DEF NotFound, Answers, Rounds
  <2> QED
    BY <2>1 DEF Init, Register!AbstractInit, OnOffer, Busy
<1>2. IndInv /\ [Next]_vars => [Register!AbstractNext]_Register!abstract
  BY RegisterStep
<1> QED
  BY Invariance, <1>1, <1>2, PTL DEF Spec, ImplementsRegister, Register!AbstractSpec
=============================================================================
