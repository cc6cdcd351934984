------------------------------ MODULE HttpApi ------------------------------
(***************************************************************************)
(* The local HTTP API: a server with a pool of workers, one HttpApi object *)
(* per collector whose route is registered while the server is already     *)
(* listening, written to once per round, and destroyed with its collector  *)
(* before the server is stopped.                                           *)
(*                                                                         *)
(* The metrics of a round are abstracted to its number.  An answer that    *)
(* reads a destroyed object, or the table of routes while it grows, is     *)
(* "undefined": whatever the build makes of it.  The server and its        *)
(* workers belong to cpp-httplib and are external.                         *)
(***************************************************************************)
EXTENDS Naturals

CONSTANTS
  Routes,     \* the collectors that want a route
  Workers,    \* the threads of the server's pool
  MaxRounds,  \* bound on the rounds
  None        \* nobody

ASSUME RoundsAssumption == MaxRounds \in Nat
ASSUME NoneAssumption == None \notin Workers \cup {"main"} /\ "main" \notin Workers

VARIABLES
  pc,       \* where the main thread is
  toAdd,    \* the collectors main() has yet to construct
  due,      \* those that have yet to be called in this round
  round,    \* the number of the round
  thread,   \* server_thread_
  table,    \* the routes registered with the server
  objects,  \* the HttpApi objects alive
  time,     \* per object, last_time_
  data,     \* per object, last_labels_ and last_metrics_
  mutex,    \* per object, who holds data_mutex_
  wpc,      \* where each worker is
  want,     \* the route it was asked for
  seen,     \* the last_time_ its handler has read
  raced,    \* workers that look up their route while the table grows (history)
  answer,   \* the last answer of each worker
  covered   \* workers whose request falls wholly into the loop (history)

main == <<pc, toAdd, due, round>>
api == <<table, objects, time, data>>
requests == <<wpc, want, seen, raced, answer, covered>>
vars == <<main, thread, api, mutex, requests>>

Rounds == 0 .. MaxRounds
Answers == [kind : {"round", "404", "undefined"}, time : Rounds, data : Rounds]
Snapshot(t, d) == [kind |-> "round", time |-> t, data |-> d]
NotFound == [kind |-> "404", time |-> 0, data |-> 0]
Undefined == [kind |-> "undefined", time |-> 0, data |-> 0]

TypeOK ==
  /\ pc \in {"start", "adding", "loop", "write", "destroying", "stop", "join", "ended"}
  /\ toAdd \subseteq Routes
  /\ due \subseteq Routes
  /\ round \in Rounds
  /\ thread \in {"none", "starting", "listening", "closing", "ended"}
  /\ table \subseteq Routes
  /\ objects \subseteq table
  /\ time \in [Routes -> Rounds]
  /\ data \in [Routes -> Rounds]
  /\ mutex \in [Routes -> Workers \cup {"main", None}]
  /\ wpc \in [Workers -> {"idle", "lookup", "enter", "locked", "hung"}]
  /\ want \in [Workers -> Routes \cup {None}]
  /\ seen \in [Workers -> Rounds]
  /\ raced \subseteq Workers
  /\ answer \in [Workers -> Answers]
  /\ covered \subseteq Workers

Init ==
  /\ pc = "start"
  /\ toAdd = Routes /\ due = {} /\ round = 0
  /\ thread = "none"
  /\ table = {} /\ objects = {}
  /\ time = [r \in Routes |-> 0] /\ data = [r \in Routes |-> 0]
  /\ mutex = [r \in Routes |-> None]
  /\ wpc = [w \in Workers |-> "idle"]
  /\ want = [w \in Workers |-> None]
  /\ seen = [w \in Workers |-> 0]
  /\ raced = {}
  /\ answer = [w \in Workers |-> NotFound]
  /\ covered = {}

\* The routes that main() has set up and not begun to tear down.
OnOffer == IF pc \in {"loop", "write"} THEN table ELSE {}

Busy == {w \in Workers : wpc[w] # "idle"}

-----------------------------------------------------------------------------
(* main()                                                                  *)

\* LocalHttpServer::start()
Start ==
  /\ pc = "start"
  /\ pc' = "adding"
  /\ thread' = "starting"
  /\ UNCHANGED <<toAdd, due, round, api, mutex, requests>>

\* A collector is constructed; its HttpApi registers a route: Server::Get appends
\* to the table that workers may be reading.
Add(r) ==
  /\ pc = "adding"
  /\ r \in toAdd
  /\ toAdd' = toAdd \ {r}
  /\ table' = table \cup {r}
  /\ objects' = objects \cup {r}
  /\ raced' = raced \cup {w \in Workers : wpc[w] = "lookup"}
  /\ UNCHANGED <<pc, due, round, thread, time, data, mutex, wpc, want, seen, answer, covered>>

\* Its construction fails: the route is registered last, so there is none.
AddFails(r) ==
  /\ pc = "adding"
  /\ r \in toAdd
  /\ toAdd' = toAdd \ {r}
  /\ UNCHANGED <<pc, due, round, thread, api, mutex, requests>>

\* Exposer::run()
Run ==
  /\ pc = "adding"
  /\ toAdd = {}
  /\ pc' = "loop"
  /\ UNCHANGED <<toAdd, due, round, thread, api, mutex, requests>>

BeginRound ==
  /\ pc = "loop"
  /\ due = {}
  /\ round < MaxRounds
  /\ round' = round + 1
  /\ due' = objects
  /\ UNCHANGED <<pc, toAdd, thread, api, mutex, requests>>

\* A collector fails before it comes to write().
SkipWrite(r) ==
  /\ pc = "loop"
  /\ r \in due
  /\ due' = due \ {r}
  /\ UNCHANGED <<pc, toAdd, round, thread, api, mutex, requests>>

\* HttpApi::write(): the lock and last_time_ ...
WriteTime(r) ==
  /\ pc = "loop"
  /\ r \in due
  /\ mutex[r] = None
  /\ mutex' = [mutex EXCEPT ![r] = "main"]
  /\ time' = [time EXCEPT ![r] = round]
  /\ pc' = "write"
  /\ UNCHANGED <<toAdd, due, round, thread, table, objects, data, requests>>

\* ... labels and metrics, and the end of the lock.
WriteData(r) ==
  /\ pc = "write"
  /\ mutex[r] = "main"
  /\ mutex' = [mutex EXCEPT ![r] = None]
  /\ data' = [data EXCEPT ![r] = round]
  /\ due' = due \ {r}
  /\ pc' = "loop"
  /\ UNCHANGED <<toAdd, round, thread, table, objects, time, requests>>

\* The loop ends, after a round or, on a FatalError, within one.
LeaveLoop ==
  /\ pc = "loop"
  /\ pc' = "destroying"
  /\ UNCHANGED <<toAdd, due, round, thread, api, mutex, requests>>

\* exposer.reset(): the objects go one by one; their routes stay in the table.
Destroy(r) ==
  /\ pc = "destroying"
  /\ r \in objects
  /\ objects' = objects \ {r}
  /\ covered' = covered \ Busy
  /\ UNCHANGED <<main, thread, table, time, data, mutex, wpc, want, seen, raced, answer>>

Destroyed ==
  /\ pc = "destroying"
  /\ objects = {}
  /\ pc' = "stop"
  /\ UNCHANGED <<toAdd, due, round, thread, api, mutex, requests>>

\* Mutant: stop() joins the thread without stopping the server.
StopOnlyJoins ==
  /\ pc = "stop"
  /\ pc' = "join"
  /\ UNCHANGED <<toAdd, due, round, thread, api, mutex, requests>>

\* LocalHttpServer::stop(): Server::stop() acts on a server that is listening.
Stop ==
  /\ pc = "stop"
  /\ pc' = "join"
  /\ thread' = IF thread = "listening" THEN "closing" ELSE thread
  /\ UNCHANGED <<toAdd, due, round, api, mutex, requests>>

\* Mutant: stop() does not join the thread.
JoinForgotten ==
  /\ pc = "join"
  /\ pc' = "ended"
  /\ UNCHANGED <<toAdd, due, round, thread, api, mutex, requests>>

Join ==
  /\ pc = "join"
  /\ thread = "ended"
  /\ pc' = "ended"
  /\ UNCHANGED <<toAdd, due, round, thread, api, mutex, requests>>

-----------------------------------------------------------------------------
(* The server, external                                                    *)

Listens ==
  /\ thread = "starting"
  /\ thread' = "listening"
  /\ UNCHANGED <<main, api, mutex, requests>>

\* The port is taken: listen() returns, and nobody looks at what.
ListenFails ==
  /\ thread = "starting"
  /\ thread' = "ended"
  /\ UNCHANGED <<main, api, mutex, requests>>

\* listen() returns when the socket is closed and the workers have been joined.
ThreadEnds ==
  /\ thread = "closing"
  /\ Busy = {}
  /\ thread' = "ended"
  /\ UNCHANGED <<main, api, mutex, requests>>

\* A request for route r goes to an idle worker.
Accept(w, r) ==
  /\ thread = "listening"
  /\ wpc[w] = "idle"
  /\ wpc' = [wpc EXCEPT ![w] = "lookup"]
  /\ want' = [want EXCEPT ![w] = r]
  /\ raced' = raced \ {w}
  /\ covered' = IF r \in OnOffer THEN covered \cup {w} ELSE covered \ {w}
  /\ UNCHANGED <<main, thread, api, mutex, seen, answer>>

\* What a worker's request ends with.
Reply(w, a) ==
  /\ wpc' = [wpc EXCEPT ![w] = "idle"]
  /\ answer' = [answer EXCEPT ![w] = a]

\* The route is found ...
Found(w) ==
  /\ wpc[w] = "lookup"
  /\ want[w] \in table
  /\ wpc' = [wpc EXCEPT ![w] = "enter"]
  /\ UNCHANGED <<main, thread, api, mutex, want, seen, raced, answer, covered>>

\* ... or not, perhaps because the table is just growing ...
Missed(w) ==
  /\ wpc[w] = "lookup"
  /\ want[w] \notin table \/ w \in raced
  /\ Reply(w, NotFound)
  /\ UNCHANGED <<main, thread, api, mutex, want, seen, raced, covered>>

\* ... or the worker reads what the growing table has left behind.
ReadGrowing(w) ==
  /\ wpc[w] = "lookup"
  /\ w \in raced
  /\ Reply(w, Undefined)
  /\ UNCHANGED <<main, thread, api, mutex, want, seen, raced, covered>>

-----------------------------------------------------------------------------
(* The handler of HttpApi::init()                                          *)

\* Mutant: the handler does not take the mutex.
ReadTimeUnlocked(w) ==
  /\ wpc[w] = "enter"
  /\ want[w] \in objects
  /\ seen' = [seen EXCEPT ![w] = time[want[w]]]
  /\ wpc' = [wpc EXCEPT ![w] = "locked"]
  /\ UNCHANGED <<main, thread, api, mutex, want, raced, answer, covered>>

\* The lock, and last_time_ ...
ReadTime(w) ==
  /\ wpc[w] = "enter"
  /\ want[w] \in objects
  /\ mutex[want[w]] = None
  /\ mutex' = [mutex EXCEPT ![want[w]] = w]
  /\ seen' = [seen EXCEPT ![w] = time[want[w]]]
  /\ wpc' = [wpc EXCEPT ![w] = "locked"]
  /\ UNCHANGED <<main, thread, api, want, raced, answer, covered>>

\* Mutant: an exception on the way out leaves the mutex locked.
ReadDataKeepsLock(w) ==
  /\ wpc[w] = "locked"
  /\ want[w] \in objects
  /\ Reply(w, Snapshot(seen[w], data[want[w]]))
  /\ UNCHANGED <<main, thread, api, mutex, want, seen, raced, covered>>

\* ... labels and metrics, the end of the lock, and the answer.
ReadData(w) ==
  /\ wpc[w] = "locked"
  /\ want[w] \in objects
  /\ mutex' = [mutex EXCEPT ![want[w]] = None]
  /\ Reply(w, Snapshot(seen[w], data[want[w]]))
  /\ UNCHANGED <<main, thread, api, want, seen, raced, covered>>

\* The object is gone before the handler begins, or while it runs: it may get through ...
ReadDestroyed(w) ==
  /\ wpc[w] \in {"enter", "locked"}
  /\ want[w] \notin objects
  /\ Reply(w, Undefined)
  /\ UNCHANGED <<main, thread, api, mutex, want, seen, raced, covered>>

\* ... or wait for ever for a mutex that is no more.
LockDestroyed(w) ==
  /\ wpc[w] = "enter"
  /\ want[w] \notin objects
  /\ wpc' = [wpc EXCEPT ![w] = "hung"]
  /\ UNCHANGED <<main, thread, api, mutex, want, seen, raced, answer, covered>>

Hung == \E w \in Workers : wpc[w] = "hung"

\* Nothing is left to do, or the process hangs.
Over == (pc = "ended" \/ Hung) /\ UNCHANGED vars

Writing == \E r \in Routes : WriteTime(r) \/ WriteData(r)
Handling(w) == Found(w) \/ Missed(w) \/ ReadGrowing(w) \/ ReadData(w) \/ ReadDestroyed(w)

Next ==
  \/ Start \/ Run \/ BeginRound \/ LeaveLoop \/ Destroyed \/ Stop \/ Join
  \/ \E r \in Routes : Add(r) \/ AddFails(r) \/ SkipWrite(r) \/ Destroy(r)
  \/ Writing
  \/ Listens \/ ListenFails \/ ThreadEnds
  \/ \E w \in Workers : Handling(w) \/ ReadTime(w) \/ LockDestroyed(w)
                          \/ \E r \in Routes : Accept(w, r)
  \/ Over

Spec == Init /\ [][Next]_vars

\* The threads run.  std::mutex promises no order, but a handler holds it for the
\* time of a copy and requests leave it free again and again.
Fairness ==
  /\ \A w \in Workers : WF_vars(Handling(w)) /\ SF_vars(ReadTime(w))
  /\ WF_vars(Destroyed) /\ WF_vars(Stop) /\ WF_vars(Join) /\ WF_vars(ThreadEnds)
  /\ \A r \in Routes : WF_vars(Destroy(r)) /\ WF_vars(WriteData(r))

FairSpec == Spec /\ Fairness

-----------------------------------------------------------------------------
(* Properties                                                              *)

\* An answer never combines the timestamp of one round with the metrics of another.
AnswerIsOneRound ==
  \A w \in Workers : answer[w].kind = "round" => answer[w].time = answer[w].data

\* Requests for a registered route made while the loop runs see an atomic register;
\* only setting up and tearing down can make an answer undefined.
Register ==
  INSTANCE LatestValue
    WITH value <- data, open <- OnOffer, pending <- Busy, wanted <- want
ImplementsRegister == Register!AbstractSpec

\* When main() returns, no worker is left to touch what static destructors free.
NothingRunsOn == pc = "ended" => thread = "ended" /\ Busy = {}

\* Every request is answered, as long as the process lives, unless the object it asks
\* for is destroyed meanwhile.
RequestsAreAnswered ==
  \A w \in Workers :
    wpc[w] = "lookup" ~> wpc[w] = "idle" \/ want[w] \in table \ objects

\* Once the loop has ended, the process ends, provided the server is listening by then
\* or has given up: Server::stop() has no effect on one that has yet to listen.  Nothing
\* else can keep it but a handler that waits for the mutex of a destroyed object.
StopEnds ==
  pc = "destroying" /\ thread # "starting" ~> pc = "ended" \/ Hung

-----------------------------------------------------------------------------
(* The inductive invariant behind the safety properties.                   *)

\* What a stage of the main thread implies for routes, objects and rounds.
Stages ==
  /\ pc \in {"start", "adding", "loop", "write"} => objects = table
  /\ pc \in {"start", "adding"} => Busy \cap covered = {}
  /\ \A r \in Routes : data[r] <= round /\ (r \in due => data[r] < round)
  /\ toAdd \cap table = {} /\ due \subseteq table
  /\ \A r \in toAdd : time[r] = data[r]
  /\ \A w \in Workers : wpc[w] \in {"enter", "locked", "hung"} => want[w] \in table

\* Who holds the mutex of an object, and what it protects.
Locks ==
  /\ \A w \in Workers : wpc[w] = "locked" /\ want[w] \in objects =>
       mutex[want[w]] = w /\ seen[w] = time[want[w]]
  /\ \A r \in objects : mutex[r] # "main" => time[r] = data[r]
  /\ \A r \in Routes : mutex[r] = "main" => pc = "write" /\ r \in due /\ time[r] = round
  /\ \A r, s \in Routes : mutex[r] = "main" /\ mutex[s] = "main" => r = s

\* A request that is covered finds its object.
CoveredIsServed ==
  \A w \in Busy \cap covered : want[w] \in objects /\ w \notin raced

\* The server has ended before main() does.
ServerDown ==
  /\ pc = "ended" => thread = "ended"
  /\ thread \in {"none", "starting", "ended"} => Busy = {}
  /\ pc = "start" <=> thread = "none"

IndInv ==
  /\ TypeOK
  /\ AnswerIsOneRound
  /\ Stages
  /\ Locks
  /\ CoveredIsServed
  /\ ServerDown
=============================================================================
