---------------------------- MODULE ClusterImpl ----------------------------
(***************************************************************************)
(* ClusterImpl: one Redis connection shared, under redisMutex_, by the     *)
(* main thread (sample(), the destructor) and the heartbeat thread.        *)
(*                                                                         *)
(* Every Redis command is a step of its own: between two of them the       *)
(* connection may break or the server become unreachable, which a thread   *)
(* learns only from a null reply.  Replies are abstracted to "ok", an      *)
(* error reply and no reply; latencies and counts to known and -1.  The    *)
(* key's time to live is the subject of another module.                    *)
(***************************************************************************)
EXTENDS Naturals

CONSTANT Heartbeat   \* config_.heartbeat
ASSUME HeartbeatAssumption == Heartbeat \in BOOLEAN

VARIABLES
  mpc,         \* where the main thread is
  hpc,         \* where the heartbeat thread is
  mutex,       \* the holder of redisMutex_
  ctx,         \* ctx_: "null", or a context that is "up" or "broken"
  contexts,    \* hiredis contexts allocated and not yet freed (history)
  isConnected, \* isConnected_
  keepRunning, \* keepRunning_
  reachable,   \* the Redis server answers connection attempts
  m,           \* the metrics of the sample under way
  published    \* the metrics of the last complete sample

shared == <<ctx, contexts, isConnected>>
main == <<mpc, m, published>>
redisVars == <<mpc, hpc, mutex, ctx, contexts, isConnected, keepRunning, reachable,
          m, published>>

Sampling == {"ensure", "ping", "count", "scan", "publish"}
Beating == {"beatEnsure", "set"}
Metrics == [redisConnected : {0, 1}, latency : {"ms", "-1"}, count : {"n", "-1"}]

RedisTypeOK ==
  /\ mpc \in {"construct", "idle", "fatal", "join", "disconnect", "gone", "failed"}
             \cup Sampling
  /\ hpc \in {"none", "check", "lock", "sleep", "done"} \cup Beating
  /\ mutex \in {"free", "main", "beat"}
  /\ ctx \in {"null", "up", "broken"}
  /\ contexts \in Nat
  /\ isConnected \in BOOLEAN
  /\ keepRunning \in BOOLEAN
  /\ reachable \in BOOLEAN
  /\ m \in Metrics
  /\ published \in Metrics

\* ClusterMetrics()
Blank == [redisConnected |-> 0, latency |-> "-1", count |-> "n"]

RedisInit ==
  /\ mpc = "construct" /\ hpc = "none" /\ mutex = "main"
  /\ ctx = "null" /\ contexts = 0 /\ isConnected = FALSE
  /\ keepRunning = FALSE
  /\ reachable \in BOOLEAN
  /\ m = Blank /\ published = Blank

-----------------------------------------------------------------------------
(* The connection                                                          *)

\* if (ctx_) redisFree(ctx_)
Freed == IF ctx = "null" THEN contexts ELSE contexts - 1

\* ensureConnection() returning true: the old connection, or a new one for
\* which the stale context is freed first.
EnsureOk ==
  \/ ctx # "null" /\ isConnected /\ UNCHANGED shared
  \/ /\ ctx = "null" \/ ~isConnected
     /\ reachable
     /\ ctx' = "up" /\ contexts' = Freed + 1 /\ isConnected' = TRUE

\* ensureConnection() returning false: no connection, or AUTH refused.
EnsureFails ==
  /\ ctx = "null" \/ ~isConnected
  /\ ctx' = "null" /\ contexts' = Freed /\ isConnected' = FALSE

\* A command is answered; or the reply is null and the context is freed.
Answered == ctx = "up" /\ UNCHANGED shared
\* Mutant: redisFree(ctx_) without ctx_ = nullptr.
NoReplyDangling ==
  /\ isConnected' = FALSE
  /\ ctx' = ctx /\ contexts' = Freed

NoReply ==
  /\ isConnected' = FALSE
  /\ ctx' = "null" /\ contexts' = Freed

\* The network, external: an established connection breaks, the server
\* becomes reachable or unreachable.
Breaks ==
  /\ ctx = "up"
  /\ ctx' = "broken"
  /\ UNCHANGED <<main, hpc, mutex, contexts, isConnected, keepRunning, reachable>>

Reachability ==
  /\ reachable' = ~reachable
  /\ UNCHANGED <<main, hpc, mutex, shared, keepRunning>>

-----------------------------------------------------------------------------
(* The main thread                                                         *)

\* The constructor, under the mutex: FatalError without a first connection.
Construct ==
  /\ mpc = "construct"
  /\ mutex' = "free"
  /\ \/ EnsureOk /\ mpc' = "idle" /\ keepRunning' = Heartbeat
        /\ hpc' = IF Heartbeat THEN "check" ELSE "none"
     \/ EnsureFails /\ mpc' = "failed" /\ UNCHANGED <<keepRunning, hpc>>
  /\ UNCHANGED <<reachable, m, published>>

SampleStart ==
  /\ mpc = "idle"
  /\ mutex = "free"
  /\ mutex' = "main"
  /\ mpc' = "ensure"
  /\ m' = Blank
  /\ UNCHANGED <<hpc, shared, keepRunning, reachable, published>>

\* FatalError unwinds through the lock_guard.
SampleEnsure ==
  /\ mpc = "ensure"
  /\ \/ /\ EnsureOk
        /\ mpc' = "ping" /\ m' = [m EXCEPT !.redisConnected = 1]
        /\ mutex' = mutex
     \/ /\ EnsureFails
        /\ mpc' = "fatal" /\ mutex' = "free" /\ m' = m
  /\ UNCHANGED <<hpc, keepRunning, reachable, published>>

Ping ==
  /\ mpc = "ping"
  /\ \/ Answered /\ \E l \in {"ms", "-1"} : m' = [m EXCEPT !.latency = l]
     \/ ctx = "broken" /\ NoReply /\ m' = [m EXCEPT !.latency = "-1"]
  /\ mpc' = "count"
  /\ UNCHANGED <<hpc, mutex, keepRunning, reachable, published>>

\* countActiveNodes() throws RecoverableError, which sample() turns into -1.
Uncounted ==
  /\ m' = [m EXCEPT !.count = "-1"]
  /\ mpc' = "publish"

\* Mutant: countActiveNodes() relies on the connection sample() ensured.
CountUnensured ==
  /\ mpc = "count"
  /\ mpc' = "scan"
  /\ UNCHANGED <<hpc, mutex, shared, keepRunning, reachable, m, published>>

\* ensureConnection() once more, at the head of countActiveNodes().
CountEnsure ==
  /\ mpc = "count"
  /\ \/ EnsureOk /\ mpc' = "scan" /\ m' = m
     \/ EnsureFails /\ Uncounted
  /\ UNCHANGED <<hpc, mutex, keepRunning, reachable, published>>

\* Mutant: a null reply is ignored and the page asked for again.
ScanRetriesForever ==
  /\ mpc = "scan"
  /\ \/ Answered /\ mpc' \in {"scan", "publish"} /\ m' = m
     \/ Answered /\ Uncounted
     \/ ctx = "broken" /\ UNCHANGED <<shared, mpc, m>>
  /\ UNCHANGED <<hpc, mutex, keepRunning, reachable, published>>

\* One SCAN: a further cursor, the last cursor, an error or malformed reply,
\* no reply.
Scan ==
  /\ mpc = "scan"
  /\ \/ Answered /\ mpc' \in {"scan", "publish"} /\ m' = m
     \/ Answered /\ Uncounted
     \/ ctx = "broken" /\ NoReply /\ Uncounted
  /\ UNCHANGED <<hpc, mutex, keepRunning, reachable, published>>

Publish ==
  /\ mpc = "publish"
  /\ published' = m
  /\ mutex' = "free"
  /\ mpc' = "idle"
  /\ UNCHANGED <<hpc, shared, keepRunning, reachable, m>>

\* Mutant: the destructor holds redisMutex_ while it joins.
StopHeartbeatLocked ==
  /\ mpc \in {"idle", "fatal"}
  /\ mutex = "free" /\ mutex' = "main"
  /\ keepRunning' = FALSE
  /\ mpc' = "join"
  /\ UNCHANGED <<hpc, shared, reachable, m, published>>

\* ~ClusterImpl: stopHeartbeat() takes no lock ...
StopHeartbeat ==
  /\ mpc \in {"idle", "fatal"}
  /\ keepRunning' = FALSE
  /\ mpc' = "join"
  /\ UNCHANGED <<hpc, mutex, shared, reachable, m, published>>

\* Mutant: the thread is detached.
JoinDetaches ==
  /\ mpc = "join"
  /\ mpc' = "disconnect"
  /\ UNCHANGED <<hpc, mutex, shared, keepRunning, reachable, m, published>>

Join ==
  /\ mpc = "join"
  /\ hpc \in {"none", "done"}
  /\ mpc' = "disconnect"
  /\ UNCHANGED <<hpc, mutex, shared, keepRunning, reachable, m, published>>

\* ... and disconnect() frees the context under it.
Disconnect ==
  /\ mpc = "disconnect"
  /\ mutex = "free"
  /\ ctx' = "null" /\ contexts' = Freed /\ isConnected' = FALSE
  /\ mpc' = "gone"
  /\ UNCHANGED <<hpc, mutex, keepRunning, reachable, m, published>>

-----------------------------------------------------------------------------
(* The heartbeat thread                                                    *)

BeatCheck ==
  /\ hpc = "check"
  /\ hpc' = IF keepRunning THEN "lock" ELSE "done"
  /\ UNCHANGED <<main, mutex, shared, keepRunning, reachable>>

BeatLock ==
  /\ hpc = "lock"
  /\ mutex = "free"
  /\ mutex' = "beat"
  /\ hpc' = "beatEnsure"
  /\ UNCHANGED <<main, shared, keepRunning, reachable>>

\* Mutant: a lost connection throws out of the heartbeat thread.
BeatEnsureThrows ==
  /\ hpc = "beatEnsure"
  /\ \/ EnsureOk /\ hpc' = "set" /\ mutex' = mutex
     \/ EnsureFails /\ hpc' = "done" /\ mutex' = "free"
  /\ UNCHANGED <<main, keepRunning, reachable>>

\* sendHeartbeatPayload() gives up without a connection ...
BeatEnsure ==
  /\ hpc = "beatEnsure"
  /\ \/ EnsureOk /\ hpc' = "set" /\ mutex' = mutex
     \/ EnsureFails /\ hpc' = "sleep" /\ mutex' = "free"
  /\ UNCHANGED <<main, keepRunning, reachable>>

\* ... and otherwise sends SET key EX ttl, whatever the reply.
Set ==
  /\ hpc = "set"
  /\ Answered \/ (ctx = "broken" /\ NoReply)
  /\ hpc' = "sleep"
  /\ mutex' = "free"
  /\ UNCHANGED <<main, keepRunning, reachable>>

\* The ten slices of sleep end, or keepRunning_ is seen down in between.
Wake ==
  /\ hpc = "sleep"
  /\ hpc' = "check"
  /\ UNCHANGED <<main, mutex, shared, keepRunning, reachable>>

\* Nothing left to do.
Over == mpc \in {"gone", "failed"} /\ UNCHANGED redisVars

MainStep ==
  SampleEnsure \/ Ping \/ CountEnsure \/ Scan \/ Publish \/ Join \/ Disconnect
BeatStep == BeatCheck \/ BeatEnsure \/ Set \/ Wake

RedisNext ==
  \/ Construct \/ SampleStart \/ StopHeartbeat \/ MainStep
  \/ BeatLock \/ BeatStep
  \/ Breaks \/ Reachability \/ Over

RedisSpec == RedisInit /\ [][RedisNext]_redisVars

\* Both threads run; every Redis command ends (500 ms timeout); SCAN reaches
\* its last cursor; a thread that waits for the mutex is served in the long
\* run, since the other one sleeps between two uses of it.
RedisFairness ==
  /\ WF_redisVars(MainStep) /\ SF_redisVars(Scan /\ mpc' = "publish")
  /\ WF_redisVars(BeatStep) /\ SF_redisVars(BeatLock)
RedisFairSpec == RedisSpec /\ RedisFairness

-----------------------------------------------------------------------------
(* Properties                                                              *)

\* The context, and the flag beside it, are used by the holder of the mutex
\* only, and never after the destructor has freed them.
OneUser ==
  /\ mpc # "construct" => (mpc \in Sampling <=> mutex = "main")
  /\ hpc \in Beating <=> mutex = "beat"
  /\ mpc \in {"disconnect", "gone"} => hpc \in {"none", "done"}

\* A command is sent on an existing context, however many commands have failed
\* since the connection was ensured.
ContextAtHand ==
  (mpc \in {"ping", "scan"} \/ hpc = "set") => ctx # "null"

\* Reconnecting neither leaks a context nor frees one twice.
OneContext == contexts = IF ctx = "null" THEN 0 ELSE 1

\* The flag and the pointer never disagree once an operation is complete.
FlagMatchesContext == isConnected = (ctx # "null")

\* A count that is published rests on a connection that outlived the whole
\* SCAN; after a lost connection the next sample reconnects or gives up.
CountIsBacked ==
  mpc = "publish" /\ m.count = "n" => ctx # "null" /\ isConnected

\* The destructor ends, whatever the heartbeat thread is doing.
DestructorEnds == mpc = "join" ~> mpc = "gone"

\* As long as the thread is wanted there is always a next heartbeat, however
\* many have failed and however long the samples keep the mutex busy.
HeartbeatRetries ==
  keepRunning ~> (hpc = "beatEnsure" \/ ~keepRunning)

\* A sample that was begun is published or ends the collection.
SampleEnds == mpc = "ensure" ~> mpc \in {"idle", "fatal"}

\* The constructor runs before there is a heartbeat thread.
Begins == mpc = "construct" => mutex = "main" /\ hpc = "none"

\* The inductive invariant: the mutual exclusion and the state of the connection
\* rely on each other, each thread on the other leaving the context alone.
RedisInv ==
  /\ RedisTypeOK
  /\ OneUser
  /\ ContextAtHand
  /\ OneContext
  /\ FlagMatchesContext
  /\ CountIsBacked
  /\ Begins
=============================================================================
