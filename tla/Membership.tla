---------------------------- MODULE Membership ----------------------------
(***************************************************************************)
(* How many nodes the cluster has, as one node sees it: every node renews  *)
(* a Redis key of its own that lives TTL units of time, and the sample of  *)
(* the observing node counts such keys with a SCAN that takes several      *)
(* commands.  ClusterImpl is the inside of one node (mutex, context,       *)
(* threads); here are its time and the other nodes.                        *)
(*                                                                         *)
(* Time is discrete and kept in timers that count down, or up to a bound,  *)
(* so that runs of any length have finitely many states.  A command may    *)
(* travel: a SET reaches Redis up to MaxFlight units after it was sent,    *)
(* also when its sender has given it up or died.  Redis is external: a     *)
(* SCAN returns keys that exist, possibly again, and does not end before   *)
(* it has returned every key that existed from its start to its end.       *)
(***************************************************************************)
EXTENDS Naturals, FiniteSets

CONSTANTS
  Nodes,
  Observer,   \* the node whose sample counts
  TTL,        \* ttlSeconds
  MaxDelay,   \* a heartbeat that takes longer than this is late (mutex,
              \* reconnection, scheduling, network)
  MaxFlight,  \* how long a SET can be on its way
  MaxPages    \* bound on the SCAN commands of one sample

\* intervalMs; its floor of 100 ms is below TTL / 2 for every TTL of a second
Interval == TTL \div 2

ASSUME NodesAssumption == IsFiniteSet(Nodes) /\ Observer \in Nodes
ASSUME TimeAssumption == TTL \in Nat /\ MaxDelay \in Nat /\ MaxFlight \in Nat \ {0}
\* The renewal reaches Redis in time unless a heartbeat is late
ASSUME RenewalAssumption == Interval > 0 /\ Interval + 2 * MaxDelay < TTL
ASSUME FlightAssumption == MaxFlight <= Interval
ASSUME PagesAssumption == MaxPages \in Nat \ {0}

VARIABLES
  life,   \* the rest of the life of each node's key, 0 when Redis has none
  wire,   \* how long each node's SET may still be on its way, 0 when none is
  phase,  \* the heartbeat thread: "down", "due", "sent", "answered", "asleep"
  timer,  \* "asleep": the sleep that is left; "down": the time since it went
          \* down; otherwise the time this heartbeat has taken
  ok,     \* nodes whose last heartbeat was answered, and none late since (history)
  scan    \* the sample in progress

node == <<life, wire, phase, timer, ok>>
vars == <<node, scan>>

\* A key is gone for certain when its node has been down for so long
Forgotten == TTL + MaxFlight - 1

Idle == [on |-> FALSE, pages |-> 0, count |-> 0, seen |-> {}, again |-> 0,
         stayed |-> {}, steady |-> {}, gone |-> {}]

Samples ==
  [on : BOOLEAN, pages : Nat, count : Nat, seen : SUBSET Nodes, again : Nat,
   stayed : SUBSET Nodes, steady : SUBSET Nodes, gone : SUBSET Nodes]

TypeOK ==
  /\ life \in [Nodes -> 0 .. TTL]
  /\ wire \in [Nodes -> 0 .. MaxFlight]
  /\ phase \in [Nodes -> {"down", "due", "sent", "answered", "asleep"}]
  /\ timer \in [Nodes -> Nat]
  /\ ok \subseteq Nodes
  /\ scan \in Samples

Init ==
  /\ life = [n \in Nodes |-> 0]
  /\ wire = [n \in Nodes |-> 0]
  /\ \E p \in {"due", "down"} :  \* config_.heartbeat of the observer
       phase = [n \in Nodes |-> IF n = Observer THEN p ELSE "down"]
  /\ timer = [n \in Nodes |-> IF phase[n] = "due" THEN 0 ELSE Forgotten]
  /\ ok = {}
  /\ scan = Idle

\* What a failed or late heartbeat, or a death, means for the sample in progress
Lapse(S) ==
  /\ ok' = ok \ S
  /\ scan' = [scan EXCEPT !.steady = @ \ S]

-----------------------------------------------------------------------------
(* Time: keys expire, threads sleep and wake, and heartbeats that wait for *)
(* the mutex, the connection or the answer grow late                       *)

Less(k) == IF k > 0 THEN k - 1 ELSE 0

Waiting(n) == phase[n] \in {"due", "sent", "answered"}
Wakes(n) == phase[n] = "asleep" /\ timer[n] <= 1

Passes(n) ==
  CASE Wakes(n) -> 0
    [] phase[n] = "asleep" /\ ~Wakes(n) -> timer[n] - 1
    [] phase[n] = "down" -> IF timer[n] < Forgotten THEN timer[n] + 1 ELSE Forgotten
    [] Waiting(n) -> IF timer[n] <= MaxDelay THEN timer[n] + 1 ELSE timer[n]

Tick ==
  /\ life' = [n \in Nodes |-> Less(life[n])]
  /\ wire' = [n \in Nodes |-> Less(wire[n])]
  /\ timer' = [n \in Nodes |-> Passes(n)]
  /\ phase' = [n \in Nodes |-> IF Wakes(n) THEN "due" ELSE phase[n]]
  /\ LET late == {n \in Nodes : Waiting(n) /\ timer[n] >= MaxDelay}
     IN  /\ ok' = ok \ late
         /\ scan' = [scan EXCEPT !.steady = @ \ late,
                                 !.stayed = {n \in @ : life[n] > 1}]

-----------------------------------------------------------------------------
(* The heartbeat of a node                                                 *)

\* Mutant: the sleep is as long as the life of the key.
SleepsTTL(n) ==
  /\ phase' = [phase EXCEPT ![n] = "asleep"]
  /\ timer' = [timer EXCEPT ![n] = TTL]

Sleeps(n) ==
  /\ phase' = [phase EXCEPT ![n] = "asleep"]
  /\ timer' = [timer EXCEPT ![n] = Interval]

\* startHeartbeat(): the first heartbeat is sent at once
Starts(n) ==
  /\ n # Observer
  /\ phase[n] = "down"
  /\ phase' = [phase EXCEPT ![n] = "due"]
  /\ timer' = [timer EXCEPT ![n] = 0]
  /\ scan' = [scan EXCEPT !.gone = @ \ {n}]
  /\ UNCHANGED <<life, wire, ok>>

\* The mutex is free (the observer's sample holds its own) and the connection is up
Send(n) ==
  /\ phase[n] = "due"
  /\ n = Observer => ~scan.on
  /\ phase' = [phase EXCEPT ![n] = "sent"]
  /\ wire' = [wire EXCEPT ![n] = MaxFlight]
  /\ UNCHANGED <<life, timer, ok, scan>>

\* Mutant: the key is made to live longer than it has to.
AppliedLonger(n) ==
  /\ wire[n] > 0
  /\ life' = [life EXCEPT ![n] = TTL + Interval]
  /\ wire' = [wire EXCEPT ![n] = 0]
  /\ phase' = [phase EXCEPT ![n] = IF @ = "sent" THEN "answered" ELSE @]
  /\ UNCHANGED <<timer, ok, scan>>

\* SET key 1 EX ttl
Applied(n) ==
  /\ wire[n] > 0
  /\ life' = [life EXCEPT ![n] = TTL]
  /\ wire' = [wire EXCEPT ![n] = 0]
  /\ phase' = [phase EXCEPT ![n] = IF @ = "sent" THEN "answered" ELSE @]
  /\ UNCHANGED <<timer, ok, scan>>

Answer(n) ==
  /\ phase[n] = "answered"
  /\ Sleeps(n)
  /\ ok' = IF timer[n] <= MaxDelay THEN ok \union {n} ELSE ok
  /\ UNCHANGED <<life, wire, scan>>

\* No connection, or no answer within the I/O timeout, whether or not the SET
\* arrives: the next attempt is that of the next interval
BeatFails(n) ==
  /\ Waiting(n)
  /\ phase[n] = "due" /\ n = Observer => ~scan.on
  /\ Sleeps(n)
  /\ Lapse({n})
  /\ UNCHANGED <<life, wire>>

\* An error reply: Redis has not set the key
Rejected(n) ==
  /\ phase[n] = "sent" /\ wire[n] > 0
  /\ wire' = [wire EXCEPT ![n] = 0]
  /\ Sleeps(n)
  /\ Lapse({n})
  /\ UNCHANGED life

\* The end of a node, orderly or not: its key is left to expire
Dies(n) ==
  /\ n # Observer
  /\ phase[n] # "down"
  /\ phase' = [phase EXCEPT ![n] = "down"]
  /\ timer' = [timer EXCEPT ![n] = 0]
  /\ Lapse({n})
  /\ UNCHANGED <<life, wire>>

-----------------------------------------------------------------------------
(* sample() of the observer                                                *)

Alive == {n \in Nodes : life[n] > 0}

\* The mutex is taken: the observer's heartbeat is not between SET and answer
BeginSample ==
  /\ ~scan.on
  /\ phase[Observer] \notin {"sent", "answered"}
  /\ scan' = [Idle EXCEPT !.on = TRUE,
                          !.stayed = Alive,
                          !.steady = ok,
                          !.gone = {n \in Nodes : phase[n] = "down" /\ timer[n] >= Forgotten}]
  /\ UNCHANGED node

\* Mutant: the count is the keys of the last answer.
CountOfPage(keys) == Cardinality(keys)

\* The keys of one answer are added to the count
Count(keys) == scan.count + Cardinality(keys)

Page(keys) ==
  [scan EXCEPT !.pages = @ + 1,
               !.count = Count(keys),
               !.seen = @ \union keys,
               !.again = @ + Cardinality(keys \intersect scan.seen)]

\* A cursor other than "0"
ScanPage ==
  /\ scan.on
  /\ scan.pages < MaxPages - 1
  /\ \E keys \in SUBSET Alive : scan' = Page(keys)
  /\ UNCHANGED node

\* The cursor is "0": the count is complete and published
LastPage ==
  /\ scan.on
  /\ scan.pages < MaxPages
  /\ \E keys \in SUBSET Alive :
       /\ scan.stayed \subseteq scan.seen \union keys
       /\ scan' = [Page(keys) EXCEPT !.on = FALSE]
  /\ UNCHANGED node

\* The connection is lost or Redis reports an error: -1 is published
SampleFails ==
  /\ scan.on
  /\ scan' = Idle
  /\ UNCHANGED node

-----------------------------------------------------------------------------

Beats(n) == Send(n) \/ Answer(n) \/ BeatFails(n) \/ Rejected(n)
Sample == BeginSample \/ ScanPage \/ LastPage \/ SampleFails

Next ==
  \/ Tick
  \/ \E n \in Nodes : Starts(n) \/ Beats(n) \/ Applied(n) \/ Dies(n)
  \/ Sample

\* Nothing but time is sure to go on: any node may stop, any sample may hang
Spec == Init /\ [][Next]_vars /\ WF_vars(Tick)

-----------------------------------------------------------------------------
(* Properties                                                              *)

\* A complete count is published
Publishes == scan.on /\ ~scan'.on /\ scan'.pages > 0

\* A live node is not missed: a published count includes every node whose last
\* heartbeat before the sample was answered and whose heartbeats stayed in time
\* until the count was complete, although its key is renewed while the SCAN runs
\* (startHeartbeat(), sendHeartbeatPayload(), countActiveNodes()).
SteadyIsCounted ==
  [][Publishes => scan'.count >= Cardinality(scan'.steady)]_vars

\* A dead node is forgotten although nobody deletes its key: one that was down for
\* the TTL and the flight of its last SET before the sample began is not in the
\* count, whatever else SCAN returns twice (EX in sendHeartbeatPayload()).
DeadIsForgotten ==
  [][Publishes => scan'.count <= Cardinality(Nodes \ scan'.gone) + scan'.again]_vars

\* S are the nodes that are up, with every heartbeat answered in time
Settled(S) == ok = S /\ \A n \in Nodes \ S : phase[n] = "down"

\* Once the cluster settles, the counts that countActiveNodes() publishes are, from
\* some time on, the number of nodes that are up, except for keys returned twice.
CountConverges ==
  \A S \in SUBSET Nodes :
    <>[]Settled(S) => <>[][Publishes => scan'.count - scan'.again = Cardinality(S)]_vars

-----------------------------------------------------------------------------
=============================================================================
