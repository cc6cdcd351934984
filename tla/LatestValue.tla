---------------------------- MODULE LatestValue ----------------------------
(***************************************************************************)
(* What the local HTTP API promises: behind each route stands a register   *)
(* that holds the latest round of one collector.  As long as the service   *)
(* is open, a request for a route it offers is answered with what the      *)
(* register holds at one instant between the request and the answer.  Only *)
(* requests made before it opens, or still under way when it closes, may   *)
(* be answered in any other way.                                           *)
(***************************************************************************)
EXTENDS Naturals

CONSTANTS
  Routes,    \* all routes there may be
  Workers,   \* those who serve a request, one at a time each
  Answers    \* all possible answers

VARIABLES
  value,     \* the round in each register, 0 for none
  open,      \* the routes on offer
  pending,   \* who is serving a request
  wanted,    \* the route of the request
  covered,   \* whose request is covered by the promise
  answer     \* the last answer of each

abstract == <<value, open, pending, wanted, covered, answer>>

\* A whole round, as an answer.
Whole(n) == [kind |-> "round", time |-> n, data |-> n]

AbstractInit ==
  /\ value = [r \in Routes |-> 0]
  /\ open = {} /\ pending = {} /\ covered = {}
  /\ answer \in [Workers -> Answers]

\* A register takes a newer round.
Store ==
  \E r \in Routes :
    /\ value' = [value EXCEPT ![r] = value'[r]]
    /\ value'[r] > value[r]
    /\ UNCHANGED <<open, pending, wanted, covered, answer>>

\* The service opens, or closes.
Open ==
  /\ open = {}
  /\ open' \subseteq Routes
  /\ UNCHANGED <<value, pending, wanted, covered, answer>>

Close ==
  /\ open' = {}
  /\ UNCHANGED <<value, pending, wanted, covered, answer>>

\* A request arrives: it is covered if its route is on offer.
Ask ==
  \E w \in Workers \ pending, r \in Routes :
    /\ pending' = pending \cup {w}
    /\ wanted' = [wanted EXCEPT ![w] = r]
    /\ covered' = IF r \in open THEN covered \cup {w} ELSE covered \ {w}
    /\ UNCHANGED <<value, open, answer>>

\* A closed service takes its promise back from the requests still under way.
Withdraw ==
  /\ open = {}
  /\ covered' = covered \ pending
  /\ UNCHANGED <<value, open, pending, wanted, answer>>

\* A request is answered.
Tell ==
  \E w \in pending, a \in Answers :
    /\ w \in covered => a = Whole(value[wanted[w]])
    /\ pending' = pending \ {w}
    /\ answer' = [answer EXCEPT ![w] = a]
    /\ UNCHANGED <<value, open, wanted, covered>>

AbstractNext == Store \/ Open \/ Close \/ Ask \/ Withdraw \/ Tell

AbstractSpec == AbstractInit /\ [][AbstractNext]_abstract
=============================================================================
