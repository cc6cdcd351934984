------------------------------ MODULE Database ------------------------------
(***************************************************************************)
(* A collector's database sink: Database<> and the writeInfo/writeMetric   *)
(* of its four subclasses, which all follow one protocol, against a        *)
(* PostgreSQL session that can be lost at any moment.                      *)
(*                                                                         *)
(* The client sees the session only through the result of its statements   *)
(* and through PQstatus (conn); the session itself (link, session,         *)
(* pending) and the tables are external.  A row is the pair of the call    *)
(* of writeMetric that inserts it and the label it is for; the metric      *)
(* values play no part.  The process may be killed and started again.      *)
(***************************************************************************)
EXTENDS Naturals, Sequences

CONSTANTS
  Sinks,       \* the database sinks there may be
  NumLabels,   \* per sink, the devices in label_list
  Keyed,       \* those like SYSDatabase: PRIMARY KEY (timestamp), and no info table
  MaxCalls,    \* bound on the calls of writeMetric
  MaxTime      \* bound on the timestamps

ASSUME LabelsAssumption == NumLabels \in [Sinks -> Nat \ {0}]
\* SYSImpl::labels() returns one label.
ASSUME KeyAssumption == Keyed \subseteq Sinks /\ \A s \in Keyed : NumLabels[s] = 1
ASSUME BoundsAssumption == MaxCalls \in Nat /\ MaxTime \in Nat

Calls == 1 .. MaxCalls

VARIABLES
  sink,     \* the sink at hand, always the same
  pc,       \* where the collector is in its use of the database
  kind,     \* "info" in writeInfo, "metric" in writeMetric
  row,      \* the loop index of the call under way
  call,     \* calls of writeMetric so far
  stamp,    \* cur_time of each call
  conn,     \* PQstatus(conn), as the client knows it
  link,     \* the session is really there
  session,  \* its transaction state: "idle", "open", "failed"
  pending,  \* labels inserted in the open transaction
  table,    \* committed rows <<call, label>> of the metric table
  info,     \* committed labels of the info table
  result,   \* how each call ended, "killed" for one the process died in (history)
  silent    \* calls on this connection that lost a tick to its breaking (history)

client == <<pc, kind, row, conn>>
server == <<link, session, pending, table, info>>
log == <<call, stamp>>
history == <<result, silent>>
dbVars == <<sink, client, server, log, history>>

Results == {"none", "stored", "lost", "unconfirmed", "killed"}

Last == NumLabels[sink]
Labels == 1 .. Last

DBTypeOK ==
  /\ sink \in Sinks
  /\ pc \in {"down", "idle", "begin", "insert", "rollback", "commit", "dead"}
  /\ kind \in {"info", "metric"}
  /\ row \in Nat
  /\ call \in 0 .. MaxCalls
  /\ stamp \in Seq(Nat)
  /\ conn \in {"ok", "bad"}
  /\ link \in {"up", "down"}
  /\ session \in {"idle", "open", "failed"}
  /\ pending \subseteq Labels
  /\ table \subseteq Calls \X Labels
  /\ info \subseteq Labels
  /\ result \in [Calls -> Results]
  /\ silent \in Nat

DBInit ==
  /\ sink \in Sinks
  /\ pc = "down" /\ kind = "info" /\ row = 1 /\ conn = "bad"
  /\ link = "down" /\ session = "idle" /\ pending = {}
  /\ table = {} /\ info = {}
  /\ call = 0 /\ stamp = <<>>
  /\ result = [c \in Calls |-> "none"] /\ silent = 0

-----------------------------------------------------------------------------
(* The session: external                                                   *)

\* What the server does when a session goes away: its transaction is undone.
SessionLost == link' = "down" /\ session' = "idle" /\ pending' = {}

LinkBreaks ==
  /\ link = "up"
  /\ SessionLost
  /\ UNCHANGED <<sink, client, table, info, log, history>>

\* The timestamps already in the metric table.
StampsStored == {stamp[r[1]] : r \in table}

\* The server rejects an insert that violates the key (and may reject any other).
MustReject == kind = "metric" /\ sink \in Keyed /\ stamp[call] \in StampsStored

\* The client has come to the end of its rows and calls commitTransaction().
Committing == pc = "insert" /\ row > Last

\* The server obeys COMMIT: the rows are durable, whether or not the client lives to
\* hear of it.  From here the client waits for the answer.
ServerCommits ==
  /\ Committing
  /\ link = "up"
  /\ pc' = "commit"
  /\ session' = "idle" /\ pending' = {}
  /\ IF kind = "info"
       THEN info' = info \cup pending /\ table' = table
       ELSE table' = table \cup ({call} \X pending) /\ info' = info
  /\ UNCHANGED <<sink, kind, row, conn, link, log, history>>

-----------------------------------------------------------------------------
(* The collector                                                           *)

\* A call returns normally, having ended in r.
Return(r) ==
  /\ pc' = "idle"
  /\ result' = IF kind = "metric" THEN [result EXCEPT ![call] = r] ELSE result
  /\ silent' = IF kind = "metric" /\ r # "stored" /\ conn' = "bad"
                  THEN silent + 1 ELSE silent

\* The constructor connects and creates the tables; init() calls writeInfo(),
\* which does nothing in SYSDatabase.
Connect ==
  /\ pc = "down"
  /\ link' = "up" /\ conn' = "ok" /\ session' = "idle" /\ pending' = {}
  /\ pc' = (IF sink \in Keyed THEN "idle" ELSE "begin") /\ kind' = "info" /\ row' = 1
  /\ silent' = 0
  /\ UNCHANGED <<sink, table, info, log, result>>

\* Mutant: writeMetric() does not ask isConnected().
CallWriteUnasked ==
  /\ pc = "idle"
  /\ call < MaxCalls
  /\ call' = call + 1
  /\ \E t \in 1 .. MaxTime : stamp' = Append(stamp, t)
  /\ kind' = "metric" /\ row' = 1
  /\ pc' = "begin"
  /\ UNCHANGED <<sink, conn, server, history>>

\* writeMetric(): FatalError at once if the client knows the session is lost.
CallWrite ==
  /\ pc = "idle"
  /\ call < MaxCalls
  /\ call' = call + 1
  /\ \E t \in 1 .. MaxTime : stamp' = Append(stamp, t)
  /\ kind' = "metric" /\ row' = 1
  /\ pc' = IF conn = "ok" THEN "begin" ELSE "dead"
  /\ UNCHANGED <<sink, conn, server, history>>

Begin ==
  /\ pc = "begin"
  /\ link = "up"
  /\ UNCHANGED <<sink, kind, row, conn, link, pending, table, info, log>>
  /\ IF session = "failed"
       THEN session' = session /\ Return("lost")
       ELSE session' = "open" /\ pc' = "insert" /\ UNCHANGED history

BeginFails ==
  /\ pc = "begin"
  /\ link = "down"
  /\ conn' = "bad"
  /\ Return("lost")
  /\ UNCHANGED <<sink, kind, row, server, log>>

\* Mutant: useTransaction is ignored, every insert commits by itself.
InsertAutocommits ==
  /\ pc = "insert"
  /\ row <= Last
  /\ link = "up"
  /\ ~MustReject
  /\ IF kind = "info" THEN info' = info \cup {row} /\ table' = table
                      ELSE table' = table \cup {<<call, row>>} /\ info' = info
  /\ row' = row + 1
  /\ UNCHANGED <<sink, pc, kind, conn, link, session, pending, log, history>>

Insert ==
  /\ pc = "insert"
  /\ row <= Last
  /\ link = "up"
  /\ ~MustReject
  /\ pending' = pending \cup {row}
  /\ row' = row + 1
  /\ UNCHANGED <<sink, pc, kind, conn, link, session, table, info, log, history>>

\* Mutant: a failed insert returns without ROLLBACK.
InsertFailsNoRollback ==
  /\ pc = "insert"
  /\ row <= Last
  /\ IF link = "up"
       THEN conn' = conn /\ session' = "failed" /\ pending' = {}
       ELSE conn' = "bad" /\ UNCHANGED <<session, pending>>
  /\ Return("lost")
  /\ UNCHANGED <<sink, kind, row, link, table, info, log>>

InsertFails ==
  /\ pc = "insert"
  /\ row <= Last
  /\ IF link = "up"
       THEN conn' = conn /\ session' = "failed" /\ pending' = {}
       ELSE conn' = "bad" /\ UNCHANGED <<session, pending>>
  /\ pc' = "rollback"
  /\ UNCHANGED <<sink, kind, row, link, table, info, log, history>>

\* Mutant: the success message is logged after a rolled back round, too.
RollbackReportsSuccess ==
  /\ pc = "rollback"
  /\ IF link = "up"
       THEN conn' = conn /\ session' = "idle" /\ pending' = {}
       ELSE conn' = "bad" /\ UNCHANGED <<session, pending>>
  /\ Return("stored")
  /\ UNCHANGED <<sink, kind, row, link, table, info, log>>

Rollback ==
  /\ pc = "rollback"
  /\ IF link = "up"
       THEN conn' = conn /\ session' = "idle" /\ pending' = {}
       ELSE conn' = "bad" /\ UNCHANGED <<session, pending>>
  /\ Return("lost")
  /\ UNCHANGED <<sink, kind, row, link, table, info, log>>

\* The answer to COMMIT arrives.
Commit ==
  /\ pc = "commit"
  /\ link = "up"
  /\ Return("stored")
  /\ UNCHANGED <<sink, kind, row, conn, server, log>>

\* The server refuses COMMIT and undoes the transaction, or its answer never arrives:
\* it may have obeyed or not.
CommitFails ==
  /\ \/ Committing /\ link = "up" /\ conn' = conn /\ session' = "idle" /\ pending' = {}
     \/ /\ Committing \/ pc = "commit"
        /\ link = "down" /\ conn' = "bad"
        /\ UNCHANGED <<session, pending>>
  /\ Return("unconfirmed")
  /\ UNCHANGED <<sink, kind, row, link, table, info, log>>

\* writeMetric() has been called and has not returned.
UnderWay == kind = "metric" /\ pc \in {"begin", "insert", "rollback", "commit"}

\* The process is killed at any place, or ends after its FatalError, and can be
\* restarted.
Killed ==
  /\ pc # "down"
  /\ pc' = "down"
  /\ conn' = "bad"
  /\ SessionLost
  /\ result' = IF UnderWay THEN [result EXCEPT ![call] = "killed"] ELSE result
  /\ UNCHANGED <<sink, kind, row, table, info, log, silent>>

DBNext ==
  \/ LinkBreaks \/ Connect \/ CallWrite \/ Begin \/ BeginFails \/ Insert
  \/ InsertFails \/ Rollback \/ ServerCommits \/ Commit \/ CommitFails \/ Killed

DBSpec == DBInit /\ [][DBNext]_dbVars

-----------------------------------------------------------------------------
(* Properties                                                              *)

StoredFor(c) == {r[2] : r \in {q \in table : q[1] = c}}

\* A round's readings reach the table for every device or for none, however
\* the inserts fail, the link breaks or the process is killed.
RoundIsAtomic == \A c \in Calls : StoredFor(c) \in {{}, Labels}

\* The info table, rewritten at every start, is never half written.
InfoIsAtomic == info \in {{}, Labels}

\* Between two calls nothing is left open on a session that is still there:
\* a rejected insert costs its own round only, never the next one.
SessionIsClean ==
  pc = "idle" /\ link = "up" => conn = "ok" /\ session = "idle" /\ pending = {}

\* The log tells the truth, wherever the process is killed: a call that reported
\* success did store its round, one that gave up before COMMIT stored nothing, and so
\* did one that raised FatalError.  A call that has not returned has stored something
\* only if it is waiting for the answer to COMMIT; in doubt are the calls whose answer
\* was lost and those the process died in, and no others.
ReportIsTrue ==
  \A c \in Calls :
    /\ result[c] = "stored" => StoredFor(c) = Labels
    /\ result[c] = "lost" => StoredFor(c) = {}
    /\ result[c] = "none" /\ StoredFor(c) # {} => c = call /\ UnderWay /\ pc = "commit"

\* A lost connection swallows at most one round silently: the next call raises
\* FatalError.
OneSilentLoss == silent <= 1

-----------------------------------------------------------------------------
(* The inductive invariant behind the properties.                          *)

\* What the session looks like at each place of the client.
SessionAtPlace ==
  /\ link = "up" => conn = "ok"
  /\ link = "down" => session = "idle" /\ pending = {}
  /\ pc \in {"down", "idle", "begin", "commit", "dead"} => session = "idle" /\ pending = {}
  /\ pc = "begin" => row = 1
  /\ pc = "insert" =>
       /\ row \in 1 .. Last + 1
       /\ link = "up" => session = "open" /\ pending = 1 .. row - 1

\* Rows are never ahead of the calls that store them.
RowsOfPastCalls ==
  /\ \A r \in table : r[1] <= call
  /\ UnderWay =>
       /\ call \in Calls
       /\ StoredFor(call) = IF pc = "commit" THEN Labels ELSE {}
       /\ result[call] = "none"
  /\ \A c \in Calls : c > call => result[c] = "none"

SilenceIsNoticed ==
  silent > 0 => conn = "bad" /\ pc \in {"idle", "dead", "down"}

DBInv ==
  /\ DBTypeOK
  /\ SessionAtPlace
  /\ RowsOfPastCalls
  /\ RoundIsAtomic
  /\ InfoIsAtomic
  /\ ReportIsTrue
  /\ SilenceIsNoticed
  /\ OneSilentLoss
=============================================================================
