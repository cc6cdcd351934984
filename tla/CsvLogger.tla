----------------------------- MODULE CsvLogger -----------------------------
(***************************************************************************)
(* The CSV sink of a collector: an output stream opened for appending, a   *)
(* header for an empty file, and rounds of rows, across full disks, crashes*)
(* and restarts of the daemon.                                             *)
(*                                                                         *)
(* The file is the sequence of lines that reached the operating system     *)
(* (the daemon crashes, not the machine).  A Fragment is a line cut short: *)
(* it spoils the line after it.  A stream whose write has failed is bad    *)
(* for good: libstdc++ ignores all further output, throws nothing, and     *)
(* offers what its buffer holds once more when it is closed.               *)
(***************************************************************************)
EXTENDS Naturals, Sequences, SequencesExt

CONSTANTS
  Devices,    \* number of labels, one row each per round
  MaxRounds,  \* bound on the rounds
  MaxStarts   \* bound on the starts of the daemon

ASSUME DevicesAssumption == Devices \in Nat \ {0}
ASSUME BoundsAssumption == MaxRounds \in Nat /\ MaxStarts \in Nat

VARIABLES
  pc,        \* where the daemon is, "down" between two starts
  starts,    \* how often it has been started
  round,     \* the round it is in, counted over all starts
  row,       \* the next row of the round
  full,      \* whether the disk is full (external)
  file,      \* the lines of the file
  buffer,    \* the lines in the buffer of m_ofs
  bad,       \* m_ofs.bad()
  reported   \* the rounds logged as "Successfully inserted"

vars == <<pc, starts, round, row, full, file, buffer, bad, reported>>

Header == [kind |-> "header", start |-> 0, round |-> 0, row |-> 0]
Fragment == [kind |-> "fragment", start |-> 0, round |-> 0, row |-> 0]
Row(s, r, i) == [kind |-> "row", start |-> s, round |-> r, row |-> i]
Lines == {Header, Fragment}
           \cup {Row(s, r, i) : s \in 1 .. MaxStarts, r \in 1 .. MaxRounds, i \in 1 .. Devices}

TypeOK ==
  /\ pc \in {"down", "init", "flushHeader", "idle", "rows", "report"}
  /\ starts \in 0 .. MaxStarts
  /\ round \in 0 .. MaxRounds
  /\ row \in 1 .. Devices + 1
  /\ full \in BOOLEAN
  /\ file \in Seq(Lines)
  /\ buffer \in Seq(Lines)
  /\ bad \in BOOLEAN
  /\ reported \in SUBSET [start : 1 .. MaxStarts, round : 1 .. MaxRounds]

Init ==
  /\ pc = "down"
  /\ starts = 0 /\ round = 0 /\ row = 1
  /\ full = FALSE
  /\ file = <<>> /\ buffer = <<>> /\ bad = FALSE
  /\ reported = {}

-----------------------------------------------------------------------------
(* The stream                                                              *)

\* operator<<: a bad stream ignores it.
Put(line) == buffer' = IF bad THEN buffer ELSE Append(buffer, line)

\* The buffer reaches the file ...
Drains ==
  /\ ~bad
  /\ file' = file \o buffer
  /\ buffer' = <<>>
  /\ UNCHANGED bad

\* Mutant: the buffer is given up when writing it fails.
OverflowsForgets ==
  /\ ~bad /\ full /\ buffer # <<>>
  /\ UNCHANGED file
  /\ bad' = FALSE
  /\ buffer' = <<>>

\* ... or, on a full disk, some of its lines and perhaps a piece of the next.
Overflows ==
  /\ ~bad /\ full /\ buffer # <<>>
  /\ \E k \in 0 .. Len(buffer) - 1 :
       file' \in {file \o SubSeq(buffer, 1, k), file \o Append(SubSeq(buffer, 1, k), Fragment)}
  /\ bad' = TRUE
  /\ UNCHANGED buffer

Flush == Drains \/ Overflows \/ (bad /\ UNCHANGED <<file, buffer, bad>>)

\* The disk fills up, or is cleared.
DiskChanges ==
  /\ full' = ~full
  /\ UNCHANGED <<pc, starts, round, row, file, buffer, bad, reported>>

-----------------------------------------------------------------------------
(* The logger                                                              *)

\* The constructors: directory, and the file opened for appending.
Open ==
  /\ pc = "down"
  /\ starts < MaxStarts
  /\ starts' = starts + 1
  /\ pc' = "init"
  /\ buffer' = <<>> /\ bad' = FALSE
  /\ UNCHANGED <<round, row, full, file, reported>>

\* Mutant: the header is written whatever the file holds.
InitAlways ==
  /\ pc = "init"
  /\ pc' = "flushHeader" /\ Put(Header)
  /\ UNCHANGED <<starts, round, row, full, file, bad, reported>>

\* init(): a header for an empty file.
InitLogger ==
  /\ pc = "init"
  /\ IF file = <<>> THEN pc' = "flushHeader" /\ Put(Header)
                    ELSE pc' = "idle" /\ UNCHANGED buffer
  /\ UNCHANGED <<starts, round, row, full, file, bad, reported>>

FlushHeader ==
  /\ pc = "flushHeader"
  /\ Flush
  /\ pc' = "idle"
  /\ UNCHANGED <<starts, round, row, full, reported>>

\* write()
BeginWrite ==
  /\ pc = "idle"
  /\ round < MaxRounds
  /\ round' = round + 1
  /\ row' = 1
  /\ pc' = "rows"
  /\ UNCHANGED <<starts, full, file, buffer, bad, reported>>

\* One row goes to the stream.
PutRow ==
  /\ pc = "rows"
  /\ row <= Devices
  /\ Put(Row(starts, round, row))
  /\ row' = row + 1
  /\ UNCHANGED <<pc, starts, round, full, file, bad, reported>>

\* The buffer runs over between two rows.
Spill ==
  /\ pc = "rows"
  /\ buffer # <<>>
  /\ Drains \/ Overflows
  /\ UNCHANGED <<pc, starts, round, row, full, reported>>

\* formatRow() throws when the timestamp is in the stream already: a
\* RecoverableError, which leaves the rest of the round unwritten and unflushed.
FormatThrows ==
  /\ pc = "rows"
  /\ row <= Devices
  /\ Put(Fragment)
  /\ pc' = "idle"
  /\ UNCHANGED <<starts, round, row, full, file, bad, reported>>

\* Mutant: the success is logged before the rows are flushed.
ReportEarly ==
  /\ pc = "rows"
  /\ row > Devices
  /\ reported' = reported \cup {[start |-> starts, round |-> round]}
  /\ pc' = "report"
  /\ UNCHANGED <<starts, round, row, full, file, buffer, bad>>

\* The flush after the last row.
FlushRows ==
  /\ pc = "rows"
  /\ row > Devices
  /\ Flush
  /\ pc' = "report"
  /\ UNCHANGED <<starts, round, row, full, reported>>

\* "Successfully inserted"
Report ==
  /\ pc = "report"
  /\ reported' = reported \cup {[start |-> starts, round |-> round]}
  /\ pc' = "idle"
  /\ UNCHANGED <<starts, round, row, full, file, buffer, bad>>

\* ~CsvLogger: closing tries to write the buffer out, again if the stream is bad.
Close ==
  /\ pc = "idle"
  /\ \/ file' = file \o buffer
     \/ /\ full
        /\ \E k \in 0 .. Len(buffer) - 1 :
             file' \in {file \o SubSeq(buffer, 1, k),
                        file \o Append(SubSeq(buffer, 1, k), Fragment)}
  /\ pc' = "down"
  /\ buffer' = <<>> /\ bad' = FALSE
  /\ UNCHANGED <<starts, round, row, full, reported>>

\* The daemon dies: the buffer is lost.
Crash ==
  /\ pc # "down"
  /\ pc' = "down"
  /\ buffer' = <<>> /\ bad' = FALSE
  /\ UNCHANGED <<starts, round, row, full, file, reported>>

Next ==
  \/ DiskChanges
  \/ Open \/ InitLogger \/ FlushHeader
  \/ BeginWrite \/ PutRow \/ Spill \/ FormatThrows \/ FlushRows \/ Report
  \/ Close \/ Crash

Spec == Init /\ [][Next]_vars

-----------------------------------------------------------------------------
(* Properties                                                              *)

\* All rows of a round have reached the file, on lines of their own or after a fragment.
Stored(rep) == \A i \in 1 .. Devices : Contains(file, Row(rep.start, rep.round, i))

\* A fragment before the line spoils it.
Spoiled(k) == k > 1 /\ file[k - 1] = Fragment

\* The round before rep was reported by the same start.
FollowsReport(rep) == [rep EXCEPT !.round = rep.round - 1] \in reported

\* The file begins with the header and has no other, unless a line was cut short.
HeaderLeads ==
  file # <<>> /\ ~Contains(file, Fragment) =>
    file[1] = Header /\ \A k \in 2 .. Len(file) : file[k] # Header

\* As long as the stream is good, what this start of the daemon has reported is in the
\* file, and only the first row after a round that was not reported may be spoiled.
TrueWhileGood ==
  pc # "down" /\ ~bad =>
    \A rep \in {rep \in reported : rep.start = starts} : \A i \in 1 .. Devices :
      \E k \in DOMAIN file :
        /\ file[k] = Row(rep.start, rep.round, i)
        /\ Spoiled(k) => i = 1 /\ ~FollowsReport(rep)

\* What one start of the daemon loses of the rounds it reports is their end: once a
\* reported round is missing, no later one of that start is stored.
LostAtTheEnd ==
  \A p, q \in reported :
    p.start = q.start /\ p.round < q.round /\ Stored(q) => Stored(p)
=============================================================================
