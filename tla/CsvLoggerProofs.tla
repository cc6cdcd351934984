-------------------------- MODULE CsvLoggerProofs --------------------------
(***************************************************************************)
(* Proofs about CsvLogger, for every number of devices, rounds and starts. *)
(***************************************************************************)
EXTENDS CsvLogger, TLAPS

\* The report of a round of this start.
ReportOf(r) == [start |-> starts, round |-> r]

\* What has been counted, by the place of the daemon.
CountersAtPlace ==
  /\ pc # "down" => starts > 0
  /\ pc \in {"rows", "report"} => round > 0

\* What the stream holds, by the place of the daemon.
StreamAtPlace ==
  /\ pc \in {"down", "init"} => buffer = <<>> /\ ~bad
  /\ pc = "flushHeader" => file = <<>> /\ buffer = <<Header>> /\ ~bad
  /\ pc \in {"idle", "rows", "report"} /\ ~bad => file # <<>>
  /\ pc = "report" => row = Devices + 1 /\ (~bad => buffer = <<>>)

\* A header waits in the buffer of an empty file only, and nothing else with it.
HeaderWaits ==
  \/ /\ buffer = <<Header>> /\ file \in {<<>>, <<Fragment>>}
     /\ bad \/ pc = "flushHeader"
  \/ (\A k \in 1 .. Len(buffer) : buffer[k] # Header) /\ (file = <<>> => buffer = <<>>)

\* The lines are of rounds begun, those in the buffer of this start.
LinesArePast ==
  /\ \A k \in 1 .. Len(file) : file[k].start <= starts /\ file[k].round <= round
  /\ \A k \in 1 .. Len(buffer) :
       /\ buffer[k].round <= round
       /\ buffer[k].kind = "row" => buffer[k].start = starts

\* Reports are of rounds that have been written.
ReportsArePast ==
  \A rep \in reported :
    /\ rep.start <= starts /\ rep.round <= round
    /\ pc \in {"rows", "report"} => rep.round < round
    /\ pc \in {"init", "flushHeader"} => rep.start < starts

\* In a good stream the rows of this round are the last lines, and what is before them
\* is no fragment when the round before was reported.
Stream == file \o buffer
Before == Len(Stream) - (row - 1)

RowsAreLast ==
  ~bad /\ pc \in {"rows", "report"} =>
    /\ Before >= 0
    /\ \A i \in 1 .. row - 1 : Stream[Before + i] = Row(starts, round, i)
    /\ ReportOf(round - 1) \in reported /\ Before > 0 => Stream[Before] # Fragment

\* Once a round is reported, the good stream ends with a row.
EndsWithRow ==
  ~bad /\ pc = "idle" /\ ReportOf(round) \in reported =>
    buffer = <<>> /\ file[Len(file)] # Fragment

\* A stream that has gone bad in round b loses the later rounds, and no earlier one.
CutInRound ==
  bad => \E b \in 0 .. round :
    /\ \A rep \in reported : rep.start = starts /\ rep.round < b => Stored(rep)
    /\ \A k \in 1 .. Len(file) : file[k].start = starts => file[k].round <= b
    /\ \A k \in 1 .. Len(buffer) : buffer[k].round <= b

IndInv ==
  /\ CountersAtPlace /\ StreamAtPlace /\ HeaderWaits /\ LinesArePast /\ ReportsArePast
  /\ RowsAreLast /\ EndsWithRow /\ CutInRound
  /\ HeaderLeads /\ TrueWhileGood /\ LostAtTheEnd

-----------------------------------------------------------------------------
(* Lines and sequences of lines                                            *)

\* What can be told of a line.
LEMMA LineFacts ==
  /\ Header \in Lines /\ Fragment \in Lines /\ Header # Fragment
  /\ Header.start = 0 /\ Header.round = 0 /\ Header.kind = "header"
  /\ Fragment.start = 0 /\ Fragment.round = 0 /\ Fragment.kind = "fragment"
  BY DEF Lines, Header, Fragment

\* What can be told of a row.
LEMMA RowFacts ==
  ASSUME NEW s, NEW r, NEW i
  PROVE  /\ Row(s, r, i).kind = "row" /\ Row(s, r, i).start = s
         /\ Row(s, r, i).round = r /\ Row(s, r, i).row = i
         /\ Row(s, r, i) # Header /\ Row(s, r, i) # Fragment
  BY DEF Row, Header, Fragment

\* The rows of this deployment are lines.
LEMMA RowType ==
  ASSUME NEW s \in 1 .. MaxStarts, NEW r \in 1 .. MaxRounds, NEW i \in 1 .. Devices
  PROVE  Row(s, r, i) \in Lines
  BY DEF Lines

\* The start and the round of a line are numbers.
LEMMA LineType ==
  ASSUME NEW x \in Lines
  PROVE  x.start \in Nat /\ x.round \in Nat
<1>1. CASE x = Header \/ x = Fragment
  BY <1>1, LineFacts
<1>2. CASE x \in {Row(s, r, i) : s \in 1 .. MaxStarts, r \in 1 .. MaxRounds, i \in 1 .. Devices}
  BY <1>2, RowFacts, BoundsAssumption
<1> QED
  BY <1>1, <1>2 DEF Lines

\* One sequence after another.
LEMMA Joined ==
  ASSUME NEW s \in Seq(Lines), NEW t \in Seq(Lines)
  PROVE  /\ s \o t \in Seq(Lines) /\ Len(s \o t) = Len(s) + Len(t)
         /\ \A k \in 1 .. Len(s) : (s \o t)[k] = s[k]
         /\ \A k \in 1 .. Len(t) : (s \o t)[Len(s) + k] = t[k]
         /\ \A k \in 1 .. Len(s \o t) :
              k \in 1 .. Len(s) \/ \E j \in 1 .. Len(t) : k = Len(s) + j /\ (s \o t)[k] = t[j]
<1>1. \A k \in 1 .. Len(s) + Len(t) : k \in 1 .. Len(s) \/ k - Len(s) \in 1 .. Len(t)
  OBVIOUS
<1>2. /\ s \o t \in Seq(Lines) /\ Len(s \o t) = Len(s) + Len(t)
      /\ \A k \in 1 .. Len(s) : (s \o t)[k] = s[k]
      /\ \A k \in 1 .. Len(t) : (s \o t)[Len(s) + k] = t[k]
  OBVIOUS
<1>3. ASSUME NEW k \in 1 .. Len(s \o t), k \notin 1 .. Len(s)
      PROVE  \E j \in 1 .. Len(t) : k = Len(s) + j /\ (s \o t)[k] = t[j]
  <2>1. k - Len(s) \in 1 .. Len(t) /\ k = Len(s) + (k - Len(s))
    BY <1>2, <1>3
  <2>2. (s \o t)[Len(s) + (k - Len(s))] = t[k - Len(s)]
    BY <1>2, <2>1
  <2> QED
    BY <2>1, <2>2
<1> QED
  BY <1>2, <1>3

\* What a flush or a close writes: the lines of the buffer, some cut short.
Written(g) ==
  /\ g \in Seq(Lines)
  /\ file' = file \o g
  /\ Len(g) <= Len(buffer)
  /\ \A j \in 1 .. Len(g) : g[j] \in {buffer[j], Fragment}

\* A buffer cut short, with or without a fragment of the next line.
LEMMA Cut ==
  ASSUME NEW b \in Seq(Lines), NEW k \in 0 .. Len(b) - 1
  PROVE  LET t == SubSeq(b, 1, k)
             u == Append(t, Fragment)
         IN  /\ t \in Seq(Lines) /\ Len(t) <= Len(b) /\ \A j \in 1 .. Len(t) : t[j] = b[j]
             /\ u \in Seq(Lines) /\ Len(u) <= Len(b)
             /\ \A j \in 1 .. Len(u) : u[j] \in {b[j], Fragment}
<1> DEFINE t == SubSeq(b, 1, k)
           u == Append(t, Fragment)
<1>1. t \in Seq(Lines) /\ Len(t) = k /\ \A j \in 1 .. k : t[j] = b[j]
  OBVIOUS
<1> HIDE DEF t
<1>2. u \in Seq(Lines) /\ Len(u) = k + 1 /\ (\A j \in 1 .. k : u[j] = t[j]) /\ u[k + 1] = Fragment
  BY <1>1, LineFacts
<1> HIDE DEF u
<1>3. ASSUME NEW j \in 1 .. Len(u) PROVE u[j] \in {b[j], Fragment}
  <2>1. k \in Nat /\ j \in Nat /\ (j \in 1 .. k \/ j = k + 1)
    BY <1>2
  <2> QED
    BY <1>1, <1>2, <2>1
<1>4. k \in Nat /\ k + 1 <= Len(b) /\ k <= Len(b)
  OBVIOUS
<1>5. Len(t) <= Len(b) /\ Len(u) <= Len(b)
  BY <1>1, <1>2, <1>4
<1>6. \A j \in 1 .. Len(t) : t[j] = b[j]
  BY <1>1
<1> QED
  BY <1>1, <1>2, <1>3, <1>5, <1>6, Zenon DEF t, u

\* A flush and the destructor append the buffer, or part of it.
LEMMA WrittenByFlush ==
  ASSUME TypeOK, Drains \/ Overflows \/ Close
  PROVE  \E g : Written(g)
<1>0. buffer \in Seq(Lines)
  BY DEF TypeOK
<1>1. CASE file' = file \o buffer
  BY <1>0, <1>1 DEF Written
<1>2. ASSUME NEW k \in 0 .. Len(buffer) - 1,
             file' \in {file \o SubSeq(buffer, 1, k),
                        file \o Append(SubSeq(buffer, 1, k), Fragment)}
      PROVE  \E g : Written(g)
  <2>1. PICK t : t = SubSeq(buffer, 1, k)
    OBVIOUS
  <2>2. PICK u : u = Append(t, Fragment)
    OBVIOUS
  <2>3. /\ t \in Seq(Lines) /\ Len(t) <= Len(buffer)
        /\ \A j \in 1 .. Len(t) : t[j] \in {buffer[j], Fragment}
    BY <1>0, <2>1, Cut
  <2>4. /\ u \in Seq(Lines) /\ Len(u) <= Len(buffer)
        /\ \A j \in 1 .. Len(u) : u[j] \in {buffer[j], Fragment}
    BY <1>0, <2>1, <2>2, Cut
  <2>5. Written(t) \/ Written(u)
    BY <1>2, <2>1, <2>2, <2>3, <2>4 DEF Written
  <2> QED
    BY <2>5
<1> QED
  BY <1>1, <1>2 DEF Drains, Overflows, Close

-----------------------------------------------------------------------------
(* Types                                                                   *)

\* The initial state satisfies the invariant.
LEMMA InitHolds == Init => TypeOK /\ IndInv
<1> SUFFICES ASSUME Init PROVE TypeOK /\ IndInv
  OBVIOUS
<1> USE DEF Init
<1>0. Devices \in Nat /\ Devices > 0 /\ MaxRounds \in Nat /\ MaxStarts \in Nat
  BY DevicesAssumption, BoundsAssumption
<1>1. TypeOK
  <2>1. file \in Seq(Lines) /\ buffer \in Seq(Lines)
    OBVIOUS
  <2>2. full \in BOOLEAN /\ bad \in BOOLEAN
    OBVIOUS
  <2>3. pc = "down" /\ starts = 0 /\ round = 0 /\ row = 1 /\ reported = {}
    OBVIOUS
  <2> QED
    BY <1>0, <2>1, <2>2, <2>3 DEF TypeOK
<1>2. CountersAtPlace /\ StreamAtPlace /\ HeaderWaits /\ LinesArePast /\ ReportsArePast
  BY DEF CountersAtPlace, StreamAtPlace, HeaderWaits, LinesArePast, ReportsArePast
<1>3. RowsAreLast /\ EndsWithRow /\ CutInRound
  BY DEF RowsAreLast, EndsWithRow, CutInRound
<1>4. HeaderLeads /\ TrueWhileGood /\ LostAtTheEnd
  BY DEF HeaderLeads, TrueWhileGood, LostAtTheEnd
<1> QED
  BY <1>1, <1>2, <1>3, <1>4 DEF IndInv

\* A line that is put is the last of the buffer, unless the stream is bad.
LEMMA PutType ==
  ASSUME TypeOK, NEW x \in Lines, Put(x)
  PROVE  /\ buffer' \in Seq(Lines)
         /\ bad => buffer' = buffer
         /\ ~bad => /\ buffer' = Append(buffer, x)
                    /\ Len(buffer') = Len(buffer) + 1 /\ buffer'[Len(buffer) + 1] = x
                    /\ \A k \in 1 .. Len(buffer) : buffer'[k] = buffer[k]
<1>1. bad \in BOOLEAN /\ buffer \in Seq(Lines)
  BY DEF TypeOK
<1>2. CASE bad
  BY <1>1, <1>2 DEF Put
<1>3. CASE ~bad
  <2>1. buffer' = Append(buffer, x)
    BY <1>3 DEF Put
  <2> QED
    BY <1>1, <1>3, <2>1
<1> QED
  BY <1>2, <1>3

\* What a flush does to the stream.
LEMMA FlushType ==
  ASSUME TypeOK, Flush
  PROVE  /\ file' \in Seq(Lines) /\ buffer' \in Seq(Lines) /\ bad' \in BOOLEAN
         /\ bad => bad' /\ UNCHANGED file
         /\ bad' => UNCHANGED buffer
         /\ ~bad' => ~bad /\ file' = file \o buffer /\ buffer' = <<>>
         /\ ~bad => \E g : Written(g)
<1>0. file \in Seq(Lines) /\ buffer \in Seq(Lines) /\ bad \in BOOLEAN
  BY DEF TypeOK
<1>1. CASE Drains
  BY <1>0, <1>1, WrittenByFlush DEF Drains
<1>2. CASE Overflows
  <2>1. PICK g : Written(g)
    BY <1>2, WrittenByFlush
  <2>2. ~bad /\ bad' = TRUE /\ UNCHANGED buffer
    BY <1>2 DEF Overflows
  <2>3. bad' \in BOOLEAN /\ bad' /\ ~bad
    BY <2>2
  <2>4. file' \in Seq(Lines) /\ buffer' \in Seq(Lines)
    BY <1>0, <2>1, <2>2 DEF Written
  <2> QED
    BY <2>1, <2>2, <2>3, <2>4
<1>3. CASE bad /\ UNCHANGED <<file, buffer, bad>>
  BY <1>0, <1>3
<1> QED
  BY <1>1, <1>2, <1>3 DEF Flush

\* Every step keeps the types, and the counters go with the daemon's place.
LEMMA TypeStep ==
  TypeOK /\ CountersAtPlace /\ [Next]_vars => TypeOK' /\ CountersAtPlace'
<1> SUFFICES ASSUME TypeOK, CountersAtPlace, [Next]_vars PROVE TypeOK' /\ CountersAtPlace'
  OBVIOUS
<1>0. Devices \in Nat /\ Devices > 0 /\ MaxRounds \in Nat /\ MaxStarts \in Nat
  BY DevicesAssumption, BoundsAssumption
<1> USE <1>0 DEF TypeOK, CountersAtPlace
<1>1. CASE DiskChanges
  BY <1>1 DEF DiskChanges
<1>2. CASE Open
  <2>1. buffer' \in Seq(Lines) /\ bad' \in BOOLEAN
    <3>1. buffer' = <<>>
      BY <1>2, Zenon DEF Open
    <3>2. buffer' \in Seq(Lines)
      BY <3>1
    <3>3. bad' \in BOOLEAN
      BY <1>2, Zenon DEF Open
    <3> QED
      BY <3>2, <3>3
  <2>2. /\ pc' \in {"down", "init"} /\ starts' \in 0 .. MaxStarts
        /\ (pc' = "init" => starts' > 0)
        /\ UNCHANGED round /\ UNCHANGED row /\ UNCHANGED file /\ UNCHANGED reported
    BY <1>2 DEF Open
  <2>3. UNCHANGED full
    BY <1>2 DEF Open
  <2> QED
    BY <2>1, <2>2, <2>3
<1>3. CASE InitLogger
  <2>1. buffer' \in Seq(Lines)
    BY <1>3, LineFacts, PutType DEF InitLogger
  <2>2. pc' \in {"flushHeader", "idle"} /\ pc = "init"
    BY <1>3 DEF InitLogger
  <2>3. UNCHANGED <<starts, round, row, full, file, bad, reported>>
    BY <1>3 DEF InitLogger
  <2> QED
    BY <2>1, <2>2, <2>3
<1>4. CASE FlushHeader
  BY <1>4, FlushType DEF FlushHeader
<1>5. CASE BeginWrite
  BY <1>5 DEF BeginWrite
<1>6. CASE PutRow
  <2>1. Row(starts, round, row) \in Lines
    BY <1>6, RowType DEF PutRow
  <2>2. buffer' \in Seq(Lines)
    BY <1>6, <2>1, PutType DEF PutRow
  <2> QED
    BY <1>6, <2>2 DEF PutRow
<1>7. CASE Spill
  BY <1>7, FlushType DEF Spill, Flush
<1>8. CASE FormatThrows
  <2>1. buffer' \in Seq(Lines)
    BY <1>8, LineFacts, PutType DEF FormatThrows
  <2> QED
    BY <1>8, <2>1 DEF FormatThrows
<1>9. CASE FlushRows
  BY <1>9, FlushType DEF FlushRows
<1>10. CASE Report
  BY <1>10 DEF Report
<1>11. CASE Close
  <2>1. PICK g : Written(g)
    BY <1>11, WrittenByFlush
  <2>2. file' \in Seq(Lines)
    BY <2>1 DEF Written
  <2>3. buffer' \in Seq(Lines) /\ bad' \in BOOLEAN
    <3>1. buffer' = <<>>
      BY <1>11, Zenon DEF Close
    <3>2. buffer' \in Seq(Lines)
      BY <3>1
    <3>3. bad' \in BOOLEAN
      BY <1>11, Zenon DEF Close
    <3> QED
      BY <3>2, <3>3
  <2>4. /\ pc' = "down" /\ UNCHANGED starts
        /\ UNCHANGED round /\ UNCHANGED row /\ UNCHANGED reported
    BY <1>11 DEF Close
  <2>5. UNCHANGED full
    BY <1>11 DEF Close
  <2> QED
    BY <2>2, <2>3, <2>4, <2>5
<1>12. CASE Crash
  <2>1. buffer' \in Seq(Lines) /\ bad' \in BOOLEAN
    <3>1. buffer' = <<>>
      BY <1>12, Zenon DEF Crash
    <3>2. buffer' \in Seq(Lines)
      BY <3>1
    <3>3. bad' \in BOOLEAN
      BY <1>12, Zenon DEF Crash
    <3> QED
      BY <3>2, <3>3
  <2>2. /\ pc' \in {"down", "init"} /\ starts' \in 0 .. MaxStarts
        /\ (pc' = "init" => starts' > 0)
        /\ UNCHANGED round /\ UNCHANGED row /\ UNCHANGED file /\ UNCHANGED reported
    BY <1>12 DEF Crash
  <2>3. UNCHANGED full
    BY <1>12 DEF Crash
  <2> QED
    BY <2>1, <2>2, <2>3
<1>13. CASE UNCHANGED vars
  BY <1>13 DEF vars
<1> QED
  BY <1>1, <1>2, <1>3, <1>4, <1>5, <1>6, <1>7, <1>8, <1>9, <1>10, <1>11, <1>12, <1>13 DEF Next

-----------------------------------------------------------------------------
(* The stream and its header                                               *)

\* Opening, closing and dying leave a good stream with an empty buffer.
LEMMA FreshStream ==
  ASSUME Open \/ Close \/ Crash
  PROVE  /\ buffer' = <<>> /\ ~bad' /\ pc' \in {"down", "init"}
         /\ UNCHANGED reported /\ UNCHANGED round
<1>1. buffer' = <<>> /\ bad' = FALSE
  BY Zenon DEF Open, Close, Crash
<1>2. pc' \in {"down", "init"} /\ UNCHANGED reported /\ UNCHANGED round
  BY DEF Open, Close, Crash
<1> QED
  BY <1>1, <1>2

\* The steps that touch neither file nor stream.
Aside == DiskChanges \/ BeginWrite \/ Report \/ UNCHANGED vars

\* Such a step leaves the file, the buffer and the stream's state alone.
LEMMA AsideKeeps ==
  ASSUME Aside PROVE UNCHANGED file /\ UNCHANGED buffer /\ UNCHANGED starts /\ (bad' <=> bad)
<1>1. UNCHANGED file /\ UNCHANGED buffer /\ UNCHANGED starts
  BY DEF Aside, DiskChanges, BeginWrite, Report, vars
<1>2. UNCHANGED bad
  BY DEF Aside, DiskChanges, BeginWrite, Report, vars
<1> QED
  BY <1>1, <1>2

\* The steps that put a line or none.
LEMMA PutsKeep ==
  ASSUME InitLogger \/ PutRow \/ FormatThrows
  PROVE  UNCHANGED file /\ UNCHANGED starts /\ UNCHANGED round /\ UNCHANGED reported
         /\ (bad' <=> bad)
<1>1. UNCHANGED file /\ UNCHANGED starts /\ UNCHANGED round /\ UNCHANGED reported
  BY DEF InitLogger, PutRow, FormatThrows
<1>2. UNCHANGED bad
  BY DEF InitLogger, PutRow, FormatThrows
<1> QED
  BY <1>1, <1>2

\* The steps that flush.
Flushes == FlushHeader \/ Spill \/ FlushRows

\* A flush counts nothing and reports nothing.
LEMMA FlushesKeep ==
  ASSUME Flushes
  PROVE  Flush /\ UNCHANGED starts /\ UNCHANGED round /\ UNCHANGED row /\ UNCHANGED reported
  BY DEF Flushes, FlushHeader, Spill, FlushRows, Flush

\* Every step is of one of these kinds.
LEMMA Kinds ==
  [Next]_vars => \/ Open \/ Close \/ Crash \/ Aside
                 \/ InitLogger \/ PutRow \/ FormatThrows \/ Flushes
  BY DEF Next, Aside, Flushes

\* The file of a stream that stays good is never empty again.
LEMMA NotEmptied ==
  ASSUME TypeOK, Flush, file # <<>> \/ buffer # <<>>, ~bad'
  PROVE  file' # <<>>
<1>1. file \in Seq(Lines) /\ buffer \in Seq(Lines) /\ file' = file \o buffer
  BY FlushType DEF TypeOK
<1>2. Len(file) > 0 \/ Len(buffer) > 0
  BY <1>1
<1>3. Len(file') = Len(file) + Len(buffer)
  BY <1>1
<1> QED
  BY <1>1, <1>2, <1>3

\* Every step keeps the place of the stream.
LEMMA StreamStep == TypeOK /\ StreamAtPlace /\ [Next]_vars => StreamAtPlace'
<1> SUFFICES ASSUME TypeOK, StreamAtPlace, [Next]_vars PROVE StreamAtPlace'
  OBVIOUS
<1>1. CASE Open \/ Close \/ Crash
  BY <1>1, FreshStream DEF StreamAtPlace
<1>2. CASE Aside
  <2>1. /\ pc' \in {"down", "init", "flushHeader"} => pc' = pc
        /\ pc' \in {"rows", "idle"} => pc \in {"rows", "idle", "report"}
        /\ pc' = "report" => pc = "report" /\ row' = row
    BY <1>2 DEF Aside, DiskChanges, BeginWrite, Report, vars
  <2> QED
    BY <1>2, <2>1, AsideKeeps DEF StreamAtPlace, TypeOK
<1>3. CASE InitLogger
  <2>1. pc = "init" /\ ~bad /\ buffer = <<>>
    BY <1>3 DEF InitLogger, StreamAtPlace
  <2>2. \/ file = <<>> /\ pc' = "flushHeader" /\ Put(Header)
        \/ file # <<>> /\ pc' = "idle"
    BY <1>3 DEF InitLogger
  <2>3. Put(Header) => buffer' = <<Header>>
    BY <2>1, LineFacts DEF Put
  <2> QED
    BY <1>3, <2>1, <2>2, <2>3, PutsKeep DEF StreamAtPlace
<1>4. CASE PutRow \/ FormatThrows
  <2>1. pc = "rows" /\ pc' \in {"rows", "idle"}
    BY <1>4 DEF PutRow, FormatThrows
  <2> QED
    BY <1>4, <2>1, PutsKeep DEF StreamAtPlace
<1>5. CASE Flushes
  <2>1. /\ pc' \in {"idle", "rows", "report"}
        /\ pc' = "report" => row = Devices + 1
        /\ pc' = "idle" => pc = "flushHeader"
        /\ pc' # "idle" => pc = "rows"
    BY <1>5, DevicesAssumption DEF TypeOK, Flushes, FlushHeader, Spill, FlushRows
  <2>2. Flush /\ UNCHANGED row
    BY <1>5, FlushesKeep
  <2>3. ~bad' => file # <<>> \/ buffer # <<>>
    BY <2>1, <2>2, FlushType DEF StreamAtPlace
  <2>4. ~bad' => file' # <<>> /\ buffer' = <<>>
    BY <2>2, <2>3, NotEmptied, FlushType
  <2> QED
    BY <2>1, <2>2, <2>4 DEF StreamAtPlace
<1> QED
  BY <1>1, <1>2, <1>3, <1>4, <1>5, Kinds

\* What is written into a file whose header waits is no more than that header.
LEMMA WaitingWritten ==
  ASSUME TypeOK, NEW g, Written(g), buffer = <<Header>>, file \in {<<>>, <<Fragment>>}
  PROVE  \/ file' = file \/ file' = <<Header>>
         \/ \E k \in 1 .. Len(file') : file'[k] = Fragment
<1>1. g \in Seq(Lines) /\ Len(g) \in {0, 1} /\ (Len(g) = 1 => g[1] \in {Header, Fragment})
  BY DEF Written
<1>2. file' = file \o g /\ file' \in Seq(Lines)
  BY <1>1 DEF Written, TypeOK
<1>3. CASE Len(g) = 0
  BY <1>1, <1>2, <1>3 DEF TypeOK
<1>4. CASE Len(g) = 1 /\ file = <<>>
  BY <1>1, <1>2, <1>4
<1>5. CASE Len(g) = 1 /\ file = <<Fragment>>
  <2>1. file \in Seq(Lines) /\ Len(file) = 1 /\ file[1] = Fragment
    BY <1>5 DEF TypeOK
  <2>2. Len(file') = 2 /\ file'[1] = Fragment
    BY <1>1, <1>2, <1>5, <2>1, Joined
  <2> QED
    BY <2>2
<1> QED
  BY <1>1, <1>3, <1>4, <1>5

\* What is written into any other file adds no header to it.
LEMMA OtherWritten ==
  ASSUME TypeOK, NEW g, Written(g), \A k \in 1 .. Len(buffer) : buffer[k] # Header,
         file # <<>>
  PROVE  /\ file' # <<>> /\ file'[1] = file[1]
         /\ \A k \in 1 .. Len(file) : k \in 1 .. Len(file') /\ file'[k] = file[k]
         /\ \A k \in 1 .. Len(file') : k \in 1 .. Len(file) \/ file'[k] # Header
<1>1. file \in Seq(Lines) /\ g \in Seq(Lines) /\ file' = file \o g /\ Len(file) >= 1
  BY DEF TypeOK, Written
<1>2. /\ file' \in Seq(Lines) /\ Len(file') = Len(file) + Len(g)
      /\ \A k \in 1 .. Len(file) : file'[k] = file[k]
      /\ \A k \in 1 .. Len(file') :
           k \in 1 .. Len(file) \/ \E j \in 1 .. Len(g) : file'[k] = g[j]
  BY <1>1, Joined
<1>3. \A j \in 1 .. Len(g) : g[j] # Header
  BY <1>1, LineFacts DEF Written, TypeOK
<1>4. Len(file') >= 1 /\ file' # <<>>
  BY <1>1, <1>2
<1>5. \A k \in 1 .. Len(file) : k \in 1 .. Len(file')
  BY <1>1, <1>2
<1> QED
  BY <1>1, <1>2, <1>3, <1>4, <1>5

\* The header property in other words.
LEMMA LeadsFromSame ==
  ASSUME TypeOK, HeaderLeads, file # <<>>, file' # <<>>, file'[1] = file[1],
         \A k \in 1 .. Len(file) : k \in 1 .. Len(file') /\ file'[k] = file[k],
         \A k \in 1 .. Len(file') : k \in 1 .. Len(file) \/ file'[k] # Header
  PROVE  HeaderLeads'
<1>1. SUFFICES ASSUME ~Contains(file', Fragment)
               PROVE  file'[1] = Header /\ \A k \in 2 .. Len(file') : file'[k] # Header
  BY DEF HeaderLeads
<1>2. ~Contains(file, Fragment)
  BY <1>1 DEF Contains
<1>3. file[1] = Header /\ \A k \in 2 .. Len(file) : file[k] # Header
  BY <1>2 DEF HeaderLeads
<1>4. Len(file) \in Nat /\ Len(file) >= 1
  BY DEF TypeOK
<1>5. ASSUME NEW k \in 2 .. Len(file') PROVE file'[k] # Header
  <2>1. k \in 1 .. Len(file')
    BY <1>4
  <2>2. CASE k \in 1 .. Len(file)
    BY <1>3, <1>4, <2>2
  <2> QED
    BY <2>1, <2>2
<1> QED
  BY <1>3, <1>5

\* A write, a flush and a close keep the header where it is.
LEMMA WrittenLeads ==
  ASSUME TypeOK, HeaderWaits, HeaderLeads, NEW g, Written(g) PROVE HeaderLeads'
<1>1. CASE buffer = <<Header>> /\ file \in {<<>>, <<Fragment>>}
  <2>1. CASE file' = file
    BY <2>1 DEF HeaderLeads
  <2>2. CASE file' = <<Header>>
    <3>1. file'[1] = Header /\ Len(file') = 1
      BY <2>2
    <3> QED
      BY <3>1 DEF HeaderLeads
  <2>3. CASE \E k \in 1 .. Len(file') : file'[k] = Fragment
    BY <2>3 DEF HeaderLeads, Contains
  <2> QED
    BY <1>1, <2>1, <2>2, <2>3, WaitingWritten
<1>2. CASE file = <<>> /\ buffer = <<>>
  <2>1. Len(g) = 0 /\ g \in Seq(Lines)
    BY <1>2 DEF Written
  <2>2. file' = file
    BY <1>2, <2>1 DEF Written
  <2> QED
    BY <2>2 DEF HeaderLeads
<1>3. CASE file # <<>> /\ \A k \in 1 .. Len(buffer) : buffer[k] # Header
  BY <1>3, OtherWritten, LeadsFromSame
<1> QED
  BY <1>1, <1>2, <1>3 DEF HeaderWaits

\* Every step keeps the header at the head of the file.
LEMMA LeadsStep == TypeOK /\ HeaderWaits /\ HeaderLeads /\ [Next]_vars => HeaderLeads'
<1> SUFFICES ASSUME TypeOK, HeaderWaits, HeaderLeads, [Next]_vars PROVE HeaderLeads'
  OBVIOUS
<1>1. CASE UNCHANGED file
  BY <1>1 DEF HeaderLeads
<1>2. CASE Open \/ Crash \/ Aside \/ InitLogger \/ PutRow \/ FormatThrows
  <2>1. UNCHANGED file
    BY <1>2, AsideKeeps, PutsKeep DEF Open, Crash
  <2> QED
    BY <1>1, <2>1
<1>3. CASE Close
  BY <1>3, WrittenByFlush, WrittenLeads
<1>4. CASE Flushes
  <2>1. UNCHANGED file \/ \E g : Written(g)
    BY <1>4, FlushesKeep, FlushType
  <2> QED
    BY <1>1, <2>1, WrittenLeads
<1> QED
  BY <1>2, <1>3, <1>4, Kinds

\* A header that overflows reaches the file in part or not at all.
LEMMA OverflowOfHeader ==
  ASSUME Overflows, buffer = <<Header>>, file = <<>>
  PROVE  file' \in {<<>>, <<Fragment>>}
<1>1. PICK k \in 0 .. Len(buffer) - 1 :
        file' \in {file \o SubSeq(buffer, 1, k), file \o Append(SubSeq(buffer, 1, k), Fragment)}
  BY DEF Overflows
<1>2. k = 0 /\ SubSeq(buffer, 1, k) = <<>>
  OBVIOUS
<1>3. file' \in {<<>> \o <<>>, <<>> \o Append(<<>>, Fragment)}
  BY <1>1, <1>2
<1>4. <<>> \o <<>> = <<>> /\ <<>> \o Append(<<>>, Fragment) = <<Fragment>>
  OBVIOUS
<1> QED
  BY <1>3, <1>4

\* No row is put before the header, and no header after a row.
LEMMA WaitsStep ==
  TypeOK /\ StreamAtPlace /\ HeaderWaits /\ [Next]_vars => HeaderWaits'
<1> SUFFICES ASSUME TypeOK, StreamAtPlace, HeaderWaits, [Next]_vars PROVE HeaderWaits'
  OBVIOUS
<1>0. file \in Seq(Lines) /\ buffer \in Seq(Lines)
  BY DEF TypeOK
<1>1. CASE Open \/ Close \/ Crash
  <2>1. buffer' = <<>>
    BY <1>1, FreshStream
  <2> QED
    BY <2>1 DEF HeaderWaits
<1>2. CASE Aside
  <2>1. pc = "flushHeader" => pc' = "flushHeader"
    BY <1>2 DEF Aside, DiskChanges, BeginWrite, Report, vars
  <2> QED
    BY <1>2, <2>1, AsideKeeps DEF HeaderWaits
<1>3. CASE InitLogger
  <2>1. pc = "init" /\ ~bad /\ buffer = <<>> /\ UNCHANGED file
    BY <1>3, PutsKeep DEF InitLogger, StreamAtPlace
  <2>2. \/ file = <<>> /\ Put(Header) /\ pc' = "flushHeader"
        \/ file # <<>> /\ UNCHANGED buffer
    BY <1>3 DEF InitLogger
  <2>3. Put(Header) => buffer' = <<Header>>
    BY <2>1, LineFacts DEF Put
  <2> QED
    BY <2>1, <2>2, <2>3 DEF HeaderWaits
<1>4. CASE PutRow \/ FormatThrows
  <2>1. PICK x : x # Header /\ Put(x)
    BY <1>4, RowFacts, LineFacts DEF PutRow, FormatThrows
  <2>2. UNCHANGED file /\ pc = "rows"
    BY <1>4, PutsKeep DEF PutRow, FormatThrows
  <2>3. CASE bad
    <3>1. UNCHANGED buffer /\ bad'
      BY <1>4, <2>1, <2>3, PutsKeep DEF Put
    <3> QED
      BY <2>2, <2>3, <3>1 DEF HeaderWaits
  <2>4. CASE ~bad
    <3>1. file # <<>> /\ buffer' = Append(buffer, x)
      BY <2>1, <2>2, <2>4 DEF StreamAtPlace, Put
    <3>2. \A k \in 1 .. Len(buffer) : buffer[k] # Header
      BY <2>2, <2>4 DEF HeaderWaits
    <3> QED
      BY <1>0, <2>1, <2>2, <3>1, <3>2 DEF HeaderWaits
  <2> QED
    BY <2>3, <2>4
<1>5. CASE Flushes
  <2>1. Flush
    BY <1>5, FlushesKeep
  <2>2. CASE bad
    BY <2>1, <2>2, FlushType DEF HeaderWaits
  <2>3. CASE ~bad /\ ~bad'
    <3>1. buffer' = <<>> /\ (file # <<>> \/ buffer # <<>> => file' # <<>>)
      BY <2>1, <2>3, FlushType, NotEmptied
    <3>2. \A k \in 1 .. Len(buffer') : buffer'[k] # Header
      BY <3>1
    <3> QED
      BY <3>1, <3>2 DEF HeaderWaits
  <2>4. CASE ~bad /\ bad'
    <3>1. Overflows
      BY <2>1, <2>4, FlushType DEF Flush, Drains
    <3>2. UNCHANGED buffer /\ buffer # <<>>
      BY <3>1 DEF Overflows
    <3>3. CASE buffer = <<Header>> /\ pc = "flushHeader"
      BY <2>4, <3>1, <3>2, <3>3, OverflowOfHeader DEF StreamAtPlace, HeaderWaits
    <3>4. CASE file # <<>> /\ \A k \in 1 .. Len(buffer) : buffer[k] # Header
      <4>1. file' # <<>>
        BY <3>1, <3>4, WrittenByFlush, OtherWritten
      <4> QED
        BY <3>2, <3>4, <4>1 DEF HeaderWaits
    <3> QED
      BY <2>4, <3>2, <3>3, <3>4 DEF HeaderWaits
  <2> QED
    BY <2>2, <2>3, <2>4
<1> QED
  BY <1>1, <1>2, <1>3, <1>4, <1>5, Kinds

-----------------------------------------------------------------------------
(* Rounds and starts                                                       *)

\* Where the lines of a file come from that is written.
LEMMA WrittenLines ==
  ASSUME TypeOK, NEW g, Written(g)
  PROVE  /\ \A k \in 1 .. Len(file) : k \in 1 .. Len(file') /\ file'[k] = file[k]
         /\ \A k \in 1 .. Len(file') :
              \/ k \in 1 .. Len(file) /\ file'[k] = file[k]
              \/ file'[k] = Fragment
              \/ \E j \in 1 .. Len(buffer) : file'[k] = buffer[j]
<1>1. file \in Seq(Lines) /\ g \in Seq(Lines) /\ file' = file \o g
  BY DEF TypeOK, Written
<1>2. /\ file' \in Seq(Lines) /\ Len(file') = Len(file) + Len(g)
      /\ \A k \in 1 .. Len(file) : file'[k] = file[k]
      /\ \A k \in 1 .. Len(file') :
           k \in 1 .. Len(file) \/ \E j \in 1 .. Len(g) : file'[k] = g[j]
  BY <1>1, Joined
<1>3. \A j \in 1 .. Len(g) : j \in 1 .. Len(buffer) /\ (g[j] = buffer[j] \/ g[j] = Fragment)
  BY DEF Written, TypeOK
<1>4. \A k \in 1 .. Len(file) : k \in 1 .. Len(file')
  BY <1>1, <1>2
<1> QED
  BY <1>2, <1>3, <1>4

\* A line that is no row is of no start and no round.
LEMMA OtherLines ==
  ASSUME NEW x \in Lines
  PROVE  x.kind = "row" \/ (x.start = 0 /\ x.round = 0)
  BY LineFacts, RowFacts DEF Lines

\* A file that is written, or not, has lines of the past.
LEMMA PastWritten ==
  ASSUME TypeOK, LinesArePast, UNCHANGED file \/ \E g : Written(g)
  PROVE  \A k \in 1 .. Len(file') : file'[k].start <= starts /\ file'[k].round <= round
<1>1. CASE UNCHANGED file
  BY <1>1 DEF LinesArePast
<1>2. CASE \E g : Written(g)
  <2>1. starts \in Nat /\ round \in Nat
    BY BoundsAssumption DEF TypeOK
  <2>2. ASSUME NEW j \in 1 .. Len(buffer)
        PROVE  buffer[j].start <= starts /\ buffer[j].round <= round
    <3>1. buffer[j] \in Lines
      BY DEF TypeOK
    <3> QED
      BY <2>1, <3>1, OtherLines DEF LinesArePast
  <2> QED
    BY <1>2, <2>1, <2>2, WrittenLines, LineFacts DEF LinesArePast
<1> QED
  BY <1>1, <1>2

\* No step puts a line of a round or a start to come.
LEMMA PastStep == TypeOK /\ LinesArePast /\ [Next]_vars => LinesArePast'
<1> SUFFICES ASSUME TypeOK, LinesArePast, [Next]_vars PROVE LinesArePast'
  OBVIOUS
<1>0. /\ starts \in Nat /\ round \in Nat /\ file \in Seq(Lines) /\ buffer \in Seq(Lines)
      /\ \A k \in 1 .. Len(file) : file[k].start \in Nat /\ file[k].round \in Nat
      /\ \A k \in 1 .. Len(buffer) : buffer[k].start \in Nat /\ buffer[k].round \in Nat
  BY BoundsAssumption, LineType DEF TypeOK
<1>1. CASE Open \/ Close \/ Crash
  <2>1. buffer' = <<>> /\ UNCHANGED round
    BY <1>1, FreshStream
  <2>2. starts' \in {starts, starts + 1}
    BY <1>1 DEF Open, Close, Crash
  <2>3. UNCHANGED file \/ \E g : Written(g)
    BY <1>1, WrittenByFlush DEF Open, Crash
  <2>4. \A k \in 1 .. Len(file') : file'[k].start <= starts /\ file'[k].round <= round
    BY <2>3, PastWritten
  <2>5. file' \in Seq(Lines)
    BY <1>0, <2>3, Joined DEF Written
  <2>6. \A k \in 1 .. Len(file') : file'[k].start \in Nat
    BY <2>5, LineType
  <2> QED
    BY <1>0, <2>1, <2>2, <2>4, <2>6 DEF LinesArePast
<1>2. CASE Aside
  <2>1. UNCHANGED file /\ UNCHANGED buffer /\ UNCHANGED starts
    BY <1>2, AsideKeeps
  <2>2. round' \in {round, round + 1}
    BY <1>2 DEF Aside, DiskChanges, BeginWrite, Report, vars
  <2> QED
    BY <1>0, <2>1, <2>2 DEF LinesArePast
<1>3. CASE InitLogger \/ PutRow \/ FormatThrows
  <2>1. UNCHANGED file /\ UNCHANGED starts /\ UNCHANGED round
    BY <1>3, PutsKeep
  <2>2. UNCHANGED buffer
        \/ \E x : x \in {Header, Fragment, Row(starts, round, row)}
                  /\ buffer' = Append(buffer, x)
    BY <1>3 DEF InitLogger, PutRow, FormatThrows, Put
  <2>3. CASE UNCHANGED buffer
    BY <2>1, <2>3 DEF LinesArePast
  <2>4. ASSUME NEW x \in {Header, Fragment, Row(starts, round, row)},
               buffer' = Append(buffer, x)
        PROVE  LinesArePast'
    <3>1. x.round <= round /\ (x.kind = "row" => x.start = starts)
      BY <1>0, LineFacts, RowFacts
    <3>2. ASSUME NEW k \in 1 .. Len(buffer')
          PROVE  buffer'[k] = x \/ (k \in 1 .. Len(buffer) /\ buffer'[k] = buffer[k])
      BY <1>0, <2>4
    <3> QED
      BY <2>1, <3>1, <3>2 DEF LinesArePast
  <2> QED
    BY <2>2, <2>3, <2>4
<1>4. CASE Flushes
  <2>1. Flush /\ UNCHANGED starts /\ UNCHANGED round
    BY <1>4, FlushesKeep
  <2>2. \A k \in 1 .. Len(file') : file'[k].start <= starts /\ file'[k].round <= round
    BY <2>1, FlushType, PastWritten
  <2>3. buffer' = <<>> \/ UNCHANGED buffer
    BY <2>1, FlushType
  <2> QED
    BY <2>1, <2>2, <2>3 DEF LinesArePast
<1> QED
  BY <1>1, <1>2, <1>3, <1>4, Kinds

\* No step reports a round to come.
LEMMA ReportStep ==
  TypeOK /\ CountersAtPlace /\ ReportsArePast /\ [Next]_vars => ReportsArePast'
<1> SUFFICES ASSUME TypeOK, CountersAtPlace, ReportsArePast, [Next]_vars PROVE ReportsArePast'
  OBVIOUS
<1>0. /\ starts \in Nat /\ round \in Nat
      /\ \A rep \in reported : rep.start \in Nat /\ rep.round \in Nat
  BY BoundsAssumption DEF TypeOK
<1> USE <1>0 DEF ReportsArePast
<1>1. CASE Open \/ Close \/ Crash
  BY <1>1 DEF Open, Close, Crash
<1>2. CASE DiskChanges \/ UNCHANGED vars
  BY <1>2 DEF DiskChanges, vars
<1>3. CASE BeginWrite
  BY <1>3 DEF BeginWrite
<1>4. CASE Report
  <2>1. /\ pc' = "idle" /\ UNCHANGED starts /\ UNCHANGED round
        /\ reported' = reported \cup {[start |-> starts, round |-> round]}
    BY <1>4 DEF Report
  <2> QED
    BY <2>1
<1>5. CASE InitLogger \/ PutRow \/ FormatThrows \/ Flushes
  BY <1>5 DEF InitLogger, PutRow, FormatThrows, Flushes, FlushHeader, Spill, FlushRows
<1> QED
  BY <1>1, <1>2, <1>3, <1>4, <1>5, Kinds DEF Aside

-----------------------------------------------------------------------------
(* What is reported of a good stream                                       *)

\* The stream is a sequence of lines; it is the file when the buffer is empty.
LEMMA StreamType ==
  ASSUME TypeOK
  PROVE  Stream \in Seq(Lines) /\ Len(Stream) \in Nat /\ row \in Nat
         /\ (buffer = <<>> => Stream = file)
<1>1. file \in Seq(Lines) /\ buffer \in Seq(Lines) /\ row \in Nat
  BY DevicesAssumption DEF TypeOK
<1>2. buffer = <<>> => file \o buffer = file
  BY <1>1
<1> QED
  BY <1>1, <1>2 DEF Stream

\* A line that is put comes at the end.
LEMMA StreamPut ==
  ASSUME TypeOK, NEW x \in Lines, Put(x), ~bad, UNCHANGED file
  PROVE  /\ Len(Stream') = Len(Stream) + 1
         /\ \A k \in 1 .. Len(Stream) : Stream'[k] = Stream[k]
         /\ Stream'[Len(Stream) + 1] = x
<1>1. file \in Seq(Lines) /\ buffer \in Seq(Lines)
  BY DEF TypeOK
<1>2. buffer' = Append(buffer, x)
  BY DEF Put
<1>3. file \o Append(buffer, x) = Append(file \o buffer, x)
  BY <1>1
<1>4. Stream' = Append(Stream, x)
  BY <1>2, <1>3 DEF Stream
<1> QED
  BY <1>4, StreamType

\* A flush that succeeds moves its end into the file.
LEMMA StreamFlush ==
  ASSUME TypeOK, Flush, ~bad'
  PROVE  ~bad /\ Stream' = Stream /\ file' = Stream /\ buffer' = <<>>
<1>1. file \in Seq(Lines) /\ buffer \in Seq(Lines)
  BY DEF TypeOK
<1>2. ~bad /\ file' = file \o buffer /\ buffer' = <<>>
  BY FlushType
<1>3. (file \o buffer) \o <<>> = file \o buffer
  BY <1>1
<1> QED
  BY <1>2, <1>3 DEF Stream

\* Every step keeps the rows of this round at the end of a good stream.
LEMMA RowsStep ==
  ASSUME TypeOK, CountersAtPlace, RowsAreLast, EndsWithRow, [Next]_vars
  PROVE  RowsAreLast'
<1> SUFFICES ASSUME ~bad', pc' \in {"rows", "report"}
             PROVE  /\ Before' >= 0
                    /\ \A i \in 1 .. row' - 1 :
                         Stream'[Before' + i] = Row(starts', round', i)
                    /\ ReportOf(round - 1)' \in reported' /\ Before' > 0
                         => Stream'[Before'] # Fragment
  BY DEF RowsAreLast
<1>0. row \in Nat /\ row >= 1 /\ round \in Nat /\ Len(Stream) \in Nat
  BY DevicesAssumption, BoundsAssumption, StreamType DEF TypeOK
<1>1. CASE BeginWrite
  <2>1. /\ pc = "idle" /\ round' = round + 1 /\ row' = 1 /\ UNCHANGED starts
        /\ UNCHANGED reported
    BY <1>1 DEF BeginWrite
  <2>2. UNCHANGED file /\ UNCHANGED buffer /\ ~bad
    BY <1>1, AsideKeeps DEF Aside
  <2>3. Stream' = Stream /\ Before' = Len(Stream)
    BY <1>0, <2>1, <2>2 DEF Stream, Before
  <2>4. ReportOf(round - 1)' = ReportOf(round)
    BY <1>0, <2>1 DEF ReportOf
  <2>5. ReportOf(round) \in reported => Stream = file /\ file[Len(file)] # Fragment
    BY <2>1, <2>2, StreamType DEF EndsWithRow
  <2> QED
    BY <1>0, <2>1, <2>3, <2>4, <2>5
<1>2. CASE PutRow
  <2>1. /\ pc = "rows" /\ row <= Devices /\ Put(Row(starts, round, row)) /\ row' = row + 1
    BY <1>2 DEF PutRow
  <2>2. UNCHANGED file /\ UNCHANGED starts /\ UNCHANGED round /\ UNCHANGED reported /\ ~bad
    BY <1>2, PutsKeep
  <2>3. Row(starts, round, row) \in Lines
    BY <2>1, RowType DEF TypeOK, CountersAtPlace
  <2>4. /\ Len(Stream') = Len(Stream) + 1
        /\ \A k \in 1 .. Len(Stream) : Stream'[k] = Stream[k]
        /\ Stream'[Len(Stream) + 1] = Row(starts, round, row)
    BY <2>1, <2>2, <2>3, StreamPut
  <2>5. Before' = Before /\ Before + row = Len(Stream) + 1
    BY <1>0, <2>1, <2>4 DEF Before
  <2>6. /\ Before >= 0
        /\ \A i \in 1 .. row - 1 : Stream[Before + i] = Row(starts, round, i)
        /\ ReportOf(round - 1) \in reported /\ Before > 0 => Stream[Before] # Fragment
    BY <2>1, <2>2 DEF RowsAreLast
  <2>7. Before \in Nat
    BY <1>0, <2>6 DEF Before
  <2>8. ASSUME NEW i \in 1 .. row' - 1
        PROVE  Stream'[Before + i] = Row(starts, round, i)
    <3>1. CASE i = row
      BY <2>4, <2>5, <3>1
    <3>2. CASE i # row
      <4>1. i \in 1 .. row - 1 /\ Before + i \in 1 .. Len(Stream)
        BY <1>0, <2>1, <2>5, <2>7, <3>2
      <4> QED
        BY <2>4, <2>6, <4>1
    <3> QED
      BY <3>1, <3>2
  <2>9. Before > 0 => Before \in 1 .. Len(Stream)
    BY <1>0, <2>5, <2>7
  <2>10. ReportOf(round - 1)' = ReportOf(round - 1)
    BY <2>2 DEF ReportOf
  <2> QED
    BY <2>2, <2>4, <2>5, <2>6, <2>8, <2>9, <2>10
<1>3. CASE Spill \/ FlushRows
  <2>1. Flushes /\ pc = "rows"
    BY <1>3 DEF Spill, FlushRows, Flushes
  <2>2. /\ Flush /\ UNCHANGED starts /\ UNCHANGED round /\ UNCHANGED row
        /\ UNCHANGED reported
    BY <2>1, FlushesKeep
  <2>3. ~bad /\ Stream' = Stream
    BY <2>2, StreamFlush
  <2> QED
    BY <2>1, <2>2, <2>3 DEF RowsAreLast, Before, ReportOf
<1>4. CASE DiskChanges \/ UNCHANGED vars
  <2>1. /\ UNCHANGED pc /\ UNCHANGED row /\ UNCHANGED starts /\ UNCHANGED round
        /\ UNCHANGED file /\ UNCHANGED buffer /\ UNCHANGED reported
    BY <1>4 DEF DiskChanges, vars
  <2>2. ~bad
    BY <1>4, AsideKeeps DEF Aside
  <2> QED
    BY <2>1, <2>2 DEF RowsAreLast, Before, ReportOf, Stream
<1>5. CASE Report \/ Open \/ Close \/ Crash \/ InitLogger \/ FlushHeader \/ FormatThrows
  BY <1>5 DEF Report, Open, Close, Crash, InitLogger, FlushHeader, FormatThrows
<1> QED
  BY <1>1, <1>2, <1>3, <1>4, <1>5 DEF Next

\* Every step leaves a good stream that ends with a row once its round is reported.
LEMMA EndsStep ==
  ASSUME TypeOK, StreamAtPlace, ReportsArePast, RowsAreLast, EndsWithRow, [Next]_vars
  PROVE  EndsWithRow'
<1> SUFFICES ASSUME ~bad', pc' = "idle", ReportOf(round)' \in reported'
             PROVE  buffer' = <<>> /\ file'[Len(file')] # Fragment
  BY DEF EndsWithRow
<1>1. CASE Report
  <2>1. pc = "report" /\ UNCHANGED file /\ UNCHANGED buffer /\ ~bad
    BY <1>1, AsideKeeps DEF Report, Aside
  <2>2. row = Devices + 1 /\ buffer = <<>> /\ file # <<>>
    BY <2>1 DEF StreamAtPlace
  <2>3. /\ Stream = file /\ Before = Len(file) - Devices
        /\ Len(file) \in Nat
    BY <2>2, DevicesAssumption, StreamType DEF Before
  <2>4. Stream[Before + Devices] = Row(starts, round, Devices)
    BY <2>1, <2>2, DevicesAssumption DEF RowsAreLast
  <2>5. file[Len(file)] = Row(starts, round, Devices)
    BY <2>3, <2>4, DevicesAssumption
  <2> QED
    BY <2>1, <2>2, <2>5, RowFacts
<1>2. CASE FormatThrows
  <2>1. pc = "rows" /\ UNCHANGED starts /\ UNCHANGED round /\ UNCHANGED reported
    BY <1>2 DEF FormatThrows
  <2> QED
    BY <2>1, BoundsAssumption DEF ReportsArePast, ReportOf, TypeOK
<1>3. CASE InitLogger \/ FlushHeader
  <2>1. /\ pc \in {"init", "flushHeader"} /\ UNCHANGED starts /\ UNCHANGED round
        /\ UNCHANGED reported
    BY <1>3 DEF InitLogger, FlushHeader
  <2> QED
    BY <2>1, BoundsAssumption DEF ReportsArePast, ReportOf, TypeOK
<1>4. CASE DiskChanges \/ UNCHANGED vars
  <2>1. /\ UNCHANGED pc /\ UNCHANGED starts /\ UNCHANGED round
        /\ UNCHANGED file /\ UNCHANGED buffer /\ UNCHANGED reported
    BY <1>4 DEF DiskChanges, vars
  <2>2. ~bad
    BY <1>4, AsideKeeps DEF Aside
  <2> QED
    BY <2>1, <2>2 DEF EndsWithRow, ReportOf
<1>5. CASE Open \/ Close \/ Crash \/ BeginWrite \/ PutRow \/ Spill \/ FlushRows
  BY <1>5 DEF Open, Close, Crash, BeginWrite, PutRow, Spill, FlushRows
<1> QED
  BY <1>1, <1>2, <1>3, <1>4, <1>5 DEF Next

\* What is reported of this start and in the file, with its place.
InPlace(rep, i) ==
  \E k \in 1 .. Len(file) :
    /\ file[k] = Row(rep.start, rep.round, i)
    /\ Spoiled(k) => i = 1 /\ ~FollowsReport(rep)

\* TrueWhileGood, row by row.
LEMMA GoodInPlace ==
  ASSUME TypeOK
  PROVE  TrueWhileGood <=>
           (pc # "down" /\ ~bad =>
              \A rep \in reported : rep.start = starts =>
                \A i \in 1 .. Devices : InPlace(rep, i))
<1>1. DOMAIN file = 1 .. Len(file)
  BY DEF TypeOK
<1> QED
  BY <1>1 DEF TrueWhileGood, InPlace

\* The same of the next state.
LEMMA GoodInPlaceNext ==
  ASSUME TypeOK'
  PROVE  TrueWhileGood' <=>
           (pc' # "down" /\ ~bad' =>
              \A rep \in reported' : rep.start = starts' =>
                \A i \in 1 .. Devices : InPlace(rep, i)')
<1>1. DOMAIN file' = 1 .. Len(file')
  BY DEF TypeOK
<1> QED
  BY <1>1 DEF TrueWhileGood, InPlace

\* Lines that stay in place keep what is reported, and what is stored.
LEMMA PlaceKept ==
  ASSUME TypeOK, NEW rep, NEW i, InPlace(rep, i), FollowsReport(rep)' => FollowsReport(rep),
         \A k \in 1 .. Len(file) : k \in 1 .. Len(file') /\ file'[k] = file[k]
  PROVE  InPlace(rep, i)'
<1>1. PICK k \in 1 .. Len(file) : /\ file[k] = Row(rep.start, rep.round, i)
                                  /\ Spoiled(k) => i = 1 /\ ~FollowsReport(rep)
  BY DEF InPlace
<1>2. k \in 1 .. Len(file') /\ file'[k] = file[k]
  OBVIOUS
<1>3. k > 1 => k - 1 \in 1 .. Len(file)
  BY DEF TypeOK
<1>4. Spoiled(k)' => Spoiled(k)
  BY <1>3 DEF Spoiled
<1> QED
  BY <1>1, <1>2, <1>4 DEF InPlace

\* What is stored stays stored when lines are only appended.
LEMMA StoredKept ==
  ASSUME NEW rep, Stored(rep),
         \A k \in 1 .. Len(file) : k \in 1 .. Len(file') /\ file'[k] = file[k]
  PROVE  Stored(rep)'
  BY DEF Stored, Contains

\* A flush keeps every line of the file in its place.
LEMMA FlushKeeps ==
  ASSUME TypeOK, Flush
  PROVE  \A k \in 1 .. Len(file) : k \in 1 .. Len(file') /\ file'[k] = file[k]
<1>1. UNCHANGED file \/ \E g : Written(g)
  BY FlushType
<1> QED
  BY <1>1, WrittenLines

\* The round that is reported has its rows at the end of the good stream.
LEMMA ReportInPlace ==
  ASSUME TypeOK, StreamAtPlace, ReportsArePast, RowsAreLast, Report, ~bad,
         NEW i \in 1 .. Devices, NEW rep, rep = ReportOf(round)
  PROVE  InPlace(rep, i)'
<1>1. /\ pc = "report" /\ row = Devices + 1 /\ UNCHANGED file
      /\ reported' = reported \cup {rep}
      /\ rep.start = starts /\ rep.round = round
  BY AsideKeeps DEF Report, StreamAtPlace, Aside, ReportOf
<1>2. /\ Stream = file /\ Before = Len(file) - Devices
      /\ Len(file) \in Nat /\ Devices \in Nat /\ round \in Nat
  BY <1>1, DevicesAssumption, BoundsAssumption, StreamType
     DEF Before, StreamAtPlace, TypeOK
<1>3. /\ Before >= 0
      /\ \A j \in 1 .. Devices : file[Before + j] = Row(starts, round, j)
      /\ ReportOf(round - 1) \in reported /\ Before > 0 => file[Before] # Fragment
  BY <1>1, <1>2 DEF RowsAreLast
<1>4. PICK k : k = Before + i
  OBVIOUS
<1>5. k \in 1 .. Len(file) /\ file[k] = Row(rep.start, rep.round, i)
  BY <1>1, <1>2, <1>3, <1>4
<1>6. Spoiled(k) => i = 1 /\ ReportOf(round - 1) \notin reported
  <2>1. CASE i = 1
    BY <1>2, <1>3, <1>4, <2>1 DEF Spoiled
  <2>2. CASE i > 1
    <3>1. k - 1 = Before + (i - 1) /\ i - 1 \in 1 .. Devices
      BY <1>2, <1>3, <1>4, <2>2
    <3>2. file[k - 1] = Row(starts, round, i - 1)
      BY <1>3, <3>1
    <3>3. file[k - 1] # Fragment
      BY <3>2, RowFacts
    <3> QED
      BY <3>3 DEF Spoiled
  <2> QED
    BY <1>2, <2>1, <2>2
<1>7. FollowsReport(rep)' => ReportOf(round - 1) \in reported
  <2>1. [rep EXCEPT !.round = rep.round - 1] = ReportOf(round - 1)
    BY <1>1 DEF ReportOf
  <2>2. ReportOf(round - 1).round = round - 1
    BY DEF ReportOf
  <2>3. ReportOf(round - 1) # rep
    BY <1>1, <1>2, <2>2
  <2>4. FollowsReport(rep)' <=> [rep EXCEPT !.round = rep.round - 1] \in reported'
    BY DEF FollowsReport
  <2> QED
    BY <1>1, <2>1, <2>3, <2>4
<1>8. Spoiled(k)' <=> Spoiled(k)
  BY <1>1 DEF Spoiled
<1> QED
  BY <1>1, <1>5, <1>6, <1>7, <1>8 DEF InPlace

\* Every step keeps what a good stream has reported.
LEMMA GoodStep ==
  ASSUME TypeOK, TypeOK', StreamAtPlace, ReportsArePast, RowsAreLast, TrueWhileGood,
         [Next]_vars
  PROVE  TrueWhileGood'
<1> SUFFICES ASSUME pc' # "down", ~bad', NEW rep \in reported', rep.start = starts',
                    NEW i \in 1 .. Devices
             PROVE  InPlace(rep, i)'
  BY GoodInPlaceNext
<1> DEFINE Grows == \A k \in 1 .. Len(file) : k \in 1 .. Len(file') /\ file'[k] = file[k]
<1>1. CASE /\ pc # "down" /\ ~bad /\ Grows
           /\ UNCHANGED starts /\ UNCHANGED reported
  <2>1. InPlace(rep, i)
    BY <1>1, GoodInPlace
  <2>2. FollowsReport(rep)' => FollowsReport(rep)
    BY <1>1 DEF FollowsReport
  <2> QED
    BY <1>1, <2>1, <2>2, PlaceKept
<1>2. CASE Open \/ Close \/ Crash
  <2>1. starts' = starts + 1 /\ UNCHANGED reported
    BY <1>2 DEF Open, Close, Crash
  <2> QED
    BY <2>1, BoundsAssumption DEF ReportsArePast, TypeOK
<1>3. CASE Report
  <2>1. /\ UNCHANGED file /\ UNCHANGED starts /\ ~bad /\ pc = "report"
        /\ reported' = reported \cup {ReportOf(round)}
    BY <1>3, AsideKeeps DEF Aside, Report, ReportOf
  <2>2. CASE rep = ReportOf(round)
    BY <1>3, <2>1, <2>2, ReportInPlace
  <2>3. CASE rep \in reported
    <3>1. InPlace(rep, i)
      BY <2>1, <2>3, GoodInPlace
    <3>2. rep.round < round /\ rep.round \in Nat /\ round \in Nat
      BY <2>1, <2>3, BoundsAssumption DEF ReportsArePast, TypeOK
    <3>3. ReportOf(round).round = round /\ rep = [start |-> rep.start, round |-> rep.round]
      BY <2>3 DEF ReportOf, TypeOK
    <3>4. [rep EXCEPT !.round = rep.round - 1] # ReportOf(round)
      <4>1. [rep EXCEPT !.round = rep.round - 1].round = rep.round - 1
        BY <3>3
      <4> QED
        BY <3>2, <3>3, <4>1
    <3>5. FollowsReport(rep)' => FollowsReport(rep)
      BY <2>1, <3>4 DEF FollowsReport
    <3>6. Grows
      BY <2>1
    <3> QED
      BY <3>1, <3>5, <3>6, PlaceKept
  <2> QED
    BY <2>1, <2>2, <2>3
<1>4. CASE DiskChanges \/ BeginWrite \/ UNCHANGED vars
  <2>1. UNCHANGED file /\ UNCHANGED starts /\ ~bad
    BY <1>4, AsideKeeps DEF Aside
  <2>2. pc # "down" /\ UNCHANGED reported
    BY <1>4 DEF DiskChanges, BeginWrite, vars
  <2> QED
    BY <1>1, <2>1, <2>2
<1>5. CASE InitLogger \/ PutRow \/ FormatThrows
  <2>1. UNCHANGED file /\ UNCHANGED starts /\ UNCHANGED reported /\ ~bad
    BY <1>5, PutsKeep
  <2>2. pc # "down"
    BY <1>5 DEF InitLogger, PutRow, FormatThrows
  <2> QED
    BY <1>1, <2>1, <2>2
<1>6. CASE Flushes
  <2>1. Flush /\ UNCHANGED starts /\ UNCHANGED reported
    BY <1>6, FlushesKeep
  <2>2. ~bad /\ Grows
    BY <2>1, FlushType, FlushKeeps
  <2>3. pc # "down"
    BY <1>6 DEF Flushes, FlushHeader, Spill, FlushRows
  <2> QED
    BY <1>1, <2>1, <2>2, <2>3
<1> QED
  BY <1>2, <1>3, <1>4, <1>5, <1>6, Kinds DEF Aside

\* In a good stream, what this start has reported is stored.
LEMMA GoodIsStored ==
  ASSUME TypeOK, TrueWhileGood, pc # "down", ~bad, NEW rep \in reported, rep.start = starts
  PROVE  Stored(rep)
  BY GoodInPlace DEF InPlace, Stored, Contains

-----------------------------------------------------------------------------
(* What is lost of a bad stream                                            *)

\* Every step keeps the round in which a bad stream was cut.
LEMMA CutStep ==
  ASSUME TypeOK, TypeOK', LinesArePast', ReportsArePast, TrueWhileGood, CutInRound, [Next]_vars
  PROVE  CutInRound'
<1> SUFFICES ASSUME bad'
             PROVE  \E b \in 0 .. round' :
               /\ \A rep \in reported' : rep.start = starts' /\ rep.round < b => Stored(rep)'
               /\ \A k \in 1 .. Len(file') : file'[k].start = starts' => file'[k].round <= b
               /\ \A k \in 1 .. Len(buffer') : buffer'[k].round <= b
  BY DEF CutInRound
<1>0. round \in Nat /\ starts \in Nat
  BY BoundsAssumption DEF TypeOK
<1>1. CASE Open \/ Close \/ Crash
  BY <1>1, FreshStream
<1>2. CASE /\ bad /\ UNCHANGED file /\ UNCHANGED buffer /\ UNCHANGED starts
           /\ round' \in {round, round + 1}
           /\ reported' \in {reported, reported \cup {ReportOf(round)}}
  <2>1. PICK b \in 0 .. round :
          /\ \A rep \in reported : rep.start = starts /\ rep.round < b => Stored(rep)
          /\ \A k \in 1 .. Len(file) : file[k].start = starts => file[k].round <= b
          /\ \A k \in 1 .. Len(buffer) : buffer[k].round <= b
    BY <1>2 DEF CutInRound
  <2>2. b \in 0 .. round'
    BY <1>0, <1>2
  <2>3. ASSUME NEW rep \in reported', rep.start = starts', rep.round < b
        PROVE  Stored(rep)'
    <3>1. rep # ReportOf(round)
      BY <1>0, <2>3 DEF ReportOf
    <3>2. Stored(rep)
      BY <1>2, <2>1, <2>3, <3>1
    <3> QED
      BY <1>2, <3>2, StoredKept
  <2> QED
    BY <1>2, <2>1, <2>2, <2>3
<1>3. CASE Aside
  <2>1. UNCHANGED file /\ UNCHANGED buffer /\ UNCHANGED starts /\ bad
    BY <1>3, AsideKeeps
  <2>2. round' \in {round, round + 1} /\ reported' \in {reported, reported \cup {ReportOf(round)}}
    BY <1>3 DEF Aside, DiskChanges, BeginWrite, Report, vars, ReportOf
  <2> QED
    BY <1>2, <2>1, <2>2
<1>4. CASE InitLogger \/ PutRow \/ FormatThrows
  <2>1. UNCHANGED file /\ UNCHANGED starts /\ UNCHANGED round /\ UNCHANGED reported /\ bad
    BY <1>4, PutsKeep
  <2>2. UNCHANGED buffer
    BY <1>4, <2>1 DEF InitLogger, PutRow, FormatThrows, Put
  <2> QED
    BY <1>2, <2>1, <2>2
<1>5. CASE Flushes
  <2>1. Flush /\ UNCHANGED starts /\ UNCHANGED round /\ UNCHANGED reported
    BY <1>5, FlushesKeep
  <2>2. CASE bad
    <3>1. UNCHANGED file /\ UNCHANGED buffer
      BY <2>1, <2>2, FlushType
    <3> QED
      BY <1>2, <2>1, <2>2, <3>1
  <2>3. CASE ~bad
    <3>1. pc # "down"
      BY <1>5 DEF Flushes, FlushHeader, Spill, FlushRows
    <3>2. \A k \in 1 .. Len(file) : k \in 1 .. Len(file') /\ file'[k] = file[k]
      BY <2>1, FlushKeeps
    <3>3. \A rep \in reported : rep.start = starts => Stored(rep)'
      BY <2>3, <3>1, <3>2, GoodIsStored, StoredKept
    <3>4. /\ \A k \in 1 .. Len(file') : file'[k].round <= round'
          /\ \A k \in 1 .. Len(buffer') : buffer'[k].round <= round'
      BY DEF LinesArePast
    <3>5. round' \in 0 .. round'
      BY <1>0, <2>1
    <3> QED
      BY <2>1, <3>3, <3>4, <3>5
  <2> QED
    BY <2>2, <2>3
<1> QED
  BY <1>1, <1>3, <1>4, <1>5, Kinds

\* Where a stored row can come from.
LEMMA StoredRow ==
  ASSUME TypeOK, NEW rep, NEW g, Written(g), NEW i \in 1 .. Devices,
         Contains(file', Row(rep.start, rep.round, i))
  PROVE  \/ Contains(file, Row(rep.start, rep.round, i))
         \/ \E j \in 1 .. Len(buffer) : buffer[j] = Row(rep.start, rep.round, i)
<1>1. PICK k \in 1 .. Len(file') : file'[k] = Row(rep.start, rep.round, i)
  BY DEF Contains
<1>2. file'[k] # Fragment
  BY <1>1, RowFacts
<1> QED
  BY <1>1, <1>2, WrittenLines DEF Contains

\* What is stored of an earlier start was stored before.
LEMMA OldStored ==
  ASSUME TypeOK, LinesArePast, NEW g, Written(g),
         NEW q, q.start # starts, Stored(q)'
  PROVE  Stored(q)
<1>1. ASSUME NEW i \in 1 .. Devices PROVE Contains(file, Row(q.start, q.round, i))
  <2>1. Contains(file', Row(q.start, q.round, i))
    BY DEF Stored
  <2>2. ASSUME NEW j \in 1 .. Len(buffer), buffer[j] = Row(q.start, q.round, i) PROVE FALSE
    BY <2>2, RowFacts DEF LinesArePast
  <2> QED
    BY <2>1, <2>2, StoredRow
<1> QED
  BY <1>1 DEF Stored

\* What a bad stream stores at last is of no later round than its last good one.
LEMMA LateStored ==
  ASSUME TypeOK, NEW g, Written(g), NEW b \in 0 .. round,
         \A k \in 1 .. Len(file) : file[k].start = starts => file[k].round <= b,
         \A k \in 1 .. Len(buffer) : buffer[k].round <= b,
         NEW q, q.start = starts, Stored(q)'
  PROVE  q.round <= b
<1>1. 1 \in 1 .. Devices
  BY DevicesAssumption
<1>2. Contains(file', Row(q.start, q.round, 1))
  BY <1>1 DEF Stored
<1>3. CASE Contains(file, Row(q.start, q.round, 1))
  BY <1>3, RowFacts DEF Contains
<1>4. CASE \E j \in 1 .. Len(buffer) : buffer[j] = Row(q.start, q.round, 1)
  BY <1>4, RowFacts
<1> QED
  BY <1>1, <1>2, <1>3, <1>4, StoredRow

\* A write keeps the order of what is lost.
LEMMA LostWritten ==
  ASSUME TypeOK, LinesArePast, ReportsArePast, TrueWhileGood, CutInRound, LostAtTheEnd,
         NEW g, Written(g), pc # "down", UNCHANGED reported
  PROVE  LostAtTheEnd'
<1> SUFFICES ASSUME NEW p \in reported, NEW q \in reported,
                    p.start = q.start, p.round < q.round, Stored(q)'
             PROVE  Stored(p)'
  BY DEF LostAtTheEnd
<1>0. \A k \in 1 .. Len(file) : k \in 1 .. Len(file') /\ file'[k] = file[k]
  BY WrittenLines
<1>1. SUFFICES Stored(p)
  BY <1>0, StoredKept
<1>2. CASE p.start # starts
  <2>1. Stored(q)
    BY <1>2, OldStored
  <2> QED
    BY <2>1 DEF LostAtTheEnd
<1>3. CASE p.start = starts /\ ~bad
  BY <1>3, GoodIsStored
<1>4. CASE p.start = starts /\ bad
  <2>1. PICK b \in 0 .. round :
          /\ \A rep \in reported : rep.start = starts /\ rep.round < b => Stored(rep)
          /\ \A k \in 1 .. Len(file) : file[k].start = starts => file[k].round <= b
          /\ \A k \in 1 .. Len(buffer) : buffer[k].round <= b
    BY <1>4 DEF CutInRound
  <2>2. q.round <= b
    BY <1>4, <2>1, LateStored
  <2>3. p.round < b
    <3>1. p.round \in Nat /\ q.round \in Nat /\ b \in Nat
      BY BoundsAssumption DEF TypeOK
    <3> QED
      BY <2>2, <3>1
  <2> QED
    BY <1>4, <2>1, <2>3
<1> QED
  BY <1>2, <1>3, <1>4

\* A report is of the last round.
LEMMA LostReported ==
  ASSUME TypeOK, StreamAtPlace, ReportsArePast, TrueWhileGood, CutInRound, LostAtTheEnd,
         Report
  PROVE  LostAtTheEnd'
<1>1. /\ UNCHANGED file /\ pc = "report"
      /\ reported' = reported \cup {ReportOf(round)}
      /\ ReportOf(round).start = starts /\ ReportOf(round).round = round
  BY AsideKeeps DEF Report, Aside, ReportOf
<1>2. /\ round \in Nat
      /\ \A rep \in reported : rep.round \in Nat /\ rep.round < round
  BY <1>1, BoundsAssumption DEF ReportsArePast, TypeOK
<1> SUFFICES ASSUME NEW p \in reported', NEW q \in reported',
                    p.start = q.start, p.round < q.round, Stored(q)'
             PROVE  Stored(p)'
  BY DEF LostAtTheEnd
<1>3. Stored(q) /\ (Stored(p) => Stored(p)')
  BY <1>1 DEF Stored
<1>4. p \in reported
  BY <1>1, <1>2
<1>5. CASE q \in reported
  BY <1>3, <1>4, <1>5 DEF LostAtTheEnd
<1>6. CASE q = ReportOf(round) /\ ~bad
  BY <1>1, <1>3, <1>4, <1>6, GoodIsStored
<1>7. CASE q = ReportOf(round) /\ bad
  <2>1. PICK b \in 0 .. round :
          /\ \A rep \in reported : rep.start = starts /\ rep.round < b => Stored(rep)
          /\ \A k \in 1 .. Len(file) : file[k].start = starts => file[k].round <= b
    BY <1>7 DEF CutInRound
  <2>2. Contains(file, Row(starts, round, 1))
    BY <1>1, <1>3, <1>7, DevicesAssumption DEF Stored
  <2>3. round <= b
    BY <2>1, <2>2, RowFacts DEF Contains
  <2>4. p.round < b
    BY <1>2, <1>4, <2>3
  <2> QED
    BY <1>1, <1>3, <1>4, <1>7, <2>1, <2>4
<1> QED
  BY <1>1, <1>5, <1>6, <1>7

\* Every step keeps the losses at the end of a start.
LEMMA LostStep ==
  ASSUME TypeOK, StreamAtPlace, LinesArePast, ReportsArePast, TrueWhileGood, CutInRound,
         LostAtTheEnd, [Next]_vars
  PROVE  LostAtTheEnd'
<1>1. CASE UNCHANGED file /\ UNCHANGED reported
  BY <1>1 DEF LostAtTheEnd, Stored
<1>2. CASE Open \/ Crash
  BY <1>1, <1>2 DEF Open, Crash
<1>3. CASE Close
  <2>1. pc # "down" /\ UNCHANGED reported
    BY <1>3 DEF Close
  <2> QED
    BY <1>3, <2>1, WrittenByFlush, LostWritten
<1>4. CASE Report
  BY <1>4, LostReported
<1>5. CASE DiskChanges \/ BeginWrite \/ UNCHANGED vars
  BY <1>1, <1>5 DEF DiskChanges, BeginWrite, vars
<1>6. CASE InitLogger \/ PutRow \/ FormatThrows
  BY <1>1, <1>6, PutsKeep
<1>7. CASE Flushes
  <2>1. Flush /\ UNCHANGED reported
    BY <1>7, FlushesKeep
  <2>2. pc # "down"
    BY <1>7 DEF Flushes, FlushHeader, Spill, FlushRows
  <2>3. UNCHANGED file \/ \E g : Written(g)
    BY <2>1, FlushType
  <2> QED
    BY <1>1, <2>1, <2>2, <2>3, LostWritten
<1> QED
  BY <1>2, <1>3, <1>4, <1>5, <1>6, <1>7, Kinds DEF Aside

\* Every step keeps the invariant.
LEMMA StepHolds == (TypeOK /\ IndInv) /\ [Next]_vars => (TypeOK /\ IndInv)'
<1> SUFFICES ASSUME TypeOK, IndInv, [Next]_vars PROVE (TypeOK /\ IndInv)'
  OBVIOUS
<1> USE DEF IndInv
<1>1. TypeOK' /\ CountersAtPlace'
  BY TypeStep
<1>2. StreamAtPlace' /\ HeaderWaits' /\ LinesArePast' /\ ReportsArePast'
  BY StreamStep, WaitsStep, PastStep, ReportStep
<1>3. RowsAreLast' /\ EndsWithRow'
  BY RowsStep, EndsStep
<1>4. HeaderLeads' /\ TrueWhileGood' /\ LostAtTheEnd'
  BY <1>1, LeadsStep, GoodStep, LostStep
<1>5. CutInRound'
  BY <1>1, <1>2, CutStep
<1> QED
  BY <1>1, <1>2, <1>3, <1>4, <1>5

-----------------------------------------------------------------------------
(* The theorems                                                            *)

\* The lines of the file, those in the buffer of the stream and the reports keep to the
\* order in which CsvLogger writes, flushes and logs them.
THEOREM Invariance == Spec => [](TypeOK /\ IndInv)
  BY InitHolds, StepHolds, PTL DEF Spec

\* The CSV file begins with the header and has no other, unless a line was cut short
\* (CsvLogger::init(), also on a full disk and after crashes).
THEOREM HeaderTheorem == Spec => []HeaderLeads
<1>1. IndInv => HeaderLeads
  BY DEF IndInv
<1> QED
  BY <1>1, Invariance, PTL

\* While its stream is good, all that this start has logged as inserted is in the file,
\* each row on a line of its own, but for the first row after a round that failed.
THEOREM GoodTheorem == Spec => []TrueWhileGood
<1>1. IndInv => TrueWhileGood
  BY DEF IndInv
<1> QED
  BY <1>1, Invariance, PTL

\* What one start loses of the rounds it has logged as inserted is their end, whatever
\* fails, spills or is written again when the stream is closed.
THEOREM LossTheorem == Spec => []LostAtTheEnd
<1>1. IndInv => LostAtTheEnd
  BY DEF IndInv
<1> QED
  BY <1>1, Invariance, PTL

=============================================================================
