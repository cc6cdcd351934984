------------------------------- MODULE Sinks -------------------------------
(***************************************************************************)
(* One DeviceCollector: collect() samples the devices and hands the round  *)
(* to the sinks in a fixed order - CSV file, Prometheus gauges, database,  *)
(* HTTP snapshot - while Prometheus scrapes the gauges from another        *)
(* thread.  CsvLogger, Database and HttpApi are the insides of three of    *)
(* the sinks; here each is the number of the last round that reached it,   *)
(* and the CSV file has the state of its stream besides.                   *)
(*                                                                         *)
(* A gauge exists per family (a metric) and device (a set of labels).  The *)
(* Prometheus library is external: Family::Add() takes the mutex of the    *)
(* family and creates the gauge, at zero, if it is new; Gauge::Set() is an *)
(* atomic store; a scrape holds the mutex of one family after another, and *)
(* of the registry, so that scrapes do not overlap.                        *)
(***************************************************************************)
EXTENDS Integers

CONSTANTS
  NumFamilies,
  NumDevices,  \* label_list.size()
  MaxRounds    \* bound on the rounds

ASSUME SizesAssumption == NumFamilies \in Nat \ {0} /\ NumDevices \in Nat
ASSUME RoundsAssumption == MaxRounds \in Nat

VARIABLES
  enabled,  \* the sinks chosen on the command line
  phase,    \* how far collect() has come
  round,    \* the last round that went past the CSV file
  csv,      \* the last round whose rows are all in the CSV file
  stream,   \* m_ofs: "partial" with rows of an abandoned sample, "failed" for good
  gauge,    \* the round each gauge shows, 0 before its first Set(), or Absent
  next,     \* the gauge that write() comes to next
  db,       \* the last round the database has
  linkLost, \* isConnected() is false
  http,     \* the round of the HTTP snapshot
  lock,     \* the family whose mutex the scrape holds, or 0
  scrape    \* the scrape in progress, or the last one

file == <<csv, stream>>
sinks == <<file, gauge, next, db, linkLost, http>>
collector == <<enabled, phase, round, sinks>>
scraper == <<lock, scrape>>
vars == <<collector, scraper>>

Kinds == {"csv", "gauges", "db", "http"}
Families == 1 .. NumFamilies
Devices == 1 .. NumDevices
Gauges == Families \X Devices
\* A constructor registers the families and creates no gauge
Absent == -1
Shown == -1 .. MaxRounds

\* write() goes through the families of one device after the other
First == <<1, 1>>
After(g) == IF g[1] < NumFamilies THEN <<g[1] + 1, g[2]>> ELSE <<1, g[2] + 1>>
AtEnd(g) == g[2] > NumDevices

\* The stages of collect(), and of the object around it
Phases == {"new", "idle", "sampling", "sampled", "filed", "adding", "setting", "exported",
           "stored", "over"}

TypeOK ==
  /\ enabled \subseteq Kinds
  /\ phase \in Phases
  /\ {round, csv, db, http} \subseteq 0 .. MaxRounds
  /\ stream \in {"good", "partial", "failed"}
  /\ gauge \in [Gauges -> Shown]
  /\ next \in Families \X (Nat \ {0})
  /\ linkLost \in BOOLEAN
  /\ lock \in 0 .. NumFamilies
  /\ scrape \in [on : BOOLEAN, done : SUBSET Families, got : [Gauges -> Shown],
                 since : 0 .. MaxRounds]

Nothing == [g \in Gauges |-> Absent]

Init ==
  /\ enabled \in SUBSET Kinds
  /\ phase = "new"
  /\ round = 0
  /\ csv = 0 /\ stream = "good" /\ db = 0 /\ http = 0
  /\ gauge = Nothing
  /\ next = First
  /\ linkLost = FALSE
  /\ lock = 0
  /\ scrape = [on |-> FALSE, done |-> {}, got |-> Nothing, since |-> 0]

-----------------------------------------------------------------------------
(* The constructor: it registers the families, which show nothing yet      *)

\* Nobody looks at the stream when init() has flushed the header
Construct ==
  /\ phase = "new"
  /\ phase' = "idle"
  /\ stream' \in IF "csv" \in enabled THEN {"good", "failed"} ELSE {stream}
  /\ UNCHANGED <<enabled, round, csv, gauge, next, db, linkLost, http, scraper>>

\* FatalError: no device, no file, no database
ConstructFails ==
  /\ phase = "new"
  /\ phase' = "over"
  /\ UNCHANGED <<enabled, round, sinks, scraper>>

-----------------------------------------------------------------------------
(* collect()                                                               *)

BeginRound ==
  /\ phase = "idle"
  /\ round < MaxRounds
  /\ phase' = "sampling"
  /\ UNCHANGED <<enabled, round, sinks, scraper>>

Sample ==
  /\ phase = "sampling"
  /\ phase' = "sampled"
  /\ UNCHANGED <<enabled, round, sinks, scraper>>

\* RecoverableError: the next round is tried; FatalError: the loop ends
SampleFails ==
  /\ phase = "sampling"
  /\ phase' \in {"idle", "over"}
  /\ UNCHANGED <<enabled, round, sinks, scraper>>

\* CsvLogger::write(): the flush takes the rows to the file, and those of an abandoned
\* sample before them
WriteCsv ==
  /\ phase = "sampled"
  /\ "csv" \in enabled => stream # "failed"
  /\ round' = round + 1
  /\ IF "csv" \in enabled THEN csv' = round' /\ stream' = "good" ELSE UNCHANGED file
  /\ phase' = "filed"
  /\ UNCHANGED <<enabled, gauge, next, db, linkLost, http, scraper>>

\* The stream fails, or has failed before: it drops rows, throws nothing, and the
\* round goes on to the other sinks
WriteCsvLoses ==
  /\ phase = "sampled"
  /\ "csv" \in enabled
  /\ round' = round + 1
  /\ stream' = "failed"
  /\ phase' = "filed"
  /\ UNCHANGED <<enabled, csv, gauge, next, db, linkLost, http, scraper>>

\* Mutant: the exception ends in the CSV sink, and the round goes on without it.
WriteCsvSwallows ==
  /\ phase = "sampled"
  /\ "csv" \in enabled
  /\ NumDevices > 0
  /\ round' = round + 1
  /\ stream' = IF stream = "failed" THEN stream ELSE "partial"
  /\ phase' = "filed"
  /\ UNCHANGED <<enabled, csv, gauge, next, db, linkLost, http, scraper>>

\* RecoverableError from formatting a row: no other sink sees the round, but the stream
\* keeps what it has of it, unless it fails over it
WriteCsvThrows ==
  /\ phase = "sampled"
  /\ "csv" \in enabled
  /\ NumDevices > 0
  /\ stream' \in IF stream = "failed" THEN {"failed"} ELSE {"partial", "failed"}
  /\ phase' = "idle"
  /\ UNCHANGED <<enabled, round, csv, gauge, next, db, linkLost, http, scraper>>

BeginWrite ==
  /\ phase = "filed"
  /\ next' = First
  /\ phase' = IF "gauges" \in enabled THEN "adding" ELSE "exported"
  /\ UNCHANGED <<enabled, round, file, gauge, db, linkLost, http, scraper>>

\* Mutant: the gauges are looked up once and kept, without the mutex of the family.
AddCached ==
  /\ phase = "adding"
  /\ ~AtEnd(next)
  /\ gauge' = [gauge EXCEPT ![next] = IF @ = Absent THEN 0 ELSE @]
  /\ phase' = "setting"
  /\ UNCHANGED <<enabled, round, file, next, db, linkLost, http, scraper>>

\* Family::Add(labels) waits for the mutex of the family
Add ==
  /\ phase = "adding"
  /\ ~AtEnd(next)
  /\ lock # next[1]
  /\ gauge' = [gauge EXCEPT ![next] = IF @ = Absent THEN 0 ELSE @]
  /\ phase' = "setting"
  /\ UNCHANGED <<enabled, round, file, next, db, linkLost, http, scraper>>

\* Gauge::Set(value)
Set ==
  /\ phase = "setting"
  /\ gauge' = [gauge EXCEPT ![next] = round]
  /\ next' = After(next)
  /\ phase' = "adding"
  /\ UNCHANGED <<enabled, round, file, db, linkLost, http, scraper>>

\* Mutant: the loop ends before the last gauge.
EndWriteEarly ==
  /\ phase = "adding"
  /\ AtEnd(After(next))
  /\ phase' = "exported"
  /\ UNCHANGED <<enabled, round, sinks, scraper>>

EndWrite ==
  /\ phase = "adding"
  /\ AtEnd(next)
  /\ phase' = "exported"
  /\ UNCHANGED <<enabled, round, sinks, scraper>>

Store ==
  /\ phase = "exported"
  /\ "db" \in enabled => ~linkLost
  /\ db' = IF "db" \in enabled THEN round ELSE db
  /\ phase' = "stored"
  /\ UNCHANGED <<enabled, round, file, gauge, next, linkLost, http, scraper>>

\* writeMetric() returns after a failure: a rejected insert, or a connection that
\* breaks, which isConnected() tells from then on.  The round is not stored, unless
\* it was the answer to COMMIT that got lost
StoreLoses ==
  /\ phase = "exported"
  /\ "db" \in enabled /\ ~linkLost
  /\ linkLost' \in BOOLEAN
  /\ db' \in IF linkLost' THEN {db, round} ELSE {db}
  /\ phase' = "stored"
  /\ UNCHANGED <<enabled, round, file, gauge, next, http, scraper>>

\* FatalError: not connected
StoreThrows ==
  /\ phase = "exported"
  /\ "db" \in enabled /\ linkLost
  /\ phase' = "over"
  /\ UNCHANGED <<enabled, round, sinks, scraper>>

WriteHttp ==
  /\ phase = "stored"
  /\ http' = IF "http" \in enabled THEN round ELSE http
  /\ phase' = "idle"
  /\ UNCHANGED <<enabled, round, file, gauge, next, db, linkLost, scraper>>

-----------------------------------------------------------------------------
(* A scrape of the gauges.  They outlive the collector: the registry has   *)
(* them.                                                                   *)

\* The last round whose write() of the gauges had ended
Whole == IF "gauges" \notin enabled THEN 0
         ELSE IF phase \in {"filed", "adding", "setting"} THEN round - 1
         ELSE round

BeginScrape ==
  /\ ~scrape.on
  /\ scrape' = [on |-> TRUE, done |-> {}, got |-> Nothing, since |-> Whole]
  /\ UNCHANGED <<collector, lock>>

\* Families come in the order of their registration
LockFamily ==
  /\ scrape.on /\ lock = 0
  /\ \E f \in Families \ scrape.done :
       /\ \A e \in Families \ scrape.done : f <= e
       /\ lock' = f
  /\ UNCHANGED <<collector, scrape>>

\* The gauges of a family come in any order
ReadGauge ==
  /\ lock # 0
  /\ \E d \in Devices :
       LET g == <<lock, d>>
       IN  /\ gauge[g] # Absent /\ scrape.got[g] = Absent
           /\ scrape' = [scrape EXCEPT !.got[g] = gauge[g]]
  /\ UNCHANGED <<collector, lock>>

UnlockFamily ==
  /\ lock # 0
  /\ \A d \in Devices : gauge[<<lock, d>>] # Absent => scrape.got[<<lock, d>>] # Absent
  /\ scrape' = [scrape EXCEPT !.done = @ \union {lock}]
  /\ lock' = 0
  /\ UNCHANGED collector

EndScrape ==
  /\ scrape.on /\ scrape.done = Families
  /\ scrape' = [scrape EXCEPT !.on = FALSE]
  /\ UNCHANGED <<collector, lock>>

-----------------------------------------------------------------------------

Collect ==
  \/ BeginRound \/ Sample \/ SampleFails
  \/ WriteCsv \/ WriteCsvLoses \/ WriteCsvThrows \/ BeginWrite \/ Add \/ Set \/ EndWrite
  \/ Store \/ StoreLoses \/ StoreThrows \/ WriteHttp

Scrape == BeginScrape \/ LockFamily \/ ReadGauge \/ UnlockFamily \/ EndScrape

Next == Construct \/ ConstructFails \/ Collect \/ Scrape

Spec == Init /\ [][Next]_vars

-----------------------------------------------------------------------------
(* Properties                                                              *)

\* Between rounds, whatever failed in them, the CSV file, the gauges and the HTTP
\* snapshot have come to one and the same round: a sample or a row that fails keeps the
\* round from gauges and HTTP, and a database that loses a round holds none of them back.
\* Two things alone set them apart.  A CSV stream that has failed stays behind from then
\* on, while the others go on; and the FatalError of a lost connection, which ends the
\* loop, leaves the HTTP snapshot one round behind.
SinksAgree ==
  phase \in {"idle", "sampling", "over"} =>
    /\ "csv" \in enabled => csv = round \/ (stream = "failed" /\ csv < round)
    /\ "gauges" \in enabled /\ round > 0 => \A g \in Gauges : gauge[g] = round
    /\ "http" \in enabled /\ http # round =>
         phase = "over" /\ linkLost /\ http = round - 1

\* A scrape is recent: once a write() of the gauges had ended before the scrape began,
\* the answer has every gauge, none of them from an earlier round than that write's,
\* and in particular none at the zero that Add() creates it with.
ScrapeIsRecent ==
  \A g \in Gauges :
    scrape.since > 0 /\ g[1] \in scrape.done => scrape.got[g] >= scrape.since

\* The round a value of an answer stands for, 0 for a gauge without one
RoundOf(v) == IF v = Absent THEN 0 ELSE v

\* One family of an answer mixes at most two rounds, adjacent ones, and the devices
\* that come first in label_list have the newer: write() takes the family's mutex for
\* every gauge, so that it cannot go round while the family is read, though it may
\* overtake the scrape between families by any number of rounds.
FamilyHoldsTogether ==
  \A f \in scrape.done : \A d, e \in Devices :
    d < e => RoundOf(scrape.got[<<f, d>>]) - RoundOf(scrape.got[<<f, e>>]) \in {0, 1}

-----------------------------------------------------------------------------
=============================================================================
