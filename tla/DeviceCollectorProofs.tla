----------------------- MODULE DeviceCollectorProofs ------------------------
(*****************************************************************************)
(* Proofs about a device collector, for any number of families, devices,     *)
(* rounds, calls and timestamps: Sinks, the order of its sinks and what      *)
(* scrapes see of them, and then Database, the inside of one of the sinks.   *)
(*****************************************************************************)
EXTENDS Sinks, Database, TLAPS

\* The order in which write() comes to the gauges
Before(g, h) == g[2] < h[2] \/ (g[2] = h[2] /\ g[1] < h[1])

\* What a gauge shows after r rounds
Latest(r) == IF r = 0 THEN Absent ELSE r

Passing == {"filed", "adding", "setting", "exported", "stored"}

\* A round is under way only while there is one to count, and gauges are only
\* written when they are enabled, at one that exists
Stages ==
  /\ phase \in {"sampling", "sampled"} => round < MaxRounds
  /\ phase \in Passing => round > 0
  /\ phase \in {"adding", "setting"} => "gauges" \in enabled
  /\ phase = "setting" => ~AtEnd(next)

\* Gauges before the next one show this round, those from there on the last one
GaugesInPlace ==
  \A g \in Gauges :
    gauge[g] =
      IF "gauges" \notin enabled THEN Absent
      ELSE IF phase \in {"adding", "setting"} /\ Before(g, next) THEN round
      ELSE IF phase = "setting" /\ g = next /\ round = 1 THEN 0
      ELSE IF phase \in {"filed", "adding", "setting"} THEN Latest(round - 1)
      ELSE Latest(round)

\* The CSV file has come to the round, unless its stream has failed, the HTTP snapshot to
\* the last round that came to the end
SinksInPlace ==
  /\ "csv" \in enabled => csv = round \/ (stream = "failed" /\ phase # "new" /\ csv < round)
  /\ "http" \in enabled =>
       \/ phase \notin Passing /\ http = round
       \/ phase \in Passing /\ http = round - 1
       \/ phase = "over" /\ linkLost /\ http = round - 1

\* A scrape began at a whole write and has read nothing older
ScrapeInPlace ==
  /\ scrape.since <= Whole
  /\ lock \notin scrape.done
  /\ \A g \in Gauges :
       scrape.since > 0 /\ scrape.got[g] # Absent => scrape.got[g] >= scrape.since

\* Nothing has been read from families that the scrape has yet to come to
FamiliesInOrder ==
  \A g \in Gauges : g[1] \notin scrape.done /\ g[1] # lock => scrape.got[g] = Absent

\* Device d of the family held was read before its gauge went on to this round,
\* which those after it have not reached
Outrun(d) ==
  LET v == RoundOf(gauge[<<lock, d>>])
  IN  /\ RoundOf(scrape.got[<<lock, d>>]) = v - 1
      /\ \A e \in Devices : e < d => RoundOf(gauge[<<lock, e>>]) = v
      /\ \A e \in Devices : e > d => RoundOf(gauge[<<lock, e>>]) = v - 1

\* Whoever holds the mutex of a family sees at most one of its gauges go on
HeldFamily ==
  lock # 0 =>
    \A d \in Devices :
      \/ scrape.got[<<lock, d>>] = Absent
      \/ RoundOf(scrape.got[<<lock, d>>]) = RoundOf(gauge[<<lock, d>>])
      \/ Outrun(d) /\ ~(phase = "setting" /\ next[1] = lock)

IndInv ==
  /\ TypeOK
  /\ Stages
  /\ GaugesInPlace
  /\ SinksInPlace
  /\ ScrapeInPlace
  /\ FamiliesInOrder
  /\ HeldFamily
  /\ ScrapeIsRecent
  /\ FamilyHoldsTogether

-----------------------------------------------------------------------------

\* The constructor leaves every sink empty.
LEMMA InitHolds == Init => IndInv
<1>. SUFFICES ASSUME Init PROVE IndInv
  OBVIOUS
<1>1. TypeOK
  <2>1. Nothing \in [Gauges -> Shown]
    BY RoundsAssumption DEF Nothing, Absent, Shown
  <2>2. First \in Families \X (Nat \ {0})
    BY SizesAssumption DEF First, Families
  <2>3. phase \in Phases
    BY DEF Init, Phases
  <2>4. enabled \subseteq Kinds /\ linkLost \in BOOLEAN
    BY DEF Init
  <2>. QED
    BY <2>1, <2>2, <2>3, <2>4, SizesAssumption, RoundsAssumption DEF Init, TypeOK
<1>2. Stages /\ SinksInPlace
  BY DEF Init, Stages, SinksInPlace, Passing
<1>3. GaugesInPlace
  BY DEF Init, GaugesInPlace, Nothing, Latest
<1>4. ScrapeInPlace /\ FamiliesInOrder
  BY DEF Init, ScrapeInPlace, FamiliesInOrder, Nothing, Whole
<1>5. HeldFamily /\ ScrapeIsRecent /\ FamilyHoldsTogether
  BY DEF Init, HeldFamily, ScrapeIsRecent, FamilyHoldsTogether
<1>. QED
  BY <1>1, <1>2, <1>3, <1>4, <1>5 DEF IndInv

\* The gauge that write() comes to next is one that exists, or it is at its end.
LEMMA NextGauge ==
  ASSUME TypeOK
  PROVE  /\ next = <<next[1], next[2]>> /\ next[1] \in Families /\ next[2] \in Nat \ {0}
         /\ After(next) \in Families \X (Nat \ {0})
BY SizesAssumption DEF TypeOK, After, Families

\* Within the loop of write() that gauge exists.
LEMMA NextIsGauge ==
  ASSUME TypeOK, ~AtEnd(next)
  PROVE  next \in Gauges /\ next \in Families \X (Nat \ {0})
<1>1. next[2] \in Devices
  BY NextGauge, SizesAssumption DEF AtEnd, Devices
<1>2. \A f \in Families, d \in Devices : <<f, d>> \in Gauges
  BY DEF Gauges
<1>3. <<next[1], next[2]>> \in Gauges
  BY <1>1, <1>2, NextGauge
<1>4. next \in Gauges
  BY <1>3, NextGauge
<1>. QED
  BY <1>4 DEF TypeOK

\* Every step keeps the types.
LEMMA TypeStep == TypeOK /\ Stages /\ [Next]_vars => TypeOK'
<1>. SUFFICES ASSUME TypeOK, Stages, [Next]_vars PROVE TypeOK'
  OBVIOUS
<1>. USE SizesAssumption, RoundsAssumption DEF file
<1>1. CASE Construct
  BY <1>1 DEF Construct, TypeOK, Phases, scraper
<1>2. CASE ConstructFails
  BY <1>2 DEF ConstructFails, TypeOK, Phases, sinks, scraper
<1>3. CASE BeginRound
  BY <1>3 DEF BeginRound, TypeOK, Phases, sinks, scraper
<1>4. CASE Sample
  BY <1>4 DEF Sample, TypeOK, Phases, sinks, scraper
<1>5. CASE SampleFails
  BY <1>5 DEF SampleFails, TypeOK, Phases, sinks, scraper
<1>6. CASE WriteCsv \/ WriteCsvLoses
  BY <1>6 DEF WriteCsv, WriteCsvLoses, TypeOK, Stages, Phases, scraper
<1>7. CASE WriteCsvThrows
  BY <1>7 DEF WriteCsvThrows, TypeOK, Phases, scraper
<1>8. CASE BeginWrite
  BY <1>8 DEF BeginWrite, TypeOK, Phases, First, Families, scraper
<1>9. CASE Add
  <2>1. gauge' \in [Gauges -> Shown]
    <3>1. \A x \in Shown : (IF x = Absent THEN 0 ELSE x) \in Shown
      BY DEF Shown
    <3>2. gauge' = [gauge EXCEPT ![next] = IF gauge[next] = Absent THEN 0 ELSE gauge[next]]
      BY <1>9 DEF Add
    <3>. QED
      BY <3>1, <3>2 DEF TypeOK
  <2>. QED
    BY <1>9, <2>1 DEF Add, TypeOK, Phases, scraper
<1>10. CASE Set
  <2>1. gauge' \in [Gauges -> Shown]
    <3>1. round \in Shown
      BY DEF TypeOK, Shown
    <3>. QED
      BY <1>10, <3>1 DEF Set, TypeOK
  <2>2. next' \in Families \X (Nat \ {0})
    BY <1>10, NextGauge DEF Set
  <2>. QED
    BY <1>10, <2>1, <2>2 DEF Set, TypeOK, Phases, scraper
<1>11. CASE EndWrite
  BY <1>11 DEF EndWrite, TypeOK, Phases, sinks, scraper
<1>12. CASE Store
  BY <1>12 DEF Store, TypeOK, Phases, scraper
<1>13. CASE StoreLoses
  BY <1>13 DEF StoreLoses, TypeOK, Phases, scraper
<1>14. CASE StoreThrows
  BY <1>14 DEF StoreThrows, TypeOK, Phases, sinks, scraper
<1>15. CASE WriteHttp
  BY <1>15 DEF WriteHttp, TypeOK, Phases, scraper
<1>16. CASE BeginScrape
  BY <1>16 DEF BeginScrape, TypeOK, Nothing, Whole, Shown, Absent, collector, sinks, Stages, Passing
<1>17. CASE LockFamily
  BY <1>17 DEF LockFamily, TypeOK, Families, collector, sinks
<1>18. CASE ReadGauge
  <2>1. PICK d \in Devices : scrape' = [scrape EXCEPT !.got[<<lock, d>>] = gauge[<<lock, d>>]]
    BY <1>18 DEF ReadGauge
  <2>2. <<lock, d>> \in Gauges
    BY <1>18 DEF ReadGauge, TypeOK, Gauges, Families
  <2>3. [scrape.got EXCEPT ![<<lock, d>>] = gauge[<<lock, d>>]] \in [Gauges -> Shown]
    BY <2>2 DEF TypeOK
  <2>4. scrape' = [scrape EXCEPT !.got = [scrape.got EXCEPT ![<<lock, d>>] = gauge[<<lock, d>>]]]
    BY <2>1
  <2>. QED
    BY <1>18, <2>3, <2>4 DEF ReadGauge, TypeOK, collector, sinks
<1>19. CASE UnlockFamily
  BY <1>19 DEF UnlockFamily, TypeOK, Families, collector, sinks
<1>20. CASE EndScrape
  BY <1>20 DEF EndScrape, TypeOK, collector, sinks
<1>21. CASE UNCHANGED vars
  BY <1>21 DEF TypeOK, vars, collector, sinks, scraper
<1>. QED
  BY <1>1, <1>2, <1>3, <1>4, <1>5, <1>6, <1>7, <1>8, <1>9, <1>10, <1>11, <1>12, <1>13,
     <1>14, <1>15, <1>16, <1>17, <1>18, <1>19, <1>20, <1>21 DEF Next, Collect, Scrape

\* Every step keeps the stages: a round begins only below the bound, and the place
\* of write() is at its end when it leaves the loop.
LEMMA StagesStep == TypeOK /\ Stages /\ [Next]_vars => Stages'
<1>. SUFFICES ASSUME TypeOK, Stages, [Next]_vars PROVE Stages'
  OBVIOUS
<1>. USE RoundsAssumption DEF Stages, Passing, file
<1>1. CASE Construct
  BY <1>1 DEF Construct, sinks, AtEnd
<1>2. CASE ConstructFails
  BY <1>2 DEF ConstructFails, sinks, AtEnd
<1>3. CASE BeginRound
  BY <1>3 DEF BeginRound, sinks, AtEnd
<1>4. CASE Sample
  BY <1>4 DEF Sample, sinks, AtEnd
<1>5. CASE SampleFails
  BY <1>5 DEF SampleFails, sinks, AtEnd
<1>6. CASE WriteCsv \/ WriteCsvLoses
  BY <1>6 DEF WriteCsv, WriteCsvLoses, TypeOK
<1>7. CASE WriteCsvThrows
  BY <1>7 DEF WriteCsvThrows, AtEnd
<1>8. CASE BeginWrite
  BY <1>8 DEF BeginWrite, sinks, AtEnd
<1>9. CASE Add
  BY <1>9 DEF Add, sinks, AtEnd
<1>10. CASE Set
  BY <1>10 DEF Set, sinks, AtEnd
<1>11. CASE EndWrite
  BY <1>11 DEF EndWrite, sinks, AtEnd
<1>12. CASE Store
  BY <1>12 DEF Store, sinks, AtEnd
<1>13. CASE StoreLoses
  BY <1>13 DEF StoreLoses, sinks, AtEnd
<1>14. CASE StoreThrows
  BY <1>14 DEF StoreThrows, sinks, AtEnd
<1>15. CASE WriteHttp
  BY <1>15 DEF WriteHttp, sinks, AtEnd
<1>16. CASE UNCHANGED collector
  BY <1>16 DEF collector, sinks, AtEnd
<1>. QED
  BY <1>1, <1>2, <1>3, <1>4, <1>5, <1>6, <1>7, <1>8, <1>9, <1>10, <1>11, <1>12, <1>13,
     <1>14, <1>15, <1>16
     DEF Next, Collect, Scrape, vars, BeginScrape, LockFamily, ReadGauge, UnlockFamily, EndScrape

\* Every step keeps the sinks in place: the CSV file goes on with the round or stays
\* behind for good, the HTTP snapshot follows when the round is stored.
LEMMA SinksStep == TypeOK /\ Stages /\ SinksInPlace /\ [Next]_vars => SinksInPlace'
<1>. SUFFICES ASSUME TypeOK, Stages, SinksInPlace, [Next]_vars PROVE SinksInPlace'
  OBVIOUS
<1>. USE DEF SinksInPlace, Passing, file
<1>1. CASE Construct
  BY <1>1 DEF Construct, sinks
<1>2. CASE ConstructFails
  BY <1>2 DEF ConstructFails, sinks
<1>3. CASE BeginRound
  BY <1>3 DEF BeginRound, sinks
<1>4. CASE Sample
  BY <1>4 DEF Sample, sinks
<1>5. CASE SampleFails
  BY <1>5 DEF SampleFails, sinks
<1>6. CASE WriteCsv \/ WriteCsvLoses
  BY <1>6 DEF WriteCsv, WriteCsvLoses, TypeOK
<1>7. CASE WriteCsvThrows
  BY <1>7 DEF WriteCsvThrows
<1>8. CASE BeginWrite
  BY <1>8 DEF BeginWrite, sinks
<1>9. CASE Add
  BY <1>9 DEF Add, sinks
<1>10. CASE Set
  BY <1>10 DEF Set, sinks
<1>11. CASE EndWrite
  BY <1>11 DEF EndWrite, sinks
<1>12. CASE Store
  BY <1>12 DEF Store, sinks
<1>13. CASE StoreLoses
  BY <1>13 DEF StoreLoses, sinks
<1>14. CASE StoreThrows
  BY <1>14 DEF StoreThrows, sinks
<1>15. CASE WriteHttp
  BY <1>15 DEF WriteHttp, sinks
<1>16. CASE UNCHANGED collector
  BY <1>16 DEF collector, sinks
<1>. QED
  BY <1>1, <1>2, <1>3, <1>4, <1>5, <1>6, <1>7, <1>8, <1>9, <1>10, <1>11, <1>12, <1>13,
     <1>14, <1>15, <1>16
     DEF Next, Collect, Scrape, vars, BeginScrape, LockFamily, ReadGauge, UnlockFamily, EndScrape

\* A gauge is a family and a device.
LEMMA GaugeIsPair ==
  ASSUME NEW g \in Gauges
  PROVE  g = <<g[1], g[2]>> /\ g[1] \in 1 .. NumFamilies /\ g[2] \in 1 .. NumDevices
BY DEF Gauges, Families, Devices

\* The order that write() follows: it begins before every gauge, goes past one gauge
\* at a time, and is at its end past all of them.
LEMMA OrderOfGauges ==
  ASSUME NEW h \in Families \X (Nat \ {0}), NEW g \in Gauges
  PROVE  /\ ~Before(g, First) /\ ~Before(h, h)
         /\ Before(g, After(h)) <=> Before(g, h) \/ g = h
         /\ AtEnd(h) => Before(g, h)
<1>. USE GaugeIsPair, SizesAssumption DEF Before
<1>1. h = <<h[1], h[2]>> /\ h[1] \in 1 .. NumFamilies /\ h[2] \in Nat \ {0}
  BY DEF Families
<1>2. ~Before(g, First) /\ ~Before(h, h)
  BY <1>1 DEF First
<1>3. Before(g, After(h)) <=> Before(g, h) \/ g = h
  <2>1. CASE h[1] < NumFamilies
    <3>1. After(h)[1] = h[1] + 1 /\ After(h)[2] = h[2]
      BY <2>1 DEF After
    <3>2. g = h <=> g[1] = h[1] /\ g[2] = h[2]
      BY <1>1
    <3>. QED
      BY <1>1, <3>1, <3>2
  <2>2. CASE h[1] = NumFamilies
    <3>1. After(h)[1] = 1 /\ After(h)[2] = h[2] + 1
      BY <2>2 DEF After
    <3>2. g = h <=> g[1] = h[1] /\ g[2] = h[2]
      BY <1>1
    <3>. QED
      BY <1>1, <2>2, <3>1, <3>2
  <2>. QED
    BY <1>1, <2>1, <2>2
<1>4. AtEnd(h) => Before(g, h)
  BY <1>1 DEF AtEnd
<1>. QED
  BY <1>2, <1>3, <1>4

\* Every step keeps the gauges in place.
LEMMA GaugesStep == TypeOK /\ Stages /\ GaugesInPlace /\ [Next]_vars => GaugesInPlace'
<1>. SUFFICES ASSUME TypeOK, Stages, GaugesInPlace, [Next]_vars PROVE GaugesInPlace'
  OBVIOUS
<1>. USE DEF Latest
<1>1. CASE Construct \/ ConstructFails \/ BeginRound \/ Sample \/ SampleFails \/ WriteCsvThrows
  BY <1>1 DEF Construct, ConstructFails, BeginRound, Sample, SampleFails, WriteCsvThrows,
              GaugesInPlace, sinks
<1>2. CASE WriteCsv \/ WriteCsvLoses
  BY <1>2 DEF WriteCsv, WriteCsvLoses, GaugesInPlace, TypeOK
<1>3. CASE BeginWrite
  <2>1. \A g \in Gauges : ~Before(g, First)
    BY GaugeIsPair DEF Before, First
  <2>. QED
    BY <1>3, <2>1 DEF BeginWrite, GaugesInPlace
<1>4. CASE Add
  <2>1. next \in Gauges /\ ~Before(next, next)
    BY <1>4, NextIsGauge, OrderOfGauges DEF Add
  <2>2. ASSUME NEW g \in Gauges, g # next PROVE gauge'[g] = gauge[g]
    BY <1>4, <2>2 DEF Add, TypeOK
  <2>3. gauge'[next] = IF gauge[next] = Absent THEN 0 ELSE gauge[next]
    BY <1>4, <2>1 DEF Add, TypeOK
  <2>4. gauge[next] = Latest(round - 1) /\ "gauges" \in enabled /\ round > 0
    BY <1>4, <2>1 DEF Add, GaugesInPlace, Stages, Passing
  <2>5. phase = "adding" /\ phase' = "setting" /\ UNCHANGED <<enabled, round, next>>
    BY <1>4 DEF Add
  <2>6. gauge'[next] = IF round = 1 THEN 0 ELSE Latest(round - 1)
    BY <2>3, <2>4 DEF TypeOK, Absent
  <2>7. ASSUME NEW g \in Gauges
        PROVE  gauge'[g] = IF Before(g, next) THEN round
                           ELSE IF g = next /\ round = 1 THEN 0 ELSE Latest(round - 1)
    BY <2>1, <2>2, <2>4, <2>5, <2>6 DEF GaugesInPlace
  <2>. QED
    BY <2>4, <2>5, <2>7 DEF GaugesInPlace
<1>5. CASE Set
  <2>1. next \in Gauges /\ next \in Families \X (Nat \ {0})
    BY <1>5, NextIsGauge DEF Set, Stages
  <2>2. ASSUME NEW g \in Gauges PROVE gauge'[g] = IF g = next THEN round ELSE gauge[g]
    BY <1>5, <2>1 DEF Set, TypeOK
  <2>3. phase = "setting" /\ phase' = "adding" /\ next' = After(next)
        /\ UNCHANGED <<enabled, round>> /\ "gauges" \in enabled
    BY <1>5 DEF Set, Stages
  <2>4. ASSUME NEW g \in Gauges
        PROVE  gauge'[g] = IF Before(g, After(next)) THEN round ELSE Latest(round - 1)
    BY <2>1, <2>2, <2>3, OrderOfGauges DEF GaugesInPlace
  <2>. QED
    BY <2>3, <2>4 DEF GaugesInPlace
<1>6. CASE EndWrite
  <2>1. \A g \in Gauges : Before(g, next)
    BY <1>6, OrderOfGauges DEF EndWrite, TypeOK
  <2>2. round > 0
    BY <1>6 DEF EndWrite, Stages, Passing
  <2>. QED
    BY <1>6, <2>1, <2>2 DEF EndWrite, GaugesInPlace, sinks, TypeOK
<1>7. CASE Store \/ StoreLoses \/ StoreThrows \/ WriteHttp
  BY <1>7 DEF Store, StoreLoses, StoreThrows, WriteHttp, GaugesInPlace, sinks
<1>8. CASE UNCHANGED collector
  BY <1>8 DEF GaugesInPlace, collector, sinks
<1>. QED
  BY <1>1, <1>2, <1>3, <1>4, <1>5, <1>6, <1>7, <1>8
     DEF Next, Collect, Scrape, vars, BeginScrape, LockFamily, ReadGauge, UnlockFamily, EndScrape

\* The gauges of a family show two adjacent rounds at most, the newer one first.
LEMMA GaugesFall ==
  ASSUME TypeOK, Stages, GaugesInPlace,
         NEW f \in Families, NEW d \in Devices, NEW e \in Devices, d < e
  PROVE  RoundOf(gauge[<<f, d>>]) - RoundOf(gauge[<<f, e>>]) \in {0, 1}
<1>. DEFINE g == <<f, d>>
            h == <<f, e>>
<1>1. g \in Gauges /\ h \in Gauges /\ g[1] = f /\ g[2] = d /\ h[1] = f /\ h[2] = e
  BY DEF Gauges
<1>2. next = <<next[1], next[2]>> /\ next[1] \in 1 .. NumFamilies /\ next[2] \in Nat \ {0}
  BY NextGauge DEF Families
<1>3. Before(h, next) => Before(g, next)
  BY <1>1, <1>2 DEF Before, Devices, Families
<1>4. h = next => Before(g, next)
  BY <1>1, <1>2 DEF Before, Devices, Families
<1>5. round \in Nat /\ (phase \in {"adding", "setting", "filed"} => round > 0)
  BY DEF TypeOK, Stages, Passing
<1>. QED
  <2>. USE DEF RoundOf, Latest, Absent
  <2>1. CASE "gauges" \notin enabled
    BY <1>1, <2>1 DEF GaugesInPlace
  <2>2. CASE "gauges" \in enabled /\ phase \notin {"adding", "setting"}
    BY <1>1, <1>5, <2>2 DEF GaugesInPlace
  <2>3. CASE "gauges" \in enabled /\ phase \in {"adding", "setting"}
    <3>1. RoundOf(gauge[g]) = IF Before(g, next) THEN round ELSE round - 1
      BY <1>1, <1>5, <2>3 DEF GaugesInPlace
    <3>2. RoundOf(gauge[h]) = IF Before(h, next) THEN round ELSE round - 1
      BY <1>1, <1>5, <2>3 DEF GaugesInPlace
    <3>. QED
      BY <1>3, <1>5, <3>1, <3>2
  <2>. QED
    BY <2>1, <2>2, <2>3

\* No gauge is behind the last whole write.
LEMMA GaugesAreWhole ==
  ASSUME TypeOK, Stages, GaugesInPlace, Whole > 0, NEW g \in Gauges
  PROVE  gauge[g] >= Whole
<1>1. round \in Nat /\ "gauges" \in enabled
  BY DEF TypeOK, Whole
<1>. QED
  BY <1>1 DEF GaugesInPlace, Latest, Whole, Absent

\* Every step keeps a scrape recent: what it reads is no older than the last whole
\* write, which never goes back.
LEMMA ScrapeStep == IndInv /\ [Next]_vars => ScrapeInPlace' /\ ScrapeIsRecent'
<1>. SUFFICES ASSUME IndInv, [Next]_vars PROVE ScrapeInPlace' /\ ScrapeIsRecent'
  OBVIOUS
<1>. USE DEF IndInv
<1>1. Whole \in Nat /\ round \in Nat
  BY DEF TypeOK, Whole, Stages, Passing
<1>2. CASE UNCHANGED scraper
  <2>1. Whole' >= Whole
    <3>1. CASE Construct \/ ConstructFails \/ BeginRound \/ Sample \/ SampleFails \/ WriteCsvThrows
      BY <1>1, <3>1 DEF Construct, ConstructFails, BeginRound, Sample, SampleFails,
                        WriteCsvThrows, Whole
    <3>2. CASE WriteCsv \/ WriteCsvLoses \/ BeginWrite \/ EndWrite
      BY <1>1, <3>2 DEF WriteCsv, WriteCsvLoses, BeginWrite, EndWrite, Whole, Stages, Passing
    <3>3. CASE Add \/ Set
      BY <1>1, <3>3 DEF Add, Set, Whole
    <3>4. CASE Store \/ StoreLoses \/ StoreThrows \/ WriteHttp
      BY <1>1, <3>4 DEF Store, StoreLoses, StoreThrows, WriteHttp, Whole
    <3>5. CASE UNCHANGED collector
      BY <1>1, <3>5 DEF collector, Whole
    <3>. QED
      BY <3>1, <3>2, <3>3, <3>4, <3>5
         DEF Next, Collect, Scrape, vars, BeginScrape, LockFamily, ReadGauge, UnlockFamily,
             EndScrape
  <2>2. scrape.since \in Nat /\ Whole' \in Int
    BY <1>1, TypeStep DEF TypeOK, Whole
  <2>. QED
    BY <1>1, <1>2, <2>1, <2>2 DEF ScrapeInPlace, ScrapeIsRecent, scraper
<1>3. CASE BeginScrape
  <2>1. scrape' = [on |-> TRUE, done |-> {}, got |-> Nothing, since |-> Whole]
        /\ lock' = lock /\ Whole' = Whole
    BY <1>3 DEF BeginScrape, collector, Whole
  <2>. QED
    BY <1>1, <2>1 DEF ScrapeInPlace, ScrapeIsRecent, Nothing
<1>4. CASE LockFamily \/ EndScrape
  <2>1. Whole' = Whole
    BY <1>4 DEF LockFamily, EndScrape, collector, Whole
  <2>2. /\ scrape'.since = scrape.since /\ scrape'.done = scrape.done /\ scrape'.got = scrape.got
        /\ lock' \notin scrape.done
    BY <1>4 DEF LockFamily, EndScrape, TypeOK, ScrapeInPlace
  <2>. QED
    BY <2>1, <2>2 DEF ScrapeInPlace, ScrapeIsRecent
<1>5. CASE ReadGauge
  <2>1. PICK d \in Devices :
          /\ gauge[<<lock, d>>] # Absent /\ scrape.got[<<lock, d>>] = Absent
          /\ scrape' = [scrape EXCEPT !.got[<<lock, d>>] = gauge[<<lock, d>>]]
    BY <1>5 DEF ReadGauge
  <2>2. lock' = lock /\ Whole' = Whole
    BY <1>5 DEF ReadGauge, collector, Whole
  <2>3. <<lock, d>> \in Gauges
    BY <1>5 DEF ReadGauge, TypeOK, Gauges, Families
  <2>4. /\ scrape'.since = scrape.since /\ scrape'.done = scrape.done
        /\ \A g \in Gauges :
             scrape'.got[g] = IF g = <<lock, d>> THEN gauge[g] ELSE scrape.got[g]
    BY <2>1, <2>3 DEF TypeOK
  <2>5. scrape.since > 0 => gauge[<<lock, d>>] >= scrape.since
    <3>1. gauge[<<lock, d>>] \in Int /\ scrape.since \in Int
      BY <2>3 DEF TypeOK, Shown
    <3>. QED
      BY <1>1, <2>3, <3>1, GaugesAreWhole DEF ScrapeInPlace
  <2>. QED
    BY <2>2, <2>3, <2>4, <2>5 DEF ScrapeInPlace, ScrapeIsRecent
<1>6. CASE UnlockFamily
  <2>1. /\ lock' = 0 /\ scrape'.done = scrape.done \union {lock}
        /\ scrape'.got = scrape.got /\ scrape'.since = scrape.since /\ lock \in Families
    BY <1>6 DEF UnlockFamily, TypeOK, Families
  <2>2. Whole' = Whole
    BY <1>6 DEF UnlockFamily, collector, Whole
  <2>3. ASSUME NEW g \in Gauges, scrape.since > 0, g[1] = lock
        PROVE  scrape.got[g] >= scrape.since
    <3>1. g = <<lock, g[2]>> /\ g[2] \in Devices
      BY <2>3, GaugeIsPair DEF Devices
    <3>2. gauge[g] # Absent
      <4>1. gauge[g] \in Int /\ scrape.since \in Int
        BY DEF TypeOK, Shown
      <4>. QED
        BY <1>1, <2>3, <4>1, GaugesAreWhole DEF ScrapeInPlace, Absent
    <3>3. scrape.got[g] # Absent
      BY <1>6, <3>1, <3>2 DEF UnlockFamily
    <3>. QED
      BY <2>3, <3>3 DEF ScrapeInPlace
  <2>4. 0 \notin scrape'.done
    BY <2>1 DEF TypeOK, Families
  <2>. QED
    BY <2>1, <2>2, <2>3, <2>4 DEF ScrapeInPlace, ScrapeIsRecent
<1>. QED
  BY <1>2, <1>3, <1>4, <1>5, <1>6
     DEF Next, Collect, Scrape, vars, Construct, ConstructFails, BeginRound, Sample,
         SampleFails, WriteCsv, WriteCsvLoses, WriteCsvThrows, BeginWrite, Add, Set, EndWrite,
         Store, StoreLoses, StoreThrows, WriteHttp

\* Every step that the scrape has no part in leaves what it has read and holds alone.
LEMMA CollectorSteps ==
  ASSUME [Next]_vars
  PROVE  \/ UNCHANGED <<gauge, scraper>> /\ (phase' # "setting" \/ UNCHANGED <<phase, next>>)
         \/ (Add \/ Set) /\ UNCHANGED scraper
         \/ Scrape /\ UNCHANGED collector
BY DEF Next, Collect, Scrape, vars, collector, sinks, Construct, ConstructFails, BeginRound,
       Sample, SampleFails, WriteCsv, WriteCsvLoses, WriteCsvThrows, BeginWrite, Add, Set,
       EndWrite, Store, StoreLoses, StoreThrows, WriteHttp, BeginScrape, LockFamily, ReadGauge, UnlockFamily,
       EndScrape

\* What a scrape reads next: one gauge of the family it holds.
LEMMA GaugeRead ==
  ASSUME TypeOK, ReadGauge
  PROVE  /\ lock' = lock /\ scrape'.done = scrape.done
         /\ \E d \in Devices :
              /\ scrape.got[<<lock, d>>] = Absent
              /\ \A g \in Gauges :
                   scrape'.got[g] = IF g = <<lock, d>> THEN gauge[g] ELSE scrape.got[g]
<1>1. PICK d \in Devices :
        /\ scrape.got[<<lock, d>>] = Absent
        /\ scrape' = [scrape EXCEPT !.got[<<lock, d>>] = gauge[<<lock, d>>]]
  BY DEF ReadGauge
<1>2. <<lock, d>> \in Gauges
  BY DEF ReadGauge, TypeOK, Gauges, Families
<1>. QED
  BY <1>1, <1>2 DEF TypeOK, ReadGauge

\* Every step keeps the families in order.
LEMMA OrderStep == IndInv /\ [Next]_vars => FamiliesInOrder'
<1>. SUFFICES ASSUME IndInv, [Next]_vars PROVE FamiliesInOrder'
  OBVIOUS
<1>. USE DEF IndInv
<1>1. CASE UNCHANGED scraper
  BY <1>1 DEF scraper, FamiliesInOrder
<1>2. CASE BeginScrape
  BY <1>2 DEF BeginScrape, FamiliesInOrder, Nothing
<1>3. CASE LockFamily
  <2>1. scrape' = scrape /\ lock = 0
    BY <1>3 DEF LockFamily
  <2>2. \A g \in Gauges : g[1] # 0
    BY GaugeIsPair
  <2>. QED
    BY <2>1, <2>2 DEF FamiliesInOrder
<1>4. CASE ReadGauge
  <2>1. PICK d \in Devices :
          /\ lock' = lock /\ scrape'.done = scrape.done
          /\ \A g \in Gauges :
               scrape'.got[g] = IF g = <<lock, d>> THEN gauge[g] ELSE scrape.got[g]
    BY <1>4, GaugeRead
  <2>2. <<lock, d>>[1] = lock
    OBVIOUS
  <2>. QED
    BY <2>1, <2>2 DEF FamiliesInOrder
<1>5. CASE UnlockFamily
  <2>1. scrape'.done = scrape.done \union {lock} /\ scrape'.got = scrape.got
    BY <1>5 DEF UnlockFamily, TypeOK
  <2>. QED
    BY <2>1 DEF FamiliesInOrder
<1>6. CASE EndScrape
  <2>1. scrape'.done = scrape.done /\ scrape'.got = scrape.got /\ lock' = lock
    BY <1>6 DEF EndScrape, TypeOK
  <2>. QED
    BY <2>1 DEF FamiliesInOrder
<1>. QED
  BY <1>1, <1>2, <1>3, <1>4, <1>5, <1>6, CollectorSteps DEF Scrape, scraper

\* Every step keeps what is read from a family close to its gauges: one Set() at most
\* finds its way past the mutex.
LEMMA HeldStep == IndInv /\ [Next]_vars => HeldFamily'
<1>. SUFFICES ASSUME IndInv, [Next]_vars, lock' # 0, NEW d \in Devices
              PROVE  \/ scrape'.got[<<lock', d>>] = Absent
                     \/ RoundOf(scrape'.got[<<lock', d>>]) = RoundOf(gauge'[<<lock', d>>])
                     \/ Outrun(d)' /\ ~(phase' = "setting" /\ next'[1] = lock')
  BY DEF HeldFamily
<1>. USE DEF IndInv
<1>1. CASE UNCHANGED <<gauge, scraper>> /\ (phase' # "setting" \/ UNCHANGED <<phase, next>>)
  BY <1>1 DEF HeldFamily, Outrun, scraper
<1>2. CASE Add /\ UNCHANGED scraper
  <2>1. lock \in Families /\ lock # next[1] /\ next' = next /\ scrape' = scrape /\ lock' = lock
    BY <1>2 DEF Add, TypeOK, Families, scraper
  <2>2. ASSUME NEW e \in Devices PROVE gauge'[<<lock, e>>] = gauge[<<lock, e>>]
    <3>1. <<lock, e>> # next /\ <<lock, e>> \in Gauges
      BY <2>1 DEF Gauges
    <3>. QED
      BY <1>2, <3>1 DEF Add, TypeOK
  <2>. QED
    BY <2>1, <2>2 DEF HeldFamily, Outrun
<1>3. CASE Set /\ UNCHANGED scraper
  <2>1. lock \in Families /\ scrape' = scrape /\ lock' = lock /\ phase = "setting"
        /\ phase' = "adding"
    BY <1>3 DEF Set, TypeOK, Families, scraper
  <2>2. ASSUME NEW e \in Devices, <<lock, e>> # next
        PROVE  gauge'[<<lock, e>>] = gauge[<<lock, e>>]
    <3>1. <<lock, e>> \in Gauges
      BY <2>1 DEF Gauges
    <3>. QED
      BY <1>3, <2>2, <3>1 DEF Set, TypeOK
  <2>3. CASE next[1] # lock
    <3>1. \A e \in Devices : <<lock, e>> # next
      BY <2>3
    <3>. QED
      BY <2>1, <2>2, <3>1 DEF HeldFamily, Outrun
  <2>4. CASE next[1] = lock
    <3>1. \/ scrape.got[<<lock, d>>] = Absent
          \/ RoundOf(scrape.got[<<lock, d>>]) = RoundOf(gauge[<<lock, d>>])
      BY <2>1, <2>4 DEF HeldFamily
    <3>2. CASE next # <<lock, d>>
      BY <2>1, <2>2, <3>1, <3>2
    <3>3. CASE next = <<lock, d>>
      <4>1. <<lock, d>> \in Gauges /\ gauge'[<<lock, d>>] = round /\ round \in Nat \ {0}
            /\ "gauges" \in enabled
        BY <1>3, <2>1, <3>3 DEF Set, TypeOK, Gauges, Stages, Passing
      <4>2. ASSUME NEW e \in Devices
            PROVE  RoundOf(gauge[<<lock, e>>]) = IF e < d THEN round ELSE round - 1
        <5>1. <<lock, e>> \in Gauges /\ (Before(<<lock, e>>, next) <=> e < d)
          BY <2>1, <3>3 DEF Gauges, Before, Devices, Families
        <5>. QED
          BY <2>1, <4>1, <5>1 DEF GaugesInPlace, Latest, RoundOf, Absent
      <4>3. RoundOf(gauge'[<<lock, d>>]) = round
        BY <4>1 DEF RoundOf, Absent
      <4>4. ASSUME NEW e \in Devices, e # d
            PROVE  RoundOf(gauge'[<<lock, e>>]) = IF e < d THEN round ELSE round - 1
        BY <2>2, <3>3, <4>2, <4>4
      <4>5. RoundOf(gauge[<<lock, d>>]) = round - 1
        BY <4>2 DEF Devices
      <4>6. /\ \A e \in Devices : e < d => RoundOf(gauge'[<<lock, e>>]) = round
            /\ \A e \in Devices : e > d => RoundOf(gauge'[<<lock, e>>]) = round - 1
        BY <4>4 DEF Devices
      <4>. QED
        BY <2>1, <3>1, <4>3, <4>5, <4>6 DEF Outrun
    <3>. QED
      BY <3>2, <3>3
  <2>. QED
    BY <2>3, <2>4
<1>4. CASE BeginScrape
  <2>1. lock \in Families
    BY <1>4 DEF BeginScrape, TypeOK, Families
  <2>. QED
    BY <1>4, <2>1 DEF BeginScrape, Nothing, Gauges
<1>5. CASE LockFamily
  <2>1. <<lock', d>> \in Gauges /\ lock' \notin scrape.done /\ lock' # lock /\ scrape' = scrape
    BY <1>5 DEF LockFamily, Gauges
  <2>. QED
    BY <2>1 DEF FamiliesInOrder
<1>6. CASE ReadGauge
  <2>1. UNCHANGED <<gauge, phase, next, lock>> /\ <<lock, d>> \in Gauges
    BY <1>6 DEF ReadGauge, collector, sinks, TypeOK, Gauges, Families
  <2>2. \/ scrape'.got[<<lock, d>>] = gauge[<<lock, d>>]
        \/ scrape'.got[<<lock, d>>] = scrape.got[<<lock, d>>]
    BY <1>6, <2>1, GaugeRead
  <2>. QED
    BY <2>1, <2>2 DEF HeldFamily, Outrun
<1>7. CASE UnlockFamily
  BY <1>7 DEF UnlockFamily
<1>8. CASE EndScrape
  <2>1. UNCHANGED <<gauge, phase, next, lock>> /\ scrape'.got = scrape.got
    BY <1>8 DEF EndScrape, collector, sinks, TypeOK
  <2>. QED
    BY <2>1 DEF HeldFamily, Outrun
<1>. QED
  BY <1>1, <1>2, <1>3, <1>4, <1>5, <1>6, <1>7, <1>8, CollectorSteps DEF Scrape

\* Every step keeps a family together that has been read.
LEMMA HoldsStep == IndInv /\ [Next]_vars => FamilyHoldsTogether'
<1>. SUFFICES ASSUME IndInv, [Next]_vars PROVE FamilyHoldsTogether'
  OBVIOUS
<1>. USE DEF IndInv
<1>1. CASE UNCHANGED scraper
  BY <1>1 DEF scraper, FamilyHoldsTogether
<1>2. CASE BeginScrape
  BY <1>2 DEF BeginScrape, FamilyHoldsTogether
<1>3. CASE LockFamily \/ EndScrape
  <2>1. scrape'.done = scrape.done /\ scrape'.got = scrape.got
    BY <1>3 DEF LockFamily, EndScrape, TypeOK
  <2>. QED
    BY <2>1 DEF FamilyHoldsTogether
<1>4. CASE ReadGauge
  <2>1. \A f \in scrape.done, d \in Devices :
          <<f, d>> \in Gauges /\ f # lock /\ scrape'.got[<<f, d>>] = scrape.got[<<f, d>>]
    <3>1. ASSUME NEW f \in scrape.done, NEW d \in Devices
          PROVE  <<f, d>> \in Gauges /\ f # lock
      BY DEF TypeOK, Gauges, ScrapeInPlace
    <3>. QED
      BY <1>4, <3>1, GaugeRead
  <2>. QED
    BY <1>4, <2>1, GaugeRead DEF FamilyHoldsTogether
<1>5. CASE UnlockFamily
  <2>1. lock \in Families /\ scrape'.done = scrape.done \union {lock} /\ scrape'.got = scrape.got
    BY <1>5 DEF UnlockFamily, TypeOK, Families
  <2>2. ASSUME NEW d \in Devices
        PROVE  \/ RoundOf(scrape.got[<<lock, d>>]) = RoundOf(gauge[<<lock, d>>])
               \/ Outrun(d)
    BY <1>5, <2>1 DEF UnlockFamily, HeldFamily, RoundOf
  <2>3. ASSUME NEW d \in Devices PROVE RoundOf(gauge[<<lock, d>>]) \in Int
    <3>1. <<lock, d>> \in Gauges
      BY <2>1 DEF Gauges
    <3>. QED
      BY <3>1 DEF TypeOK, Shown, RoundOf
  <2>4. ASSUME NEW d \in Devices, NEW e \in Devices, d < e
        PROVE  RoundOf(scrape.got[<<lock, d>>]) - RoundOf(scrape.got[<<lock, e>>]) \in {0, 1}
    <3>1. RoundOf(gauge[<<lock, d>>]) - RoundOf(gauge[<<lock, e>>]) \in {0, 1}
      BY <2>1, <2>4, GaugesFall
    <3>2. CASE Outrun(d)
      <4>1. /\ RoundOf(gauge[<<lock, e>>]) = RoundOf(gauge[<<lock, d>>]) - 1
            /\ RoundOf(scrape.got[<<lock, d>>]) = RoundOf(gauge[<<lock, d>>]) - 1
        BY <2>4, <3>2 DEF Outrun, Devices
      <4>2. ~Outrun(e)
        BY <2>3, <2>4, <4>1 DEF Outrun
      <4>. QED
        BY <2>2, <2>3, <4>1, <4>2
    <3>3. CASE ~Outrun(d) /\ Outrun(e)
      <4>1. /\ RoundOf(gauge[<<lock, d>>]) = RoundOf(gauge[<<lock, e>>])
            /\ RoundOf(scrape.got[<<lock, e>>]) = RoundOf(gauge[<<lock, e>>]) - 1
        BY <2>4, <3>3 DEF Outrun
      <4>. QED
        BY <2>2, <2>3, <3>3, <4>1
    <3>4. CASE ~Outrun(d) /\ ~Outrun(e)
      BY <2>2, <3>1, <3>4
    <3>. QED
      BY <3>2, <3>3, <3>4
  <2>. QED
    BY <2>1, <2>4 DEF FamilyHoldsTogether
<1>. QED
  BY <1>1, <1>2, <1>3, <1>4, <1>5, CollectorSteps DEF Scrape, scraper

-----------------------------------------------------------------------------

\* Every step keeps the invariant.
LEMMA StepHolds == IndInv /\ [Next]_vars => IndInv'
BY TypeStep, StagesStep, GaugesStep, SinksStep, ScrapeStep, OrderStep, HeldStep, HoldsStep
   DEF IndInv

\* The inductive invariant, and with it the types, hold for any number of families,
\* devices and rounds.
THEOREM Invariance == Spec => [](TypeOK /\ IndInv)
<1>1. Init => IndInv
  BY InitHolds
<1>2. IndInv /\ [Next]_vars => IndInv'
  BY StepHolds
<1>3. IndInv => TypeOK /\ IndInv
  BY DEF IndInv
<1>. QED
  BY <1>1, <1>2, <1>3, PTL DEF Spec

\* Between rounds the CSV file, the gauges and the HTTP snapshot have come to one round,
\* unless the stream of the file has failed, or the FatalError of a lost database has
\* ended the loop.
THEOREM SinksTheorem == Spec => []SinksAgree
<1>1. IndInv => SinksAgree
  BY DEF IndInv, SinksAgree, SinksInPlace, GaugesInPlace, Latest, Passing
<1>. QED
  BY <1>1, Invariance, PTL

\* A scrape shows nothing older than the last whole write before it, and no zero of a
\* gauge that has only been created.
THEOREM RecentTheorem == Spec => []ScrapeIsRecent
<1>1. IndInv => ScrapeIsRecent
  BY DEF IndInv
<1>. QED
  BY <1>1, Invariance, PTL

\* One family of an answer mixes two adjacent rounds at most, the newer one first,
\* however often the collector overtakes the scrape.
THEOREM FamilyTheorem == Spec => []FamilyHoldsTogether
<1>1. IndInv => FamilyHoldsTogether
  BY DEF IndInv
<1>. QED
  BY <1>1, Invariance, PTL

-----------------------------------------------------------------------------
(* The database sink against a session that can be lost: Database            *)

\* Every sink has a device.
LEMMA LastType == ASSUME DBTypeOK PROVE Last \in Nat /\ Last >= 1
BY LabelsAssumption DEF DBTypeOK, Last

\* The sink, and with it the devices, stays the same.
LEMMA SinkStays == [DBNext]_dbVars => sink' = sink /\ Last' = Last /\ Labels' = Labels
<1>1. [DBNext]_dbVars => sink' = sink
  BY DEF DBNext, dbVars, LinkBreaks, Connect, CallWrite, Begin, BeginFails, Insert, InsertFails,
     Rollback, ServerCommits, Commit, CommitFails, Killed
<1> QED
  BY <1>1 DEF Last, Labels

\* The initial state satisfies the inductive invariant.
LEMMA DBInitInv == DBInit => DBInv
<1> SUFFICES ASSUME DBInit PROVE DBInv
  OBVIOUS
<1>1. DBTypeOK
  <2>1. result \in [Calls -> Results]
    BY DEF DBInit, Results
  <2>2. stamp \in Seq(Nat) /\ call \in 0 .. MaxCalls
    BY BoundsAssumption DEF DBInit
  <2> QED
    BY <2>1, <2>2 DEF DBInit, DBTypeOK
<1>2. \A c \in Calls : StoredFor(c) = {} /\ result[c] = "none"
  BY DEF DBInit, StoredFor
<1> QED
  BY <1>1, <1>2 DEF DBInit, DBInv, SessionAtPlace, RowsOfPastCalls, RoundIsAtomic,
     InfoIsAtomic, ReportIsTrue, SilenceIsNoticed, OneSilentLoss, UnderWay

\* A call that ends changes nothing of the history but its own result.
LEMMA ReturnType ==
  ASSUME DBTypeOK, NEW r \in {"stored", "lost", "unconfirmed"}, Return(r),
         kind = "metric" => call \in Calls
  PROVE  /\ result' \in [Calls -> Results]
         /\ silent' \in Nat
         /\ pc' = "idle"
         /\ \A c \in Calls : c # call => result'[c] = result[c]
         /\ kind = "metric" => result'[call] = r
         /\ kind = "info" => result' = result
BY DEF Return, DBTypeOK, Results

\* Every step keeps the types.
LEMMA DBTypeStep == DBInv /\ [DBNext]_dbVars => DBTypeOK'
<1> SUFFICES ASSUME DBInv, [DBNext]_dbVars PROVE DBTypeOK'
  OBVIOUS
<1>s. sink' = sink /\ Last' = Last /\ Labels' = Labels
  BY SinkStays
<1> USE <1>s
<1> USE DEF client, server, log, history
<1>0. /\ DBTypeOK
      /\ pc \in {"begin", "insert", "rollback", "commit"} /\ kind = "metric" => call \in Calls
  BY DEF DBInv, RowsOfPastCalls, UnderWay
<1>1. CASE LinkBreaks
  BY <1>0, <1>1 DEF LinkBreaks, SessionLost, DBTypeOK
<1>2. CASE Connect
  BY <1>0, <1>2 DEF Connect, DBTypeOK
<1>3. CASE CallWrite
  <2>1. stamp' \in Seq(Nat)
    BY <1>0, <1>3, BoundsAssumption DEF CallWrite, DBTypeOK
  <2>2. call' \in 0 .. MaxCalls
    BY <1>0, <1>3, BoundsAssumption DEF CallWrite, DBTypeOK
  <2> QED
    BY <1>0, <1>3, <2>1, <2>2 DEF CallWrite, DBTypeOK
<1>4. CASE Begin
  BY <1>0, <1>4, ReturnType DEF Begin, DBTypeOK
<1>5. CASE BeginFails
  BY <1>0, <1>5, ReturnType DEF BeginFails, DBTypeOK
<1>6. CASE Insert
  BY <1>0, <1>6 DEF Insert, DBTypeOK, Labels, DBInv, SessionAtPlace
<1>7. CASE InsertFails
  BY <1>0, <1>7 DEF InsertFails, DBTypeOK
<1>8. CASE Rollback
  BY <1>0, <1>8, ReturnType DEF Rollback, DBTypeOK
<1>9. CASE Commit \/ CommitFails
  <2>1. pc \in {"insert", "commit"}
    BY <1>9 DEF Commit, CommitFails, Committing
  <2>2. Return("stored") \/ Return("unconfirmed")
    BY <1>9 DEF Commit, CommitFails
  <2>3. result' \in [Calls -> Results] /\ silent' \in Nat /\ pc' = "idle"
    BY <1>0, <2>1, <2>2, ReturnType
  <2> QED
    BY <1>0, <1>9, <2>3 DEF Commit, CommitFails, DBTypeOK
<1>11. CASE ServerCommits
  <2>1. kind = "metric" => {call} \X pending \subseteq Calls \X Labels
    BY <1>0, <1>11 DEF ServerCommits, Committing, DBTypeOK
  <2>2. table' \subseteq Calls \X Labels /\ info' \subseteq Labels
    BY <1>0, <1>11, <2>1 DEF ServerCommits, DBTypeOK
  <2> QED
    BY <1>0, <1>11, <2>2 DEF ServerCommits, DBTypeOK
<1>12. CASE Killed
  <2>1. result' \in [Calls -> Results]
    BY <1>0, <1>12 DEF Killed, DBTypeOK, Results
  <2> QED
    BY <1>0, <1>12, <2>1 DEF Killed, SessionLost, DBTypeOK
<1>10. CASE UNCHANGED dbVars
  BY <1>0, <1>10 DEF dbVars, DBTypeOK
<1> QED
  BY <1>1, <1>2, <1>3, <1>4, <1>5, <1>6, <1>7, <1>8, <1>9, <1>10, <1>11, <1>12 DEF DBNext

\* Every step keeps the session as its place requires.
LEMMA SessionStep == DBInv /\ [DBNext]_dbVars => SessionAtPlace'
<1> SUFFICES ASSUME DBInv, [DBNext]_dbVars PROVE SessionAtPlace'
  OBVIOUS
<1>s. sink' = sink /\ Last' = Last /\ Labels' = Labels
  BY SinkStays
<1>t. DBTypeOK
  BY DEF DBInv
<1> USE <1>s, <1>t
<1> USE DEF client, server, log, history, Last, Labels, DBInv, SessionAtPlace
<1>1. CASE LinkBreaks \/ Killed \/ Connect
  BY <1>1 DEF LinkBreaks, Killed, Connect, SessionLost
<1>2. CASE CallWrite
  BY <1>2 DEF CallWrite
<1>3. CASE Begin
  <2>1. session = "idle" /\ pending = {} /\ link = "up" /\ conn = "ok"
    BY <1>3 DEF Begin
  <2>2. pc' = "insert" /\ session' = "open"
    BY <1>3, <2>1 DEF Begin
  <2>3. row = 1
    BY <1>3 DEF Begin
  <2> QED
    BY <1>3, <2>1, <2>2, <2>3, LastType DEF Begin
<1>4. CASE BeginFails
  BY <1>4 DEF BeginFails, Return
<1>5. CASE Insert
  <2>1. /\ link = "up" /\ pc = "insert" /\ row \in 1 .. Last
        /\ row' = row + 1 /\ pending' = pending \cup {row}
        /\ UNCHANGED <<pc, link, conn, session>>
    BY <1>5, LastType DEF Insert
  <2>2. pending' = 1 .. row
    BY <2>1, LastType
  <2>3. row' \in 1 .. Last + 1 /\ row' - 1 = row
    BY <2>1, LastType
  <2> QED
    BY <2>1, <2>2, <2>3
<1>6. CASE InsertFails
  BY <1>6 DEF InsertFails
<1>7. CASE Rollback
  <2>1. pc' = "idle"
    BY <1>7 DEF Rollback, Return
  <2>2. (link = "up" => conn' = conn) /\ session' = "idle" /\ pending' = {} /\ link' = link
    BY <1>7 DEF Rollback, DBTypeOK
  <2> QED
    BY <2>1, <2>2
<1>8. CASE ServerCommits \/ Commit \/ CommitFails
  BY <1>8 DEF ServerCommits, Commit, CommitFails, Committing, Return
<1>9. CASE UNCHANGED dbVars
  BY <1>9 DEF dbVars
<1> QED
  BY <1>1, <1>2, <1>3, <1>4, <1>5, <1>6, <1>7, <1>8, <1>9 DEF DBNext

\* Every step keeps rows and results in step: what is stored is stored for a
\* call that came to COMMIT, and for all of its devices.
LEMMA RowsStep ==
  DBInv /\ [DBNext]_dbVars => RowsOfPastCalls' /\ RoundIsAtomic' /\ InfoIsAtomic' /\ ReportIsTrue'
<1> SUFFICES ASSUME DBInv, [DBNext]_dbVars
             PROVE  RowsOfPastCalls' /\ RoundIsAtomic' /\ InfoIsAtomic' /\ ReportIsTrue'
  OBVIOUS
<1>s. sink' = sink /\ Last' = Last /\ Labels' = Labels
  BY SinkStays
<1> USE <1>s
<1> USE DEF client, server, log, history
<1>0. /\ DBTypeOK /\ RowsOfPastCalls /\ RoundIsAtomic /\ InfoIsAtomic /\ ReportIsTrue
      /\ SessionAtPlace
      /\ UnderWay => call \in Calls
  BY DEF DBInv, RowsOfPastCalls
<1>1. CASE /\ UNCHANGED <<table, info, call, result>>
           /\ UnderWay' => UnderWay
           /\ UnderWay => (pc' = "commit" <=> pc = "commit") /\ (UnderWay' \/ pc # "commit")
  <2>1. \A c \in Calls : StoredFor(c)' = StoredFor(c)
    BY <1>1 DEF StoredFor
  <2>2. UnderWay => call \in Calls /\ StoredFor(call)' = StoredFor(call)
    BY <1>0, <1>1 DEF StoredFor
  <2>3. RowsOfPastCalls'
    BY <1>0, <1>1, <2>2 DEF RowsOfPastCalls
  <2>4. ReportIsTrue'
    BY <1>0, <1>1, <2>1 DEF ReportIsTrue
  <2> QED
    BY <1>0, <1>1, <2>1, <2>3, <2>4 DEF RoundIsAtomic, InfoIsAtomic
<1>2. CASE CallWrite
  <2>1. UNCHANGED <<table, info, result>> /\ call' = call + 1 /\ call' \in Calls
    BY <1>0, <1>2, BoundsAssumption DEF CallWrite, DBTypeOK, Calls
  <2>2. \A c \in Calls : StoredFor(c)' = StoredFor(c)
    BY <2>1 DEF StoredFor
  <2>3. StoredFor(call') = {} /\ result[call'] = "none"
    BY <1>0, <2>1 DEF RowsOfPastCalls, StoredFor, DBTypeOK
  <2>4. \A r \in table : r[1] <= call + 1
    BY <1>0 DEF RowsOfPastCalls, DBTypeOK, Calls
  <2>5. StoredFor(call)' = {}
    BY <2>1, <2>2, <2>3 DEF StoredFor
  <2>6. \A c \in Calls : c > call + 1 => result[c] = "none"
    BY <1>0 DEF RowsOfPastCalls, DBTypeOK, Calls
  <2>7. pc' # "commit" /\ ~UnderWay
    BY <1>2 DEF CallWrite, UnderWay
  <2>8. RowsOfPastCalls'
    BY <1>0, <2>1, <2>3, <2>4, <2>5, <2>6, <2>7 DEF RowsOfPastCalls
  <2>9. ReportIsTrue'
    BY <1>0, <2>1, <2>2, <2>7 DEF ReportIsTrue
  <2> QED
    BY <1>0, <2>1, <2>2, <2>8, <2>9 DEF RoundIsAtomic, InfoIsAtomic
<1>3. ASSUME NEW r \in {"stored", "lost", "unconfirmed"}, Return(r),
             UNCHANGED <<table, info, call>>,
             pc \in {"begin", "insert", "rollback", "commit"},
             kind = "metric" /\ r = "stored" => StoredFor(call) = Labels,
             kind = "metric" /\ r = "lost" => StoredFor(call) = {}
      PROVE  RowsOfPastCalls' /\ RoundIsAtomic' /\ InfoIsAtomic' /\ ReportIsTrue'
  <2>1. \A c \in Calls : StoredFor(c)' = StoredFor(c)
    BY <1>3 DEF StoredFor
  <2>2. (kind = "metric" \/ kind = "info") /\ (kind = "metric" => call \in Calls /\ UnderWay)
    BY <1>0, <1>3 DEF DBTypeOK, UnderWay
  <2>3. /\ pc' = "idle" /\ ~UnderWay'
        /\ \A c \in Calls : c # call => result'[c] = result[c]
        /\ kind = "metric" => result'[call] = r
        /\ kind = "info" => result' = result /\ ~UnderWay
    BY <1>0, <1>3, <2>2, ReturnType DEF UnderWay
  <2>4. \A c \in Calls : c > call => result'[c] = "none"
    BY <1>0, <2>2, <2>3 DEF RowsOfPastCalls, DBTypeOK, Calls
  <2>5. RowsOfPastCalls' /\ RoundIsAtomic' /\ InfoIsAtomic'
    BY <1>0, <1>3, <2>1, <2>3, <2>4 DEF RowsOfPastCalls, RoundIsAtomic, InfoIsAtomic
  <2>6. ReportIsTrue'
    BY <1>0, <1>3, <2>1, <2>2, <2>3 DEF ReportIsTrue
  <2> QED
    BY <2>5, <2>6
<1>4. CASE ServerCommits
  <2>1. /\ pc = "insert" /\ pc' = "commit" /\ pending = Labels
        /\ UNCHANGED <<kind, call, result>>
    BY <1>0, <1>4, LastType DEF ServerCommits, Committing, SessionAtPlace, Labels
  <2>2. CASE kind = "metric"
    <3>1. UnderWay /\ UnderWay' /\ call \in Calls /\ StoredFor(call) = {}
      BY <1>0, <2>1, <2>2 DEF RowsOfPastCalls, UnderWay
    <3>2. table' = table \cup ({call} \X Labels) /\ info' = info
      BY <1>4, <2>1, <2>2 DEF ServerCommits
    <3>3. ASSUME NEW c \in Calls, c = call PROVE StoredFor(c)' = Labels
      <4>1. \A r \in table : r[1] # c
        BY <3>1, <3>3 DEF StoredFor
      <4>2. StoredFor(c)' = {r[2] : r \in {q \in table' : q[1] = c}}
        BY DEF StoredFor
      <4>3. {q \in table' : q[1] = c} = {c} \X Labels
        BY <3>2, <3>3, <4>1
      <4>4. {r[2] : r \in {c} \X Labels} = Labels
        <5>1. \A l \in Labels : <<c, l>> \in {c} \X Labels /\ <<c, l>>[2] = l
          OBVIOUS
        <5> QED
          BY <5>1
      <4> QED
        BY <4>2, <4>3, <4>4
    <3>4. \A c \in Calls : c # call => StoredFor(c)' = StoredFor(c)
      BY <3>2 DEF StoredFor
    <3>5. \A r \in table' : r[1] <= call
      BY <1>0, <3>1, <3>2 DEF RowsOfPastCalls, Calls
    <3>6. RowsOfPastCalls'
      <4>1. StoredFor(call)' = Labels
        BY <2>1, <3>1, <3>3
      <4> QED
        BY <1>0, <2>1, <3>1, <3>5, <4>1 DEF RowsOfPastCalls
    <3>7. RoundIsAtomic' /\ InfoIsAtomic'
      BY <1>0, <3>2, <3>3, <3>4 DEF RoundIsAtomic, InfoIsAtomic
    <3>8. ReportIsTrue'
      <4>1. result[call] = "none"
        BY <1>0, <3>1 DEF RowsOfPastCalls
      <4> QED
        BY <1>0, <2>1, <3>1, <3>4, <4>1 DEF ReportIsTrue
    <3> QED
      BY <3>6, <3>7, <3>8
  <2>3. CASE kind = "info"
    <3>1. table' = table /\ info' = Labels /\ ~UnderWay /\ ~UnderWay'
      BY <1>0, <1>4, <2>1, <2>3 DEF ServerCommits, DBTypeOK, UnderWay
    <3>2. \A c \in Calls : StoredFor(c)' = StoredFor(c)
      BY <3>1 DEF StoredFor
    <3> QED
      BY <1>0, <2>1, <3>1, <3>2
      DEF RowsOfPastCalls, RoundIsAtomic, InfoIsAtomic, ReportIsTrue
  <2> QED
    BY <1>0, <2>2, <2>3 DEF DBTypeOK
<1>5. CASE Killed
  <2>1. \A c \in Calls : StoredFor(c)' = StoredFor(c)
    BY <1>5 DEF Killed, StoredFor
  <2>2. /\ ~UnderWay' /\ UNCHANGED <<table, info, call>>
        /\ \A c \in Calls : result'[c] = IF UnderWay /\ c = call THEN "killed" ELSE result[c]
    BY <1>0, <1>5 DEF Killed, UnderWay, DBTypeOK
  <2>3. RowsOfPastCalls' /\ RoundIsAtomic' /\ InfoIsAtomic'
    BY <1>0, <2>1, <2>2 DEF RowsOfPastCalls, RoundIsAtomic, InfoIsAtomic, DBTypeOK, Calls
  <2>4. ReportIsTrue'
    BY <1>0, <2>1, <2>2 DEF ReportIsTrue
  <2> QED
    BY <2>3, <2>4
<1>6. CASE LinkBreaks \/ Connect \/ Insert \/ InsertFails \/ UNCHANGED dbVars
  BY <1>1, <1>6 DEF LinkBreaks, Connect, Insert, InsertFails, SessionLost, UnderWay, dbVars
<1>7. CASE Begin
  <2>1. session = "idle"
    BY <1>0, <1>7 DEF Begin, SessionAtPlace
  <2> QED
    BY <1>1, <1>7, <2>1 DEF Begin, UnderWay
<1>8. CASE BeginFails \/ Rollback
  <2>1. kind = "metric" => StoredFor(call) = {}
    BY <1>0, <1>8 DEF BeginFails, Rollback, RowsOfPastCalls, UnderWay
  <2> QED
    BY <1>3, <1>8, <2>1 DEF BeginFails, Rollback
<1>9. CASE Commit
  <2>1. kind = "metric" => StoredFor(call) = Labels
    BY <1>0, <1>9 DEF Commit, RowsOfPastCalls, UnderWay
  <2> QED
    BY <1>3, <1>9, <2>1 DEF Commit
<1>10. CASE CommitFails
  BY <1>3, <1>10 DEF CommitFails, Committing
<1> QED
  BY <1>2, <1>4, <1>5, <1>6, <1>7, <1>8, <1>9, <1>10 DEF DBNext

\* Every step keeps account of the silent losses.
LEMMA SilenceStep == DBInv /\ [DBNext]_dbVars => SilenceIsNoticed' /\ OneSilentLoss'
<1> SUFFICES ASSUME DBInv, [DBNext]_dbVars PROVE SilenceIsNoticed' /\ OneSilentLoss'
  OBVIOUS
<1> USE DEF client, server, log, history, Last, Labels, SilenceIsNoticed, OneSilentLoss
<1>0. DBTypeOK /\ SilenceIsNoticed /\ OneSilentLoss
  BY DEF DBInv
<1>1. CASE \/ LinkBreaks \/ Killed \/ Connect \/ CallWrite \/ Insert \/ InsertFails
           \/ ServerCommits
  BY <1>0, <1>1 DEF LinkBreaks, Killed, Connect, CallWrite, Insert, InsertFails,
     ServerCommits, Committing, SessionLost, DBTypeOK
<1>2. CASE Begin
  BY <1>0, <1>2 DEF Begin, Return, DBTypeOK
<1>3. CASE BeginFails \/ Rollback
  BY <1>0, <1>3 DEF BeginFails, Rollback, Return, DBTypeOK
<1>4. CASE Commit \/ CommitFails
  BY <1>0, <1>4 DEF Commit, CommitFails, Committing, Return, DBTypeOK
<1>5. CASE UNCHANGED dbVars
  BY <1>0, <1>5 DEF dbVars
<1> QED
  BY <1>1, <1>2, <1>3, <1>4, <1>5 DEF DBNext

-----------------------------------------------------------------------------

\* The inductive invariant holds in every behaviour.
THEOREM DBInvariance == DBSpec => []DBInv
<1>1. DBInv /\ [DBNext]_dbVars => DBInv'
  BY DBTypeStep, SessionStep, RowsStep, SilenceStep DEF DBInv
<1> QED
  BY DBInitInv, <1>1, PTL DEF DBSpec

\* writeMetric's transaction: a round is stored for all devices or for none.
THEOREM AtomicTheorem == DBSpec => []RoundIsAtomic
<1>1. DBInv => RoundIsAtomic
  BY DEF DBInv
<1> QED
  BY DBInvariance, <1>1, PTL

\* writeInfo's transaction: the info table is never half written, though every start
\* rewrites it and a crash may cut that short.
THEOREM InfoTheorem == DBSpec => []InfoIsAtomic
<1>1. DBInv => InfoIsAtomic
  BY DEF DBInv
<1> QED
  BY DBInvariance, <1>1, PTL

\* rollbackTransaction() on every failed insert: a round never spoils the next.
THEOREM CleanTheorem == DBSpec => []SessionIsClean
<1>1. DBInv => SessionIsClean
  BY DEF DBInv, SessionAtPlace, SessionIsClean
<1> QED
  BY DBInvariance, <1>1, PTL

\* What writeMetric logs about a round is what the table holds, wherever the process dies:
\* a row without a result belongs to the call that waits for the answer to COMMIT.
THEOREM ReportTheorem == DBSpec => []ReportIsTrue
<1>1. DBInv => ReportIsTrue
  BY DEF DBInv
<1> QED
  BY DBInvariance, <1>1, PTL

\* isConnected() at the head of writeMetric: one silent loss per outage.
THEOREM LossTheorem == DBSpec => []OneSilentLoss
<1>1. DBInv => OneSilentLoss
  BY DEF DBInv
<1> QED
  BY DBInvariance, <1>1, PTL
=============================================================================
