------------------------- MODULE ReportScreensProofs -------------------------
(***************************************************************************)
(* The report screens for all records, filters, window lengths, limits,    *)
(* requests and exports: what a screen shows was asked for, what it counts *)
(* it charts and lists, and its export button tells the truth.             *)
(*                                                                         *)
(* The invariant, ScreenInv, follows a report from its request through the *)
(* statements, each of which finds what the ones before it have counted    *)
(* (ReadSound), to the report that is held (DataSound); the numbers of the *)
(* requests say which of them the filter belongs to.                       *)
(***************************************************************************)
EXTENDS ReportScreens, FiniteSetTheorems, TLAPS

DayOrUnset == Int \cup {Unset}

RowsSound == rows \in [Ids -> Rows] /\ \A i \in Ids : rows[i].id = i

\* Versions of a record that no statement tells apart.
Alike(q, r) ==
  q.id = r.id /\ q.kind = r.kind /\ q.day = r.day /\ q.unit = r.unit /\ q.place = r.place

\* What a list of answers holds is what its statements ask for.
Asked(read, f) ==
  \A i \in 1 .. Len(read) : \A r \in read[i] :
    r \in Rows /\ Wanted(Statements(screen)[i], f, r)

FilterSound == filter.from \in DayOrUnset /\ filter.to \in DayOrUnset

LoadsSound ==
  \A l \in loads :
    /\ l.filter.from \in DayOrUnset /\ l.filter.to \in DayOrUnset
    /\ l.read \in Seq(SUBSET Rows)
    /\ Asked(l.read, l.filter)

DataSound ==
  data # NoData =>
    /\ data.asked.from \in DayOrUnset /\ data.asked.to \in DayOrUnset
    /\ data.from = From(data.asked) /\ data.to = To(data.asked)
    /\ Len(data.read) = Len(Statements(screen))
    /\ Asked(data.read, data.asked)

\* The statements of a request are those of the filter it was begun with, and
\* the report that is held is one request's.
ReportsInv == scenario \in Scenarios /\ RowsSound /\ FilterSound /\ LoadsSound /\ DataSound

-----------------------------------------------------------------------------
LEMMA StatementsAreFew ==
  ASSUME NEW s \in Screens
  PROVE  Len(Statements(s)) \in Nat
BY DEF Statements, OverviewStatements, AttendanceStatements, HarvestStatements, Screens

LEMMA FoundIsWanted ==
  ASSUME RowsSound, NEW st, NEW f, NEW r \in Found(st, f)
  PROVE  /\ r \in Rows /\ Wanted(st, f, r)
         /\ r.id \in Ids /\ at[r.id] > 0 /\ r = rows[r.id]
BY DEF Found, RowsSound

\* The first version of a record.
LEMMA RowsInit == Init => RowsSound
<1> SUFFICES ASSUME Init PROVE RowsSound
  OBVIOUS
<1>1. ASSUME NEW i \in Ids
      PROVE  /\ (CHOOSE r \in Records : r.id = i) \in Rows
             /\ (CHOOSE r \in Records : r.id = i).id = i
  <2>1. \E r \in Records : r.id = i
    BY DEF Ids
  <2>2. (CHOOSE r \in Records : r.id = i) \in Records
    BY <2>1
  <2> QED
    BY <2>1, <2>2, RecordsAssumption
<1> QED
  BY <1>1 DEF Init, RowsSound

\* A correction makes a version of the same record, and of attendance one that
\* no statement tells apart.
LEMMA CorrectedIs ==
  ASSUME NEW row \in Rows, NEW d \in Int, NEW u \in UnitSet, NEW p \in Places,
         NEW next, next = Corrected(row, d, u, p)
  PROVE  /\ next \in Rows /\ next.id = row.id
         /\ row.kind = "attendance" => Alike(next, row)
<1>1. row.version \in Nat /\ row.version + 1 \in Nat
  BY DEF Rows
<1>2. CASE row.kind = "attendance"
  <2>1. next = [row EXCEPT !.version = row.version + 1]
    BY <1>2 DEF Corrected
  <2> QED
    BY <1>1, <2>1 DEF Rows, Alike
<1>3. CASE row.kind # "attendance"
  <2>1. next = [row EXCEPT !.version = row.version + 1, !.day = d, !.unit = u, !.place = p]
    BY <1>3 DEF Corrected
  <2>2. u \in UnitSet \cup {Unset} /\ p \in Places \cup {Unset}
    OBVIOUS
  <2> HIDE DEF UnitSet
  <2> QED
    BY <1>1, <1>3, <2>1, <2>2 DEF Rows
<1> QED
  BY <1>2, <1>3

LEMMA RowsStep ==
  ASSUME RowsSound, [Next]_vars
  PROVE  /\ RowsSound'
         /\ \A i \in Ids : rows[i].kind = "attendance" => Alike(rows'[i], rows[i])
         /\ \A i \in Ids : rows'[i] = rows[i] \/ Correct(i)
<1>1. CASE rows' = rows
  BY <1>1 DEF RowsSound, Alike
<1>2. ASSUME NEW i \in Ids, Correct(i)
      PROVE  /\ RowsSound'
             /\ \A j \in Ids : rows[j].kind = "attendance" => Alike(rows'[j], rows[j])
             /\ \A j \in Ids : rows'[j] = rows[j] \/ Correct(j)
  <2>0. PICK d \in {r.day : r \in Records}, u \in UnitSet, p \in Places :
          rows' = [rows EXCEPT ![i] = Corrected(rows[i], d, u, p)]
    BY <1>2 DEF Correct, RowsSound
  <2>1. PICK row : row = Corrected(rows[i], d, u, p) /\ rows' = [rows EXCEPT ![i] = row]
    BY <2>0
  <2>2. /\ row \in Rows /\ row.id = i
        /\ rows[i].kind = "attendance" => Alike(row, rows[i])
    <3>1. d \in Int /\ rows[i] \in Rows /\ rows[i].id = i
      BY RecordsAssumption DEF RowsSound, Rows
    <3> QED
      BY <2>1, <3>1, CorrectedIs
  <2>3. \A j \in Ids : rows'[j] = IF j = i THEN row ELSE rows[j]
    BY <2>1 DEF RowsSound
  <2>4. \A j \in Ids : j # i => rows'[j] = rows[j]
    BY <2>3
  <2>5. rows' \in [Ids -> Rows]
    BY <2>1, <2>2 DEF RowsSound
  <2> QED
    BY <1>2, <2>2, <2>3, <2>4, <2>5 DEF RowsSound, Alike
<1>3. rows' = rows \/ \E i \in Ids : Correct(i)
  BY DEF Next, vars, serverVars, fieldVars, loadVars, exportVars, Submit, CheckAccess, LoadOptions,
         ChangeFilter, ChooseUnit, Read, Answered, Failed, Settle, Export, ServeExport,
         CommitExport, TakeExport, LoseExport
<1> QED
  BY <1>1, <1>2, <1>3

\* What a correction makes of the requests.
LEMMA CorrectedLoads ==
  ASSUME NEW i \in Ids, Correct(i)
  PROVE  \A l \in loads' : \E m \in loads :
           l = IF Reading(m) THEN [m EXCEPT !.touched = @ \cup {i}] ELSE m
BY DEF Correct

LEMMA ReportsInvInit == Init => ReportsInv
<1> SUFFICES ASSUME Init PROVE ReportsInv
  OBVIOUS
<1>0. RowsSound
  BY RowsInit
<1>1. FilterSound
  <2>1. filter.from = Unset /\ filter.to = Unset
    BY DEF Init, NoFilter
  <2> QED BY <2>1 DEF FilterSound, DayOrUnset
<1>2. LoadsSound /\ DataSound
  BY DEF Init, LoadsSound, DataSound
<1> QED BY <1>0, <1>1, <1>2 DEF Init, ReportsInv

LEMMA ScreenIsOne ==
  ASSUME scenario \in Scenarios
  PROVE  screen \in Screens
BY ScenariosAssumption DEF screen

\* An effect adds a request of which nothing has been read.
LEMMA BeginKeeps ==
  ASSUME LoadsSound, DataSound, scenario' = scenario, NEW f,
         f.from \in DayOrUnset, f.to \in DayOrUnset, Begin(f)
  PROVE  LoadsSound' /\ DataSound'
<1>1. LoadsSound'
  <2> SUFFICES ASSUME NEW l \in loads'
               PROVE  /\ l.filter.from \in DayOrUnset /\ l.filter.to \in DayOrUnset
                      /\ l.read \in Seq(SUBSET Rows)
                      /\ Asked(l.read, l.filter)'
    BY DEF LoadsSound
  <2>1. CASE l = Load(f)
    BY <2>1 DEF Load, Asked
  <2>2. CASE l \in Abandoned(loads)
    <3>1. PICK k \in loads : l.filter = k.filter /\ l.read = k.read
      <4>1. CASE screen = "overview"
        <5>1. PICK k \in loads : l = [k EXCEPT !.active = FALSE]
          BY <2>2, <4>1 DEF Abandoned
        <5>2. l.filter = k.filter /\ l.read = k.read
          BY <5>1
        <5> QED BY <5>2
      <4>2. CASE screen # "overview"
        BY <2>2, <4>2 DEF Abandoned
      <4> QED BY <4>1, <4>2
    <3>2. Asked(k.read, k.filter)
      BY DEF LoadsSound
    <3>3. screen' = screen
      BY DEF screen
    <3>4. Asked(l.read, l.filter)'
      BY <3>1, <3>2, <3>3 DEF Asked, Wanted, Days, From, To, WindowStart
    <3> QED BY <3>1, <3>4 DEF LoadsSound
  <2> QED BY <2>1, <2>2 DEF Begin
<1>2. DataSound'
  BY DEF DataSound, Begin, screen, Asked, Wanted, Days, From, To, WindowStart
<1> QED BY <1>1, <1>2

\* A change of a filter field is to a day or to nothing.
LEMMA ChangedFilter ==
  ASSUME FilterSound, NEW f \in OverviewFilters \cup DateFilters \cup HarvestFilters
  PROVE  f.from \in DayOrUnset /\ f.to \in DayOrUnset
<1> USE DaysAssumption DEF FilterSound, DayOrUnset
<1>1. ASSUME NEW d \in FilterDays \cup {Unset}, f = [filter EXCEPT !.from = d]
      PROVE  f.from \in DayOrUnset /\ f.to \in DayOrUnset
  <2>1. f.from \in {d, filter.from} /\ f.to = filter.to
    BY <1>1
  <2> QED BY <2>1
<1>2. ASSUME NEW d \in FilterDays \cup {Unset}, f = [filter EXCEPT !.to = d]
      PROVE  f.from \in DayOrUnset /\ f.to \in DayOrUnset
  <2>1. f.to \in {d, filter.to} /\ f.from = filter.from
    BY <1>2
  <2> QED BY <2>1
<1>3. ASSUME NEW days \in Presets, f = PresetRange(days)
      PROVE  f.from \in DayOrUnset /\ f.to \in DayOrUnset
  <2>1. f.from \in {Today - (days - 1), filter.from} /\ f.to \in {Today, filter.to}
    BY <1>3 DEF PresetRange
  <2>2. Today - (days - 1) \in Int
    OBVIOUS
  <2> QED BY <2>1, <2>2
<1>4. ASSUME NEW u, f = [filter EXCEPT !.unit = u]
      PROVE  f.from \in DayOrUnset /\ f.to \in DayOrUnset
  <2>1. f.from = filter.from /\ f.to = filter.to
    BY <1>4
  <2> QED BY <2>1
<1>5. ASSUME NEW p, f = [filter EXCEPT !.place = p]
      PROVE  f.from \in DayOrUnset /\ f.to \in DayOrUnset
  <2>1. f.from = filter.from /\ f.to = filter.to
    BY <1>5
  <2> QED BY <2>1
<1> QED BY <1>1, <1>2, <1>3, <1>4, <1>5 DEF OverviewFilters, DateFilters, HarvestFilters

\* What one request has read after another of its statements.
LEMMA ReadKeeps ==
  ASSUME ReportsInv, NEW l \in loads, Read(l)
  PROVE  LoadsSound'
<1> DEFINE sts == Statements(screen)
           k   == [l EXCEPT !.read = Append(@, Found(sts[Len(@) + 1], l.filter))]
<1> SUFFICES ASSUME NEW m \in loads'
             PROVE  /\ m.filter.from \in DayOrUnset /\ m.filter.to \in DayOrUnset
                    /\ m.read \in Seq(SUBSET Rows)
                    /\ Asked(m.read, m.filter)'
  BY DEF LoadsSound
<1>1. screen' = screen /\ l.read \in Seq(SUBSET Rows)
  BY DEF Read, serverVars, screen, ReportsInv, LoadsSound
<1>2. CASE m = k
  <2> DEFINE more == Found(sts[Len(l.read) + 1], l.filter)
  <2>1. m.filter = l.filter /\ m.read \in {l.read, Append(l.read, more)}
    BY <1>2
  <2>2. more \in SUBSET Rows
    BY FoundIsWanted DEF ReportsInv
  <2>3. \A r \in more : r \in Rows /\ Wanted(sts[Len(l.read) + 1], l.filter, r)
    BY FoundIsWanted DEF ReportsInv
  <2>4. Asked(l.read, l.filter)
    BY DEF ReportsInv, LoadsSound
  <2> HIDE DEF more
  <2>5. m.read \in Seq(SUBSET Rows)
    BY <1>1, <2>1, <2>2
  <2>6. \A i \in 1 .. Len(Append(l.read, more)) :
          \/ i \in 1 .. Len(l.read) /\ Append(l.read, more)[i] = l.read[i]
          \/ i = Len(l.read) + 1 /\ Append(l.read, more)[i] = more
    BY <1>1, <2>2
  <2>7. Asked(Append(l.read, more), l.filter)
    BY <2>3, <2>4, <2>6 DEF Asked
  <2>8. Asked(m.read, m.filter)
    BY <2>1, <2>4, <2>7
  <2>9. Asked(m.read, m.filter)'
    BY <1>1, <2>8 DEF Asked, Wanted, Days, From, To, WindowStart
  <2> QED BY <2>1, <2>5, <2>9 DEF ReportsInv, LoadsSound
<1>3. CASE m \in loads
  BY <1>1, <1>3 DEF ReportsInv, LoadsSound, Asked, Wanted, Days, From, To, WindowStart
<1> QED BY <1>2, <1>3 DEF Read

\* Only the answer of a request that is still wanted becomes the report.
LEMMA SettleKeeps ==
  ASSUME ReportsInv, NEW l \in loads, Answered(l) \/ Failed(l)
  PROVE  LoadsSound' /\ DataSound'
<1>1. screen' = screen /\ loads' \subseteq loads
  BY DEF Answered, Failed, Settle, serverVars, screen
<1>2. LoadsSound'
  BY <1>1 DEF ReportsInv, LoadsSound, Asked, Wanted, Days, From, To, WindowStart
<1>3. CASE data' = data \/ data' = NoData
  BY <1>1, <1>2, <1>3 DEF ReportsInv, DataSound, Asked, Wanted, Days, From, To, WindowStart
<1>4. CASE data' = Report(l) /\ Len(l.read) = Len(Statements(screen))
  <2>1. /\ data'.asked = l.filter /\ data'.read = l.read
        /\ data'.from = From(l.filter) /\ data'.to = To(l.filter)
    BY <1>4 DEF Report
  <2>2. Asked(l.read, l.filter)
    BY DEF ReportsInv, LoadsSound
  <2> QED BY <1>1, <1>2, <1>4, <2>1, <2>2
      DEF ReportsInv, LoadsSound, DataSound, Asked, Wanted, Days, From, To, WindowStart
<1>5. \/ data' = data \/ data' = NoData
      \/ data' = Report(l) /\ Len(l.read) = Len(Statements(screen))
  BY DEF Answered, Failed
<1> QED BY <1>2, <1>3, <1>4, <1>5

\* The other actions leave the requests and the report alone.
LEMMA QuietKeeps ==
  ASSUME ReportsInv, RowsSound', UNCHANGED <<scenario, filter, loads, data>>
  PROVE  ReportsInv'
BY DEF ReportsInv, FilterSound, LoadsSound, DataSound, screen, Asked, Wanted, Days, From, To, WindowStart

\* A correction leaves what was read.
LEMMA CorrectKeeps ==
  ASSUME ReportsInv, RowsSound', NEW i \in Ids, Correct(i)
  PROVE  ReportsInv'
<1>1. scenario' = scenario /\ filter' = filter /\ data' = data /\ screen' = screen
  BY DEF Correct, fieldVars, screen
<1>2. LoadsSound'
  <2> SUFFICES ASSUME NEW l \in loads'
               PROVE  /\ l.filter.from \in DayOrUnset /\ l.filter.to \in DayOrUnset
                      /\ l.read \in Seq(SUBSET Rows)
                      /\ Asked(l.read, l.filter)'
    BY DEF LoadsSound
  <2>1. PICK m \in loads : l = IF Reading(m) THEN [m EXCEPT !.touched = @ \cup {i}] ELSE m
    BY CorrectedLoads
  <2>2. l.filter = m.filter /\ l.read = m.read
    BY <2>1
  <2>3. Asked(m.read, m.filter)
    BY DEF ReportsInv, LoadsSound
  <2> QED
    BY <1>1, <2>2, <2>3 DEF ReportsInv, LoadsSound, Asked, Wanted, Days, From, To, WindowStart
<1>3. DataSound'
  BY <1>1 DEF ReportsInv, DataSound, Asked, Wanted, Days, From, To, WindowStart
<1> QED
  BY <1>1, <1>2, <1>3 DEF ReportsInv, FilterSound

LEMMA ReportsInvStep == ReportsInv /\ [Next]_vars => ReportsInv'
<1> SUFFICES ASSUME ReportsInv, [Next]_vars PROVE ReportsInv'
  OBVIOUS
<1> USE DEF serverVars, fieldVars, loadVars, exportVars
<1>0. RowsSound'
  BY RowsStep DEF ReportsInv
<1>1. ASSUME NEW i \in Ids, Submit(i) \/ Correct(i) PROVE ReportsInv'
  BY <1>0, <1>1, QuietKeeps, CorrectKeeps DEF Submit
<1>2. CASE CheckAccess
  <2>1. CASE Begin(filter)
    <3>1. LoadsSound' /\ DataSound'
      BY <1>2, <2>1, BeginKeeps DEF CheckAccess, ReportsInv, FilterSound
    <3> QED BY <1>0, <1>2, <3>1 DEF CheckAccess, ReportsInv, FilterSound
  <2>2. CASE UNCHANGED loadVars
    BY <1>0, <1>2, <2>2, QuietKeeps DEF CheckAccess
  <2> QED BY <1>2, <2>1, <2>2 DEF CheckAccess
<1>3. CASE LoadOptions
  BY <1>0, <1>3, QuietKeeps DEF LoadOptions
<1>4. CASE ChangeFilter
  <2>1. filter' \in OverviewFilters \cup DateFilters \cup HarvestFilters
    BY <1>4, ScreenIsOne DEF ChangeFilter, Screens, ReportsInv
  <2>2. filter'.from \in DayOrUnset /\ filter'.to \in DayOrUnset
    BY <2>1, ChangedFilter DEF ReportsInv
  <2>3. LoadsSound' /\ DataSound'
    BY <1>4, <2>2, BeginKeeps DEF ChangeFilter, ReportsInv
  <2> QED BY <1>0, <1>4, <2>2, <2>3 DEF ChangeFilter, ReportsInv, FilterSound
<1>5. CASE ChooseUnit
  BY <1>0, <1>5, QuietKeeps DEF ChooseUnit
<1>6. ASSUME NEW l \in loads, Read(l) PROVE ReportsInv'
  <2>1. LoadsSound'
    BY <1>6, ReadKeeps
  <2>2. DataSound'
    BY <1>6 DEF Read, ReportsInv, DataSound, screen, Asked, Wanted, Days, From, To, WindowStart
  <2> QED BY <1>0, <1>6, <2>1, <2>2 DEF Read, ReportsInv, FilterSound
<1>7. ASSUME NEW l \in loads, Answered(l) \/ Failed(l) PROVE ReportsInv'
  <2>1. LoadsSound' /\ DataSound'
    BY <1>7, SettleKeeps
  <2>2. scenario' = scenario /\ filter' = filter
    BY <1>7 DEF Answered, Failed, Settle
  <2> QED BY <1>0, <2>1, <2>2 DEF ReportsInv, FilterSound
<1>8. ASSUME NEW k \in Kinds, Export(k) PROVE ReportsInv'
  BY <1>0, <1>8, QuietKeeps DEF Export
<1>9. ASSUME NEW e \in exports,
             ServeExport(e) \/ CommitExport(e) \/ TakeExport(e) \/ LoseExport(e)
      PROVE  ReportsInv'
  BY <1>0, <1>9, QuietKeeps DEF ServeExport, CommitExport, TakeExport, LoseExport
<1>10. CASE UNCHANGED vars
  BY <1>0, <1>10, QuietKeeps DEF vars
<1> QED BY <1>1, <1>2, <1>3, <1>4, <1>5, <1>6, <1>7, <1>8, <1>9, <1>10 DEF Next

-----------------------------------------------------------------------------
\* The statements of that name are over the window, or the range, that the
\* screen charts.
LEMMA SeriesStatement ==
  ASSUME NEW s \in Screens, NEW name, NEW k \in 1 .. Len(Statements(s)),
         Statements(s)[k].name = name, name \in {"attendance_by_date", "harvest_by_date"}
  PROVE  Statements(s)[k].span = IF s = "overview" THEN "window" ELSE "range"
BY DEF Statements, OverviewStatements, AttendanceStatements, HarvestStatements, Statement, Screens

LEMMA SeriesIsThere ==
  ASSUME NEW s \in Screens, NEW name,
         \/ name = "attendance_by_date" /\ s # "harvest"
         \/ name = "harvest_by_date" /\ s # "attendance"
  PROVE  \E k \in 1 .. Len(Statements(s)) : Statements(s)[k].name = name
<1>1. CASE s = "overview"
  <2>1. 4 \in 1 .. Len(Statements(s)) /\ Statements(s)[4].name = "attendance_by_date"
    BY <1>1 DEF Statements, OverviewStatements, Statement
  <2>2. 5 \in 1 .. Len(Statements(s)) /\ Statements(s)[5].name = "harvest_by_date"
    BY <1>1 DEF Statements, OverviewStatements, Statement
  <2> QED BY <2>1, <2>2
<1>2. CASE s = "attendance"
  <2>1. 3 \in 1 .. Len(Statements(s)) /\ Statements(s)[3].name = "attendance_by_date"
    BY <1>2 DEF Statements, AttendanceStatements, Statement
  <2> QED BY <1>2, <2>1
<1>3. CASE s = "harvest"
  <2>1. 3 \in 1 .. Len(Statements(s)) /\ Statements(s)[3].name = "harvest_by_date"
    BY <1>3 DEF Statements, HarvestStatements, Statement
  <2> QED BY <1>3, <2>1
<1> QED BY <1>1, <1>2, <1>3 DEF Screens

\* A row of a series is on a day that the chart begins with, or later, and not
\* after its last.
LEMMA SeriesIsInWindow ==
  ASSUME ReportsInv, data # NoData, NEW name,
         \/ name = "attendance_by_date" /\ screen # "harvest"
         \/ name = "harvest_by_date" /\ screen # "attendance",
         NEW r \in Figure(name)
  PROVE  r.day \in FirstDay .. data.to /\ FirstDay \in Int /\ data.to \in Int
<1> DEFINE sts == Statements(screen)
           i   == CHOOSE k \in 1 .. Len(sts) : sts[k].name = name
<1>1. screen \in Screens
  BY ScreenIsOne DEF ReportsInv
<1>2. i \in 1 .. Len(sts) /\ sts[i].name = name
  BY <1>1, SeriesIsThere
<1>3. r \in data.read[i]
  BY DEF Figure, Position
<1> HIDE DEF i
<1>4. Wanted(sts[i], data.asked, r)
  BY <1>2, <1>3 DEF ReportsInv, DataSound, Asked
<1>5. sts[i].span = IF screen = "overview" THEN "window" ELSE "range"
  BY <1>1, <1>2, SeriesStatement
<1>6. r.day \in Days(sts[i], data.asked)
  BY <1>4, <1>5 DEF Wanted
<1>7. data.from = From(data.asked) /\ data.to = To(data.asked)
  BY DEF ReportsInv, DataSound
<1>8. From(data.asked) \in Int /\ To(data.asked) \in Int
  BY DaysAssumption DEF ReportsInv, DataSound, DayOrUnset, From, To
<1>9. Days(sts[i], data.asked) = FirstDay .. data.to
  BY <1>5, <1>7 DEF Days, FirstDay, WindowStart
<1> QED BY <1>6, <1>7, <1>8, <1>9, DaysAssumption DEF FirstDay

\* fillDateWindow drops no row of its window.
LEMMA ChartIsWhole ==
  ASSUME NEW figure, NEW first \in Int, NEW last \in Int, NEW r \in figure,
         r.day \in first .. last
  PROVE  r.day \in DOMAIN Chart(figure, first, last) /\ r \in Chart(figure, first, last)[r.day]
<1> DEFINE days == IF (last - first) < 1 \/ (last - first) > MaxFill THEN {q.day : q \in figure}
                   ELSE Filled(first, last)
<1>1. r.day \in days
  BY DEF Filled
<1>2. Chart(figure, first, last) = [d \in days |-> Bar(figure, d)]
  BY DEF Chart
<1> HIDE DEF days
<1> QED BY <1>1, <1>2 DEF Bar

\* A bar is of its own day.
LEMMA BarsAreOfTheirDay ==
  ASSUME NEW figure, NEW first, NEW last, NEW d \in DOMAIN Chart(figure, first, last),
         NEW r \in Chart(figure, first, last)[d]
  PROVE  r \in figure /\ r.day = d
<1> DEFINE days == IF (last - first) < 1 \/ (last - first) > MaxFill THEN {q.day : q \in figure}
                   ELSE Filled(first, last)
<1>1. Chart(figure, first, last) = [e \in days |-> Bar(figure, e)]
  BY DEF Chart
<1> HIDE DEF days
<1> QED BY <1>1 DEF Bar

LEMMA ChartsFollow == ReportsInv => ChartsAreWhole
<1> SUFFICES ASSUME ReportsInv, data # NoData PROVE ChartsAreWhole
  BY DEF ChartsAreWhole
<1>1. ASSUME screen # "harvest"
      PROVE  Whole(AttendanceChart, Figure("attendance_by_date"))
  <2>1. \A r \in Figure("attendance_by_date") :
          r.day \in FirstDay .. data.to /\ FirstDay \in Int /\ data.to \in Int
    BY <1>1, SeriesIsInWindow
  <2> QED
    BY <2>1, ChartIsWhole, BarsAreOfTheirDay DEF AttendanceChart, Whole
<1>2. ASSUME screen # "attendance"
      PROVE  Whole(HarvestChart, {r \in Figure("harvest_by_date") : r.unit = SelectedUnit})
  <2> DEFINE series == OfUnit(Figure("harvest_by_date"), SelectedUnit)
  <2>1. series = {r \in Figure("harvest_by_date") : r.unit = SelectedUnit}
    BY DEF OfUnit
  <2>2. HarvestChart = Chart(series, FirstDay, data.to)
    BY DEF HarvestChart
  <2>3. \A r \in series : r.day \in FirstDay .. data.to /\ FirstDay \in Int /\ data.to \in Int
    BY <1>2, <2>1, SeriesIsInWindow
  <2> HIDE DEF series
  <2>4. Whole(HarvestChart, series)
    BY <2>2, <2>3, ChartIsWhole, BarsAreOfTheirDay DEF Whole
  <2> QED
    BY <2>1, <2>4
<1>3. /\ \A r \in Figure("harvest_by_farm_unit") :
           r.unit = SelectedUnit => r.place \in DOMAIN Comparison /\ r \in Comparison[r.place]
      /\ \A p \in DOMAIN Comparison : \A r \in Comparison[p] :
           r.place = p /\ r.unit = SelectedUnit
  BY DEF Comparison, ByPlace, OfUnit
<1> QED BY <1>1, <1>2, <1>3 DEF ChartsAreWhole

-----------------------------------------------------------------------------
(* The records that are submitted are numbered in the order of their       *)
(* submission, so every list of a report is in a total order.              *)

AtHand == {i \in Ids : at[i] > 0}

RecordsNumbered ==
  /\ at \in [Ids -> Nat]
  /\ \A i \in Ids : at[i] <= Cardinality(AtHand)
  /\ \A i, j \in AtHand : at[i] = at[j] => i = j

LEMMA IdsAreFinite == IsFiniteSet(Ids) /\ Cardinality(Ids) \in Nat
<1> DEFINE name == [r \in Records |-> r.id]
<1>1. name \in Surjection(Records, Ids)
  BY DEF Surjection, Ids
<1>2. IsFiniteSet(Ids)
  BY <1>1, FiniteRecords, FS_Surjection
<1> QED
  BY <1>2, FS_CardinalityType

LEMMA AtHandIsFinite == IsFiniteSet(AtHand) /\ Cardinality(AtHand) \in Nat
BY IdsAreFinite, FS_Subset, FS_CardinalityType DEF AtHand

LEMMA SmallerThan ==
  ASSUME NEW S, IsFiniteSet(S), NEW T, T \subseteq S, NEW x \in S, x \notin T
  PROVE  Cardinality(T) < Cardinality(S)
<1>1. Cardinality(T) <= Cardinality(S) /\ Cardinality(T) # Cardinality(S)
  BY FS_Subset
<1>2. Cardinality(T) \in Nat /\ Cardinality(S) \in Nat
  BY FS_Subset, FS_CardinalityType
<1> QED
  BY <1>1, <1>2

\* The first k of the elements of a set, numbered from 0, are the whole of it or k.
LEMMA FirstOnes ==
  ASSUME NEW S, IsFiniteSet(S), NEW k \in Nat, NEW rank \in [S -> Nat],
         \A x \in S : rank[x] < Cardinality(S),
         \A x, y \in S : rank[x] = rank[y] => x = y
  PROVE  LET T == {x \in S : rank[x] < k} IN T = S \/ Cardinality(T) = k
<1> DEFINE T == {x \in S : rank[x] < k}
           n == Cardinality(S)
<1>0. n \in Nat
  BY FS_CardinalityType
<1> HIDE DEF n
<1>1. n \in Nat /\ IsFiniteSet(0 .. (n - 1)) /\ Cardinality(0 .. (n - 1)) = n
  <2>1. n - 1 \in Int /\ (0 > n - 1 <=> n = 0)
    BY <1>0
  <2> QED
    BY <1>0, <2>1, FS_Interval
<1>2. CASE n <= k
  BY <1>1, <1>2 DEF n
<1>3. CASE k < n
  <2>1. rank \in Injection(S, 0 .. (n - 1))
    BY <1>1 DEF Injection, IsInjective, n
  <2>2. rank \in Surjection(S, 0 .. (n - 1))
    BY <1>1, <2>1, FS_Injection DEF n
  <2> DEFINE first == [x \in T |-> rank[x]]
  <2>3. first \in Injection(T, 0 .. (k - 1))
    BY DEF Injection, IsInjective
  <2>4. first \in Surjection(T, 0 .. (k - 1))
    BY <1>1, <1>3, <2>2 DEF Surjection
  <2>5. IsFiniteSet(0 .. (k - 1)) /\ Cardinality(0 .. (k - 1)) = k
    BY FS_Interval
  <2> QED
    BY <2>3, <2>4, <2>5, FS_Injection
<1> QED
  BY <1>1, <1>2, <1>3

\* What the records that are submitted say now.
Now == {rows[i] : i \in AtHand}

LEMMA NowIs ==
  ASSUME RowsSound
  PROVE  /\ IsFiniteSet(Now) /\ Now \subseteq Rows
         /\ \A r \in Now : r.id \in AtHand /\ r = rows[r.id]
         /\ \A i \in AtHand : rows[i] \in Now
<1> DEFINE now == [i \in AtHand |-> rows[i]]
<1>1. now \in Surjection(AtHand, Now)
  BY DEF Surjection, Now
<1>2. IsFiniteSet(Now)
  BY <1>1, AtHandIsFinite, FS_Surjection
<1> QED
  BY <1>2 DEF Now, RowsSound, AtHand

\* A list is in a total order.
LEMMA ListsAreOrdered ==
  ASSUME RowsSound, RecordsNumbered, NEW st, NEW p \in Now, NEW q \in Now, NEW r \in Now
  PROVE  /\ ~Before(st, p, p)
         /\ Before(st, p, q) \/ Before(st, q, p) \/ p = q
         /\ Before(st, p, q) /\ Before(st, q, r) => Before(st, p, r)
<1>1. \A x \in {p, q, r} : x.id \in AtHand /\ x = rows[x.id] /\ x.day \in Int
  BY NowIs DEF Rows
<1>2. \A x \in {p, q, r} : at[x.id] \in Nat
  BY <1>1 DEF RecordsNumbered, AtHand
<1>3. p # q => at[p.id] # at[q.id]
  BY <1>1 DEF RecordsNumbered
<1> QED
  BY <1>1, <1>2, <1>3 DEF Before

\* What a statement finds is all it wants, or as many as its limit, and then
\* these come before the others.
LEMMA FoundToTheLimit ==
  ASSUME RowsSound, RecordsNumbered, NEW st, NEW f, st.limit \in Nat,
         NEW r \in Now, Wanted(st, f, r)
  PROVE  \/ r \in Found(st, f)
         \/ /\ st.limit # 0 /\ Cardinality(Found(st, f)) = st.limit
            /\ \A q \in Found(st, f) : Before(st, q, r)
<1> DEFINE S == {x \in Now : Wanted(st, f, x)}
           Earlier(x) == {q \in S : Before(st, q, x)}
           rank == [x \in S |-> Cardinality(Earlier(x))]
<1>1. S \subseteq Now /\ IsFiniteSet(S) /\ r \in S
  BY NowIs, FS_Subset
<1>2. \A x \in S : IsFiniteSet(Earlier(x)) /\ Cardinality(Earlier(x)) \in Nat
  BY <1>1, FS_Subset, FS_CardinalityType
<1>3. \A x \in S : Cardinality(Earlier(x)) < Cardinality(S)
  <2> TAKE x \in S
  <2>1. Earlier(x) \subseteq S /\ x \notin Earlier(x)
    BY <1>1, ListsAreOrdered
  <2> HIDE DEF S, Earlier
  <2> QED
    BY <1>1, <2>1, SmallerThan
<1>4. \A q, x \in S : Before(st, q, x) => Cardinality(Earlier(q)) < Cardinality(Earlier(x))
  <2> SUFFICES ASSUME NEW q \in S, NEW x \in S, Before(st, q, x)
               PROVE  Cardinality(Earlier(q)) < Cardinality(Earlier(x))
    OBVIOUS
  <2>1. Earlier(q) \subseteq Earlier(x)
    BY <1>1, ListsAreOrdered
  <2>2. q \in Earlier(x) /\ q \notin Earlier(q)
    BY <1>1, ListsAreOrdered
  <2> HIDE DEF S, Earlier
  <2> QED
    BY <1>2, <2>1, <2>2, SmallerThan
<1>5. \A q, x \in S : Before(st, q, x) \/ Before(st, x, q) \/ q = x
  BY <1>1, ListsAreOrdered
<1>6. \A q, x \in S : Cardinality(Earlier(q)) = Cardinality(Earlier(x)) => q = x
  <2> SUFFICES ASSUME NEW q \in S, NEW x \in S, Cardinality(Earlier(q)) = Cardinality(Earlier(x))
               PROVE  q = x
    OBVIOUS
  <2> HIDE DEF S, Earlier
  <2> QED
    BY <1>2, <1>4, <1>5
<1>7. CASE st.limit = 0
  BY <1>1, <1>7 DEF Found, Now, AtHand
<1>8. CASE st.limit # 0
  <2>1. Found(st, f) = {x \in S : rank[x] < st.limit}
    BY <1>8 DEF Found, Now, AtHand
  <2>2. rank \in [S -> Nat] /\ (\A x \in S : rank[x] < Cardinality(S))
        /\ \A q, x \in S : rank[q] = rank[x] => q = x
    BY <1>2, <1>3, <1>6
  <2>3. \A q, x \in S : Before(st, q, x) => rank[q] < rank[x]
    BY <1>4
  <2> HIDE DEF rank, S
  <2>4. Found(st, f) = S \/ Cardinality(Found(st, f)) = st.limit
    BY <1>1, <2>1, <2>2, FirstOnes
  <2>5. ASSUME r \notin Found(st, f), NEW q \in Found(st, f)
        PROVE  Before(st, q, r)
    <3>1. q \in S /\ rank[q] < st.limit /\ ~(rank[r] < st.limit)
      BY <1>1, <2>1, <2>5
    <3>2. rank[q] \in Nat /\ rank[r] \in Nat
      BY <1>1, <2>2, <3>1
    <3> QED
      BY <1>1, <1>5, <2>3, <3>1, <3>2
  <2> QED
    BY <1>1, <1>8, <2>4, <2>5
<1> QED
  BY <1>7, <1>8

LEMMA NumberedInit == Init => RecordsNumbered
<1> SUFFICES ASSUME Init PROVE RecordsNumbered
  OBVIOUS
<1>0. at = [i \in Ids |-> 0]
  BY DEF Init
<1>1. AtHand = {} /\ at \in [Ids -> Nat] /\ \A r \in Ids : at[r] = 0
  BY <1>0 DEF AtHand
<1>2. Cardinality(AtHand) = 0
  BY <1>1, FS_EmptySet
<1>3. \A r \in Ids : at[r] <= Cardinality(AtHand)
  BY <1>1, <1>2
<1>4. \A q, r \in AtHand : at[q] = at[r] => q = r
  BY <1>1
<1> QED
  BY <1>1, <1>3, <1>4 DEF RecordsNumbered

\* A submission takes the next number.
LEMMA NumberedStep ==
  ASSUME RecordsNumbered, [Next]_vars
  PROVE  /\ RecordsNumbered' /\ AtHand \subseteq AtHand'
         /\ \A i \in AtHand : at'[i] = at[i]
<1>1. CASE at' = at
  BY <1>1 DEF RecordsNumbered, AtHand
<1>2. ASSUME NEW r \in Ids, Submit(r)
      PROVE  /\ RecordsNumbered' /\ AtHand \subseteq AtHand'
             /\ \A i \in AtHand : at'[i] = at[i]
  <2> DEFINE n == Cardinality(AtHand)
  <2>1. n \in Nat /\ at[r] = 0 /\ at' = [at EXCEPT ![r] = 1 + n]
    BY <1>2, AtHandIsFinite DEF Submit, AtHand
  <2> HIDE DEF n
  <2>2. AtHand' = AtHand \cup {r} /\ r \notin AtHand
    BY <2>1 DEF RecordsNumbered, AtHand
  <2>3. Cardinality(AtHand') = n + 1
    BY <2>2, AtHandIsFinite, FS_AddElement DEF n
  <2>4. \A q \in Ids : at'[q] \in Nat /\ (q # r => at'[q] = at[q] /\ at[q] <= n)
    BY <2>1 DEF RecordsNumbered, n
  <2>5. at'[r] = n + 1 /\ at' \in [Ids -> Nat]
    BY <2>1 DEF RecordsNumbered
  <2>6. \A q \in Ids : at'[q] <= Cardinality(AtHand')
    BY <2>1, <2>3, <2>4, <2>5
  <2>7. \A p, q \in AtHand' : at'[p] = at'[q] => p = q
    <3> SUFFICES ASSUME NEW p \in AtHand', NEW q \in AtHand', at'[p] = at'[q] PROVE p = q
      OBVIOUS
    <3>1. p \in Ids /\ q \in Ids /\ (p # r => p \in AtHand) /\ (q # r => q \in AtHand)
      BY <2>2 DEF AtHand
    <3>2. CASE p # r /\ q # r
      BY <2>4, <3>1, <3>2 DEF RecordsNumbered
    <3>3. CASE p = r \/ q = r
      BY <2>1, <2>4, <2>5, <3>1, <3>3
    <3> QED
      BY <3>2, <3>3
  <2> QED
    BY <2>2, <2>4, <2>5, <2>6, <2>7 DEF RecordsNumbered, AtHand
<1>3. at' = at \/ \E r \in Ids : Submit(r)
  BY DEF Next, Correct, vars, serverVars, fieldVars, loadVars, exportVars, CheckAccess, LoadOptions,
         ChangeFilter, ChooseUnit, Read, Answered, Failed, Settle, Export, ServeExport,
         CommitExport, TakeExport, LoseExport
<1> QED
  BY <1>1, <1>2, <1>3

-----------------------------------------------------------------------------
(* The figures of a screen: each statement has a name of its own.          *)

LEMMA NamesAreApart ==
  ASSUME NEW s \in Screens, NEW i \in 1 .. Len(Statements(s)), NEW j \in 1 .. Len(Statements(s)),
         Statements(s)[i].name = Statements(s)[j].name
  PROVE  i = j
<1>1. CASE s = "overview"
  BY <1>1 DEF Statements, OverviewStatements, Statement
<1>2. CASE s = "attendance"
  BY <1>2 DEF Statements, AttendanceStatements, Statement
<1>3. CASE s = "harvest"
  BY <1>3 DEF Statements, HarvestStatements, Statement
<1> QED
  BY <1>1, <1>2, <1>3 DEF Screens

LEMMA FigureIs ==
  ASSUME screen \in Screens, NEW k \in 1 .. Len(Statements(screen)), NEW name,
         Statements(screen)[k].name = name
  PROVE  Position(name) = k /\ Figure(name) = data.read[k]
<1> DEFINE sts == Statements(screen)
           i == CHOOSE j \in 1 .. Len(sts) : sts[j].name = name
<1>1. i \in 1 .. Len(sts) /\ sts[i].name = name
  OBVIOUS
<1>2. i = k
  BY <1>1, NamesAreApart
<1> QED
  BY <1>2 DEF Figure, Position

\* What the screens show is found under these names.
LEMMA FiguresOfOverview ==
  ASSUME screen = "overview"
  PROVE  /\ Position("attendance") = 1 /\ Figure("attendance") = data.read[1]
         /\ Position("harvest") = 2 /\ Figure("harvest") = data.read[2]
         /\ Position("harvest_count") = 3 /\ Figure("harvest_count") = data.read[3]
         /\ Position("attendance_by_date") = 4 /\ Figure("attendance_by_date") = data.read[4]
         /\ Position("harvest_by_date") = 5 /\ Figure("harvest_by_date") = data.read[5]
         /\ Position("harvest_by_farm_unit") = 6 /\ Figure("harvest_by_farm_unit") = data.read[6]
         /\ Position("recent_attendance") = 7 /\ Figure("recent_attendance") = data.read[7]
         /\ Position("recent_harvest") = 8 /\ Figure("recent_harvest") = data.read[8]
<1> DEFINE sts == Statements(screen)
<1>1. /\ screen \in Screens /\ Len(sts) = 8
      /\ sts[1].name = "attendance"
      /\ sts[2].name = "harvest"
      /\ sts[3].name = "harvest_count"
      /\ sts[4].name = "attendance_by_date"
      /\ sts[5].name = "harvest_by_date"
      /\ sts[6].name = "harvest_by_farm_unit"
      /\ sts[7].name = "recent_attendance"
      /\ sts[8].name = "recent_harvest"
  BY DEF Screens, Statements, OverviewStatements, Statement
<1> HIDE DEF sts
<1>2. \A k \in 1 .. 8 : Position(sts[k].name) = k /\ Figure(sts[k].name) = data.read[k]
  BY <1>1, FigureIs DEF sts
<1> QED
  BY <1>1, <1>2

LEMMA FiguresOfAttendance ==
  ASSUME screen = "attendance"
  PROVE  /\ Position("attendance") = 1 /\ Figure("attendance") = data.read[1]
         /\ Position("sessions") = 2 /\ Figure("sessions") = data.read[2]
         /\ Position("attendance_by_date") = 3 /\ Figure("attendance_by_date") = data.read[3]
<1> DEFINE sts == Statements(screen)
<1>1. /\ screen \in Screens /\ Len(sts) = 3
      /\ sts[1].name = "attendance"
      /\ sts[2].name = "sessions"
      /\ sts[3].name = "attendance_by_date"
  BY DEF Screens, Statements, AttendanceStatements, Statement
<1> HIDE DEF sts
<1>2. \A k \in 1 .. 3 : Position(sts[k].name) = k /\ Figure(sts[k].name) = data.read[k]
  BY <1>1, FigureIs DEF sts
<1> QED
  BY <1>1, <1>2

LEMMA FiguresOfHarvest ==
  ASSUME screen = "harvest"
  PROVE  /\ Position("harvest_count") = 1 /\ Figure("harvest_count") = data.read[1]
         /\ Position("harvest") = 2 /\ Figure("harvest") = data.read[2]
         /\ Position("harvest_by_date") = 3 /\ Figure("harvest_by_date") = data.read[3]
         /\ Position("harvest_by_farm_unit") = 4 /\ Figure("harvest_by_farm_unit") = data.read[4]
         /\ Position("records") = 5 /\ Figure("records") = data.read[5]
<1> DEFINE sts == Statements(screen)
<1>1. /\ screen \in Screens /\ Len(sts) = 5
      /\ sts[1].name = "harvest_count"
      /\ sts[2].name = "harvest"
      /\ sts[3].name = "harvest_by_date"
      /\ sts[4].name = "harvest_by_farm_unit"
      /\ sts[5].name = "records"
  BY DEF Screens, Statements, HarvestStatements, Statement
<1> HIDE DEF sts
<1>2. \A k \in 1 .. 5 : Position(sts[k].name) = k /\ Figure(sts[k].name) = data.read[k]
  BY <1>1, FigureIs DEF sts
<1> QED
  BY <1>1, <1>2

-----------------------------------------------------------------------------
(* Types.                                                                  *)

LoadForm == [n: Nat, filter: Filters, active: BOOLEAN, read: Seq(SUBSET Rows),
             touched: SUBSET Ids]

ExportForm == [n: Nat, kind: Kinds, filter: Filters,
               reply: {"waiting", "ready", "taken", "lost"},
               log: {"none", "open", "recorded", "failed"}]

FieldsTyped ==
  /\ access \in {"checking", "reader", "exporter", "refused"}
  /\ filter \in Filters /\ options \in {"loading", "listed", "none"}
  /\ chartUnit \in UnitSet \cup {Unset}
  /\ error \in {"", "load", "export"}

LoadsTyped ==
  /\ count \in 0 .. scenario.loads
  /\ newest \in {"none", "waiting", "answered", "failed"} /\ overtaken \in BOOLEAN
  /\ loads \subseteq LoadForm
  /\ \A l \in loads : l.n \in 1 .. count /\ Len(l.read) <= Len(Statements(screen))
  /\ data \in Reports \cup {NoData}

ExportsTyped ==
  /\ exporting \in Kinds \cup {Unset}
  /\ IsFiniteSet(exports) /\ exports \subseteq ExportForm

LEMMA StatementsTyped ==
  ASSUME NEW s \in Screens, NEW i \in 1 .. Len(Statements(s))
  PROVE  Statements(s)[i].limit \in Nat
BY DaysAssumption DEF Statements, OverviewStatements, AttendanceStatements, HarvestStatements,
   Statement, Screens

\* A filter that is set is one that can be asked for, and has its days.
LEMMA FilterTyped ==
  ASSUME NEW g \in Filters
  PROVE  /\ g.from \in DayOrUnset /\ g.to \in DayOrUnset
         /\ From(g) \in Int /\ To(g) \in Int
<1>1. \A days \in Presets : Today - (days - 1) \in Int
  BY DaysAssumption
<1>2. g.from \in DayOrUnset /\ g.to \in DayOrUnset
  BY <1>1, DaysAssumption DEF Filters, DayOrUnset
<1> QED
  BY <1>2, DaysAssumption DEF DayOrUnset, From, To

LEMMA ChangedFilterTyped ==
  ASSUME filter \in Filters, NEW f \in OverviewFilters \cup DateFilters \cup HarvestFilters
  PROVE  f \in Filters
<1>1. ASSUME NEW d \in FilterDays \cup {Unset},
             f = [filter EXCEPT !.from = d] \/ f = [filter EXCEPT !.to = d]
      PROVE  f \in Filters
  BY <1>1 DEF Filters
<1>2. ASSUME NEW days \in Presets, f = PresetRange(days)
      PROVE  f \in Filters
  <2> DEFINE first == Today - (days - 1)
  <2>1. first \in {Today - (x - 1) : x \in Presets}
    OBVIOUS
  <2>2. f = [filter EXCEPT !.from = first, !.to = Today]
    BY <1>2 DEF PresetRange
  <2> HIDE DEF first
  <2> QED
    BY <2>1, <2>2 DEF Filters
<1>3. ASSUME NEW u \in UnitSet \cup {Unset}, f = [filter EXCEPT !.unit = u]
      PROVE  f \in Filters
  BY <1>3 DEF Filters
<1>4. ASSUME NEW p \in Places \cup {Unset}, f = [filter EXCEPT !.place = p]
      PROVE  f \in Filters
  BY <1>4 DEF Filters
<1> QED
  BY <1>1, <1>2, <1>3, <1>4 DEF OverviewFilters, DateFilters, HarvestFilters

\* A unit to choose is the unit of a record.
LEMMA UnitsShownTyped ==
  ASSUME ReportsInv, data # NoData
  PROVE  UnitsShown \subseteq UnitSet \cup {Unset}
<1>1. screen \in Screens
  BY ScreenIsOne DEF ReportsInv
<1>2. \A i \in 1 .. Len(Statements(screen)) : data.read[i] \subseteq Rows
  BY DEF ReportsInv, DataSound, Asked
<1>3. ASSUME NEW figure, figure \subseteq Rows
      PROVE  UnitsOf(figure) \subseteq UnitSet \cup {Unset}
  BY <1>3 DEF UnitsOf, Rows
<1>4. CASE screen = "overview"
  <2>1. Figure("harvest_by_date") = data.read[5] /\ 5 \in 1 .. Len(Statements(screen))
    BY <1>4, FiguresOfOverview DEF Statements, OverviewStatements
  <2> QED
    BY <1>2, <1>3, <1>4, <2>1 DEF UnitsShown
<1>5. CASE screen = "harvest"
  <2>1. Figure("harvest") = data.read[2] /\ 2 \in 1 .. Len(Statements(screen))
    BY <1>5, FiguresOfHarvest DEF Statements, HarvestStatements
  <2> QED
    BY <1>2, <1>3, <1>5, <2>1 DEF UnitsShown
<1>6. CASE screen = "attendance"
  BY <1>6 DEF UnitsShown
<1> QED
  BY <1>1, <1>4, <1>5, <1>6 DEF Screens

LEMMA FieldsTypedStep ==
  ASSUME ReportsInv, FieldsTyped, [Next]_vars
  PROVE  FieldsTyped'
<1> USE DEF FieldsTyped, serverVars, fieldVars, loadVars, exportVars
<1>1. CASE CheckAccess
  BY <1>1 DEF CheckAccess
<1>2. CASE LoadOptions
  BY <1>2 DEF LoadOptions
<1>3. CASE ChangeFilter
  <2>1. filter' \in OverviewFilters \cup DateFilters \cup HarvestFilters
    BY <1>3, ScreenIsOne DEF ChangeFilter, Screens, ReportsInv
  <2> QED
    BY <1>3, <2>1, ChangedFilterTyped DEF ChangeFilter
<1>4. CASE ChooseUnit
  BY <1>4, UnitsShownTyped DEF ChooseUnit
<1>5. ASSUME NEW l \in loads, Read(l) \/ Answered(l) \/ Failed(l)
      PROVE  FieldsTyped'
  BY <1>5 DEF Read, Answered, Failed, Settle, Alert
<1>6. ASSUME NEW e \in exports,
             ServeExport(e) \/ CommitExport(e) \/ TakeExport(e) \/ LoseExport(e)
      PROVE  FieldsTyped'
  BY <1>6 DEF ServeExport, CommitExport, TakeExport, LoseExport
<1>7. ASSUME NEW k \in Kinds, Export(k) PROVE FieldsTyped'
  BY <1>7 DEF Export
<1>8. ASSUME NEW i \in Ids, Submit(i) \/ Correct(i) PROVE FieldsTyped'
  BY <1>8 DEF Submit, Correct
<1>9. CASE UNCHANGED vars
  BY <1>9 DEF vars
<1> QED
  BY <1>1, <1>2, <1>3, <1>4, <1>5, <1>6, <1>7, <1>8, <1>9 DEF Next

LEMMA ReportTyped ==
  ASSUME NEW l \in LoadForm
  PROVE  Report(l) \in Reports /\ Report(l) # NoData /\ Report(l).asked = l.filter
<1>1. From(l.filter) \in Int /\ To(l.filter) \in Int /\ l.filter \in Filters
      /\ l.read \in Seq(SUBSET Rows) /\ l.touched \in SUBSET Ids
  BY FilterTyped DEF LoadForm
<1> QED
  BY <1>1, NoDataAssumption DEF Report, Reports

\* What Begin adds, and what it makes of the older requests.
LEMMA BeginTyped ==
  ASSUME scenario \in Scenarios, scenario' = scenario, LoadsTyped, NEW f \in Filters, Begin(f)
  PROVE  LoadsTyped'
<1> USE DEF LoadsTyped
<1>1. screen' = screen /\ screen \in Screens /\ count' = count + 1 /\ count' \in 0 .. scenario.loads
  BY ScreenIsOne, ScenariosAssumption DEF Begin, screen
<1>2. Load(f) \in LoadForm /\ Load(f).n \in 1 .. count' /\ Len(Load(f).read) = 0
  BY <1>1 DEF Load, LoadForm
<1>3. ASSUME NEW l \in Abandoned(loads)
      PROVE  l \in LoadForm /\ l.n \in 1 .. count /\ Len(l.read) <= Len(Statements(screen))
  <2>1. PICK m \in loads : l = m \/ l = [m EXCEPT !.active = FALSE]
    BY DEF Abandoned
  <2>2. m \in LoadForm /\ m.n \in 1 .. count /\ Len(m.read) <= Len(Statements(screen))
    OBVIOUS
  <2> QED
    BY <2>1, <2>2 DEF LoadForm
<1>4. Len(Statements(screen)) \in Nat
  BY <1>1, StatementsAreFew
<1>5. \A l \in loads' :
        l \in LoadForm /\ l.n \in 1 .. count' /\ Len(l.read) <= Len(Statements(screen))
  BY <1>1, <1>2, <1>3, <1>4 DEF Begin
<1>6. /\ newest' \in {"none", "waiting", "answered", "failed"} /\ overtaken' \in BOOLEAN
      /\ data' \in Reports \cup {NoData}
  BY DEF Begin
<1> QED
  BY <1>1, <1>5, <1>6

LEMMA ReadTyped ==
  ASSUME scenario \in Scenarios, RowsSound, LoadsTyped, NEW l \in loads, Read(l)
  PROVE  /\ LoadsTyped'
         /\ LET k == Len(l.read) + 1 IN
              loads' = (loads \ {l}) \cup
                {[l EXCEPT !.read = Append(l.read, Found(Statements(screen)[k], l.filter))]}
<1> USE DEF LoadsTyped
<1> DEFINE more == Found(Statements(screen)[Len(l.read) + 1], l.filter)
           m == [l EXCEPT !.read = Append(l.read, more)]
<1>1. l \in LoadForm /\ l.read \in Seq(SUBSET Rows) /\ more \in SUBSET Rows
  BY FoundIsWanted DEF LoadForm
<1>2. loads' = (loads \ {l}) \cup {m}
  BY <1>1 DEF Read, LoadForm
<1>3. Len(l.read) < Len(Statements(screen)) /\ Len(Statements(screen)) \in Nat
  BY ScreenIsOne, StatementsAreFew DEF Read
<1>4. /\ scenario' = scenario /\ screen' = screen /\ count' = count /\ newest' = newest
      /\ overtaken' = overtaken /\ data' = data
  BY DEF Read, serverVars, screen
<1> HIDE DEF more
<1>5. m \in LoadForm /\ m.n = l.n /\ Len(m.read) = Len(l.read) + 1
  <2>1. Append(l.read, more) \in Seq(SUBSET Rows) /\ Len(Append(l.read, more)) = Len(l.read) + 1
    BY <1>1
  <2> QED
    BY <1>1, <2>1 DEF LoadForm
<1> HIDE DEF m
<1>6. \A k \in loads' : /\ k \in LoadForm /\ k.n \in 1 .. count
                        /\ Len(k.read) <= Len(Statements(screen))
  BY <1>1, <1>2, <1>3, <1>5
<1> QED
  BY <1>2, <1>4, <1>6 DEF more, m

LEMMA SettleTyped ==
  ASSUME LoadsTyped, NEW l \in loads, Answered(l) \/ Failed(l)
  PROVE  LoadsTyped'
<1>1. /\ scenario' = scenario /\ screen' = screen /\ count' = count /\ loads' \subseteq loads
      /\ newest' \in {"answered", "failed", newest}
  BY DEF Answered, Failed, Settle, serverVars, screen
<1>2. data' \in {data, NoData, Report(l)} /\ l \in LoadForm
  BY DEF Answered, Failed, LoadsTyped
<1>3. overtaken' \in BOOLEAN
  BY DEF Answered, Failed, Settle, LoadsTyped
<1> QED
  BY <1>1, <1>2, <1>3, ReportTyped DEF LoadsTyped

\* A correction marks the requests that are being read.
LEMMA CorrectTyped ==
  ASSUME LoadsTyped, NEW i \in Ids, Correct(i)
  PROVE  LoadsTyped'
<1>1. /\ scenario' = scenario /\ screen' = screen /\ count' = count /\ newest' = newest
      /\ overtaken' = overtaken /\ data' = data
  BY DEF Correct, screen
<1>2. \A l \in loads' : /\ l \in LoadForm /\ l.n \in 1 .. count
                        /\ Len(l.read) <= Len(Statements(screen))
  <2> TAKE l \in loads'
  <2>1. PICK m \in loads : l = IF Reading(m) THEN [m EXCEPT !.touched = @ \cup {i}] ELSE m
    BY CorrectedLoads
  <2>2. m \in LoadForm /\ m.n \in 1 .. count /\ Len(m.read) <= Len(Statements(screen))
    BY DEF LoadsTyped
  <2>3. m.touched \cup {i} \in SUBSET Ids
    BY <2>2 DEF LoadForm
  <2> QED
    BY <2>1, <2>2, <2>3 DEF LoadForm
<1> QED
  BY <1>1, <1>2 DEF LoadsTyped

LEMMA LoadsTypedStep ==
  ASSUME ReportsInv, FieldsTyped, LoadsTyped, [Next]_vars
  PROVE  LoadsTyped'
<1>0. scenario \in Scenarios /\ RowsSound /\ filter \in Filters
  BY DEF ReportsInv, FieldsTyped
<1>1. CASE UNCHANGED <<scenario, loads, count, newest, overtaken, data>>
  BY <1>1 DEF LoadsTyped, screen
<1>2. CASE CheckAccess
  BY <1>0, <1>1, <1>2, BeginTyped DEF CheckAccess, loadVars, serverVars
<1>3. CASE ChangeFilter
  <2>1. filter' \in OverviewFilters \cup DateFilters \cup HarvestFilters
    BY <1>0, <1>3, ScreenIsOne DEF ChangeFilter, Screens
  <2>2. PICK f \in Filters : f = filter'
    BY <1>0, <2>1, ChangedFilterTyped
  <2>3. Begin(f) /\ scenario' = scenario
    BY <1>3, <2>2 DEF ChangeFilter, serverVars, Begin, Load
  <2> QED
    BY <1>0, <2>3, BeginTyped
<1>4. ASSUME NEW l \in loads, Read(l) \/ Answered(l) \/ Failed(l)
      PROVE  LoadsTyped'
  BY <1>0, <1>4, ReadTyped, SettleTyped
<1>6. ASSUME NEW i \in Ids, Correct(i) PROVE LoadsTyped'
  BY <1>6, CorrectTyped
<1>5. \/ (\E i \in Ids : Correct(i)) \/ CheckAccess \/ ChangeFilter \/ UNCHANGED <<scenario, loads, count, newest, overtaken, data>>
      \/ \E l \in loads : Read(l) \/ Answered(l) \/ Failed(l)
  BY DEF Next, vars, serverVars, fieldVars, loadVars, exportVars, Submit, LoadOptions,
         ChooseUnit, Export, ServeExport, CommitExport, TakeExport, LoseExport
<1> QED
  BY <1>1, <1>2, <1>3, <1>4, <1>5, <1>6

-----------------------------------------------------------------------------
(* Exports: the buttons and what runs.                                     *)

ExportsSound ==
  /\ exporting # Unset => \E e \in Running : e.kind = exporting
  /\ screen # "overview" => /\ \A e, f \in Running : e = f
                            /\ Running # {} => exporting = screen

\* An export that runs is replaced by what became of it.
LEMMA BecomesKeeps ==
  ASSUME ExportsTyped, ExportsSound, scenario' = scenario,
         NEW e \in exports, NEW f \in ExportForm, Becomes(e, f), f.kind = e.kind,
         \/ f.reply = e.reply /\ exporting' = exporting
         \/ e \in Running /\ f \in Running' /\ exporting' = exporting
         \/ e \in Running /\ f \notin Running' /\ exporting' = Unset
  PROVE  ExportsTyped' /\ ExportsSound'
<1>1. exports' = (exports \ {e}) \cup {f} /\ screen' = screen
  BY DEF Becomes, screen
<1>2. IsFiniteSet(exports') /\ exports' \subseteq ExportForm
  BY <1>1, FS_AddElement, FS_RemoveElement DEF ExportsTyped
<1>3. ExportsTyped'
  BY <1>2 DEF ExportsTyped
<1>4. \A g \in exports' : (g \in Running' <=> g.reply \in {"waiting", "ready"})
  BY DEF Running
<1>5. \A g \in exports : (g \in Running <=> g.reply \in {"waiting", "ready"})
  BY DEF Running
<1>6. \A g \in Running' : g = f \/ (g \in Running /\ g # e)
  BY <1>1, <1>4, <1>5 DEF Running
<1>7. \A g \in Running : g = e \/ g \in Running'
  BY <1>1, <1>4, <1>5 DEF Running
<1>8. f \in Running' => e \in Running
  BY <1>1, <1>4, <1>5
<1>9. exporting' # Unset => \E g \in Running' : g.kind = exporting'
  <2> SUFFICES ASSUME exporting' # Unset PROVE \E g \in Running' : g.kind = exporting'
    OBVIOUS
  <2>1. PICK g \in Running : g.kind = exporting /\ exporting' = exporting
    BY DEF ExportsSound
  <2>2. CASE g = e
    <3>1. f \in Running'
      BY <1>1, <1>4, <1>5, <2>2
    <3> QED
      BY <2>1, <2>2, <3>1
  <2>3. CASE g # e
    BY <1>7, <2>1, <2>3
  <2> QED
    BY <2>2, <2>3
<1>10. ASSUME screen # "overview"
       PROVE  (\A g, h \in Running' : g = h) /\ (Running' # {} => exporting' = screen)
  <2>1. \A g, h \in Running : g = h
    BY <1>10 DEF ExportsSound
  <2>2. CASE f \in Running'
    <3>1. e \in Running /\ exporting' = exporting /\ exporting = screen
      BY <1>1, <1>4, <1>5, <1>8, <1>10, <2>2 DEF ExportsSound
    <3> QED
      BY <1>6, <2>1, <3>1
  <2>3. CASE f \notin Running'
    BY <1>1, <1>4, <1>5, <1>6, <1>10, <2>1, <2>3 DEF ExportsSound
  <2> QED
    BY <2>2, <2>3
<1> QED
  BY <1>1, <1>3, <1>9, <1>10 DEF ExportsSound

LEMMA ExportKeeps ==
  ASSUME ExportsTyped, ExportsSound, filter \in Filters, NEW k \in Kinds, Export(k)
  PROVE  ExportsTyped' /\ ExportsSound'
<1> DEFINE n == Cardinality(exports) + 1
           e == [n |-> n, kind |-> k, filter |-> filter, reply |-> "waiting", log |-> "none"]
<1>1. n \in Nat
  BY FS_CardinalityType DEF ExportsTyped
<1>2. exports' = exports \cup {e} /\ exporting' = k /\ exporting # k /\ screen' = screen
  BY DEF Export, Disabled, serverVars, screen
<1> HIDE DEF n
<1>3. e \in ExportForm /\ e.kind = k /\ e.reply = "waiting"
  BY <1>1 DEF ExportForm
<1> HIDE DEF e
<1>4. IsFiniteSet(exports') /\ exports' \subseteq ExportForm
  BY <1>2, <1>3, FS_AddElement DEF ExportsTyped
<1>5. Running' = Running \cup {e}
  BY <1>2, <1>3 DEF Running
<1>6. screen # "overview" => k = screen /\ Running = {}
  BY <1>2 DEF Export, ExportKinds, ExportsSound
<1> QED
  BY <1>2, <1>3, <1>4, <1>5, <1>6 DEF ExportsTyped, ExportsSound

LEMMA ExportsStep ==
  ASSUME FieldsTyped, ExportsTyped, ExportsSound, [Next]_vars
  PROVE  ExportsTyped' /\ ExportsSound'
<1>1. CASE UNCHANGED <<scenario, exporting, exports>>
  BY <1>1 DEF ExportsTyped, ExportsSound, Running, screen
<1>2. ASSUME NEW k \in Kinds, Export(k) PROVE ExportsTyped' /\ ExportsSound'
  BY <1>2, ExportKeeps DEF FieldsTyped
<1>3. ASSUME NEW e \in exports,
             ServeExport(e) \/ CommitExport(e) \/ TakeExport(e) \/ LoseExport(e)
      PROVE  ExportsTyped' /\ ExportsSound'
  <2>1. e \in ExportForm /\ scenario' = scenario
    BY <1>3 DEF ExportsTyped, ServeExport, CommitExport, TakeExport, LoseExport, serverVars
  <2>2. CASE ServeExport(e)
    <3> DEFINE f == Served(e)
    <3>1. f \in ExportForm /\ f.kind = e.kind /\ f.reply = "ready"
      BY <2>1 DEF Served, ExportForm
    <3>2. Becomes(e, f) /\ exporting' = exporting /\ e.reply = "waiting"
      BY <2>2 DEF ServeExport
    <3> HIDE DEF f
    <3>3. e \in Running /\ f \in Running'
      BY <3>1, <3>2 DEF Becomes, Running
    <3> QED
      BY <2>1, <3>1, <3>2, <3>3, BecomesKeeps
  <2>3. CASE CommitExport(e)
    <3>1. PICK log \in {"recorded", "failed"} : Becomes(e, [e EXCEPT !.log = log])
      BY <2>3 DEF CommitExport
    <3> DEFINE f == [e EXCEPT !.log = log]
    <3>2. f \in ExportForm /\ f.kind = e.kind /\ f.reply = e.reply
      BY <2>1 DEF ExportForm
    <3>3. Becomes(e, f) /\ exporting' = exporting
      BY <2>3, <3>1 DEF CommitExport
    <3> HIDE DEF f
    <3> QED
      BY <2>1, <3>2, <3>3, BecomesKeeps
  <2>4. CASE TakeExport(e) \/ LoseExport(e)
    <3>1. PICK reply \in {"taken", "lost"} : Becomes(e, [e EXCEPT !.reply = reply])
      BY <2>4 DEF TakeExport, LoseExport
    <3> DEFINE f == [e EXCEPT !.reply = reply]
    <3>2. f \in ExportForm /\ f.kind = e.kind /\ f.reply = reply
      BY <2>1 DEF ExportForm
    <3>3. Becomes(e, f) /\ exporting' = Unset /\ e.reply \in {"waiting", "ready"}
      BY <2>4, <3>1 DEF TakeExport, LoseExport, Finished
    <3> HIDE DEF f
    <3>4. e \in Running /\ f \notin Running'
      BY <3>2, <3>3 DEF Running
    <3> QED
      BY <2>1, <3>2, <3>3, <3>4, BecomesKeeps
  <2> QED
    BY <1>3, <2>2, <2>3, <2>4
<1>4. \/ UNCHANGED <<scenario, exporting, exports>> \/ \E k \in Kinds : Export(k)
      \/ \E e \in exports : ServeExport(e) \/ CommitExport(e) \/ TakeExport(e) \/ LoseExport(e)
  BY DEF Next, vars, serverVars, fieldVars, loadVars, exportVars, Submit, Correct, CheckAccess,
         LoadOptions, ChangeFilter, ChooseUnit, Read, Answered, Failed, Settle
<1> QED
  BY <1>1, <1>2, <1>3, <1>4

-----------------------------------------------------------------------------
(* What is shown was asked for: the numbers of the requests.               *)

LoadsNumbered ==
  /\ \A l, m \in loads : l.n = m.n => l = m
  /\ \A l \in loads : l.n = count => l.filter = filter /\ l.active
  /\ \A l \in loads : screen = "overview" /\ l.n < count => ~l.active
  /\ newest = "waiting" <=> \E l \in loads : l.n = count
  /\ newest = "none" => ~Open

InOrder == screen # "overview" => ~overtaken

ShownSound ==
  /\ newest = "answered" /\ InOrder => data # NoData /\ data.asked = filter
  /\ newest = "failed" /\ InOrder => data = NoData /\ error # ""

LEMMA BeginNumbers ==
  ASSUME LoadsTyped, LoadsNumbered, scenario' = scenario, Begin(filter')
  PROVE  LoadsNumbered' /\ ShownSound'
<1> USE DEF LoadsTyped, LoadForm
<1>1. /\ screen' = screen /\ count' = count + 1 /\ count \in Nat /\ newest' = "waiting"
      /\ loads' = Abandoned(loads) \cup {Load(filter')}
  BY ScenariosAssumption DEF Begin, screen
<1> DEFINE new == Load(filter')
<1>2. new.n = count + 1 /\ new.filter = filter' /\ new.active
  BY DEF Load
<1> HIDE DEF new
<1>3. \A l \in Abandoned(loads) : \E m \in loads :
        /\ l.n = m.n /\ (screen = "overview" => ~l.active)
        /\ l = IF screen = "overview" THEN [m EXCEPT !.active = FALSE] ELSE m
  BY DEF Abandoned
<1>4. \A l \in Abandoned(loads) : l.n \in 1 .. count /\ (screen = "overview" => ~l.active)
  BY <1>3
<1>5. \A l, m \in Abandoned(loads) : l.n = m.n => l = m
  <2> TAKE l, m \in Abandoned(loads)
  <2>1. PICK k \in loads : /\ l.n = k.n
                           /\ l = IF screen = "overview" THEN [k EXCEPT !.active = FALSE] ELSE k
    BY <1>3
  <2>2. PICK j \in loads : /\ m.n = j.n
                           /\ m = IF screen = "overview" THEN [j EXCEPT !.active = FALSE] ELSE j
    BY <1>3
  <2>3. k.n = j.n => k = j
    BY DEF LoadsNumbered
  <2> QED
    BY <2>1, <2>2, <2>3
<1>6. loads' = Abandoned(loads) \cup {new}
  BY <1>1 DEF new
<1>7. \A l, m \in loads' : l.n = m.n => l = m
  BY <1>1, <1>2, <1>4, <1>5, <1>6
<1>8. \A l \in loads' : /\ l.n = count' => l.filter = filter' /\ l.active
                        /\ screen' = "overview" /\ l.n < count' => ~l.active
  BY <1>1, <1>2, <1>4, <1>6
<1>9. \E l \in loads' : l.n = count'
  BY <1>1, <1>2, <1>6
<1> QED
  BY <1>1, <1>7, <1>8, <1>9 DEF LoadsNumbered, ShownSound

LEMMA ReadNumbers ==
  ASSUME scenario \in Scenarios, RowsSound, LoadsTyped, LoadsNumbered, ShownSound,
         NEW l \in loads, Read(l)
  PROVE  LoadsNumbered' /\ ShownSound'
<1> DEFINE m == [l EXCEPT !.read =
                   Append(l.read, Found(Statements(screen)[Len(l.read) + 1], l.filter))]
<1>1. loads' = (loads \ {l}) \cup {m}
  BY ReadTyped
<1>2. m.n = l.n /\ m.filter = l.filter /\ m.active = l.active
  BY DEF LoadsTyped, LoadForm
<1> HIDE DEF m
<1>3. /\ screen' = screen /\ filter' = filter /\ count' = count /\ newest' = newest
      /\ overtaken' = overtaken /\ data' = data /\ error' = error /\ access' = access
  BY DEF Read, serverVars, fieldVars, screen
<1>4. \A j \in loads' : \E k \in loads : /\ j.n = k.n /\ j.filter = k.filter /\ j.active = k.active
                                         /\ (j = k /\ k # l) \/ (j = m /\ k = l)
  BY <1>1, <1>2
<1>5. \A j, k \in loads' : j.n = k.n => j = k
  <2> TAKE j, k \in loads'
  <2>1. PICK x \in loads : j.n = x.n /\ ((j = x /\ x # l) \/ (j = m /\ x = l))
    BY <1>4
  <2>2. PICK y \in loads : k.n = y.n /\ ((k = y /\ y # l) \/ (k = m /\ y = l))
    BY <1>4
  <2>3. x.n = y.n => x = y
    BY DEF LoadsNumbered
  <2> QED
    BY <2>1, <2>2, <2>3
<1>6. (\E j \in loads' : j.n = count) <=> \E j \in loads : j.n = count
  BY <1>1, <1>2
<1>7. LoadsNumbered'
  BY <1>3, <1>4, <1>5, <1>6 DEF LoadsNumbered, Open
<1>8. ShownSound'
  BY <1>3 DEF ShownSound, InOrder
<1> QED
  BY <1>7, <1>8

LEMMA SettleNumbers ==
  ASSUME LoadsTyped, LoadsNumbered, ShownSound, NEW l \in loads, Answered(l) \/ Failed(l)
  PROVE  LoadsNumbered' /\ ShownSound'
<1>1. PICK outcome \in {"answered", "failed"} :
        /\ Settle(l, outcome)
        /\ outcome = "answered" /\ l.active => data' = Report(l)
        /\ outcome = "failed" /\ l.active => data' = NoData /\ error' = "load"
        /\ ~l.active => data' = data /\ error' = error
  BY DEF Answered, Failed, Alert
<1>2. /\ screen' = screen /\ filter' = filter /\ count' = count /\ access' = access
      /\ loads' = loads \ {l} /\ newest' = IF l.n = count THEN outcome ELSE newest
      /\ overtaken' = (overtaken \/ (l.active /\ l.n < count /\ newest # "waiting"))
  BY <1>1 DEF Settle, serverVars, fieldVars, screen
<1>3. l \in LoadForm /\ l.n \in 1 .. count /\ count \in Nat
  BY ScenariosAssumption DEF LoadsTyped, LoadForm
<1>4. newest' = "waiting" <=> \E k \in loads' : k.n = count
  BY <1>1, <1>2 DEF LoadsNumbered
<1>5. LoadsNumbered'
  BY <1>1, <1>2, <1>4 DEF LoadsNumbered, Open
<1>6. CASE l.n = count
  <2>1. l.active /\ l.filter = filter
    BY <1>6 DEF LoadsNumbered
  <2>2. Report(l) # NoData /\ Report(l).asked = l.filter
    BY <1>3, ReportTyped
  <2> QED
    BY <1>1, <1>2, <1>5, <1>6, <2>1, <2>2 DEF ShownSound
<1>7. CASE l.n # count
  <2>1. l.n < count
    BY <1>3, <1>7
  <2>2. newest' = newest
    BY <1>2, <1>7
  <2>3. CASE ~l.active
    BY <1>1, <1>2, <1>5, <2>2, <2>3 DEF ShownSound, InOrder
  <2>4. CASE l.active
    <3>1. screen # "overview"
      BY <2>1, <2>4 DEF LoadsNumbered
    <3>2. newest # "waiting" => overtaken'
      BY <1>2, <2>1, <2>4
    <3> QED
      BY <1>2, <1>5, <2>2, <3>1, <3>2 DEF ShownSound, InOrder
  <2> QED
    BY <2>3, <2>4
<1> QED
  BY <1>6, <1>7

LEMMA CorrectNumbers ==
  ASSUME LoadsTyped, LoadsNumbered, ShownSound, NEW i \in Ids, Correct(i)
  PROVE  LoadsNumbered' /\ ShownSound'
<1>1. /\ screen' = screen /\ filter' = filter /\ count' = count /\ newest' = newest
      /\ overtaken' = overtaken /\ data' = data /\ error' = error /\ access' = access
  BY DEF Correct, fieldVars, screen
<1> DEFINE Marked(m) == IF Reading(m) THEN [m EXCEPT !.touched = @ \cup {i}] ELSE m
<1>2. \A m \in loads :
        Marked(m).n = m.n /\ Marked(m).filter = m.filter /\ Marked(m).active = m.active
  BY DEF LoadsTyped, LoadForm
<1>3. (\A l \in loads' : \E m \in loads : l = Marked(m)) /\ \A m \in loads : Marked(m) \in loads'
  BY CorrectedLoads DEF Correct
<1> HIDE DEF Marked
<1>4. LoadsNumbered'
  BY <1>1, <1>2, <1>3 DEF LoadsNumbered, Open
<1>5. ShownSound'
  BY <1>1 DEF ShownSound, InOrder
<1> QED
  BY <1>4, <1>5

LEMMA NumbersStep ==
  ASSUME ReportsInv, LoadsTyped, LoadsNumbered, ShownSound, [Next]_vars
  PROVE  LoadsNumbered' /\ ShownSound'
<1> USE DEF serverVars, fieldVars, loadVars, exportVars
<1>1. ASSUME UNCHANGED <<scenario, filter, loads, count, newest, overtaken, data>>,
             access' = access, error' = error \/ error' = "export"
      PROVE  LoadsNumbered' /\ ShownSound'
  BY <1>1 DEF LoadsNumbered, ShownSound, InOrder, Open, screen
<1>2. CASE CheckAccess
  <2>1. CASE Begin(filter')
    BY <1>2, <2>1, BeginNumbers DEF CheckAccess
  <2>2. CASE access' = "refused" /\ UNCHANGED loadVars
    BY <1>2, <2>2 DEF CheckAccess, LoadsNumbered, ShownSound, InOrder, Open, screen
  <2>3. Begin(filter) => Begin(filter')
    BY <1>2 DEF CheckAccess
  <2> QED
    BY <1>2, <2>1, <2>2, <2>3 DEF CheckAccess
<1>3. CASE ChangeFilter
  BY <1>3, BeginNumbers DEF ChangeFilter
<1>4. ASSUME NEW l \in loads, Read(l) \/ Answered(l) \/ Failed(l)
      PROVE  LoadsNumbered' /\ ShownSound'
  BY <1>4, ReadNumbers, SettleNumbers DEF ReportsInv
<1>6. ASSUME NEW i \in Ids, Correct(i)
      PROVE  LoadsNumbered' /\ ShownSound'
  BY <1>6, CorrectNumbers
<1>5. \/ (\E i \in Ids : Correct(i)) \/ CheckAccess \/ ChangeFilter
      \/ /\ UNCHANGED <<scenario, filter, loads, count, newest, overtaken, data>>
         /\ access' = access /\ (error' = error \/ error' = "export")
      \/ \E l \in loads : Read(l) \/ Answered(l) \/ Failed(l)
  BY DEF Next, vars, Submit, LoadOptions, ChooseUnit, Export, ServeExport, CommitExport,
         TakeExport, LoseExport
<1> QED
  BY <1>1, <1>2, <1>3, <1>4, <1>5, <1>6

-----------------------------------------------------------------------------
(* The statements of a report run one after another, on ever more records  *)
(* and on versions of them that may change meanwhile.                      *)

\* The list is at its limit, and all of it comes before r.
Full(st, list, r) ==
  /\ st.limit # 0 /\ Cardinality(list) = st.limit
  /\ \A q \in list : Before(st, q, r)

\* What an unlimited statement of a report has counted, each later one that wants
\* it finds too, unless it is at its limit or the record was corrected; and of
\* attendance in any case a version that is like it.
Explained(read, f, touched) ==
  \A i, j \in 1 .. Len(read) :
    i < j /\ Statements(screen)[i].limit = 0 =>
      \A r \in read[i] : Wanted(Statements(screen)[j], f, r) =>
        /\ \/ r.id \in touched \/ r \in read[j]
           \/ Full(Statements(screen)[j], read[j], r)
        /\ r.kind = "attendance" /\ Statements(screen)[j].limit = 0 =>
             \E q \in read[j] : Alike(q, r)

OfAtHand(read) == \A i \in 1 .. Len(read) : \A r \in read[i] : r.id \in AtHand

\* What was read is still what the records say, but for corrections.
Current(read, touched) ==
  \A i \in 1 .. Len(read) : \A r \in read[i] :
    /\ r.id \in touched \/ r = rows[r.id]
    /\ r.kind = "attendance" => Alike(r, rows[r.id])

ReadSound ==
  /\ \A l \in loads : /\ OfAtHand(l.read) /\ Explained(l.read, l.filter, l.touched)
                      /\ Len(l.read) < Len(Statements(screen)) => Current(l.read, l.touched)
  /\ data # NoData => OfAtHand(data.read) /\ Explained(data.read, data.asked, data.touched)

LEMMA AlikeIsWanted ==
  ASSUME NEW q, NEW r, Alike(q, r), NEW st, NEW f, Wanted(st, f, r)
  PROVE  Wanted(st, f, q)
BY DEF Alike, Wanted

LEMMA NextReadIsExplained ==
  ASSUME RowsSound, RecordsNumbered, screen \in Screens,
         NEW read \in Seq(SUBSET Rows), NEW f, NEW touched,
         Len(read) < Len(Statements(screen)),
         OfAtHand(read), Explained(read, f, touched), Current(read, touched)
  PROVE  LET more == Append(read, Found(Statements(screen)[Len(read) + 1], f))
         IN  OfAtHand(more) /\ Explained(more, f, touched) /\ Current(more, touched)
<1> DEFINE k == Len(read) + 1
           st == Statements(screen)[k]
           found == Found(st, f)
           more == Append(read, found)
<1>1. k \in 1 .. Len(Statements(screen)) /\ st.limit \in Nat
  BY StatementsAreFew, StatementsTyped
<1>2. found \in SUBSET Rows /\ \A r \in found : r.id \in AtHand /\ r = rows[r.id]
  BY FoundIsWanted DEF AtHand
<1>3. \A r \in Now : Wanted(st, f, r) => r \in found \/ Full(st, found, r)
  BY <1>1, FoundToTheLimit DEF Full
<1> HIDE DEF found
<1>4. /\ Len(more) = k /\ more[k] = found
      /\ \A i \in 1 .. Len(read) : more[i] = read[i]
  BY <1>2
<1>5. k \in Nat /\ Len(read) = k - 1 /\ \A i \in 1 .. k : i = k \/ i \in 1 .. Len(read)
  OBVIOUS
<1> HIDE DEF more, k
<1>6. OfAtHand(more)
  BY <1>2, <1>4, <1>5 DEF OfAtHand
<1>7. Current(more, touched)
  <2> SUFFICES ASSUME NEW i \in 1 .. Len(more), NEW r \in more[i]
               PROVE  /\ r.id \in touched \/ r = rows[r.id]
                      /\ r.kind = "attendance" => Alike(r, rows[r.id])
    BY DEF Current
  <2>1. CASE i = k
    BY <1>2, <1>4, <2>1 DEF Alike
  <2>2. CASE i \in 1 .. Len(read)
    BY <1>4, <2>2 DEF Current
  <2> QED
    BY <1>4, <1>5, <2>1, <2>2
<1>8. Explained(more, f, touched)
  <2> SUFFICES ASSUME NEW i \in 1 .. Len(more), NEW j \in 1 .. Len(more), i < j,
                      Statements(screen)[i].limit = 0,
                      NEW r \in more[i], Wanted(Statements(screen)[j], f, r)
               PROVE  /\ \/ r.id \in touched \/ r \in more[j]
                         \/ Full(Statements(screen)[j], more[j], r)
                      /\ r.kind = "attendance" /\ Statements(screen)[j].limit = 0 =>
                           \E q \in more[j] : Alike(q, r)
    BY DEF Explained
  <2>1. i \in 1 .. Len(read) /\ more[i] = read[i]
    BY <1>4, <1>5
  <2>2. CASE j = k
    <3>1. rows[r.id] \in Now
      BY <2>1, NowIs DEF OfAtHand
    <3>2. /\ r.id \in touched \/ r = rows[r.id]
          /\ r.kind = "attendance" => Alike(r, rows[r.id])
      BY <2>1 DEF Current
    <3>3. r.id \in touched \/ r \in found \/ Full(st, found, r)
      BY <1>3, <2>2, <3>1, <3>2
    <3>4. ASSUME r.kind = "attendance", st.limit = 0
          PROVE  \E q \in found : Alike(q, r)
      <4>1. Alike(rows[r.id], r)
        BY <3>2, <3>4 DEF Alike
      <4>2. Wanted(st, f, rows[r.id])
        BY <2>2, <4>1, AlikeIsWanted
      <4>3. rows[r.id] \in found
        BY <1>3, <3>1, <3>4, <4>2 DEF Full
      <4> QED
        BY <4>1, <4>3
    <3> QED
      BY <1>4, <2>2, <3>3, <3>4
  <2>3. CASE j \in 1 .. Len(read)
    BY <1>4, <2>1, <2>3 DEF Explained
  <2> QED
    BY <1>4, <1>5, <2>2, <2>3
<1> QED
  BY <1>6, <1>7, <1>8 DEF more, k, found

\* Records are submitted for good, and a correction only takes from what has to be
\* explained.
LEMMA ExplainedStays ==
  ASSUME AtHand \subseteq AtHand', \A i \in AtHand : at'[i] = at[i], screen' = screen,
         NEW read, NEW f, NEW touched, NEW more, touched \subseteq more,
         OfAtHand(read), Explained(read, f, touched)
  PROVE  OfAtHand(read)' /\ Explained(read, f, more)'
<1>1. OfAtHand(read)'
  BY DEF OfAtHand
<1>2. ASSUME NEW st, NEW i \in 1 .. Len(read), NEW j \in 1 .. Len(read),
             NEW r \in read[i], Full(st, read[j], r)
      PROVE  Full(st, read[j], r)'
  <2>1. r.id \in AtHand /\ \A q \in read[j] : q.id \in AtHand
    BY DEF OfAtHand
  <2> QED
    BY <1>2, <2>1 DEF Full, Before
<1>3. Explained(read, f, more)'
  <2> SUFFICES ASSUME NEW i \in 1 .. Len(read), NEW j \in 1 .. Len(read), i < j,
                      Statements(screen)[i].limit = 0,
                      NEW r \in read[i], Wanted(Statements(screen)[j], f, r)
               PROVE  /\ \/ r.id \in more \/ r \in read[j]
                         \/ Full(Statements(screen)[j], read[j], r)'
                      /\ r.kind = "attendance" /\ Statements(screen)[j].limit = 0 =>
                           \E q \in read[j] : Alike(q, r)
    BY DEF Explained
  <2>1. /\ \/ r.id \in touched \/ r \in read[j]
           \/ Full(Statements(screen)[j], read[j], r)
        /\ r.kind = "attendance" /\ Statements(screen)[j].limit = 0 =>
             \E q \in read[j] : Alike(q, r)
    BY DEF Explained
  <2>2. Full(Statements(screen)[j], read[j], r) => Full(Statements(screen)[j], read[j], r)'
    BY <1>2
  <2> QED
    BY <2>1, <2>2
<1> QED
  BY <1>1, <1>3

LEMMA ReadSoundStep ==
  ASSUME ReportsInv, LoadsTyped, RecordsNumbered, ReadSound, [Next]_vars
  PROVE  ReadSound'
<1>1. screen \in Screens /\ screen' = screen
  <2>1. scenario' = scenario
    BY DEF Next, vars, serverVars, Submit, Correct, CheckAccess, LoadOptions, ChangeFilter, ChooseUnit,
           Read, Answered, Failed, Settle, Export, ServeExport, CommitExport, TakeExport, LoseExport
  <2> QED
    BY <2>1, ScreenIsOne DEF ReportsInv, screen
<1>2. AtHand \subseteq AtHand' /\ \A i \in AtHand : at'[i] = at[i]
  BY NumberedStep
<1>3. \A read, f, touched, more :
        touched \subseteq more /\ OfAtHand(read) /\ Explained(read, f, touched) =>
          OfAtHand(read)' /\ Explained(read, f, more)'
  BY <1>1, <1>2, ExplainedStays
<1>4. \/ rows' = rows /\ \E f : Begin(f)
      \/ rows' = rows /\ loads' = loads /\ data' = data
      \/ rows' = rows /\ \E l \in loads : Read(l) \/ Answered(l) \/ Failed(l)
      \/ \E i \in Ids : Correct(i)
  BY DEF Next, vars, serverVars, fieldVars, loadVars, exportVars, Submit, CheckAccess, LoadOptions,
         ChangeFilter, ChooseUnit, Read, Answered, Failed, Settle, Export, ServeExport, CommitExport,
         TakeExport, LoseExport
<1>5. rows' = rows => \A read, touched : Current(read, touched) => Current(read, touched)'
  BY DEF Current
<1>6. data' = data =>
        (data' # NoData => OfAtHand(data.read)' /\ Explained(data.read, data.asked, data.touched)')
  BY <1>3 DEF ReadSound
<1>7. ASSUME NEW f, Begin(f), rows' = rows
      PROVE  ReadSound'
  <2>1. Load(f).read = <<>> /\ data' = data
    BY <1>7 DEF Load, Begin
  <2>2. \A l \in loads' :
          \/ l.read = <<>>
          \/ \E m \in loads : l.read = m.read /\ l.filter = m.filter /\ l.touched = m.touched
    <3> TAKE l \in loads'
    <3>1. CASE l = Load(f)
      BY <2>1, <3>1
    <3>2. CASE l \in Abandoned(loads)
      <4>1. PICK m \in loads : l = m \/ l = [m EXCEPT !.active = FALSE]
        BY <3>2 DEF Abandoned
      <4> QED
        BY <4>1 DEF LoadsTyped, LoadForm
    <3> QED
      BY <1>7, <3>1, <3>2 DEF Begin
  <2>3. \A g, t : OfAtHand(<<>>)' /\ Explained(<<>>, g, t)' /\ Current(<<>>, t)'
    BY DEF OfAtHand, Explained, Current
  <2> QED
    BY <1>1, <1>3, <1>5, <1>6, <1>7, <2>1, <2>2, <2>3 DEF ReadSound
<1>8. CASE rows' = rows /\ loads' = loads /\ data' = data
  BY <1>1, <1>3, <1>5, <1>6, <1>8 DEF ReadSound
<1>9. ASSUME NEW l \in loads, Read(l), rows' = rows
      PROVE  ReadSound'
  <2>1. PICK more : more = Append(l.read, Found(Statements(screen)[Len(l.read) + 1], l.filter))
    OBVIOUS
  <2>2. PICK m : m = [l EXCEPT !.read = more]
    OBVIOUS
  <2>3. loads' = (loads \ {l}) \cup {m} /\ data' = data
    BY <1>9, <2>1, <2>2, ReadTyped DEF Read, ReportsInv
  <2>4. l \in LoadForm /\ l.read \in Seq(SUBSET Rows) /\ Len(l.read) < Len(Statements(screen))
    BY <1>9 DEF LoadsTyped, LoadForm, Read
  <2>5. OfAtHand(l.read) /\ Explained(l.read, l.filter, l.touched) /\ Current(l.read, l.touched)
    BY <2>4 DEF ReadSound
  <2>6. OfAtHand(more) /\ Explained(more, l.filter, l.touched) /\ Current(more, l.touched)
    BY <1>1, <2>1, <2>4, <2>5, NextReadIsExplained DEF ReportsInv
  <2>7. m.read = more /\ m.filter = l.filter /\ m.touched = l.touched
    BY <2>2, <2>4 DEF LoadForm
  <2>8. /\ OfAtHand(m.read)' /\ Explained(m.read, m.filter, m.touched)'
        /\ Current(m.read, m.touched)'
    BY <1>3, <1>5, <1>9, <2>6, <2>7
  <2> QED
    BY <1>1, <1>3, <1>5, <1>6, <1>9, <2>3, <2>8 DEF ReadSound
<1>10. ASSUME NEW l \in loads, Answered(l) \/ Failed(l), rows' = rows
       PROVE  ReadSound'
  <2>1. loads' \subseteq loads /\ data' \in {data, NoData, Report(l)}
    BY <1>10 DEF Answered, Failed, Settle
  <2>2. /\ Report(l).read = l.read /\ Report(l).asked = l.filter
        /\ Report(l).touched = l.touched
    BY DEF Report
  <2>3. OfAtHand(l.read)' /\ Explained(l.read, l.filter, l.touched)'
    BY <1>3 DEF ReadSound
  <2>4. ASSUME NEW m \in loads'
        PROVE  /\ OfAtHand(m.read)' /\ Explained(m.read, m.filter, m.touched)'
               /\ Len(m.read) < Len(Statements(screen)) => Current(m.read, m.touched)'
    BY <1>3, <1>5, <1>10, <2>1, <2>4 DEF ReadSound
  <2>5. (data # NoData => OfAtHand(data.read) /\ Explained(data.read, data.asked, data.touched))'
    <3>1. CASE data' = data
      BY <1>6, <3>1
    <3>2. CASE data' = NoData
      BY <3>2
    <3>3. CASE data' = Report(l)
      BY <2>2, <2>3, <3>3
    <3> QED
      BY <2>1, <3>1, <3>2, <3>3
  <2> QED
    BY <1>1, <2>4, <2>5 DEF ReadSound
<1>11. ASSUME NEW i \in Ids, Correct(i)
       PROVE  ReadSound'
  <2>1. data' = data
    BY <1>11 DEF Correct
  <2>2. ASSUME NEW l \in loads'
        PROVE  /\ OfAtHand(l.read)' /\ Explained(l.read, l.filter, l.touched)'
               /\ Len(l.read) < Len(Statements(screen)) => Current(l.read, l.touched)'
    <3>1. PICK m \in loads : l = IF Reading(m) THEN [m EXCEPT !.touched = @ \cup {i}] ELSE m
      BY <1>11, <2>2, CorrectedLoads
    <3>2. m \in LoadForm /\ Len(m.read) \in Nat /\ Len(Statements(screen)) \in Nat
      BY <1>1, StatementsAreFew DEF LoadsTyped, LoadForm
    <3>3. /\ l.read = m.read /\ l.filter = m.filter /\ m.touched \subseteq l.touched
          /\ Reading(m) => i \in l.touched
      BY <3>1, <3>2 DEF LoadForm
    <3>4. OfAtHand(l.read)' /\ Explained(l.read, l.filter, l.touched)'
      BY <1>3, <3>3 DEF ReadSound
    <3>5. ASSUME Len(l.read) < Len(Statements(screen)),
                 NEW j \in 1 .. Len(l.read), NEW r \in l.read[j]
          PROVE  /\ r.id \in l.touched \/ r = rows'[r.id]
                 /\ r.kind = "attendance" => Alike(r, rows'[r.id])
      <4>1. Reading(m)
        BY <3>2, <3>3, <3>5 DEF Reading
      <4>2. r.id \in Ids /\ Current(m.read, m.touched)
        BY <3>3, <3>5 DEF ReadSound, OfAtHand, AtHand
      <4>3. /\ r.id \in m.touched \/ r = rows[r.id]
            /\ r.kind = "attendance" => Alike(r, rows[r.id])
        BY <3>3, <4>2 DEF Current
      <4>4. /\ r.id # i => rows'[r.id] = rows[r.id]
            /\ rows[r.id].kind = "attendance" => Alike(rows'[r.id], rows[r.id])
        BY <1>11, <4>2, RowsStep DEF Correct, ReportsInv, RowsSound
      <4> QED
        BY <3>3, <4>1, <4>3, <4>4 DEF Alike
    <3>6. Len(l.read) < Len(Statements(screen)) => Current(l.read, l.touched)'
      BY <3>5 DEF Current
    <3> QED
      BY <3>4, <3>6
  <2> QED
    BY <1>1, <1>6, <2>1, <2>2 DEF ReadSound
<1> QED
  BY <1>4, <1>7, <1>8, <1>9, <1>10, <1>11

\* A record in the range is in the window that ends with it.
LEMMA RangeIsInWindow ==
  ASSUME NEW f \in Filters, NEW st, NEW wide, NEW r, Wanted(st, f, r),
         st.kind = wide.kind, st.span = "range", wide.span \in {"range", "window", "ever"}
  PROVE  Wanted(wide, f, r)
<1>1. From(f) \in Int /\ To(f) \in Int /\ SeriesDays \in Nat \ {0}
  BY FilterTyped, DaysAssumption
<1>2. WindowStart(f) \in Int /\ WindowStart(f) <= From(f)
  BY <1>1 DEF WindowStart
<1>3. \A d \in From(f) .. To(f) : d \in WindowStart(f) .. To(f)
  BY <1>1, <1>2
<1> QED
  BY <1>3 DEF Wanted, Days

LEMMA TotalsFollow ==
  ASSUME ReportsInv, LoadsTyped, ReadSound
  PROVE  TotalsAreExplained
<1> SUFFICES ASSUME data # NoData PROVE TotalsAreExplained
  BY DEF TotalsAreExplained
<1> DEFINE sts == Statements(screen)
           f == data.asked
<1>1. f \in Filters /\ screen \in Screens
  BY ScreenIsOne DEF LoadsTyped, Reports, ReportsInv
<1>2. Len(data.read) = Len(sts) /\ \A i \in 1 .. Len(sts) : \A r \in data.read[i] :
                                     r \in Rows /\ Wanted(sts[i], f, r)
  BY <1>1 DEF ReportsInv, DataSound, Asked
<1>3. ASSUME NEW i \in 1 .. Len(sts), NEW j \in 1 .. Len(sts), i < j,
             sts[i].limit = 0, sts[i].span = "range", sts[i].kind = sts[j].kind,
             sts[j].span \in {"range", "window", "ever"}
      PROVE  \A r \in data.read[i] :
               /\ r.id \in data.touched \/ r \in data.read[j] \/ Full(sts[j], data.read[j], r)
               /\ sts[j].kind = "attendance" /\ sts[j].limit = 0 =>
                    \E q \in data.read[j] : Alike(q, r)
  <2> TAKE r \in data.read[i]
  <2>1. Wanted(sts[j], f, r)
    BY <1>1, <1>2, <1>3, RangeIsInWindow
  <2>2. sts[j].kind = "attendance" => r.kind = "attendance"
    BY <2>1 DEF Wanted
  <2> QED
    BY <1>2, <1>3, <2>1, <2>2 DEF ReadSound, Explained
<1>4. ASSUME NEW table, NEW k, Position(table) = k, NEW r,
             r \in data.read[k] \/ Full(sts[k], data.read[k], r)
      PROVE  ListedOrOlder(r, table)
  BY <1>4 DEF ListedOrOlder, Full, Figure
<1>5. CASE screen = "attendance"
  <2>1. /\ Len(sts) = 3 /\ \A i \in 1 .. 3 : sts[i].span = "range" /\ sts[i].kind = "attendance"
        /\ sts[1].limit = 0 /\ sts[3].limit = 0
    BY <1>5 DEF Statements, AttendanceStatements, Statement
  <2> HIDE DEF sts
  <2>2. \A r \in data.read[1] :
          /\ \E q \in data.read[3] : Alike(q, r)
          /\ r.id \notin data.touched =>
               /\ r \in data.read[3]
               /\ r \in data.read[2] \/ Full(sts[2], data.read[2], r)
    BY <1>3, <2>1 DEF Full
  <2>3. \A r \in data.read[1] : r.id \notin data.touched => ListedOrOlder(r, "sessions")
    BY <1>4, <1>5, <2>2, FiguresOfAttendance
  <2> QED
    BY <1>5, <2>2, <2>3, FiguresOfAttendance
       DEF TotalsAreExplained, AttendanceStrip, SessionTable, Alike
<1>6. CASE screen = "harvest"
  <2>1. /\ Len(sts) = 5 /\ \A i \in 1 .. 5 : sts[i].span = "range" /\ sts[i].kind = "harvest"
        /\ \A i \in 1 .. 4 : sts[i].limit = 0
    BY <1>6 DEF Statements, HarvestStatements, Statement
  <2> HIDE DEF sts
  <2>2. ASSUME NEW r \in data.read[1] \cup data.read[2], r.id \notin data.touched
        PROVE  /\ r \in data.read[2] /\ r \in data.read[3] /\ r \in data.read[4]
               /\ r \in data.read[5] \/ Full(sts[5], data.read[5], r)
    <3>1. r \in data.read[2]
      BY <1>3, <2>1, <2>2 DEF Full
    <3> QED
      BY <1>3, <2>1, <2>2, <3>1 DEF Full
  <2>3. \A r \in data.read[1] \cup data.read[2] :
          r.id \notin data.touched => ListedOrOlder(r, "records")
    BY <1>4, <1>6, <2>2, FiguresOfHarvest
  <2> QED
    BY <1>6, <2>2, <2>3, FiguresOfHarvest
       DEF TotalsAreExplained, HarvestStrip, HarvestTable, UnitsShown, UnitsOf
<1>7. CASE screen = "overview"
  <2>1. /\ Len(sts) = 8
        /\ \A i \in 1 .. 3 : sts[i].span = "range" /\ sts[i].limit = 0
        /\ \A i \in {4, 5} : sts[i].span = "window" /\ sts[i].limit = 0
        /\ sts[6].span = "range" /\ sts[6].limit = 0
        /\ \A i \in {7, 8} : sts[i].span = "ever"
        /\ \A i \in {1, 4, 7} : sts[i].kind = "attendance"
        /\ \A i \in {2, 3, 5, 6, 8} : sts[i].kind = "harvest"
    BY <1>7 DEF Statements, OverviewStatements, Statement
  <2> HIDE DEF sts
  <2>2. \A r \in data.read[1] :
          /\ \E q \in data.read[4] : Alike(q, r)
          /\ r.id \notin data.touched =>
               /\ r \in data.read[4]
               /\ r \in data.read[7] \/ Full(sts[7], data.read[7], r)
    BY <1>3, <2>1 DEF Full
  <2>3. \A i \in {2, 3} : \A r \in data.read[i] : r.id \notin data.touched =>
          /\ r \in data.read[5] /\ r \in data.read[6]
          /\ r \in data.read[8] \/ Full(sts[8], data.read[8], r)
    BY <1>3, <2>1 DEF Full
  <2>4. \A r \in data.read[1] : r.id \notin data.touched => ListedOrOlder(r, "recent_attendance")
    BY <1>4, <1>7, <2>2, FiguresOfOverview
  <2>5. \A r \in data.read[2] \cup data.read[3] :
          r.id \notin data.touched => ListedOrOlder(r, "recent_harvest")
    BY <1>4, <1>7, <2>3, FiguresOfOverview
  <2>6. \A r \in AttendanceStrip :
          /\ \E q \in Figure("attendance_by_date") : q.id = r.id /\ q.day = r.day
          /\ r.id \notin data.touched =>
               r \in Figure("attendance_by_date") /\ ListedOrOlder(r, SessionTable)
    BY <1>7, <2>2, <2>4, FiguresOfOverview DEF AttendanceStrip, SessionTable, Alike
  <2>7. \A r \in HarvestStrip : r.id \notin data.touched =>
          /\ r.unit \in UnitsShown
          /\ r \in Figure("harvest_by_date") /\ r \in Figure("harvest_by_farm_unit")
          /\ ListedOrOlder(r, HarvestTable)
    BY <1>7, <2>3, <2>5, FiguresOfOverview DEF HarvestStrip, HarvestTable, UnitsShown, UnitsOf
  <2> QED
    BY <2>6, <2>7 DEF TotalsAreExplained
<1> QED
  BY <1>1, <1>5, <1>6, <1>7 DEF Screens

-----------------------------------------------------------------------------
(* The inductive invariant, and what it implies.                           *)

ScreenInv ==
  /\ ReportsInv /\ RecordsNumbered
  /\ FieldsTyped /\ LoadsTyped /\ ExportsTyped
  /\ LoadsNumbered /\ ShownSound /\ ReadSound /\ ExportsSound

LEMMA ScreenInvInit == Init => ScreenInv
<1> SUFFICES ASSUME Init PROVE ScreenInv
  OBVIOUS
<1>1. ReportsInv /\ RecordsNumbered
  BY ReportsInvInit, NumberedInit
<1>2. /\ scenario \in Scenarios /\ access = "checking" /\ filter = NoFilter /\ options = "loading"
      /\ chartUnit = Unset /\ loads = {} /\ count = 0 /\ newest = "none" /\ overtaken = FALSE
      /\ data = NoData /\ error = "" /\ exporting = Unset /\ exports = {}
  BY DEF Init
<1>3. FieldsTyped
  BY <1>2 DEF FieldsTyped, NoFilter, Filters
<1>4. LoadsTyped
  <2>1. scenario.loads \in Nat
    BY <1>2, ScenariosAssumption
  <2>2. count \in 0 .. scenario.loads
    <3>1. count = 0
      BY <1>2
    <3> QED
      BY <2>1, <3>1
  <2>3. data \in Reports \cup {NoData} /\ loads \subseteq LoadForm
    BY <1>2
  <2> QED
    BY <1>2, <2>2, <2>3 DEF LoadsTyped
<1>5. ExportsTyped /\ ExportsSound
  BY <1>2, FS_EmptySet DEF ExportsTyped, ExportsSound, Running
<1>6. LoadsNumbered /\ ShownSound /\ ReadSound
  BY <1>2 DEF LoadsNumbered, ShownSound, ReadSound, Open
<1> QED
  BY <1>1, <1>3, <1>4, <1>5, <1>6 DEF ScreenInv

LEMMA ScreenInvStep == ScreenInv /\ [Next]_vars => ScreenInv'
BY ReportsInvStep, NumberedStep, FieldsTypedStep, LoadsTypedStep, ExportsStep, NumbersStep,
   ReadSoundStep DEF ScreenInv

LEMMA ScreenInvariant == Spec => []ScreenInv
BY ScreenInvInit, ScreenInvStep, PTL DEF Spec

LEMMA TypesFollow == ScreenInv => ReportsTypeOK
<1> SUFFICES ASSUME ScreenInv PROVE ReportsTypeOK
  OBVIOUS
<1> USE DEF ScreenInv
<1>1. at \in [Ids -> 0 .. Cardinality(Ids)]
  <2>1. Cardinality(AtHand) <= Cardinality(Ids) /\ Cardinality(Ids) \in Nat
    BY IdsAreFinite, FS_Subset, FS_CardinalityType DEF AtHand
  <2>2. \A r \in Ids : at[r] \in Nat /\ at[r] <= Cardinality(AtHand)
    BY DEF RecordsNumbered
  <2>3. \A r \in Ids : at[r] \in 0 .. Cardinality(Ids)
    BY <2>1, <2>2, AtHandIsFinite
  <2> QED
    BY <2>3 DEF RecordsNumbered
<1>2. \A l \in loads : /\ l.n \in 1 .. count /\ l.active \in BOOLEAN
                       /\ Len(l.read) <= Len(Statements(screen))
                       /\ \A i \in DOMAIN l.read : l.read[i] \subseteq Rows
                       /\ l.touched \subseteq Ids
  <2> TAKE l \in loads
  <2>1. l \in LoadForm /\ l.n \in 1 .. count /\ Len(l.read) <= Len(Statements(screen))
    BY DEF LoadsTyped
  <2> QED
    BY <2>1 DEF LoadForm
<1>3. data # NoData => /\ Len(data.read) = Len(Statements(screen))
                       /\ \A i \in DOMAIN data.read : data.read[i] \subseteq Rows
  BY DEF LoadsTyped, Reports, ReportsInv, DataSound
<1>4. \A e \in exports : /\ e.kind \in Kinds
                         /\ e.reply \in {"waiting", "ready", "taken", "lost"}
                         /\ e.log \in {"none", "open", "recorded", "failed"}
  BY DEF ExportsTyped, ExportForm
<1>5. /\ FieldsTyped /\ scenario \in Scenarios /\ rows \in [Ids -> Rows] /\ exporting \in Kinds \cup {Unset}
      /\ count \in 0 .. scenario.loads
      /\ newest \in {"none", "waiting", "answered", "failed"} /\ overtaken \in BOOLEAN
  BY DEF ReportsInv, RowsSound, LoadsTyped, ExportsTyped
<1> HIDE DEF ScreenInv
<1> QED
  BY <1>1, <1>2, <1>3, <1>4, <1>5 DEF ReportsTypeOK, FieldsTyped

LEMMA ShownFollows == ScreenInv => ShownIsAsked
<1> SUFFICES ASSUME LoadsTyped, LoadsNumbered, ShownSound, Open, loads = {}, InOrder
             PROVE  IF newest = "answered" THEN data # NoData /\ data.asked = filter
                    ELSE data = NoData /\ error # ""
  BY DEF ScreenInv, ShownIsAsked, InOrder
<1>1. newest \in {"answered", "failed"}
  BY DEF LoadsTyped, LoadsNumbered
<1> QED
  BY <1>1 DEF ShownSound

\* The state of a report screen and of its requests stays well-formed; a report that
\* is held has an answer of every statement of its screen.
THEOREM ReportsTyped == Spec => []ReportsTypeOK
BY ScreenInvariant, TypesFollow, PTL

\* A chart has all of its series, each record in the bar of its day, and one of
\* harvest has the records of the selected unit and no others: the days the screen
\* plots are those the server was asked for, and no bar mixes units.
THEOREM ChartsAlwaysWhole == Spec => []ChartsAreWhole
<1>1. Init => ReportsInv
  BY ReportsInvInit
<1>2. ReportsInv /\ [Next]_vars => ReportsInv'
  BY ReportsInvStep
<1>3. ReportsInv => ChartsAreWhole
  BY ChartsFollow
<1> QED BY <1>1, <1>2, <1>3, PTL DEF Spec

\* Once nothing is in flight a screen shows the report of the filter it shows, or an
\* alert; on the reports that take every answer, unless one was overtaken.
THEOREM WhatIsShownWasAsked == Spec => []ShownIsAsked
BY ScreenInvariant, ShownFollows, PTL

\* What a report counts it also charts, compares and lists, up to the records that
\* were corrected while its statements ran one by one, and to the older ones of a
\* list that is full; and no correction takes a session out of its series.
THEOREM TotalsAlwaysExplained == Spec => []TotalsAreExplained
<1>1. ScreenInv => TotalsAreExplained
  BY TotalsFollow DEF ScreenInv
<1> QED
  BY <1>1, ScreenInvariant, PTL

\* A button that says "Exporting..." has an export of its kind that runs, and a report
\* runs one export at a time.
THEOREM ExportButtonAlwaysTrue == Spec => []ExportButtonIsTrue
<1>1. ASSUME ExportsSound PROVE ExportButtonIsTrue
  <2>1. screen # "overview" => Cardinality(Running) <= 1
    <3>1. CASE Running = {}
      BY <3>1, FS_EmptySet
    <3>2. CASE screen # "overview" /\ Running # {}
      <4>1. PICK e \in Running : Running = {e}
        BY <1>1, <3>2 DEF ExportsSound
      <4> QED
        BY <4>1, FS_Singleton
    <3> QED
      BY <3>1, <3>2
  <2> QED
    BY <1>1, <2>1 DEF ExportsSound, ExportButtonIsTrue
<1>2. ScreenInv => ExportButtonIsTrue
  BY <1>1 DEF ScreenInv
<1> QED
  BY <1>2, ScreenInvariant, PTL
=============================================================================
