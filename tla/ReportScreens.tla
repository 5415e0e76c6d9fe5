---------------------------- MODULE ReportScreens ----------------------------
(***************************************************************************)
(* The report screens (src/apps/web/src/modules/reports) over the routes   *)
(* that answer them (reports/routes.py): the overview, the attendance      *)
(* report and the harvest report, one of which is open.                    *)
(*                                                                         *)
(* A figure is modelled by the set of submitted records it adds up, as they *)
(* were when it was taken: a total, a row of a series and a list of sources *)
(* are sets of versions of records, so that two figures can be compared     *)
(* without arithmetic.                                                      *)
(***************************************************************************)
EXTENDS Integers, FiniteSets, Sequences

CONSTANTS
  Records,     \* attendance sessions and harvest records, as they are drafted
  Units,       \* of harvest, in the order of the screens
  FilterDays,  \* the days a date filter is set to
  Places,      \* farm units
  Today,       \* the server's date, and the browser's
  SeriesDays,  \* OVERVIEW_SERIES_DAYS (14)
  MaxFill,     \* the widest range whose gaps are filled (62)
  Presets,     \* the lengths of the range buttons (7, 14, 30)
  ListLimit,   \* DEFAULT_SOURCE_LIMIT (100)
  RecentLimit, \* DEFAULT_RECENT_LIMIT (10)
  Scenarios,   \* bounds: the screen that is open, the records that are submitted
               \* meanwhile, the versions a record gets, the loads of the report
               \* and the exports begun
  Unset, NoData

Screens == {"overview", "attendance", "harvest"}
Kinds   == {"attendance", "harvest"}
UnitSet == {Units[i] : i \in DOMAIN Units}

Ids     == {r.id : r \in Records}

\* A version of a record.  What else a correction changes (the quantity, the
\* notes, who was present) is that of its version.
Rows == [id: Ids, kind: Kinds, day: Int, unit: UnitSet \cup {Unset},
         place: Places \cup {Unset}, version: Nat]

ASSUME RecordsAssumption == Records \subseteq Rows
ASSUME FiniteRecords == IsFiniteSet(Records)
ASSUME ScenariosAssumption ==
  \A s \in Scenarios : /\ s.screen \in Screens /\ s.records \subseteq Ids
                       /\ s.versions \in Nat /\ s.loads \in Nat /\ s.exports \in Nat
ASSUME DaysAssumption ==
  /\ FilterDays \subseteq Int /\ Presets \subseteq Nat /\ Today \in Int
  /\ SeriesDays \in Nat \ {0} /\ MaxFill \in Nat
  /\ ListLimit \in Nat /\ RecentLimit \in Nat
  /\ Unset \notin Int

VARIABLES
  scenario,  \* one of Scenarios
  at,        \* submitted_at of each record, 0 while it is a draft
  rows,      \* what each record says now
  access,    \* what its session check found
  filter,    \* its filter fields
  options,   \* the farm unit choices of the harvest report
  chartUnit, \* the unit chosen for its harvest chart
  loads,     \* requests for the report that have no answer yet
  count,     \* history: loads begun
  newest,    \* history: what became of the newest of them
  overtaken, \* history: an older answer was taken after a newer one
  data,      \* the report it holds
  error,     \* why its alert is shown
  exporting, \* the export its buttons wait for
  exports    \* the exports begun, on the screen and on the server

screen == scenario.screen

serverVars == <<scenario, at, rows>>
fieldVars  == <<filter, options, chartUnit>>
loadVars   == <<loads, count, newest, overtaken, data>>
exportVars == <<exporting, exports>>
vars == <<scenario, at, rows, access, filter, options, chartUnit, loads, count, newest, overtaken,
          data, error, exporting, exports>>

-----------------------------------------------------------------------------
(* The server.                                                             *)

\* A date field holds a day that was picked, or an end of a preset range.
Filters == [from: FilterDays \cup {Unset} \cup {Today - (days - 1) : days \in Presets},
            to: FilterDays \cup {Unset, Today},
            place: Places \cup {Unset}, unit: UnitSet \cup {Unset}]
NoFilter == [from |-> Unset, to |-> Unset, place |-> Unset, unit |-> Unset]

\* What a screen holds of a report: the filter it was asked for, its days, and
\* the answer of each statement; and, as history, the records that were
\* corrected between its first statement and its last.
Reports == [asked: Filters, from: Int, to: Int, read: Seq(SUBSET Rows), touched: SUBSET Ids]

ASSUME NoDataAssumption == NoData \notin Reports

\* _report_date_range: an end that is missing is the other end, or today.
From(f) == IF f.from # Unset THEN f.from ELSE IF f.to # Unset THEN f.to ELSE Today
To(f)   == IF f.to # Unset THEN f.to ELSE IF f.from # Unset THEN f.from ELSE Today
Refused(f) == To(f) < From(f)

\* One SELECT of a report: over the records of a kind whose day is in the
\* range asked for, in the window that ends with it, or at any time.
Statement(name, kind, span, limit) == [name |-> name, kind |-> kind, span |-> span, limit |-> limit]

\* In the order in which the routes run them, each on its own snapshot.
OverviewStatements ==
  <<Statement("attendance", "attendance", "range", 0),
    Statement("harvest", "harvest", "range", 0),
    Statement("harvest_count", "harvest", "range", 0),
    Statement("attendance_by_date", "attendance", "window", 0),
    Statement("harvest_by_date", "harvest", "window", 0),
    Statement("harvest_by_farm_unit", "harvest", "range", 0),
    Statement("recent_attendance", "attendance", "ever", RecentLimit),
    Statement("recent_harvest", "harvest", "ever", RecentLimit)>>

\* Slip: the sessions are listed before the totals are taken.
AttendanceStatements_Swapped ==
  <<Statement("sessions", "attendance", "range", ListLimit),
    Statement("attendance", "attendance", "range", 0),
    Statement("attendance_by_date", "attendance", "range", 0)>>

AttendanceStatements ==
  <<Statement("attendance", "attendance", "range", 0),
    Statement("sessions", "attendance", "range", ListLimit),
    Statement("attendance_by_date", "attendance", "range", 0)>>

HarvestStatements ==
  <<Statement("harvest_count", "harvest", "range", 0),
    Statement("harvest", "harvest", "range", 0),
    Statement("harvest_by_date", "harvest", "range", 0),
    Statement("harvest_by_farm_unit", "harvest", "range", 0),
    Statement("records", "harvest", "range", ListLimit)>>

Statements(s) ==
  CASE s = "overview"   -> OverviewStatements
    [] s = "attendance" -> AttendanceStatements
    [] s = "harvest"    -> HarvestStatements

\* The first day a series has: window_start on the server, windowStart on the
\* screen.
WindowStart(f) == From(f) - (SeriesDays - 1)

Days(st, f) == (IF st.span = "window" THEN WindowStart(f) ELSE From(f)) .. To(f)

Wanted(st, f, r) ==
  /\ r.kind = st.kind
  /\ st.span # "ever" => r.day \in Days(st, f)
  /\ f.place \in {Unset, r.place}
  /\ f.unit \in {Unset, r.unit}

Before(st, q, r) ==
  IF st.span = "ever" THEN at[q.id] > at[r.id]
  ELSE q.day > r.day \/ (q.day = r.day /\ at[q.id] > at[r.id])

\* What a statement finds: the submitted records it wants, the first of them
\* when it has a limit.
Found(st, f) ==
  LET wanted == {r \in {rows[i] : i \in {j \in Ids : at[j] > 0}} : Wanted(st, f, r)} IN
  IF st.limit = 0 THEN wanted
  ELSE {r \in wanted : Cardinality({q \in wanted : Before(st, q, r)}) < st.limit}

\* A draft is submitted.
Submit(i) ==
  /\ at[i] = 0
  /\ i \in scenario.records
  /\ at' = [at EXCEPT ![i] = 1 + Cardinality({j \in Ids : at[j] > 0})]
  /\ UNCHANGED <<scenario, rows, access, fieldVars, loadVars, error, exportVars>>

\* Between two statements of a report.
Reading(l) == Len(l.read) \in 1 .. (Len(Statements(screen)) - 1)

\* correct_record gives a submitted harvest record another date, farm unit and
\* unit of harvest; correct_entry leaves the session where it is.
Corrected(row, d, u, p) ==
  IF row.kind = "attendance" THEN [row EXCEPT !.version = @ + 1]
  ELSE [row EXCEPT !.version = @ + 1, !.day = d, !.unit = u, !.place = p]

Correct(i) ==
  /\ at[i] > 0
  /\ rows[i].version < scenario.versions  \* bound
  /\ \E d \in {r.day : r \in Records}, u \in UnitSet, p \in Places :
       rows' = [rows EXCEPT ![i] = Corrected(@, d, u, p)]
  /\ loads' = {IF Reading(l) THEN [l EXCEPT !.touched = @ \cup {i}] ELSE l : l \in loads}
  /\ UNCHANGED <<scenario, at, access, fieldVars, count, newest, overtaken, data, error, exportVars>>

-----------------------------------------------------------------------------
(* Loading the report.                                                     *)

\* Slip: a request gets the number of the one before it.
Load_Renumbered(f) == [n |-> count, filter |-> f, active |-> TRUE, read |-> <<>>, touched |-> {}]

Load(f) == [n |-> count + 1, filter |-> f, active |-> TRUE, read |-> <<>>, touched |-> {}]

\* Slip: the overview lets an older request be answered.
Abandoned_Kept(older) == older

\* The cleanup of the overview's effect; the other reports have none.
Abandoned(older) ==
  IF screen = "overview" THEN {[l EXCEPT !.active = FALSE] : l \in older} ELSE older

\* The effect of a screen that was opened, or whose filter has changed.
Begin(f) ==
  /\ count < scenario.loads
  /\ loads' = Abandoned(loads) \cup {Load(f)}
  /\ count' = count + 1
  /\ newest' = "waiting"
  /\ overtaken' = FALSE
  /\ UNCHANGED data

\* getCurrentSession: the report is loaded once reports.read is known.
CheckAccess ==
  /\ access = "checking"
  /\ \/ /\ access' \in {"reader", "exporter"}
        /\ Begin(filter)
     \/ access' = "refused" /\ UNCHANGED loadVars
  /\ UNCHANGED <<serverVars, fieldVars, error, exportVars>>

Open == access \in {"reader", "exporter"}

\* The farm units to choose from, on the harvest report.
LoadOptions ==
  /\ Open /\ screen = "harvest" /\ options = "loading"
  /\ options' \in {"listed", "none"}
  /\ UNCHANGED <<serverVars, access, filter, chartUnit, loadVars, error, exportVars>>

\* rangeEndingToday
PresetRange(days) == [filter EXCEPT !.from = Today - (days - 1), !.to = Today]

DateFilters ==
  {[filter EXCEPT !.from = d] : d \in FilterDays \cup {Unset}} \cup
  {[filter EXCEPT !.to = d] : d \in FilterDays \cup {Unset}} \cup
  {PresetRange(days) : days \in Presets}

OverviewFilters == {[filter EXCEPT !.from = d] : d \in FilterDays \cup {Unset}}

HarvestFilters ==
  DateFilters \cup {[filter EXCEPT !.unit = u] : u \in UnitSet \cup {Unset}} \cup
  {[filter EXCEPT !.place = p] :
     p \in (IF options = "listed" THEN Places ELSE {}) \cup {Unset}}

ChangeFilter ==
  /\ Open
  /\ filter' \in CASE screen = "overview"   -> OverviewFilters
                   [] screen = "attendance" -> DateFilters
                   [] screen = "harvest"    -> HarvestFilters
  /\ filter' # filter
  /\ Begin(filter')
  /\ UNCHANGED <<serverVars, access, options, chartUnit, error, exportVars>>

\* The server runs the next statement of a report.
Read(l) ==
  /\ ~Refused(l.filter)
  /\ l.active  \* bound: nobody looks at what an abandoned request reads
  /\ Len(l.read) < Len(Statements(screen))
  /\ loads' = (loads \ {l}) \cup
       {[l EXCEPT !.read = Append(@, Found(Statements(screen)[Len(@) + 1], l.filter))]}
  /\ UNCHANGED <<serverVars, access, fieldVars, count, newest, overtaken, data,
                 error, exportVars>>

Settle(l, outcome) ==
  /\ loads' = loads \ {l}
  /\ newest' = IF l.n = count THEN outcome ELSE newest
  /\ overtaken' = (overtaken \/ (l.active /\ l.n < count /\ newest # "waiting"))
  /\ UNCHANGED <<serverVars, access, fieldVars, count, exportVars>>

Report(l) == [asked |-> l.filter, from |-> From(l.filter), to |-> To(l.filter), read |-> l.read,
              touched |-> l.touched]

\* The answer arrives: .then of the effect.
Answered(l) ==
  /\ Len(l.read) = Len(Statements(screen)) \/ ~l.active
  /\ Settle(l, "answered")
  /\ IF l.active THEN data' = Report(l) /\ error' = "" ELSE UNCHANGED <<data, error>>

\* Slip: a failure leaves the alert as it was.
Alert_Silent(reason) == UNCHANGED error

Alert(reason) == error' = reason

\* The request is refused, fails or is lost: .catch of the effect.
Failed(l) ==
  /\ Settle(l, "failed")
  /\ IF l.active THEN data' = NoData /\ Alert("load") ELSE UNCHANGED <<data, error>>

-----------------------------------------------------------------------------
(* What is rendered of a report.                                           *)

Position(name) ==
  LET sts == Statements(screen) IN CHOOSE k \in 1 .. Len(sts) : sts[k].name = name

Figure(name) == data.read[Position(name)]

\* The summary strips: the sessions, and the harvest by unit and in number.
AttendanceStrip == Figure("attendance")
HarvestStrip    == Figure("harvest") \cup Figure("harvest_count")

\* The tables of source records, or of recent ones.
SessionTable == IF screen = "overview" THEN "recent_attendance" ELSE "sessions"
HarvestTable == IF screen = "overview" THEN "recent_harvest" ELSE "records"

UnitsOf(figure) == {r.unit : r \in figure}

\* The units the harvest chart can be of: harvestUnitsInSeries, and the units
\* of the harvest report's totals.
UnitsShown ==
  CASE screen = "overview"   -> UnitsOf(Figure("harvest_by_date"))
    [] screen = "harvest"    -> UnitsOf(Figure("harvest"))
    [] screen = "attendance" -> {}

\* The chosen one when the report has it, else the first.
SelectedUnit ==
  IF chartUnit \in UnitsShown THEN chartUnit
  ELSE IF UnitsShown = {} THEN Unset
  ELSE Units[CHOOSE i \in DOMAIN Units : /\ Units[i] \in UnitsShown
                                         /\ \A j \in 1 .. (i - 1) : Units[j] \notin UnitsShown]

\* Slip: the rows of every unit are plotted.
OfUnit_Mixed(figure, u) == figure

OfUnit(figure, u) == {r \in figure : r.unit = u}

\* Slip: the last day of the window is not plotted.
Filled_Short(first, last) == first .. (last - 1)

\* fillDateWindow: every day of the window.
Filled(first, last) == first .. (first + (last - first))

\* What the bar of a day adds up.
Bar(figure, d) == {r \in figure : r.day = d}

\* A chart: its bars by day, oldest first, each with the records it adds up.
\* A window of one day or less, and a wide one, has the days of the rows only.
Chart(figure, first, last) ==
  LET width == last - first
      days  == IF width < 1 \/ width > MaxFill THEN {r.day : r \in figure}
               ELSE Filled(first, last) IN
  [d \in days |-> Bar(figure, d)]

FirstDay == IF screen = "overview" THEN data.from - (SeriesDays - 1) ELSE data.from

AttendanceChart == Chart(Figure("attendance_by_date"), FirstDay, data.to)
HarvestChart    == Chart(OfUnit(Figure("harvest_by_date"), SelectedUnit), FirstDay, data.to)

\* harvestFarmUnitComparison: a bar for each farm unit that has records.
ByPlace(figure) == [p \in {r.place : r \in figure} |-> {r \in figure : r.place = p}]

Comparison == ByPlace(OfUnit(Figure("harvest_by_farm_unit"), SelectedUnit))

ChooseUnit ==
  /\ data # NoData
  /\ chartUnit' \in UnitsShown \ {chartUnit}
  /\ UNCHANGED <<serverVars, access, filter, options, loadVars, error, exportVars>>

\* The loading indicator stands in for the figures.
OverviewLoading == data = NoData /\ error = ""
ReportLoading   == data = NoData

Waiting == Open /\ error = "" /\ (IF screen = "overview" THEN OverviewLoading ELSE ReportLoading)

-----------------------------------------------------------------------------
(* Exports.                                                                *)

\* The buttons of the overview, one for each kind, and of a report.
ExportKinds == IF screen = "overview" THEN Kinds ELSE {screen}

\* Slip: the button is not disabled.
Disabled_Never(k) == FALSE

Disabled(k) == exporting = k

\* handleExport.  Each file is of the filter the screen has when it begins.
Export(k) ==
  /\ access = "exporter"
  /\ k \in ExportKinds /\ ~Disabled(k)
  /\ Cardinality(exports) < scenario.exports
  /\ exporting' = k
  /\ exports' = exports \cup
       {[n |-> Cardinality(exports) + 1, kind |-> k, filter |-> filter, reply |-> "waiting", log |-> "none"]}
  /\ UNCHANGED <<serverVars, access, fieldVars, loadVars, error>>

Becomes(e, f) == exports' = (exports \ {e}) \cup {f}

Served(e) == [e EXCEPT !.reply = "ready", !.log = "open"]

\* export_attendance and export_harvest: the file, and the event in the
\* transaction that is still open when the file is sent.
ServeExport(e) ==
  /\ e.reply = "waiting" /\ ~Refused(e.filter)
  /\ Becomes(e, Served(e))
  /\ UNCHANGED <<serverVars, access, fieldVars, loadVars, error, exporting>>

\* get_db_session commits, or fails to.
CommitExport(e) ==
  /\ e.log = "open"
  /\ \E log \in {"recorded", "failed"} : Becomes(e, [e EXCEPT !.log = log])
  /\ UNCHANGED <<serverVars, access, fieldVars, loadVars, error, exporting>>

\* finally
Finished == exporting' = Unset

TakeExport(e) ==
  /\ e.reply = "ready"
  /\ Becomes(e, [e EXCEPT !.reply = "taken"])
  /\ Finished
  /\ UNCHANGED <<serverVars, access, fieldVars, loadVars, error>>

\* The request is refused, fails, or its answer is lost.
LoseExport(e) ==
  /\ e.reply \in {"waiting", "ready"}
  /\ Becomes(e, [e EXCEPT !.reply = "lost"])
  /\ Finished
  /\ error' = "export"
  /\ UNCHANGED <<serverVars, access, fieldVars, loadVars>>

-----------------------------------------------------------------------------
Init ==
  /\ at = [i \in Ids |-> 0]
  /\ rows = [i \in Ids |-> CHOOSE r \in Records : r.id = i]
  /\ scenario \in Scenarios
  /\ access = "checking"
  /\ filter = NoFilter
  /\ options = "loading"
  /\ chartUnit = Unset
  /\ loads = {} /\ count = 0 /\ newest = "none" /\ overtaken = FALSE
  /\ data = NoData
  /\ error = ""
  /\ exporting = Unset
  /\ exports = {}

Next ==
  \/ \E i \in Ids : Submit(i) \/ Correct(i)
  \/ CheckAccess \/ LoadOptions \/ ChangeFilter \/ ChooseUnit
  \/ \E l \in loads : Read(l) \/ Answered(l) \/ Failed(l)
  \/ \E k \in Kinds : Export(k)
  \/ \E e \in exports : ServeExport(e) \/ CommitExport(e) \/ TakeExport(e) \/ LoseExport(e)

Spec == Init /\ [][Next]_vars

\* The newest request is worked on until it is answered or has failed.
Progress == \E l \in loads : l.n = count /\ (Read(l) \/ Answered(l) \/ Failed(l))

FairSpec == Spec /\ WF_vars(Progress)

-----------------------------------------------------------------------------
(* Properties.                                                             *)

\* Every variable has its type; a report that is held has an answer of every
\* statement of its screen.
ReportsTypeOK ==
  /\ at \in [Ids -> 0 .. Cardinality(Ids)]
  /\ rows \in [Ids -> Rows]
  /\ scenario \in Scenarios
  /\ access \in {"checking", "reader", "exporter", "refused"}
  /\ filter \in Filters
  /\ options \in {"loading", "listed", "none"}
  /\ chartUnit \in UnitSet \cup {Unset}
  /\ count \in 0 .. scenario.loads
  /\ \A l \in loads : /\ l.n \in 1 .. count /\ l.active \in BOOLEAN
                      /\ Len(l.read) <= Len(Statements(screen))
                      /\ \A i \in DOMAIN l.read : l.read[i] \subseteq Rows
                      /\ l.touched \subseteq Ids
  /\ newest \in {"none", "waiting", "answered", "failed"}
  /\ overtaken \in BOOLEAN
  /\ data # NoData => /\ Len(data.read) = Len(Statements(screen))
                      /\ \A i \in DOMAIN data.read : data.read[i] \subseteq Rows
  /\ error \in {"", "load", "export"}
  /\ exporting \in Kinds \cup {Unset}
  /\ \A e \in exports : /\ e.kind \in Kinds
                        /\ e.reply \in {"waiting", "ready", "taken", "lost"}
                        /\ e.log \in {"none", "open", "recorded", "failed"}

\* Once nothing is in flight, a screen shows the report of the filter it shows,
\* or an alert and no figures when that report could not be had; on the
\* attendance and harvest reports, which take every answer, unless the answers
\* came out of order.
ShownIsAsked ==
  Open /\ loads = {} /\ (screen # "overview" => ~overtaken) =>
    IF newest = "answered" THEN data # NoData /\ data.asked = filter
    ELSE data = NoData /\ error # ""

\* A chart has each of these records in the bar of its day, and no others.
Whole(chart, figure) ==
  /\ \A r \in figure : r.day \in DOMAIN chart /\ r \in chart[r.day]
  /\ \A d \in DOMAIN chart : \A r \in chart[d] : r \in figure /\ r.day = d

\* A chart shows all of its series: the window that the screen fills is the one
\* the server has queried.  A chart of harvest, by day or by farm unit, is of all
\* the records of the unit that is selected and of no others, so that it never
\* mixes units.
ChartsAreWhole ==
  data # NoData =>
    /\ screen # "harvest" => Whole(AttendanceChart, Figure("attendance_by_date"))
    /\ screen # "attendance" =>
         /\ Whole(HarvestChart, {r \in Figure("harvest_by_date") : r.unit = SelectedUnit})
         /\ \A r \in Figure("harvest_by_farm_unit") :
              r.unit = SelectedUnit => r.place \in DOMAIN Comparison /\ r \in Comparison[r.place]
         /\ \A p \in DOMAIN Comparison : \A r \in Comparison[p] :
              r.place = p /\ r.unit = SelectedUnit

\* A record of a strip, as it was counted there, is in a source table, or the
\* table is at its limit and holds only records that come before it.
ListedOrOlder(r, table) ==
  \/ r \in Figure(table)
  \/ LET st == Statements(screen)[Position(table)] IN
     /\ Cardinality(Figure(table)) = st.limit
     /\ \A q \in Figure(table) : Before(st, q, r)

\* What a report adds up it can explain, although its statements run one by
\* one while records are submitted and corrected.  A record that was counted,
\* unless it was itself corrected before the last statement, is in the series
\* and the comparison, as it was counted; and it is in the table of sources,
\* unless the table is full of later ones.  A correction of attendance never
\* takes a session out of the series.
TotalsAreExplained ==
  data # NoData =>
    /\ screen # "harvest" =>
         \A r \in AttendanceStrip :
           /\ \E q \in Figure("attendance_by_date") : q.id = r.id /\ q.day = r.day
           /\ r.id \notin data.touched =>
                /\ r \in Figure("attendance_by_date")
                /\ ListedOrOlder(r, SessionTable)
    /\ screen # "attendance" =>
         \A r \in HarvestStrip :
           r.id \notin data.touched =>
             /\ r.unit \in UnitsShown
             /\ r \in Figure("harvest_by_date") /\ r \in Figure("harvest_by_farm_unit")
             /\ ListedOrOlder(r, HarvestTable)

Running == {e \in exports : e.reply \in {"waiting", "ready"}}

\* A button says "Exporting..." while an export of its kind runs; and a report
\* runs one export at a time, whatever is pressed.  (The overview's two buttons
\* share one state, and press each other free.)
ExportButtonIsTrue ==
  /\ exporting # Unset => \E e \in Running : e.kind = exporting
  /\ screen # "overview" => Cardinality(Running) <= 1

\* A screen that waits for its report gets it, or shows why it has not.
LoadingEnds == Waiting ~> ~Waiting
=============================================================================
