--------------------------- MODULE MCReportScreens ---------------------------
(* A small instance of ReportScreens for TLC. *)
EXTENDS ReportScreens

CONSTANTS s1, s2, s3, h1, h2, h3, fruit, kg, block, field

Session(name, day) ==
  [id |-> name, kind |-> "attendance", day |-> day, unit |-> Unset, place |-> Unset, version |-> 1]
Harvested(name, day, unit) ==
  [id |-> name, kind |-> "harvest", day |-> day, unit |-> unit, place |-> block, version |-> 1]

\* Of each kind two records on the last day, and one earlier.
FewRecords == {Session(s1, 3), Session(s2, 2), Session(s3, 3),
               Harvested(h1, 3, kg), Harvested(h2, 2, fruit), Harvested(h3, 3, kg)}
Scenario(scr, records, versions, nloads, nexports) ==
  [screen |-> scr, records |-> records, versions |-> versions, loads |-> nloads, exports |-> nexports]

\* Two loads that race over records that are submitted meanwhile; one, over
\* records that are submitted and corrected, more than a table holds; three, for
\* an answer overtaken twice; and exports beside a load.
FewScenarios ==
  {Scenario("overview", {s1, h1, h2}, 1, 2, 0),
   Scenario("overview", {s1, h1}, 2, 1, 0),
   Scenario("overview", {h1, h2}, 2, 1, 0),
   Scenario("attendance", {s1, s2}, 1, 2, 0),
   Scenario("attendance", {s1, s2, s3}, 2, 1, 0),
   Scenario("attendance", {}, 1, 3, 0),
   Scenario("harvest", {h1, h2}, 1, 2, 0),
   Scenario("harvest", {h1, h2, h3}, 1, 1, 0),
   Scenario("harvest", {h1, h2}, 2, 1, 0),
   Scenario("overview", {}, 1, 1, 2),
   Scenario("attendance", {}, 1, 2, 1),
   Scenario("harvest", {}, 1, 1, 2)}
TwoUnits   == <<fruit, kg>>
=============================================================================
