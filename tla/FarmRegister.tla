---------------------------- MODULE FarmRegister ----------------------------
(***************************************************************************)
(* The farm structure screen of one Manager, over FarmStructure: the list  *)
(* under a filter, the form that adds or edits a unit, and the lifecycle   *)
(* button.  Other Managers' requests are those of FarmStructure.           *)
(*                                                                         *)
(* The form is uncontrolled: the browser holds the selected parent.  Its   *)
(* options are the other active units of the list as it is now; a selected *)
(* option that disappears leaves "No parent" selected, and so does a unit  *)
(* whose parent is not among them when the form opens.  Opening another    *)
(* unit while the form is open changes the default, not the selection.     *)
(*                                                                         *)
(* The status filter stands for the search, the type and the length of the *)
(* page, which hide units just the same.  The texts of the form and of the *)
(* alerts are left out.                                                    *)
(***************************************************************************)
EXTENDS FarmStructure

CONSTANTS
  Scenarios,  \* bounds on a behaviour, one of which it keeps to
  Filters     \* the status filters the Manager uses

\* How often the Manager clicks, and the request slots of the other Managers and
\* of the screen.  Without a click, nobody opens the screen.
Scenario == [clicks: Nat, colleagues: SUBSET Requests, own: SUBSET Requests]

ASSUME ScenariosAreScenarios == Scenarios \subseteq Scenario

ASSUME FiltersAreKnown == "all" \in Filters /\ Filters \subseteq {"all", "active", "inactive"}

Closed  == NoUnit                      \* editing is undefined
Adding  == [adding |-> TRUE]           \* editing is null

VARIABLES
  list,      \* the rows shown, Absent for a unit that is not on the list
  filter,    \* the status filter
  awaited,   \* the filters of the lists that were asked for and have not come
  editing,   \* the unit in the form, with the row it was opened with
  choice,    \* the parent selected in the form
  mine,      \* what the screen has asked for and has no answer to
  clicks,    \* clicks so far
  scenario

screen == <<list, filter, awaited, editing, choice, mine, clicks, scenario>>

\* What the screen has asked the server for.
Ask == [id: Nat, kind: Kinds, unit: Units \cup {NoUnit}, parent: Units \cup {NoUnit},
        request: SUBSET Requests, under: Filters]

Listed(rows, u) == rows[u].status # "absent"

\* The parents offered: active units of the list, other than the edited one.
Options(rows, e) ==
  {p \in Units : rows[p].status = "active"}
    \ (IF e \in {Closed, Adding} THEN {} ELSE {e.unit})

\* What the browser leaves selected when the options change.
Selected(p, rows, e) == IF p \in Options(rows, e) THEN p ELSE NoUnit

DefaultParent(e) == IF e = Adding THEN NoUnit ELSE e.row.parent

Click == clicks < scenario.clicks /\ clicks' = clicks + 1 /\ UNCHANGED scenario

ScreenInit ==
  /\ Init
  /\ list = [u \in Units |-> Absent]
  /\ scenario \in Scenarios
  /\ filter = "all" /\ awaited = IF scenario.clicks = 0 THEN {} ELSE {"all"}
  /\ editing = Closed /\ choice = NoUnit
  /\ mine = {} /\ clicks = 0

-----------------------------------------------------------------------------
\* The status filter changes: the list is loaded again.
ChooseFilter(f) ==
  /\ Click /\ f # filter
  /\ filter' = f /\ awaited' = awaited \cup {f}
  /\ UNCHANGED <<vars, list, editing, choice, mine>>

\* A list arrives, in any order, and fails to say which filter it was for.
ListArrives(f) ==
  /\ f \in awaited /\ awaited' = awaited \ {f}
  /\ list' = [u \in Units |->
       IF Exists(u) /\ f \in {"all", units[u].status} THEN units[u] ELSE Absent]
  /\ choice' = Selected(choice, list', editing)
  /\ UNCHANGED <<vars, filter, editing, mine, clicks, scenario>>

\* A list that does not come leaves the one shown.
ListFails(f) ==
  /\ f \in awaited /\ awaited' = awaited \ {f}
  /\ UNCHANGED <<vars, list, filter, editing, choice, mine, clicks, scenario>>

\* "Add farm unit" and "Edit": the form opens, or goes on with another unit.
Open(e) ==
  /\ Click /\ e # editing
  /\ editing' = e
  /\ choice' = Selected(IF editing = Closed THEN DefaultParent(e) ELSE choice, list, e)
  /\ UNCHANGED <<vars, list, filter, awaited, mine>>

Edit(u) == Listed(list, u) /\ Open([unit |-> u, row |-> list[u]])

Cancel ==
  /\ Click /\ editing # Closed
  /\ editing' = Closed /\ choice' = NoUnit
  /\ UNCHANGED <<vars, list, filter, awaited, mine>>

ChooseParent(p) ==
  /\ Click /\ editing # Closed /\ p \in Options(list, editing) \cup {NoUnit}
  /\ p # choice
  /\ choice' = p
  /\ UNCHANGED <<vars, list, filter, awaited, editing, mine>>

\* A click asks the server for something.  No button waits for the answer.
AskFor(kind, unit, parent) ==
  /\ Click
  /\ mine' = mine \cup {[id |-> clicks, kind |-> kind, unit |-> unit, parent |-> parent,
                         request |-> {}, under |-> filter]}
  /\ UNCHANGED <<vars, list, filter, awaited, editing, choice>>

\* submit
Save ==
  \/ editing = Adding /\ AskFor("create", NoUnit, choice)
  \/ editing \notin {Closed, Adding} /\ AskFor("update", editing.unit, choice)

\* Slip: the status is sent in place of the verb.
Verb_Status(row) == row.status

\* setFarmUnitStatus
Verb(row) == IF row.status = "active" THEN "deactivate" ELSE "reactivate"

\* lifecycle: the row on the list decides which of the two is asked for.
ChangeStatus(u) ==
  Listed(list, u) /\ AskFor(Verb(list[u]), u, NoUnit)

\* The server takes up what the screen has asked for.
Sent(r, a) ==
  /\ a.request = {} /\ r \in scenario.own
  /\ \/ a.kind = "create" /\ \E u \in Units : BeginCreate(r, u, a.parent)
     \/ a.kind = "update" /\ BeginChange(r, "update", a.unit, a.parent)
     \/ /\ a.kind \notin {"create", "update"}
        /\ \E p \in Units \cup {NoUnit} : BeginChange(r, a.kind, a.unit, p)
  /\ mine' = (mine \ {a}) \cup {[a EXCEPT !.request = {r}]}
  /\ UNCHANGED <<list, filter, awaited, editing, choice, clicks, scenario>>

\* The answer: a saved form closes, even if it shows another unit by now, and the
\* list is loaded under the filter of the click.
Answered(r, a) ==
  /\ a.request = {r} /\ pc[r] \in {"replied", "done"}
  /\ mine' = mine \ {a}
  /\ awaited' = awaited \cup {a.under}
  /\ IF a.kind \in {"create", "update"}
     THEN editing' = Closed /\ choice' = NoUnit
     ELSE UNCHANGED <<editing, choice>>
  /\ UNCHANGED <<vars, list, filter, clicks, scenario>>

\* A refusal, or a call or an answer that gets lost: the form stays as it is.
NotDone(a) ==
  /\ mine' = mine \ {a}
  /\ UNCHANGED <<vars, list, filter, awaited, editing, choice, clicks, scenario>>

Server ==
  /\ \E r \in Requests :
       \/ r \in scenario.colleagues /\ Begin(r)
       \/ Progress(r) \/ CodeTaken(r) \/ EndDeadlock(r) \/ Abort(r)
  /\ UNCHANGED screen

ScreenNext ==
  \/ Server
  \/ \E f \in Filters : ChooseFilter(f) \/ ListArrives(f) \/ ListFails(f)
  \/ \E u \in Units : Edit(u) \/ ChangeStatus(u)
  \/ Open(Adding) \/ Cancel \/ Save
  \/ \E p \in Units \cup {NoUnit} : ChooseParent(p)
  \/ \E a \in mine : NotDone(a) \/ \E r \in Requests : Sent(r, a) \/ Answered(r, a)

ScreenSpec == ScreenInit /\ [][ScreenNext]_<<vars, screen>>
-----------------------------------------------------------------------------
RegisterTypeOK ==
  /\ TypeOK
  /\ list \in [Units -> Unit \cup {Absent}]
  /\ filter \in Filters /\ awaited \subseteq Filters
  /\ editing \in {Closed, Adding} \cup [unit: Units, row: Unit]
  /\ choice \in Units \cup {NoUnit}
  /\ mine \subseteq Ask
  /\ scenario \in Scenarios /\ clicks \in 0..scenario.clicks
=============================================================================
