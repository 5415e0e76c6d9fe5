------------------------- MODULE FarmRegisterProofs -------------------------
(***************************************************************************)
(* Theorems about FarmRegister: the screen asks for nothing but what       *)
(* FarmStructure serves, so that what is proved of the server holds of the *)
(* two together.                                                           *)
(***************************************************************************)
EXTENDS FarmRegister, FarmStructureProofs

\* Only a new unit has no id yet.
AsksOK == \A a \in mine : a.kind # "create" => a.unit \in Units

ScreenInv == Register /\ RegisterTypeOK /\ AsksOK

-----------------------------------------------------------------------------
\* Taking up what the screen asked for is a request of FarmStructure.
LEMMA SentBegins ==
  ASSUME RegisterTypeOK, AsksOK, NEW a \in mine, NEW r \in Requests, Sent(r, a)
  PROVE  Begin(r)
<1>1. a.parent \in Units \cup {NoUnit} /\ a.unit \in Units \cup {NoUnit} /\ a.kind \in Kinds
  BY DEF RegisterTypeOK, Ask
<1>2. CASE \E u \in Units : BeginCreate(r, u, a.parent)
  BY <1>1, <1>2 DEF Begin
<1>3. CASE a.kind # "create"
  <2>1. a.unit \in Units
    BY <1>3 DEF AsksOK
  <2> QED
    BY <1>1, <1>3, <2>1 DEF Sent, Begin
<1> QED
  BY <1>1, <1>2, <1>3 DEF Sent

\* Every step of the composition is a step of FarmStructure or leaves it alone.
LEMMA ScreenStepIsStep ==
  ASSUME RegisterTypeOK, AsksOK, [ScreenNext]_<<vars, screen>>
  PROVE  [Next]_vars
<1>1. CASE Server
  BY <1>1 DEF Server, Next
<1>2. CASE \E a \in mine, r \in Requests : Sent(r, a)
  BY <1>2, SentBegins DEF Next
<1>3. CASE \E f \in Filters : ChooseFilter(f) \/ ListArrives(f) \/ ListFails(f)
  BY <1>3 DEF ChooseFilter, ListArrives, ListFails
<1>4. CASE Open(Adding) \/ Cancel \/ Save \/ \E u \in Units : Edit(u) \/ ChangeStatus(u)
  BY <1>4 DEF Open, Edit, Cancel, Save, ChangeStatus, AskFor
<1>5. CASE \E p \in Units \cup {NoUnit} : ChooseParent(p)
  BY <1>5 DEF ChooseParent
<1>6. CASE \E a \in mine : NotDone(a) \/ \E r \in Requests : Answered(r, a)
  BY <1>6 DEF NotDone, Answered
<1>7. CASE UNCHANGED <<vars, screen>>
  BY <1>7
<1> QED
  BY <1>1, <1>2, <1>3, <1>4, <1>5, <1>6, <1>7 DEF ScreenNext

LEMMA InitScreen == ScreenInit => ScreenInv
<1> SUFFICES ASSUME ScreenInit PROVE ScreenInv
  OBVIOUS
<1>1. Register
  BY InitRegister DEF ScreenInit
<1>2. scenario.clicks \in Nat
  BY ScenariosAreScenarios DEF ScreenInit, Scenario
<1>3. RegisterTypeOK
  BY <1>1, <1>2, FiltersAreKnown DEF ScreenInit, Register, RegisterTypeOK
<1> QED
  BY <1>1, <1>3 DEF ScreenInit, ScreenInv, AsksOK

\* Steps of the list and the form, which ask for nothing.
LEMMA FormKeeps ==
  ASSUME ScreenInv, Register', UNCHANGED <<vars, mine>>,
         \/ \E f \in Filters : ChooseFilter(f) \/ ListArrives(f) \/ ListFails(f)
         \/ Open(Adding) \/ Cancel \/ \E u \in Units : Edit(u)
         \/ \E p \in Units \cup {NoUnit} : ChooseParent(p)
  PROVE  ScreenInv'
<1> USE DEF ScreenInv
<1>1. AsksOK'
  BY DEF AsksOK
<1>2. TypeOK'
  BY DEF Register
<1>3. \A n \in 0..scenario.clicks : n < scenario.clicks => n + 1 \in 0..scenario.clicks
  BY ScenariosAreScenarios DEF RegisterTypeOK, Scenario
<1>4. CASE \E f \in Filters : ChooseFilter(f)
  BY <1>1, <1>2, <1>3, <1>4 DEF ChooseFilter, Click, RegisterTypeOK
<1>5. CASE \E f \in Filters : ListArrives(f)
  <2>1. list' \in [Units -> Unit \cup {Absent}]
    BY <1>5 DEF ListArrives, RegisterTypeOK, TypeOK
  <2>2. choice' \in Units \cup {NoUnit}
    BY <1>5 DEF ListArrives, RegisterTypeOK, Selected
  <2> QED
    BY <1>1, <1>2, <1>5, <2>1, <2>2 DEF ListArrives, RegisterTypeOK
<1>6. CASE \E f \in Filters : ListFails(f)
  BY <1>1, <1>2, <1>6 DEF ListFails, RegisterTypeOK
<1>7. ASSUME NEW e \in {Adding} \cup [unit: Units, row: Unit], Open(e)
      PROVE  ScreenInv'
  <2>1. choice' \in Units \cup {NoUnit}
    BY <1>7 DEF Open, Selected, RegisterTypeOK, Options
  <2>2. RegisterTypeOK'
    BY <1>2, <1>3, <1>7, <2>1 DEF Open, Click, RegisterTypeOK
  <2> QED
    BY <1>1, <1>7, <2>2 DEF Register
<1>8. CASE \E u \in Units : Edit(u)
  <2>1. PICK u \in Units : Edit(u)
    BY <1>8
  <2>2. list[u] \in Unit
    BY <2>1 DEF Edit, Listed, RegisterTypeOK, Absent
  <2> QED
    BY <1>7, <2>1, <2>2 DEF Edit
<1>9. CASE Cancel
  BY <1>1, <1>2, <1>3, <1>9 DEF Cancel, Click, RegisterTypeOK
<1>10. CASE \E p \in Units \cup {NoUnit} : ChooseParent(p)
  BY <1>1, <1>2, <1>3, <1>10 DEF ChooseParent, Click, RegisterTypeOK
<1> QED
  BY <1>4, <1>5, <1>6, <1>7, <1>8, <1>9, <1>10

\* Clicks that ask the server for something.
LEMMA AskingKeeps ==
  ASSUME ScreenInv, Register', UNCHANGED vars,
         Save \/ \E u \in Units : ChangeStatus(u)
  PROVE  ScreenInv'
<1> USE DEF ScreenInv
<1>1. TypeOK'
  BY DEF Register
<1>2. clicks \in Nat /\ clicks' \in 0..scenario.clicks
  BY ScenariosAreScenarios DEF RegisterTypeOK, Scenario, Save, ChangeStatus, AskFor, Click
<1>3. ASSUME NEW kind \in Kinds, NEW unit \in Units \cup {NoUnit},
             NEW parent \in Units \cup {NoUnit}, AskFor(kind, unit, parent),
             kind # "create" => unit \in Units
      PROVE  ScreenInv'
  <2> DEFINE asked == [id |-> clicks, kind |-> kind, unit |-> unit, parent |-> parent,
                       request |-> {}, under |-> filter]
  <2>1. asked \in Ask
    BY <1>2 DEF Ask, RegisterTypeOK
  <2>2. mine' = mine \cup {asked}
    BY <1>3 DEF AskFor
  <2>3. RegisterTypeOK'
    BY <1>1, <1>2, <1>3, <2>1, <2>2 DEF AskFor, Click, RegisterTypeOK
  <2>4. AsksOK'
    BY <1>3, <2>2 DEF AsksOK
  <2> QED
    BY <2>3, <2>4
<1>4. CASE editing = Adding /\ AskFor("create", NoUnit, choice)
  BY <1>3, <1>4 DEF RegisterTypeOK, Kinds
<1>5. CASE editing \notin {Closed, Adding} /\ AskFor("update", editing.unit, choice)
  <2>1. editing \in [unit: Units, row: Unit]
    BY <1>5 DEF RegisterTypeOK
  <2> QED
    BY <1>3, <1>5, <2>1 DEF RegisterTypeOK, Kinds
<1>6. CASE \E u \in Units : ChangeStatus(u)
  <2>1. PICK u \in Units : ChangeStatus(u)
    BY <1>6
  <2>2. list[u] \in Unit \cup {Absent}
    BY DEF RegisterTypeOK
  <2> QED
    BY <1>3, <2>1, <2>2 DEF ChangeStatus, Verb, Kinds
<1> QED
  BY <1>4, <1>5, <1>6 DEF Save

\* The server, by itself or taking up what was asked for.
LEMMA ServerKeeps ==
  ASSUME ScreenInv, Register', Server
  PROVE  ScreenInv'
<1> USE DEF ScreenInv
<1>1. RegisterTypeOK' /\ AsksOK'
  BY DEF Register, Server, screen, RegisterTypeOK, AsksOK
<1> QED
  BY <1>1

LEMMA SentKeeps ==
  ASSUME ScreenInv, Register', NEW a \in mine, NEW r \in Requests, Sent(r, a)
  PROVE  ScreenInv'
<1> USE DEF ScreenInv
<1> DEFINE sent == [a EXCEPT !.request = {r}]
<1>1. sent \in Ask /\ mine' = (mine \ {a}) \cup {sent}
  BY DEF Sent, RegisterTypeOK, Ask
<1>2. RegisterTypeOK'
  BY <1>1 DEF Sent, Register, RegisterTypeOK
<1>3. a \in Ask
  BY DEF RegisterTypeOK
<1>4. AsksOK'
  BY <1>1, <1>3 DEF AsksOK, Ask
<1> QED
  BY <1>2, <1>4

\* An answer, or none.
LEMMA AnswerKeeps ==
  ASSUME ScreenInv, Register', NEW a \in mine,
         NotDone(a) \/ \E r \in Requests : Answered(r, a)
  PROVE  ScreenInv'
<1> USE DEF ScreenInv
<1>1. UNCHANGED vars /\ mine' = mine \ {a}
  BY DEF NotDone, Answered
<1>2. AsksOK'
  BY <1>1 DEF AsksOK
<1>3. a.under \in Filters
  BY DEF RegisterTypeOK, Ask
<1>4. CASE NotDone(a)
  BY <1>2, <1>4 DEF NotDone, Register, RegisterTypeOK
<1>5. CASE \E r \in Requests : Answered(r, a)
  BY <1>2, <1>3, <1>5 DEF Answered, Register, RegisterTypeOK
<1> QED
  BY <1>4, <1>5

LEMMA StepKeeps == ScreenInv /\ [ScreenNext]_<<vars, screen>> => ScreenInv'
<1> SUFFICES ASSUME ScreenInv, [ScreenNext]_<<vars, screen>>
             PROVE  ScreenInv'
  OBVIOUS
<1>1. Register'
  BY ScreenStepIsStep, NextRegister DEF ScreenInv
<1>2. CASE Server
  BY <1>1, <1>2, ServerKeeps
<1>3. CASE \E f \in Filters : ChooseFilter(f) \/ ListArrives(f) \/ ListFails(f)
  BY <1>1, <1>3, FormKeeps DEF ChooseFilter, ListArrives, ListFails
<1>4. CASE Open(Adding) \/ Cancel \/ \E u \in Units : Edit(u)
  BY <1>1, <1>4, FormKeeps DEF Open, Cancel, Edit
<1>5. CASE Save \/ \E u \in Units : ChangeStatus(u)
  BY <1>1, <1>5, AskingKeeps DEF Save, ChangeStatus, AskFor
<1>6. CASE \E p \in Units \cup {NoUnit} : ChooseParent(p)
  BY <1>1, <1>6, FormKeeps DEF ChooseParent
<1>7. CASE \E a \in mine : NotDone(a) \/ \E r \in Requests : Sent(r, a) \/ Answered(r, a)
  BY <1>1, <1>7, SentKeeps, AnswerKeeps
<1>8. CASE UNCHANGED <<vars, screen>>
  BY <1>1, <1>8 DEF vars, screen, ScreenInv, Register, RegisterTypeOK, AsksOK
<1> QED
  BY <1>2, <1>3, <1>4, <1>5, <1>6, <1>7, <1>8 DEF ScreenNext

\* The inductive invariant of the composition.
THEOREM ScreenInvHolds == ScreenSpec => []ScreenInv
<1> QED
  BY InitScreen, StepKeeps, PTL DEF ScreenSpec

\* Types, for any units, requests, filters and scenarios.
THEOREM ScreenTyped == ScreenSpec => []RegisterTypeOK
<1>1. ScreenInv => RegisterTypeOK
  BY DEF ScreenInv
<1> QED
  BY <1>1, ScreenInvHolds, PTL

\* The screen and the server together implement the server: no click, filter or
\* late answer makes a request that FarmStructure does not describe.
THEOREM ScreenImplementsStructure == ScreenSpec => Spec
<1>1. ScreenInit => Init
  BY DEF ScreenInit
<1>2. ScreenInv /\ [ScreenNext]_<<vars, screen>> => [Next]_vars
  BY ScreenStepIsStep DEF ScreenInv
<1> QED
  BY <1>1, <1>2, ScreenInvHolds, PTL DEF ScreenSpec, Spec

\* Hence what is proved of the register holds when screens are used.
THEOREM ScreenKeepsRegister ==
  ScreenSpec => [](Acyclic /\ HistoryIsGapless /\ DeadlocksAreParental)
<1> QED
  BY ScreenImplementsStructure, AlwaysAcyclic, AlwaysGapless, OnlyParentalDeadlocks, PTL
=============================================================================
