--------------------------- MODULE FarmStructure ---------------------------
(***************************************************************************)
(* The register of farm units: creation, editing (which may move a unit    *)
(* under another parent), deactivation and reactivation, as concurrent     *)
(* transactions at READ COMMITTED that answer before they commit.          *)
(*                                                                         *)
(* An edit or a change of status first locks the row of its unit.  What    *)
(* touches the hierarchy - creation, editing, reactivation - then waits    *)
(* for the advisory lock of the tree (validate_parent), walks up from the  *)
(* parent, and writes; the foreign key makes the write wait for whoever    *)
(* has locked the row of the parent.  The two lock orders can close a      *)
(* circle, which PostgreSQL opens by ending one of the transactions.       *)
(*                                                                         *)
(* Codes, names and types are left out, except that a code may be taken.   *)
(***************************************************************************)
EXTENDS Naturals, Sequences, FiniteSets

CONSTANTS
  Units,      \* unit ids, existing and to come
  Founders,   \* the units created at first, all of them active, and
  Origin,     \* the parents they were created with
  Requests,   \* request slots: each serves one request
  NoUnit

ASSUME FoundersAreUnits ==
  Founders \subseteq Units /\ Origin \in [Founders -> Founders \cup {NoUnit}]
ASSUME OriginIsAcyclic ==
  \A S \in SUBSET Founders : S # {} => \E u \in S : Origin[u] \notin S
ASSUME NoUnitIsNoUnit == NoUnit \notin Units

Unit   == [parent: Units \cup {NoUnit}, status: {"active", "inactive"}]
Absent == [status |-> "absent"]        \* no such row

Kinds == {"create", "update", "deactivate", "reactivate"}
Job   == [kind: Kinds \cup {"none"}, unit: Units \cup {NoUnit},
          parent: Units \cup {NoUnit}, seen: Unit \cup {Absent}]

Event == [before: Unit \cup {Absent}, after: Unit]

VARIABLES
  units,   \* the committed rows
  log,     \* the audit events of each unit, in the order of their commits
  pc,      \* where each request is
  job      \* what it was asked, and the row it loaded (under its lock)

vars == <<units, log, pc, job>>

Exists(u) == units[u].status # "absent"
Parent(u) == IF Exists(u) THEN units[u].parent ELSE NoUnit
InFlight(r) == pc[r] \in {"loaded", "validated", "replied"}

IdleJob == [kind |-> "none", unit |-> NoUnit, parent |-> NoUnit, seen |-> Absent]

-----------------------------------------------------------------------------
(* The hierarchy.                                                          *)

UpClosed(S) == \A x \in S : Parent(x) \in S \cup {NoUnit}

\* The units that the walk up from p visits, p included.
Above(p) == {x \in Units : \A S \in SUBSET Units : (p \in S /\ UpClosed(S)) => x \in S}

\* A row that leaves the status as it is: set_unit_status returns at once.
NothingToDo(j) ==
  \/ j.kind = "deactivate" /\ j.seen.status = "inactive"
  \/ j.kind = "reactivate" /\ j.seen.status = "active"

\* Slip: deactivation takes the lock of the tree, too.
NeedsTree_Deactivations(j) == j.kind \in Kinds /\ ~NothingToDo(j)

\* Who calls validate_parent.
NeedsTree(j) == j.kind \in {"create", "update"} \/ (j.kind = "reactivate" /\ ~NothingToDo(j))

\* The callers' require_active_parent.
NeedsActiveParent(j) ==
  j.kind = "update" => (j.seen.status = "active" /\ j.parent # j.seen.parent)

\* validate_parent: a parent that does not exist, is inactive, or has the unit
\* above itself; or a circle met on the way up.  A new unit has no id yet.
Refused(j) ==
  /\ j.parent # NoUnit
  /\ \/ ~Exists(j.parent)
     \/ NeedsActiveParent(j) /\ units[j.parent].status # "active"
     \/ j.kind # "create" /\ j.unit \in Above(j.parent)
     \/ \E x \in Above(j.parent) : Parent(x) # NoUnit /\ x \in Above(Parent(x))

\* Slip: the audit action is written as the status.
After_ActionAsStatus(j) ==
  IF j.kind = "create" THEN [parent |-> j.parent, status |-> "active"]
  ELSE [j.seen EXCEPT !.parent = j.parent, !.status = j.kind]

\* The row a request writes.
After(j) ==
  CASE j.kind = "create" -> [parent |-> j.parent, status |-> "active"]
    [] j.kind = "update" -> [j.seen EXCEPT !.parent = j.parent]
    [] j.kind = "deactivate" -> [j.seen EXCEPT !.status = "inactive"]
    [] j.kind = "reactivate" -> [j.seen EXCEPT !.status = "active"]

-----------------------------------------------------------------------------
(* Locks, derived from what the requests in flight hold.                   *)

\* load_unit(for_update): the row of the unit, from its loading to the end.
HoldsRow(q, u) == InFlight(q) /\ job[q].kind # "create" /\ job[q].unit = u

\* The advisory lock of the tree, from the validation to the end.
HoldsTree(q) == pc[q] \in {"validated", "replied"} /\ NeedsTree(job[q])

\* A write that makes u the parent of a unit shares the key of u.
Places(j, u) ==
  /\ u # NoUnit /\ j.parent = u
  /\ j.kind = "create" \/ (j.kind = "update" /\ j.seen.parent # u)
SharesKey(q, u) == pc[q] = "replied" /\ Places(job[q], u)

\* Slip: the row is loaded without FOR UPDATE.
RowFree_Unlocked(r, u) == r \in Requests /\ u \in Units

RowFree(r, u) == \A q \in Requests \ {r} : ~HoldsRow(q, u) /\ ~SharesKey(q, u)

\* Slip: the lock is given back by the validation itself.
TreeFree_NotHeld(r) == r \in Requests

TreeFree(r) == \A q \in Requests \ {r} : ~HoldsTree(q)

KeyFree(r, j) == \A q \in Requests \ {r} : \A u \in Units : HoldsRow(q, u) => ~Places(j, u)

\* What a request in flight waits for.
WaitsFor(r, q) ==
  /\ r # q
  /\ \/ pc[r] = "loaded" /\ NeedsTree(job[r]) /\ HoldsTree(q)
     \/ pc[r] = "validated" /\ \E u \in Units : HoldsRow(q, u) /\ Places(job[r], u)

\* Requests each of which waits for one of them, and the least such sets.
Blocked(C) == C # {} /\ \A r \in C : \E q \in C : WaitsFor(r, q)
Circle(C) == Blocked(C) /\ \A D \in SUBSET C : Blocked(D) => D = C

-----------------------------------------------------------------------------
\* The founders have been created by requests that have ended.
Founded(u) == [parent |-> Origin[u], status |-> "active"]

Init ==
  /\ units = [u \in Units |-> IF u \in Founders THEN Founded(u) ELSE Absent]
  /\ log = [u \in Units |-> IF u \in Founders
                            THEN <<[before |-> Absent, after |-> Founded(u)]>> ELSE <<>>]
  /\ pc = [r \in Requests |-> "new"]
  /\ job = [r \in Requests |-> IdleJob]

Become(r, step, j) ==
  /\ pc' = [pc EXCEPT ![r] = step]
  /\ job' = [job EXCEPT ![r] = j]
  /\ UNCHANGED <<units, log>>

\* An exception leaves the handler: the transaction rolls back.
Refuse(r) == Become(r, "failed", job[r])

\* add_unit: the unit gets a fresh id.
BeginCreate(r, u, p) ==
  /\ pc[r] = "new" /\ ~Exists(u)
  /\ \A q \in Requests : InFlight(q) => job[q].unit # u
  /\ Become(r, "loaded", [kind |-> "create", unit |-> u, parent |-> p, seen |-> Absent])

\* edit_unit and change_unit_status: load_unit for update; 404 for no row.
\* A change of status keeps the parent that was loaded.
BeginChange(r, kind, u, p) ==
  /\ pc[r] = "new" /\ kind # "create" /\ RowFree(r, u)
  /\ \/ ~Exists(u) /\ Refuse(r)
     \/ /\ Exists(u)
        /\ kind # "update" => p = units[u].parent
        /\ Become(r, "loaded", [kind |-> kind, unit |-> u, parent |-> p, seen |-> units[u]])

\* validate_parent: the lock of the tree, then the walk.
Validate(r) ==
  /\ pc[r] = "loaded" /\ NeedsTree(job[r]) /\ TreeFree(r)
  /\ \/ Refused(job[r]) /\ Refuse(r)
     \/ ~Refused(job[r]) /\ Become(r, "validated", job[r])

\* The flush and the answer.
Write(r) ==
  \/ pc[r] = "loaded" /\ ~NeedsTree(job[r]) /\ Become(r, "replied", job[r])
  \/ pc[r] = "validated" /\ KeyFree(r, job[r]) /\ Become(r, "replied", job[r])

\* The flush of a code that another unit has: 409.
CodeTaken(r) ==
  /\ pc[r] = "validated" /\ job[r].kind \in {"create", "update"}
  /\ Refuse(r)

Commit(r) ==
  /\ pc[r] = "replied"
  /\ pc' = [pc EXCEPT ![r] = "done"]
  /\ IF NothingToDo(job[r]) THEN UNCHANGED <<units, log>>
     ELSE /\ units' = [units EXCEPT ![job[r].unit] = After(job[r])]
          /\ log' = [log EXCEPT ![job[r].unit] =
                       Append(@, [before |-> job[r].seen, after |-> After(job[r])])]
  /\ UNCHANGED job

\* The deadlock detector ends one request of a circle.
EndDeadlock(r) ==
  /\ \E C \in SUBSET Requests : r \in C /\ Circle(C)
  /\ Refuse(r)

\* The process, the connection or the COMMIT fails.
Abort(r) == InFlight(r) /\ Refuse(r)

Begin(r) ==
  \E u \in Units, p \in Units \cup {NoUnit} :
    BeginCreate(r, u, p) \/ \E kind \in Kinds : BeginChange(r, kind, u, p)

Progress(r) == Validate(r) \/ Write(r) \/ Commit(r)

Next == \E r \in Requests :
  Begin(r) \/ Progress(r) \/ CodeTaken(r) \/ EndDeadlock(r) \/ Abort(r)

Spec == Init /\ [][Next]_vars

-----------------------------------------------------------------------------
TypeOK ==
  /\ units \in [Units -> Unit \cup {Absent}]
  /\ log \in [Units -> Seq(Event)]
  /\ pc \in [Requests -> {"new", "loaded", "validated", "replied", "done", "failed"}]
  /\ job \in [Requests -> Job]

\* Parent changes of concurrent requests never close a circle: every set of units
\* has a member whose parent is outside of it.
Acyclic == \A S \in SUBSET Units : S # {} => \E u \in S : Parent(u) \notin S

\* The audit events of a unit are a history without gaps: each begins where the
\* one before it ended, and the last one ends at the row.
HistoryIsGapless ==
  \A u \in Units : LET n == Len(log[u]) IN
    /\ units[u] = IF n = 0 THEN Absent ELSE log[u][n].after
    /\ \A i \in 1..n :
         log[u][i].before = IF i = 1 THEN Absent ELSE log[u][i - 1].after

\* The one deadlock there is: a request places a unit under p while another one,
\* which has locked p for an edit or a reactivation, waits for the tree.
\* Deactivations are never in it, and neither is a third request.
DeadlocksAreParental ==
  \A C \in SUBSET Requests : Circle(C) =>
    \E h, w \in C :
      /\ C = {h, w} /\ Places(job[h], job[w].unit)
      /\ job[w].kind \in {"update", "reactivate"}

=============================================================================
