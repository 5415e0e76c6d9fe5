------------------------- MODULE FarmStructureProofs -------------------------
(***************************************************************************)
(* Theorems about FarmStructure for every number of units and concurrent   *)
(* requests.  The inductive invariant, Register, says what a request in    *)
(* flight knows (its row is still the one it loaded, and its parent still  *)
(* passes the walk) because of the locks it holds.                         *)
(***************************************************************************)
EXTENDS FarmStructure, TLAPS

Ongoing(step) == step \in {"loaded", "validated", "replied"}

\* The walk from the parent of j has not met the unit of j.
Admissible(j) ==
  j.parent # NoUnit => Exists(j.parent) /\ (j.kind # "create" => j.unit \notin Above(j.parent))

\* What a request at some step knows.
JobOK(step, j) ==
  Ongoing(step) =>
    /\ j.unit \in Units /\ j.kind \in Kinds
    /\ j.kind = "create" => ~Exists(j.unit) /\ j.seen = Absent
    /\ j.kind # "create" => Exists(j.unit) /\ j.seen = units[j.unit]
    /\ j.kind \in {"deactivate", "reactivate"} => j.parent = j.seen.parent
    /\ step = "validated" => NeedsTree(j)
    /\ (step # "loaded" /\ NeedsTree(j)) => Admissible(j)

JobsOK == \A r \in Requests : JobOK(pc[r], job[r])

\* The row locks: at most one request in flight per unit.
UnitLock ==
  \A r, q \in Requests :
    (r # q /\ InFlight(r) /\ InFlight(q)) => job[r].unit # job[q].unit

\* The advisory lock: at most one request holds the tree.
TreeLock == \A r, q \in Requests : HoldsTree(r) /\ HoldsTree(q) => r = q

\* The foreign key of the parent.
ParentsExist == \A u \in Units : Parent(u) # NoUnit => Parent(u) \in Units /\ Exists(Parent(u))

Register ==
  /\ TypeOK /\ JobsOK /\ UnitLock /\ TreeLock /\ ParentsExist /\ Acyclic
  /\ HistoryIsGapless

Steps == {"new", "loaded", "validated", "replied", "done", "failed"}

-----------------------------------------------------------------------------
\* An absent row is told from a unit by its status.
LEMMA AbsentIsNoUnit == Absent \notin Unit /\ Absent.status = "absent"
BY DEF Absent, Unit

\* The founders form a tree, and nothing has been asked.
LEMMA InitRegister == Init => Register
<1> SUFFICES ASSUME Init PROVE Register
  OBVIOUS
<1> USE DEF Init
<1>1. \A u \in Founders : Founded(u) \in Unit /\ Founded(u).status = "active"
  BY FoundersAreUnits DEF Founded, Unit
<1>2. \A u \in Units : Parent(u) = IF u \in Founders THEN Origin[u] ELSE NoUnit
  BY <1>1 DEF Parent, Exists, Absent, Founded
<1>3. TypeOK
  <2>1. \A u \in Founders : <<[before |-> Absent, after |-> Founded(u)]>> \in Seq(Event)
    BY <1>1 DEF Event
  <2>2. log \in [Units -> Seq(Event)]
    BY <2>1
  <2>3. job \in [Requests -> Job]
    BY DEF IdleJob, Job
  <2> QED
    BY <1>1, <2>2, <2>3 DEF TypeOK
<1>4. JobsOK /\ UnitLock /\ TreeLock
  BY DEF JobsOK, JobOK, UnitLock, TreeLock, InFlight, HoldsTree, Ongoing
<1>5. ParentsExist
  <2>1. \A u \in Founders : Exists(u)
    BY <1>1, FoundersAreUnits DEF Exists
  <2> QED
    BY <1>2, <2>1, FoundersAreUnits DEF ParentsExist
<1>6. Acyclic
  <2> SUFFICES ASSUME NEW S \in SUBSET Units, S # {}
               PROVE  \E u \in S : Parent(u) \notin S
    BY DEF Acyclic
  <2>1. CASE S \subseteq Founders
    BY <1>2, <2>1, OriginIsAcyclic
  <2>2. CASE ~(S \subseteq Founders)
    BY <1>2, <2>2, NoUnitIsNoUnit
  <2> QED
    BY <2>1, <2>2
<1>7. HistoryIsGapless
  BY DEF HistoryIsGapless
<1> QED
  BY <1>3, <1>4, <1>5, <1>6, <1>7 DEF Register

\* A step that only moves one request keeps the invariant if what the request
\* knows is true and it takes no lock that another one holds.
LEMMA BecomeRegister ==
  ASSUME Register, NEW r \in Requests, NEW step \in Steps, NEW j \in Job,
         Become(r, step, j), JobOK(step, j),
         Ongoing(step) => \A q \in Requests \ {r} : InFlight(q) => job[q].unit # j.unit,
         (step \in {"validated", "replied"} /\ NeedsTree(j)) => TreeFree(r)
  PROVE  Register'
<1> USE DEF Become, Register
<1>0. /\ pc'[r] = step /\ job'[r] = j
      /\ \A q \in Requests \ {r} : pc'[q] = pc[q] /\ job'[q] = job[q]
      /\ units' = units /\ log' = log
  BY DEF TypeOK
<1>1. TypeOK'
  BY DEF TypeOK, Steps
<1>2. \A u : Exists(u)' = Exists(u) /\ Parent(u)' = Parent(u) /\ Above(u)' = Above(u)
  BY <1>0 DEF Exists, Parent, Above, UpClosed
<1>3. JobsOK'
  <2> SUFFICES ASSUME NEW q \in Requests PROVE JobOK(pc[q], job[q])'
    BY DEF JobsOK
  <2>1. JobOK(pc'[q], job'[q])
    BY <1>0 DEF JobsOK
  <2> QED
    BY <1>0, <1>2, <2>1 DEF JobOK, Admissible, NeedsTree, NothingToDo
<1>4. UnitLock'
  BY <1>0 DEF UnitLock, InFlight, Ongoing
<1>5. TreeLock'
  BY <1>0 DEF TreeLock, TreeFree, HoldsTree, NeedsTree, NothingToDo
<1>6. ParentsExist' /\ Acyclic'
  BY <1>2 DEF ParentsExist, Acyclic
<1>7. HistoryIsGapless'
  BY <1>0 DEF HistoryIsGapless
<1> QED
  BY <1>1, <1>3, <1>4, <1>5, <1>6, <1>7

\* Rolling back is always safe.
LEMMA RefuseRegister ==
  ASSUME Register, NEW r \in Requests, Refuse(r)
  PROVE  Register'
<1>1. job[r] \in Job
  BY DEF Register, TypeOK
<1>2. JobOK("failed", job[r])
  BY DEF JobOK, Ongoing
<1> QED
  BY <1>1, <1>2, BecomeRegister DEF Refuse, Steps, Ongoing

-----------------------------------------------------------------------------
\* The request of a new unit locks nothing; its unit is nobody else's.
LEMMA BeginCreateRegister ==
  ASSUME Register, NEW r \in Requests, NEW u \in Units, NEW p \in Units \cup {NoUnit},
         BeginCreate(r, u, p)
  PROVE  Register'
<1> DEFINE j == [kind |-> "create", unit |-> u, parent |-> p, seen |-> Absent]
<1>1. j \in Job /\ j.unit = u
  BY DEF Job, Kinds
<1>2. JobOK("loaded", j)
  BY DEF JobOK, BeginCreate, Kinds
<1>3. \A q \in Requests \ {r} : InFlight(q) => job[q].unit # u
  BY DEF BeginCreate
<1>4. Become(r, "loaded", j)
  BY DEF BeginCreate
<1> HIDE DEF j
<1> QED
  BY <1>1, <1>2, <1>3, <1>4, BecomeRegister DEF Steps

\* A change loads its row under the lock of the row.
LEMMA BeginChangeRegister ==
  ASSUME Register, NEW r \in Requests, NEW kind \in Kinds, NEW u \in Units,
         NEW p \in Units \cup {NoUnit}, BeginChange(r, kind, u, p)
  PROVE  Register'
<1> DEFINE j == [kind |-> kind, unit |-> u, parent |-> p, seen |-> units[u]]
<1>1. CASE Refuse(r)
  BY <1>1, RefuseRegister
<1>2. CASE /\ Exists(u) /\ (kind # "update" => p = units[u].parent)
           /\ Become(r, "loaded", j)
  <2>1. j \in Job /\ j.unit = u
    BY DEF Job, Register, TypeOK
  <2>2. JobOK("loaded", j)
    BY <1>2 DEF JobOK, BeginChange, Kinds
  <2>3. \A q \in Requests \ {r} : InFlight(q) => job[q].unit # u
    <3> SUFFICES ASSUME NEW q \in Requests \ {r}, InFlight(q), job[q].unit = u PROVE FALSE
      OBVIOUS
    <3>1. JobOK(pc[q], job[q])
      BY DEF Register, JobsOK
    <3>2. job[q].kind # "create"
      BY <1>2, <3>1 DEF JobOK, InFlight, Ongoing
    <3> QED
      BY <3>2 DEF BeginChange, RowFree, HoldsRow
  <2> HIDE DEF j
  <2> QED
    BY <1>2, <2>1, <2>2, <2>3, BecomeRegister DEF Steps
<1> QED
  BY <1>1, <1>2 DEF BeginChange

\* A request that goes on as it is keeps its unit to itself.
LEMMA OwnUnit ==
  ASSUME Register, NEW r \in Requests, InFlight(r)
  PROVE  \A q \in Requests \ {r} : InFlight(q) => job[q].unit # job[r].unit
BY DEF Register, UnitLock

\* What passes the validation is admissible, by what the walk has seen.
LEMMA ValidateRegister ==
  ASSUME Register, NEW r \in Requests, Validate(r)
  PROVE  Register'
<1>1. CASE Refused(job[r]) /\ Refuse(r)
  BY <1>1, RefuseRegister
<1>2. CASE ~Refused(job[r]) /\ Become(r, "validated", job[r])
  <2>1. job[r] \in Job /\ JobOK("loaded", job[r]) /\ InFlight(r)
    BY DEF Validate, Register, TypeOK, JobsOK, InFlight
  <2>2. Admissible(job[r])
    BY <1>2 DEF Refused, Admissible
  <2>3. JobOK("validated", job[r])
    BY <2>1, <2>2 DEF JobOK, Validate, Ongoing
  <2> QED
    BY <1>2, <2>1, <2>3, OwnUnit, BecomeRegister DEF Steps, Validate
<1> QED
  BY <1>1, <1>2 DEF Validate

\* The flush takes no further lock of the tree.
LEMMA WriteRegister ==
  ASSUME Register, NEW r \in Requests, Write(r)
  PROVE  Register'
<1>1. /\ job[r] \in Job /\ JobOK(pc[r], job[r]) /\ InFlight(r)
      /\ Become(r, "replied", job[r])
  BY DEF Write, Register, TypeOK, JobsOK, InFlight
<1>2. JobOK("replied", job[r])
  BY <1>1 DEF JobOK, Write, Ongoing
<1>3. NeedsTree(job[r]) => TreeFree(r)
  BY DEF Write, Register, TreeLock, TreeFree, HoldsTree
<1> QED
  BY <1>1, <1>2, <1>3, OwnUnit, BecomeRegister DEF Steps

-----------------------------------------------------------------------------
\* Hanging u below p keeps the hierarchy a forest if some set of units contains p
\* and all that is above it, but not u.
LEMMA MoveKeepsAcyclic ==
  ASSUME Acyclic, NEW u \in Units, NEW p \in Units \cup {NoUnit},
         \A x \in Units : Parent(x)' = IF x = u THEN p ELSE Parent(x),
         p # NoUnit => \E S \in SUBSET Units : p \in S /\ UpClosed(S) /\ u \notin S
  PROVE  Acyclic'
<1> SUFFICES ASSUME NEW T \in SUBSET Units, T # {}
             PROVE  \E x \in T : Parent(x)' \notin T
  BY DEF Acyclic
<1>1. CASE p = NoUnit
  <2>1. PICK x \in T : Parent(x) \notin T
    BY DEF Acyclic
  <2> QED
    BY <1>1, <2>1, NoUnitIsNoUnit
<1>2. CASE p # NoUnit
  <2>1. PICK S \in SUBSET Units : p \in S /\ UpClosed(S) /\ u \notin S
    BY <1>2
  <2>2. CASE T \cap S # {}
    <3>1. PICK x \in T \cap S : Parent(x) \notin T \cap S
      BY <2>2 DEF Acyclic
    <3>2. Parent(x) \in S \cup {NoUnit} /\ x # u
      BY <2>1 DEF UpClosed
    <3> QED
      BY <3>1, <3>2, NoUnitIsNoUnit
  <2>3. CASE T \cap S = {} /\ u \in T
    BY <2>1, <2>3
  <2>4. CASE u \notin T
    BY <2>4 DEF Acyclic
  <2> QED
    BY <2>2, <2>3, <2>4
<1> QED
  BY <1>1, <1>2

\* What a request that is about to commit writes.
LEMMA WrittenRow ==
  ASSUME Register, NEW r \in Requests, pc[r] = "replied", ~NothingToDo(job[r])
  PROVE  LET j == job[r] IN
         /\ After(j) \in Unit /\ j.unit \in Units /\ After(j).status # "absent"
         /\ j.seen = units[j.unit]
         /\ After(j).parent = j.parent
         /\ ~NeedsTree(j) => Exists(j.unit) /\ j.parent = Parent(j.unit)
<1>1. /\ JobOK("replied", job[r]) /\ job[r] \in Job /\ units \in [Units -> Unit \cup {Absent}]
  BY DEF Register, TypeOK, JobsOK
<1> DEFINE j == job[r]
<1>2. CASE j.kind = "create"
  <2>1. units[j.unit] = Absent
    BY <1>1, <1>2, AbsentIsNoUnit DEF JobOK, Ongoing, Exists, Unit
  <2> QED
    BY <1>1, <1>2, <2>1 DEF JobOK, Ongoing, After, Job, Unit, NeedsTree
<1>3. CASE j.kind # "create"
  <2>1. j.seen \in Unit /\ j.seen = units[j.unit] /\ j.unit \in Units /\ j.kind \in Kinds
    BY <1>1, <1>3, AbsentIsNoUnit DEF JobOK, Ongoing, Exists
  <2>2. After(j) \in Unit /\ After(j).parent = j.parent
    BY <1>1, <1>3, <2>1 DEF JobOK, Ongoing, After, Job, Unit, Kinds
  <2>3. ~NeedsTree(j) => Exists(j.unit) /\ j.parent = Parent(j.unit)
    BY <1>1, <1>3, <2>1 DEF JobOK, Ongoing, NeedsTree, Kinds, Parent, Exists, Unit, NothingToDo
  <2> QED
    BY <2>1, <2>2, <2>3 DEF Unit
<1> QED
  BY <1>2, <1>3

LEMMA CommitRegister ==
  ASSUME Register, NEW r \in Requests, Commit(r)
  PROVE  Register'
<1> DEFINE j == job[r]
           u == j.unit
           row == After(j)
<1>0. pc[r] = "replied" /\ job' = job /\ pc' = [pc EXCEPT ![r] = "done"]
  BY DEF Commit
<1>1. CASE NothingToDo(j)
  <2>1. Become(r, "done", j) /\ j \in Job
    BY <1>0, <1>1 DEF Commit, Become, Register, TypeOK
  <2>2. JobOK("done", j)
    BY DEF JobOK, Ongoing
  <2> QED
    BY <2>1, <2>2, BecomeRegister DEF Steps, Ongoing
<1>2. CASE ~NothingToDo(j)
  <2>1. /\ units' = [units EXCEPT ![u] = row]
        /\ log' = [log EXCEPT ![u] = Append(@, [before |-> j.seen, after |-> row])]
    BY <1>2 DEF Commit
  <2>2. /\ row \in Unit /\ u \in Units /\ row.status # "absent" /\ j.seen = units[u]
        /\ row.parent = j.parent
        /\ ~NeedsTree(j) => Exists(u) /\ j.parent = Parent(u)
    BY <1>0, <1>2, WrittenRow
  <2> HIDE DEF row
  <2>3. /\ TypeOK /\ JobsOK /\ UnitLock /\ TreeLock /\ ParentsExist /\ Acyclic
        /\ HistoryIsGapless /\ j \in Job /\ JobOK("replied", j)
    BY <1>0 DEF Register, TypeOK, JobsOK
  <2>4. \A x \in Units : /\ Exists(x)' <=> (x = u \/ Exists(x))
                         /\ Parent(x)' = IF x = u THEN j.parent ELSE Parent(x)
    BY <2>1, <2>2, <2>3 DEF TypeOK, Exists, Parent
  <2>5. j.parent # NoUnit => j.parent \in Units /\ Exists(j.parent)
    <3>1. CASE NeedsTree(j)
      BY <2>3, <3>1 DEF JobOK, Ongoing, Admissible, Job
    <3>2. CASE ~NeedsTree(j)
      BY <2>2, <2>3, <3>2 DEF ParentsExist
    <3> QED
      BY <3>1, <3>2
  <2>6. TypeOK'
    <3>1. [before |-> j.seen, after |-> row] \in Event
      BY <2>2, <2>3 DEF Job, Event
    <3>2. log' \in [Units -> Seq(Event)]
      BY <2>1, <2>2, <2>3, <3>1 DEF TypeOK
    <3> QED
      BY <1>0, <2>1, <2>2, <2>3, <3>2 DEF TypeOK
  <2>7. UnitLock' /\ TreeLock'
    BY <1>0, <2>3 DEF TypeOK, UnitLock, TreeLock, InFlight, HoldsTree, NeedsTree, NothingToDo
  <2>8. ParentsExist'
    BY <2>3, <2>4, <2>5 DEF ParentsExist
  <2>9. Acyclic'
    <3>1. CASE NeedsTree(j)
      <4>1. ASSUME j.parent # NoUnit
            PROVE  \E S \in SUBSET Units : j.parent \in S /\ UpClosed(S) /\ u \notin S
        <5>1. CASE j.kind = "create"
          <6> DEFINE S == {x \in Units : Exists(x)}
          <6>1. UpClosed(S)
            BY <2>3 DEF UpClosed, ParentsExist
          <6>2. j.parent \in S /\ u \notin S
            BY <2>3, <2>5, <4>1, <5>1 DEF JobOK, Ongoing
          <6> QED
            BY <6>1, <6>2
        <5>2. CASE j.kind # "create"
          BY <2>2, <2>3, <3>1, <4>1, <5>2 DEF JobOK, Ongoing, Admissible, Above
        <5> QED
          BY <5>1, <5>2
      <4>2. j.parent \in Units \cup {NoUnit}
        BY <2>5
      <4> QED
        BY <2>2, <2>3, <2>4, <4>1, <4>2, MoveKeepsAcyclic
    <3>2. CASE ~NeedsTree(j)
      BY <2>2, <2>3, <2>4, <3>2 DEF Acyclic
    <3> QED
      BY <3>1, <3>2
  <2>10. JobsOK'
    <3> SUFFICES ASSUME NEW q \in Requests, Ongoing(pc[q])'
                 PROVE  JobOK(pc[q], job[q])'
      BY DEF JobsOK, JobOK
    <3>1. q # r /\ pc'[q] = pc[q] /\ InFlight(q) /\ InFlight(r) /\ JobOK(pc[q], job[q])
      BY <1>0, <2>3 DEF Ongoing, InFlight, TypeOK, JobsOK
    <3>2. job[q].unit # u
      BY <2>3, <3>1 DEF UnitLock
    <3>3. job[q].unit \in Units /\ units'[job[q].unit] = units[job[q].unit]
      BY <2>1, <2>2, <2>3, <3>1, <3>2 DEF JobOK, Ongoing, InFlight, TypeOK
    <3>4. (pc[q] # "loaded" /\ NeedsTree(job[q])) => Admissible(job[q])'
      <4> SUFFICES ASSUME pc[q] # "loaded", NeedsTree(job[q]) PROVE Admissible(job[q])'
        OBVIOUS
      <4>1. HoldsTree(q)
        BY <3>1 DEF InFlight, HoldsTree
      <4>2. ~NeedsTree(j)
        BY <1>0, <2>3, <3>1, <4>1 DEF TreeLock, HoldsTree
      <4>3. \A x \in Units : (Exists(x)' <=> Exists(x)) /\ Parent(x)' = Parent(x)
        <5>1. Exists(u) /\ j.parent = Parent(u)
          BY <2>2, <4>2
        <5> HIDE DEF u, j
        <5> QED
          BY <2>4, <5>1
      <4>4. Admissible(job[q]) /\ job[q].parent \in Units \cup {NoUnit}
        BY <2>3, <3>1 DEF JobOK, InFlight, Ongoing, TypeOK, Job
      <4>5. \A S \in SUBSET Units : UpClosed(S)' = UpClosed(S)
        BY <4>3 DEF UpClosed
      <4>6. \A p \in Units : Above(p)' = Above(p)
        BY <4>5 DEF Above
      <4> QED
        BY <1>0, <4>3, <4>4, <4>6 DEF Admissible
    <3> QED
      BY <1>0, <3>1, <3>3, <3>4 DEF JobOK, Ongoing, Exists, NeedsTree, NothingToDo
  <2>11. HistoryIsGapless'
    <3> SUFFICES ASSUME NEW x \in Units
                 PROVE  LET n == Len(log'[x]) IN
                          /\ units'[x] = IF n = 0 THEN Absent ELSE log'[x][n].after
                          /\ \A i \in 1..n : log'[x][i].before =
                               IF i = 1 THEN Absent ELSE log'[x][i - 1].after
      BY DEF HistoryIsGapless
    <3>1. CASE x # u
      BY <2>1, <2>2, <2>3, <3>1 DEF HistoryIsGapless, TypeOK
    <3>2. CASE x = u
      <4> DEFINE old == log[u]
                 n == Len(old)
                 e == [before |-> j.seen, after |-> row]
      <4>0. old \in Seq(Event)
        BY <2>2, <2>3 DEF TypeOK
      <4>1. old \in Seq(Event) /\ n \in Nat /\ e \in Event
        <5>1. j.seen \in Unit \cup {Absent}
          BY <2>3 DEF Job
        <5>2. e \in Event
          BY <2>2, <5>1 DEF Event
        <5> HIDE DEF old
        <5> QED
          BY <4>0, <5>2
      <4>2. log'[u] = Append(old, e) /\ units'[u] = row
        BY <2>1, <2>2, <2>3 DEF TypeOK
      <4>3. /\ j.seen = IF n = 0 THEN Absent ELSE old[n].after
            /\ \A i \in 1..n : old[i].before = IF i = 1 THEN Absent ELSE old[i - 1].after
        BY <2>2, <2>3 DEF HistoryIsGapless
      <4> HIDE DEF old
      <4>4. /\ Len(Append(old, e)) = n + 1 /\ Append(old, e)[n + 1] = e
            /\ \A i \in 1..n : Append(old, e)[i] = old[i]
        BY <4>1
      <4> HIDE DEF n
      <4>5. \A i \in 1..(n + 1) : Append(old, e)[i].before =
              IF i = 1 THEN Absent ELSE Append(old, e)[i - 1].after
        <5> SUFFICES ASSUME NEW i \in 1..(n + 1)
                     PROVE  Append(old, e)[i].before =
                              IF i = 1 THEN Absent ELSE Append(old, e)[i - 1].after
          OBVIOUS
        <5>1. CASE i = n + 1
          BY <4>1, <4>3, <4>4, <5>1
        <5>2. CASE i # n + 1
          BY <4>1, <4>3, <4>4, <5>2
        <5> QED
          BY <5>1, <5>2
      <4> QED
        BY <3>2, <4>1, <4>2, <4>4, <4>5
    <3> QED
      BY <3>1, <3>2
  <2> QED
    BY <2>6, <2>7, <2>8, <2>9, <2>10, <2>11 DEF Register
<1> QED
  BY <1>1, <1>2

LEMMA NextRegister == Register /\ [Next]_vars => Register'
<1> SUFFICES ASSUME Register, [Next]_vars PROVE Register'
  OBVIOUS
<1>1. CASE UNCHANGED vars
  <2> USE <1>1 DEF vars, Register
  <2>1. TypeOK' /\ HistoryIsGapless'
    BY DEF TypeOK, HistoryIsGapless
  <2>2. \A u : (Exists(u)' <=> Exists(u)) /\ Parent(u)' = Parent(u) /\ Above(u)' = Above(u)
    BY DEF Exists, Parent, Above, UpClosed
  <2>3. JobsOK'
    <3> SUFFICES ASSUME NEW q \in Requests PROVE JobOK(pc[q], job[q])'
      BY DEF JobsOK
    <3>1. JobOK(pc[q], job[q])
      BY DEF JobsOK
    <3> QED
      BY <2>2, <3>1 DEF JobOK, Admissible, NeedsTree, NothingToDo
  <2>4. UnitLock' /\ TreeLock'
    BY DEF UnitLock, TreeLock, HoldsTree, InFlight, NeedsTree, NothingToDo
  <2>5. ParentsExist' /\ Acyclic'
    BY <2>2 DEF ParentsExist, Acyclic
  <2> QED
    BY <2>1, <2>3, <2>4, <2>5
<1>2. CASE Next
  <2>1. PICK r \in Requests :
          Begin(r) \/ Progress(r) \/ CodeTaken(r) \/ EndDeadlock(r) \/ Abort(r)
    BY <1>2 DEF Next
  <2>2. CASE Begin(r)
    BY <2>2, BeginCreateRegister, BeginChangeRegister DEF Begin
  <2>3. CASE Progress(r)
    BY <2>3, ValidateRegister, WriteRegister, CommitRegister DEF Progress
  <2>4. CASE CodeTaken(r) \/ EndDeadlock(r) \/ Abort(r)
    BY <2>4, RefuseRegister DEF CodeTaken, EndDeadlock, Abort
  <2> QED
    BY <2>1, <2>2, <2>3, <2>4
<1> QED
  BY <1>1, <1>2

\* The inductive invariant: rows, history, and what requests in flight know.
THEOREM RegisterHolds == Spec => []Register
<1> QED
  BY InitRegister, NextRegister, PTL DEF Spec

\* For any number of units and concurrent requests, parent changes never close a
\* circle (validate_parent under the advisory lock).
THEOREM AlwaysAcyclic == Spec => []Acyclic
<1>1. Register => Acyclic
  BY DEF Register
<1> QED
  BY <1>1, RegisterHolds, PTL

\* The audit events of every unit are a history without gaps that ends at its row
\* (load_unit for update, before and after of record_operational_event).
THEOREM AlwaysGapless == Spec => []HistoryIsGapless
<1>1. Register => HistoryIsGapless
  BY DEF Register
<1> QED
  BY <1>1, RegisterHolds, PTL

-----------------------------------------------------------------------------
\* Who waits while it holds the tree waits for a row, and that row's holder, if it
\* waits itself, waits for the tree.
LEMMA CircleIsParental ==
  ASSUME Register, NEW C \in SUBSET Requests, Circle(C)
  PROVE  \E h, w \in C :
           /\ C = {h, w} /\ Places(job[h], job[w].unit)
           /\ job[w].kind \in {"update", "reactivate"}
<1> USE DEF Register
<1>1. \A r \in C : pc[r] = "validated" => HoldsTree(r)
  BY DEF JobsOK, JobOK, Ongoing, HoldsTree
<1>2. PICK h \in C : pc[h] = "validated" /\ HoldsTree(h)
  <2>1. PICK r \in C : \E q \in C : WaitsFor(r, q)
    BY DEF Circle, Blocked
  <2>2. PICK q \in C : WaitsFor(r, q)
    BY <2>1
  <2>3. CASE pc[r] = "validated"
    BY <1>1, <2>3
  <2>4. CASE HoldsTree(q)
    <3>1. PICK p \in C : WaitsFor(q, p)
      BY DEF Circle, Blocked
    <3>2. pc[q] = "validated"
      BY <2>4, <3>1 DEF WaitsFor, HoldsTree
    <3> QED
      BY <2>4, <3>2
  <2> QED
    BY <2>2, <2>3, <2>4 DEF WaitsFor
<1>3. PICK w \in C : WaitsFor(h, w)
  BY DEF Circle, Blocked
<1>4. h # w /\ HoldsRow(w, job[w].unit) /\ Places(job[h], job[w].unit)
  BY <1>2, <1>3 DEF WaitsFor, HoldsRow
<1>5. PICK q \in C : WaitsFor(w, q)
  BY DEF Circle, Blocked
<1>6. pc[w] = "loaded" /\ NeedsTree(job[w]) /\ HoldsTree(q)
  <2>1. pc[w] # "validated"
    BY <1>1, <1>2, <1>4 DEF TreeLock
  <2> QED
    BY <1>5, <2>1 DEF WaitsFor
<1>7. q = h
  BY <1>2, <1>6 DEF TreeLock
<1>8. Blocked({h, w})
  BY <1>3, <1>5, <1>7 DEF Blocked
<1>9. C = {h, w}
  BY <1>8 DEF Circle
<1>10. job[w].kind \in {"update", "reactivate"}
  BY <1>4, <1>6 DEF HoldsRow, NeedsTree
<1> QED
  BY <1>4, <1>9, <1>10

\* For any number of requests, the one deadlock is that of a unit placed beneath
\* another one that is being edited or reactivated.
THEOREM OnlyParentalDeadlocks == Spec => []DeadlocksAreParental
<1>1. Register => DeadlocksAreParental
  BY CircleIsParental DEF DeadlocksAreParental
<1> QED
  BY <1>1, RegisterHolds, PTL
=============================================================================
