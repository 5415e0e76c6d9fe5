---------------------- MODULE UserAdministrationProofs ----------------------
(***************************************************************************)
(* The advisory lock does what it is there for: as long as nobody is       *)
(* promoted to Manager, reactivated or recovered, no number of concurrent  *)
(* demotions and disablements removes the final active Manager.            *)
(*                                                                         *)
(* The proof shows where the restriction is needed: Fresh, that a target   *)
(* which is an active Manager was one when it was loaded, is what a        *)
(* promotion or a reactivation between load and commit breaks.             *)
(***************************************************************************)
EXTENDS UserAdministration, FiniteSetTheorems, TLAPS

DemotionsOnly ==
  /\ "reactivate" \notin Operations /\ "recover" \notin Operations
  /\ "manager" \notin RequestedRoles

Demotes(j) == j.kind \in {"role", "disable"}

JobOK(step, j) ==
  /\ step = "new" => j = IdleJob
  /\ step # "new" => j.kind \in Operations /\ j.target \in Users
  /\ j.kind = "role" => j.role \in RequestedRoles
  /\ j.locked => step \in {"guarded", "replied"}
  /\ step = "guarded" => j.locked
  /\ (step = "replied" /\ NeedsGuard(j)) => j.locked
  /\ (step # "new" /\ j.kind # "create") => users[j.target] # Absent
  /\ (step = "replied" /\ j.kind = "create") => users[j.target] = Absent

\* A target that is an active Manager now was one when it was loaded.
Fresh(step, j) ==
  (step # "new" /\ Demotes(j) /\ IsActiveManager(users[j.target])) => IsActiveManager(j.seen)

\* Whoever holds the lock knows another active Manager.
Reserve(j) == j.locked => \E u \in Users : u # j.target /\ IsActiveManager(users[u])

RequestOK(step, j) == JobOK(step, j) /\ Fresh(step, j) /\ Reserve(j)

OneHolder == \A r, q \in Requests : (r # q /\ job[r].locked) => ~job[q].locked

Managed ==
  /\ TypeOK /\ OneHolder /\ FinalActiveManager
  /\ \A r \in Requests : RequestOK(pc[r], job[r])

-----------------------------------------------------------------------------
\* The rows a request may write are rows.
LEMMA ChangedType ==
  ASSUME NEW j \in Job, NEW row \in User \cup {Absent}, j.kind \in Kinds,
         j.kind # "create" => row \in User
  PROVE  Changed(j, row) \in User
<1> USE DEF Changed, User
<1>1. \A role \in Roles : permissions_for_role(role) \in SUBSET Permissions
  BY DEF permissions_for_role, Permissions
<1>2. CASE j.kind = "create"
  BY <1>1, <1>2 DEF NewUser, Job
<1>3. CASE j.kind = "role"
  BY <1>1, <1>3 DEF Job
<1>4. CASE j.kind \in {"disable", "reactivate", "reset", "password", "recover"}
  BY <1>4
<1> QED
  BY <1>2, <1>3, <1>4 DEF Kinds

\* Where nobody is reinstated, a write makes an active Manager only of a new
\* user, and takes one away only by demotion or disablement.
LEMMA ChangedManagers ==
  ASSUME DemotionsOnly, NEW j \in Job, NEW row \in User \cup {Absent}, j.kind \in Operations,
         j.kind # "create" => row \in User, j.kind = "role" => j.role \in RequestedRoles
  PROVE  /\ j.kind # "create" /\ IsActiveManager(Changed(j, row)) => IsActiveManager(row)
         /\ j.kind # "create" /\ ~Demotes(j) /\ IsActiveManager(row)
              => IsActiveManager(Changed(j, row))
<1> USE DEF Changed, User, IsActiveManager, Demotes
<1>1. j.kind \in {"create", "role", "disable", "reset", "password"}
  BY KnownOperations DEF DemotionsOnly, Kinds
<1>2. CASE j.kind = "role"
  BY <1>2 DEF DemotionsOnly
<1>3. CASE j.kind = "disable"
  BY <1>3
<1>4. CASE j.kind \in {"reset", "password"}
  BY <1>4
<1> QED
  BY <1>1, <1>2, <1>3, <1>4

\* Two are more than one: whoever is taken away, another is left.
LEMMA AnotherOne ==
  ASSUME NEW S \in SUBSET Users, Cardinality(S) > 1, NEW t
  PROVE  \E u \in S : u # t
<1> SUFFICES ASSUME S \subseteq {t} PROVE FALSE
  OBVIOUS
<1>1. IsFiniteSet({t}) /\ Cardinality({t}) = 1
  BY FS_Singleton
<1>2. Cardinality(S) <= 1
  BY <1>1, FS_Subset
<1>3. Cardinality(S) \in Nat
  BY <1>1, FS_Subset, FS_CardinalityType
<1> QED
  BY <1>2, <1>3

LEMMA InitManaged == Init => Managed
<1> SUFFICES ASSUME Init PROVE Managed
  OBVIOUS
<1> USE DEF Init
<1>1. \A u \in Founders : users[u] \in User /\ IsActiveManager(users[u])
  BY FoundersExist
     DEF NewUser, User, Roles, permissions_for_role, Permissions, IsActiveManager
<1>2. IdleJob \in Job
  BY DEF IdleJob, Job, Roles
<1>3. TypeOK
  BY <1>1, <1>2, FoundersExist DEF TypeOK
<1>4. FinalActiveManager
  BY <1>1, FoundersExist DEF FinalActiveManager, ActiveManagers
<1>5. OneHolder
  BY DEF OneHolder, IdleJob
<1>6. \A r \in Requests : RequestOK(pc[r], job[r])
  BY DEF RequestOK, JobOK, Fresh, Reserve, IdleJob, NeedsGuard
<1> QED
  BY <1>3, <1>4, <1>5, <1>6 DEF Managed

\* A request that moves without committing.
LEMMA BecomeManaged ==
  ASSUME Managed, NEW r \in Requests, NEW step \in {"new", "loaded", "guarded", "replied"},
         NEW j \in Job, Become(r, step, j), RequestOK(step, j),
         j.locked => \A q \in Requests \ {r} : ~job[q].locked
  PROVE  Managed'
<1> USE DEF Become, Managed
<1>1. TypeOK'
  BY DEF TypeOK
<1>2. OneHolder'
  BY DEF OneHolder, TypeOK
<1>3. FinalActiveManager'
  BY DEF FinalActiveManager, ActiveManagers
<1>4. ASSUME NEW q \in Requests PROVE RequestOK(pc[q], job[q])'
  <2>1. CASE q = r
    BY <2>1 DEF TypeOK, RequestOK, JobOK, Fresh, Reserve
  <2>2. CASE q # r
    BY <2>2 DEF TypeOK, RequestOK, JobOK, Fresh, Reserve
  <2> QED
    BY <2>1, <2>2
<1> QED
  BY <1>1, <1>2, <1>3, <1>4

LEMMA EndManaged ==
  ASSUME Managed, NEW r \in Requests, End(r)
  PROVE  Managed'
<1>1. IdleJob \in Job /\ ~IdleJob.locked
  BY DEF IdleJob, Job, Roles
<1>2. RequestOK("new", IdleJob)
  BY DEF RequestOK, JobOK, Fresh, Reserve, IdleJob, NeedsGuard
<1> QED
  BY <1>1, <1>2, BecomeManaged DEF End

LEMMA LoadManaged ==
  ASSUME Managed, NEW r \in Requests, NEW kind \in Operations, NEW actor \in Users,
         NEW target \in Users, NEW role \in Roles, Load(r, kind, actor, target, role)
  PROVE  Managed'
<1> DEFINE seen == IF kind = "create" THEN Absent ELSE users[target]
           j == [kind |-> kind, target |-> target, role |-> role, seen |-> seen,
                 locked |-> FALSE]
<1>1. j \in Job
  BY KnownOperations DEF Managed, TypeOK, Job
<1>2. kind # "create" => users[target] # Absent
  BY KnownOperations DEF Load, Admitted, Kinds
<1>3. kind = "role" => role \in RequestedRoles
  BY DEF Load
<1>4. RequestOK("loaded", j)
  BY <1>2, <1>3 DEF RequestOK, JobOK, Fresh, Reserve, Demotes
<1>5. Become(r, "loaded", j)
  BY DEF Load
<1> HIDE DEF j
<1> QED
  BY <1>1, <1>4, <1>5, BecomeManaged DEF j

LEMMA GuardManaged ==
  ASSUME Managed, NEW r \in Requests, Guard(r)
  PROVE  Managed'
<1> DEFINE j == [job[r] EXCEPT !.locked = TRUE]
<1>1. CASE End(r)
  BY <1>1, EndManaged
<1>2. CASE Cardinality(ActiveManagers) > 1 /\ Become(r, "guarded", j)
  <2>1. RequestOK("loaded", job[r]) /\ job[r] \in Job /\ NeedsGuard(job[r])
    BY DEF Guard, Managed, TypeOK
  <2>2. j \in Job /\ j.kind = job[r].kind /\ j.target = job[r].target /\ j.role = job[r].role
        /\ j.seen = job[r].seen /\ j.locked
    BY <2>1 DEF Job
  <2> HIDE DEF j
  <2>3. \E u \in ActiveManagers : u # j.target
    BY <1>2, AnotherOne DEF ActiveManagers
  <2>4. RequestOK("guarded", j)
    BY <2>1, <2>2, <2>3
       DEF RequestOK, JobOK, Fresh, Reserve, Demotes, NeedsGuard, ActiveManagers
  <2>5. \A q \in Requests \ {r} : ~job[q].locked
    BY DEF Guard, LockFree
  <2> QED
    BY <1>2, <2>2, <2>4, <2>5, BecomeManaged
<1> QED
  BY <1>1, <1>2 DEF Guard

LEMMA WriteManaged ==
  ASSUME Managed, NEW r \in Requests, Write(r)
  PROVE  Managed'
<1> DEFINE j == job[r]
<1>1. CASE End(r)
  BY <1>1, EndManaged
<1>2. CASE /\ NeedsGuard(j) => pc[r] = "guarded"
           /\ ~Collides(j, users[j.target])
           /\ Become(r, "replied", j)
  <2>1. RequestOK(pc[r], j) /\ j \in Job /\ pc[r] \in {"loaded", "guarded"}
    BY DEF Write, Managed, TypeOK
  <2>2. j.locked => \A q \in Requests \ {r} : ~job[q].locked
    BY DEF Managed, OneHolder
  <2>3. RequestOK("replied", j)
    <3> HIDE DEF j
    <3> QED
      BY <1>2, <2>1 DEF RequestOK, JobOK, Fresh, Reserve, Collides
  <2> HIDE DEF j
  <2> QED
    BY <1>2, <2>1, <2>2, <2>3, BecomeManaged
<1> QED
  BY <1>1, <1>2 DEF Write

LEMMA CommitManaged ==
  ASSUME DemotionsOnly, Managed, NEW r \in Requests, Commit(r)
  PROVE  Managed'
<1> DEFINE j == job[r]
           t == j.target
           row == Changed(j, users[t])
<1>1. /\ RequestOK("replied", j) /\ j \in Job /\ j.kind \in Operations /\ t \in Users
      /\ pc[r] = "replied"
  BY DEF Commit, Managed, TypeOK, RequestOK, JobOK
<1>2. users[t] \in User \cup {Absent} /\ (j.kind # "create" <=> users[t] # Absent)
  BY <1>1 DEF Managed, TypeOK, RequestOK, JobOK
<1>3. row \in User
  BY <1>1, <1>2, KnownOperations, ChangedType
<1>4. /\ j.kind # "create" /\ IsActiveManager(row) => IsActiveManager(users[t])
      /\ j.kind # "create" /\ ~Demotes(j) /\ IsActiveManager(users[t]) => IsActiveManager(row)
  BY <1>1, <1>2, ChangedManagers DEF RequestOK, JobOK
<1>5. users' = [users EXCEPT ![t] = row]
  BY DEF Commit
<1>6. users'[t] = row /\ \A u \in Users : u # t => users'[u] = users[u]
  BY <1>1, <1>5 DEF Managed, TypeOK
<1>7. /\ pc'[r] = "new" /\ job'[r] = IdleJob
      /\ \A q \in Requests : q # r => pc'[q] = pc[q] /\ job'[q] = job[q]
  BY DEF Commit, Managed, TypeOK
<1>8. (IsActiveManager(users[t]) /\ ~IsActiveManager(row)) =>
        j.locked /\ \E u \in Users : u # t /\ IsActiveManager(users[u])
  <2> SUFFICES ASSUME IsActiveManager(users[t]), ~IsActiveManager(row)
               PROVE  j.locked /\ \E u \in Users : u # t /\ IsActiveManager(users[u])
    OBVIOUS
  <2>1. Demotes(j)
    BY <1>2, <1>4 DEF IsActiveManager, Absent
  <2>2. IsActiveManager(j.seen)
    BY <1>1, <2>1 DEF RequestOK, Fresh
  <2> HIDE DEF j
  <2> QED
    BY <1>1, <2>1, <2>2 DEF RequestOK, JobOK, Reserve, NeedsGuard, Demotes, t
<1>9. TypeOK'
  <2>1. IdleJob \in Job
    BY DEF IdleJob, Job, Roles
  <2> QED
    BY <1>3, <1>5, <2>1 DEF Commit, Managed, TypeOK
<1>10. FinalActiveManager'
  <2>1. PICK u \in Users : IsActiveManager(users[u])
    BY DEF Managed, FinalActiveManager, ActiveManagers
  <2>2. \E v \in Users : IsActiveManager(users'[v])
    <3> HIDE DEF row
    <3> QED
      BY <1>1, <1>6, <1>8, <2>1
  <2> QED
    BY <2>2 DEF FinalActiveManager, ActiveManagers, IsActiveManager
<1>11. OneHolder'
  BY <1>7 DEF Managed, OneHolder, IdleJob
<1>12. ASSUME NEW q \in Requests PROVE RequestOK(pc[q], job[q])'
  <2>1. CASE q = r
    BY <1>7, <2>1 DEF RequestOK, JobOK, Fresh, Reserve, IdleJob, NeedsGuard
  <2>2. CASE q # r
    <3>1. RequestOK(pc[q], job[q]) /\ pc'[q] = pc[q] /\ job'[q] = job[q]
      BY <1>7, <2>2 DEF Managed
    <3>2. (pc[q] = "replied" /\ job[q].kind = "create") => job[q].target # t
      BY <2>2 DEF Commit, RowFree, FlushedEarly
    <3>3. JobOK(pc[q], job[q])'
      <4>1. row # Absent
        BY <1>3 DEF User, Absent
      <4> HIDE DEF row, t
      <4> QED
        BY <1>6, <3>1, <3>2, <4>1 DEF RequestOK, JobOK, IdleJob
    <3>4. Fresh(pc[q], job[q])'
      <4> SUFFICES ASSUME pc[q] # "new", Demotes(job[q]),
                          IsActiveManager(users'[job[q].target])
                   PROVE  IsActiveManager(job[q].seen)
        BY <3>1 DEF Fresh, Demotes, IsActiveManager
      <4>1. job[q].target \in Users /\ users[job[q].target] # Absent
        BY <3>1 DEF RequestOK, JobOK, Demotes
      <4>2. IsActiveManager(users[job[q].target])
        <5> HIDE DEF row, t, j
        <5> QED
          BY <1>2, <1>4, <1>6, <4>1
      <4> QED
        BY <3>1, <4>2 DEF RequestOK, Fresh
    <3>5. Reserve(job[q])'
      <4> SUFFICES ASSUME job[q].locked
                   PROVE  \E u \in Users : u # job[q].target /\ IsActiveManager(users'[u])
        BY <3>1 DEF Reserve, IsActiveManager
      <4>1. ~j.locked
        BY <2>2 DEF Managed, OneHolder
      <4>2. PICK u \in Users : u # job[q].target /\ IsActiveManager(users[u])
        BY <3>1 DEF RequestOK, Reserve
      <4> HIDE DEF row, t, j
      <4> QED
        BY <1>6, <1>8, <4>1, <4>2
    <3> QED
      BY <3>3, <3>4, <3>5 DEF RequestOK
  <2> QED
    BY <2>1, <2>2
<1> QED
  BY <1>9, <1>10, <1>11, <1>12 DEF Managed

LEMMA NextManaged ==
  ASSUME DemotionsOnly, Managed, [Next]_vars
  PROVE  Managed'
<1>1. CASE UNCHANGED vars
  BY <1>1 DEF vars, Managed, TypeOK, OneHolder, FinalActiveManager, ActiveManagers,
              RequestOK, JobOK, Fresh, Reserve
<1>2. CASE Next
  BY <1>2, LoadManaged, GuardManaged, WriteManaged, CommitManaged, EndManaged
     DEF Next, Abort
<1> QED
  BY <1>1, <1>2

-----------------------------------------------------------------------------
\* ensure_not_final_active_manager under its advisory lock: concurrent demotions
\* and disablements, of any number of users by any number of administrators,
\* leave an active Manager, provided nobody is promoted or reinstated meanwhile.
THEOREM ManagerRemains ==
  ASSUME DemotionsOnly
  PROVE  Spec => []FinalActiveManager
<1>1. Managed /\ [Next]_vars => Managed'
  BY NextManaged
<1>2. Managed => FinalActiveManager
  BY DEF Managed
<1> QED
  BY InitManaged, <1>1, <1>2, PTL DEF Spec

-----------------------------------------------------------------------------
\* Types, for every operation, promotion, reactivation and recovery included.
Typed == TypeOK /\ \A r \in Requests : JobOK(pc[r], job[r])

LEMMA BecomeTyped ==
  ASSUME Typed, NEW r \in Requests, NEW step \in {"new", "loaded", "guarded", "replied"},
         NEW j \in Job, Become(r, step, j), JobOK(step, j)
  PROVE  Typed'
<1>1. TypeOK'
  BY DEF Become, Typed, TypeOK
<1>2. ASSUME NEW q \in Requests PROVE JobOK(pc[q], job[q])'
  <2>1. CASE q = r
    BY <2>1 DEF Become, Typed, TypeOK, JobOK
  <2>2. CASE q # r
    BY <2>2 DEF Become, Typed, TypeOK, JobOK
  <2> QED
    BY <2>1, <2>2
<1> QED
  BY <1>1, <1>2 DEF Typed

LEMMA EndTyped ==
  ASSUME Typed, NEW r \in Requests, End(r)
  PROVE  Typed'
<1>1. IdleJob \in Job /\ JobOK("new", IdleJob)
  BY DEF IdleJob, Job, Roles, JobOK, NeedsGuard
<1> QED
  BY <1>1, BecomeTyped DEF End

LEMMA LoadTyped ==
  ASSUME Typed, NEW r \in Requests, NEW kind \in Operations, NEW actor \in Users,
         NEW target \in Users, NEW role \in Roles, Load(r, kind, actor, target, role)
  PROVE  Typed'
<1> DEFINE seen == IF kind = "create" THEN Absent ELSE users[target]
           j == [kind |-> kind, target |-> target, role |-> role, seen |-> seen,
                 locked |-> FALSE]
<1>1. j \in Job
  BY KnownOperations DEF Typed, TypeOK, Job
<1>2. kind # "create" => users[target] # Absent
  BY KnownOperations DEF Load, Admitted, Kinds
<1>3. JobOK("loaded", j)
  BY <1>2 DEF Load, JobOK
<1>4. Become(r, "loaded", j)
  BY DEF Load
<1> HIDE DEF j
<1> QED
  BY <1>1, <1>3, <1>4, BecomeTyped

LEMMA GuardTyped ==
  ASSUME Typed, NEW r \in Requests, Guard(r)
  PROVE  Typed'
<1> DEFINE j == [job[r] EXCEPT !.locked = TRUE]
<1>1. JobOK("loaded", job[r]) /\ job[r] \in Job
  BY DEF Guard, Typed, TypeOK
<1>2. j \in Job /\ j.kind = job[r].kind /\ j.target = job[r].target /\ j.role = job[r].role
      /\ j.locked
  BY <1>1 DEF Job
<1> HIDE DEF j
<1>3. JobOK("guarded", j)
  BY <1>1, <1>2 DEF JobOK
<1>4. End(r) \/ Become(r, "guarded", j)
  BY DEF Guard, j
<1> QED
  BY <1>2, <1>3, <1>4, EndTyped, BecomeTyped

LEMMA WriteTyped ==
  ASSUME Typed, NEW r \in Requests, Write(r)
  PROVE  Typed'
<1> DEFINE j == job[r]
<1>1. CASE End(r)
  BY <1>1, EndTyped
<1>2. CASE /\ NeedsGuard(j) => pc[r] = "guarded"
           /\ ~Collides(j, users[j.target])
           /\ Become(r, "replied", j)
  <2>1. JobOK(pc[r], j) /\ j \in Job /\ pc[r] \in {"loaded", "guarded"}
    BY DEF Write, Typed, TypeOK
  <2> HIDE DEF j
  <2>2. JobOK("replied", j)
    BY <1>2, <2>1 DEF JobOK, Collides
  <2> QED
    BY <1>2, <2>1, <2>2, BecomeTyped
<1> QED
  BY <1>1, <1>2 DEF Write

\* A commit writes a whole row, and no other request was about to insert it.
LEMMA CommitTyped ==
  ASSUME Typed, NEW r \in Requests, Commit(r)
  PROVE  Typed'
<1> DEFINE j == job[r]
           t == j.target
           row == Changed(j, users[t])
<1>1. JobOK("replied", j) /\ j \in Job /\ j.kind \in Operations /\ t \in Users
  BY DEF Commit, Typed, TypeOK, JobOK
<1>2. users[t] \in User \cup {Absent} /\ (j.kind # "create" => users[t] # Absent)
  BY <1>1 DEF Typed, TypeOK, JobOK
<1>3. row \in User
  BY <1>1, <1>2, KnownOperations, ChangedType
<1>4. users' = [users EXCEPT ![t] = row]
  BY DEF Commit
<1>5. /\ pc'[r] = "new" /\ job'[r] = IdleJob
      /\ \A q \in Requests : q # r => pc'[q] = pc[q] /\ job'[q] = job[q]
  BY DEF Commit, Typed, TypeOK
<1>6. TypeOK'
  <2>1. IdleJob \in Job
    BY DEF IdleJob, Job, Roles
  <2> QED
    BY <1>3, <1>4, <2>1 DEF Commit, Typed, TypeOK
<1>7. ASSUME NEW q \in Requests PROVE JobOK(pc[q], job[q])'
  <2>1. CASE q = r
    BY <1>5, <2>1 DEF JobOK, IdleJob, NeedsGuard
  <2>2. CASE q # r
    <3>1. JobOK(pc[q], job[q]) /\ pc'[q] = pc[q] /\ job'[q] = job[q]
      BY <1>5, <2>2 DEF Typed
    <3>2. (pc[q] = "replied" /\ job[q].kind = "create") => job[q].target # t
      BY <2>2 DEF Commit, RowFree, FlushedEarly
    <3>3. users'[t] # Absent /\ \A u \in Users : u # t => users'[u] = users[u]
      BY <1>1, <1>3, <1>4 DEF Typed, TypeOK, User, Absent
    <3> HIDE DEF row, t
    <3> QED
      BY <3>1, <3>2, <3>3 DEF JobOK, IdleJob
  <2> QED
    BY <2>1, <2>2
<1> QED
  BY <1>6, <1>7 DEF Typed

\* Users, permission rows and what requests hold stay well typed through every
\* administrative operation: no commit leaves half a row behind.
THEOREM AdministrationTyped == Spec => []TypeOK
<1>1. Init => Typed
  BY InitManaged DEF Managed, Typed, RequestOK
<1>2. Typed /\ [Next]_vars => Typed'
  <2> SUFFICES ASSUME Typed, [Next]_vars PROVE Typed'
    OBVIOUS
  <2>1. CASE UNCHANGED vars
    BY <2>1 DEF vars, Typed, TypeOK, JobOK
  <2>2. CASE Next
    BY <2>2, LoadTyped, GuardTyped, WriteTyped, CommitTyped, EndTyped DEF Next, Abort
  <2> QED
    BY <2>1, <2>2
<1>3. Typed => TypeOK
  BY DEF Typed
<1> QED
  BY <1>1, <1>2, <1>3, PTL DEF Spec
=============================================================================
