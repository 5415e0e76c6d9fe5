------------------------- MODULE UserAdministration -------------------------
(***************************************************************************)
(* The administration of application users: role changes, disablement,     *)
(* reactivation, password resets, creation, and the operator's emergency   *)
(* recovery, as concurrent transactions at READ COMMITTED.                 *)
(*                                                                         *)
(* A handler loads its target without a lock (seen), judges what it        *)
(* loaded, and writes only the columns it changed.  Demotion and           *)
(* disablement of an active Manager take the advisory lock of the Manager  *)
(* invariant and count the committed active Managers.  A change of role    *)
(* replaces the permission rows that were loaded: rows in both the old and *)
(* the new set are left alone, the others are deleted or inserted.         *)
(*                                                                         *)
(* Sessions are not part of this module: any user who may administer can   *)
(* sign in and send a request, and revoking sessions changes no state here.*)
(***************************************************************************)
EXTENDS Naturals, FiniteSets

CONSTANTS
  Users,            \* application users, existing and to come
  Founders,         \* those who exist at the start, all of them Managers
  Requests,         \* request slots: each serves one request after another
  Operations,       \* the operations clients send
  RequestedRoles,   \* the roles asked for in role changes
  NoUser

Roles == {"manager", "supervisor", "worker"}
Kinds == {"create", "role", "disable", "reactivate", "reset", "password", "recover"}

ASSUME FoundersExist == Founders \subseteq Users /\ Founders # {}
ASSUME UsersFinite == IsFiniteSet(Users)
ASSUME KnownOperations == Operations \subseteq Kinds /\ RequestedRoles \subseteq Roles
ASSUME NoUserIsNoUser == NoUser \notin Users

\* Slip: a permission the table's check does not know.
permissions_for_role_Unknown(role) ==
  {"status"} \cup (IF role = "worker" THEN {} ELSE {"fields"})

\* ROLE_PERMISSIONS: what each role adds to the one below it.
permissions_for_role(role) ==
  {"status"} \cup (IF role = "worker" THEN {} ELSE {"field"})
             \cup (IF role = "manager" THEN {"admin"} ELSE {})

Permissions == {"status", "field", "admin"}

User == [status: {"active", "disabled"}, role: Roles, mustChange: BOOLEAN,
         permissions: SUBSET Permissions]
Absent == [status |-> "absent"]

Job == [kind: Kinds \cup {"none"}, target: Users \cup {NoUser}, role: Roles,
        seen: User \cup {Absent}, locked: BOOLEAN]

VARIABLES
  users,   \* the committed users with their permission rows
  pc,      \* where each request is
  job      \* what it was asked and has loaded

vars == <<users, pc, job>>

IdleJob == [kind |-> "none", target |-> NoUser, role |-> "worker", seen |-> Absent,
            locked |-> FALSE]

IsActiveManager(row) == row.status = "active" /\ row.role = "manager"
ActiveManagers == {u \in Users : IsActiveManager(users[u])}

\* require_authenticated_user and require_permission.
MayAdminister(u) ==
  /\ users[u].status = "active" /\ ~users[u].mustChange
  /\ "admin" \in users[u].permissions

NewUser(role) == [status |-> "active", role |-> role, mustChange |-> TRUE,
                  permissions |-> permissions_for_role(role)]

-----------------------------------------------------------------------------
\* Slip: nobody waits for the invariant lock.
LockFree_NotTaken(r) == r \in Requests

\* lock_manager_invariant: the advisory lock, held to the transaction's end.
LockFree(r) == ~\E q \in Requests \ {r} : job[q].locked

\* Users whose row a request changes before it answers: the change is flushed by
\* the statement that follows it.  The status is flushed only by the commit.
FlushedEarly(kind) == kind \in {"create", "role", "reset", "password", "recover"}

RowFree(r, u) ==
  ~\E q \in Requests \ {r} :
     pc[q] = "replied" /\ job[q].target = u /\ FlushedEarly(job[q].kind)

\* The equal-role and equal-status returns.
NothingToDo(j) ==
  \/ j.kind = "role" /\ j.seen.role = j.role
  \/ j.kind = "disable" /\ j.seen.status = "disabled"
  \/ j.kind = "reactivate" /\ j.seen.status = "active"

\* ensure_not_final_active_manager returns early for anybody else.
NeedsGuard(j) == j.kind \in {"role", "disable"} /\ IsActiveManager(j.seen)

\* What a request writes over the row as it is committed by then; a column is
\* written if it differs from what was loaded.
Changed(j, row) ==
  CASE j.kind = "create" -> NewUser(j.role)
    [] j.kind = "role" ->
         [row EXCEPT !.role = j.role,
            !.permissions =
              (row.permissions \ (j.seen.permissions \ permissions_for_role(j.role)))
                \cup (permissions_for_role(j.role) \ j.seen.permissions)]
    [] j.kind = "disable" -> [row EXCEPT !.status = "disabled"]
    [] j.kind = "reactivate" -> [row EXCEPT !.status = "active"]
    [] j.kind = "reset" -> [row EXCEPT !.mustChange = j.seen.mustChange => row.mustChange]
    [] j.kind = "password" ->
         [row EXCEPT !.mustChange = ~j.seen.mustChange /\ row.mustChange]
    [] j.kind = "recover" ->
         [row EXCEPT !.mustChange = j.seen.mustChange => row.mustChange,
                     !.status = IF j.seen.status = "active" THEN row.status ELSE "active"]

\* The insertion of a row somebody else has inserted: an IntegrityError.
Collides(j, row) ==
  \/ j.kind = "create" /\ row # Absent
  \/ /\ j.kind = "role"
     /\ (permissions_for_role(j.role) \ j.seen.permissions) \cap row.permissions # {}

-----------------------------------------------------------------------------
\* The first user was bootstrapped and has created the other founders.
Init ==
  /\ users = [u \in Users |->
       IF u \in Founders THEN [NewUser("manager") EXCEPT !.mustChange = FALSE] ELSE Absent]
  /\ pc = [r \in Requests |-> "new"]
  /\ job = [r \in Requests |-> IdleJob]

Become(r, step, j) ==
  /\ pc' = [pc EXCEPT ![r] = step]
  /\ job' = [job EXCEPT ![r] = j]
  /\ UNCHANGED users

End(r) == Become(r, "new", IdleJob)

\* Who may send what: the operator's recovery needs no session, the change of
\* one's own password no permission, anything else those of a Manager.
Admitted(kind, actor, target) ==
  CASE kind = "recover" -> users[target] # Absent /\ users[target].role = "manager"
    [] kind = "password" -> actor = target /\ users[actor].status = "active"
    [] kind = "create" -> MayAdminister(actor)
    [] OTHER -> MayAdminister(actor) /\ users[target] # Absent

\* Authentication, and load_user without a lock; create_user loads nothing.
Load(r, kind, actor, target, role) ==
  /\ pc[r] = "new" /\ users[actor] # Absent
  /\ Admitted(kind, actor, target)
  /\ CASE kind = "role" -> role \in RequestedRoles
       [] kind = "create" -> TRUE
       [] OTHER -> role = "worker"          \* no role is asked for
  /\ Become(r, "loaded",
       [kind |-> kind, target |-> target, role |-> role,
        seen |-> IF kind = "create" THEN Absent ELSE users[target], locked |-> FALSE])

\* ensure_not_final_active_manager.
Guard(r) ==
  /\ pc[r] = "loaded" /\ ~NothingToDo(job[r]) /\ NeedsGuard(job[r])
  /\ LockFree(r)
  /\ \/ Cardinality(ActiveManagers) <= 1 /\ End(r)
     \/ /\ Cardinality(ActiveManagers) > 1
        /\ Become(r, "guarded", [job[r] EXCEPT !.locked = TRUE])

\* change_role, set_account_status, reset_password, create_user, recover_manager
\* and change_own_password up to the answer.
Write(r) ==
  /\ pc[r] \in {"loaded", "guarded"}
  /\ LET j == job[r] IN
     \/ NothingToDo(j) /\ End(r)
     \/ /\ ~NothingToDo(j)
        /\ NeedsGuard(j) => pc[r] = "guarded"
        /\ FlushedEarly(j.kind) => RowFree(r, j.target)
        /\ \/ Collides(j, users[j.target]) /\ End(r)
           \/ ~Collides(j, users[j.target]) /\ Become(r, "replied", j)

Commit(r) ==
  /\ pc[r] = "replied" /\ RowFree(r, job[r].target)
  /\ users' = [users EXCEPT ![job[r].target] = Changed(job[r], @)]
  /\ pc' = [pc EXCEPT ![r] = "new"]
  /\ job' = [job EXCEPT ![r] = IdleJob]

\* A refusal before anything is written (recent authentication, a password), a
\* deadlock victim, a crash: the transaction rolls back.
Abort(r) == pc[r] \in {"loaded", "guarded", "replied"} /\ End(r)

Next ==
  \E r \in Requests :
    \/ \E kind \in Operations, actor, target \in Users, role \in Roles :
         Load(r, kind, actor, target, role)
    \/ Guard(r) \/ Write(r) \/ Commit(r) \/ Abort(r)

Spec == Init /\ [][Next]_vars

-----------------------------------------------------------------------------
TypeOK ==
  /\ users \in [Users -> User \cup {Absent}]
  /\ pc \in [Requests -> {"new", "loaded", "guarded", "replied"}]
  /\ job \in [Requests -> Job]

\* Concurrent administrators cannot leave the system without an active Manager.
FinalActiveManager == ActiveManagers # {}

\* The permission rows of a user are those of the user's role.
RolePermissionsAgree ==
  \A u \in Users : users[u] # Absent =>
    users[u].permissions = permissions_for_role(users[u].role)
=============================================================================
