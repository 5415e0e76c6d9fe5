-------------------------- MODULE AttendanceServer --------------------------
(***************************************************************************)
(* The attendance half of the API, one PostgreSQL transaction per HTTP     *)
(* request (db/session.py), at READ COMMITTED.  A request is a one-shot    *)
(* transaction: it waits for locks, reads what is committed at that        *)
(* moment, stages its writes, answers the client, and commits afterwards   *)
(* (the database session is a generator dependency, closed by the          *)
(* framework once the response has been sent).                             *)
(*                                                                         *)
(* Offline submissions arrive through ingest_sync_operation, which reads   *)
(* the session row BEFORE it locks it.  SQLAlchemy's identity map makes    *)
(* the later SELECT ... FOR UPDATE wait for the row but hand back the      *)
(* object loaded earlier, so its status and version are those of the       *)
(* unlocked read: the field seen of a request's job.                       *)
(*                                                                         *)
(* Online requests (draft save, submission, discard, correction) read the  *)
(* row for the first time under its lock.                                  *)
(***************************************************************************)
EXTENDS Naturals, FiniteSets

CONSTANTS
  Users,            \* authenticated users holding attendance.record and .correct
  Workers,          \* registered Workers (never deleted)
  Marks,            \* attendance values of an entry: status with its times
  Unmarked,         \* an entry whose attendance_status is NULL
  Unlisted,         \* a Worker who is not on the roster
  Dates,            \* attendance dates
  OnlineIds,        \* session UUIDs drawn by the server
  DeviceIds,        \* session UUIDs drawn by an offline device
  Ops,              \* operation UUIDs of offline submissions
  PayloadVersions,  \* payload versions that devices in the field send
  RosterInputs,     \* the rosters clients type in
  Leavers,          \* bound: the Workers whose status changes
  Requests,         \* request slots: each serves one HTTP request
  NoUser, NoOp, NoRequest

SessionIds == OnlineIds \cup DeviceIds
Entries    == Marks \cup {Unmarked}
Rosters    == [Workers -> Entries \cup {Unlisted}]
EmptyRoster == [w \in Workers |-> Unlisted]

Listed(roster) == {w \in Workers : roster[w] # Unlisted}

ASSUME ConstantsAreDistinct ==
  /\ NoUser \notin Users
  /\ NoOp \notin Ops
  /\ NoRequest \notin Requests
  /\ Unlisted \notin Entries /\ Unmarked \notin Marks
  /\ OnlineIds \cap DeviceIds = {}
ASSUME SomeSession == SessionIds # {}
ASSUME InputsAreRosters == RosterInputs \subseteq Rosters
ASSUME LeaversAreWorkers == Leavers \subseteq Workers
ASSUME PayloadVersionsArePositive == PayloadVersions \subseteq Nat \ {0}

SUPPORTED_PAYLOAD_VERSION == 1

-----------------------------------------------------------------------------
(* Rows.  edits is the version of each entry; a NULL fingerprint is {}.    *)

Row == [status: {"draft", "submitted"}, version: Nat \ {0}, creator: Users,
        submitter: Users \cup {NoUser}, date: Dates, roster: Rosters,
        edits: [Workers -> Nat], fingerprint: SUBSET Workers]

\* ck_attendance_sessions_submission_state
SubmissionState(row) ==
  \/ row.status = "draft" /\ row.submitter = NoUser /\ row.fingerprint = {}
  \/ row.status = "submitted" /\ row.submitter # NoUser /\ row.fingerprint # {}

Absent  == [status |-> "absent"]        \* no such row
Nothing == [status |-> "nothing"]       \* a request that writes no row

Payload == [target: SessionIds, base: Nat, date: Dates, roster: Rosters,
            payloadVersion: PayloadVersions]
NotQueued == [payloadVersion |-> 0]
NoBase    == 0                          \* base_server_version is null

SyncResults == {"applied", "already_applied", "conflict", "rejected"}
Receipt   == [actor: Users, result: SyncResults]
NoReceipt == [result |-> "none"]

Event == [action: {"created", "submitted", "corrected", "discarded"},
          session: SessionIds, user: Users, op: Ops \cup {NoOp},
          request: Requests \cup {NoRequest}, fingerprint: SUBSET Workers]

Job == [user: Users \cup {NoUser}, op: Ops \cup {NoOp}, session: SessionIds,
        seen: Row \cup {Absent}, write: Row \cup {Absent, Nothing},
        events: SUBSET Event, store: BOOLEAN,
        result: SyncResults \cup {"none", "ok", "refused"}]

VARIABLES
  sessions,   \* attendance_sessions with their entries: the committed rows
  receipts,   \* attendance_sync_operations: the committed receipts
  audit,      \* operational_audit_events: the committed events
  active,     \* the Workers whose status is active
  queued,     \* what each operation holds in some device's outbox
  pc,         \* where each request is
  job         \* what each request has read and staged

vars == <<sessions, receipts, audit, active, queued, pc, job>>

Exists(s) == sessions[s].status # "absent"
InFlight(r) == pc[r] \in {"apply", "flush", "replied"}

NewJob(u, op, s) ==
  [user |-> u, op |-> op, session |-> s, seen |-> Absent, write |-> Nothing,
   events |-> {}, store |-> FALSE, result |-> "none"]

IdleJob == NewJob(NoUser, NoOp, CHOOSE s \in SessionIds : TRUE)

EventOf(r, action, fp) ==
  [action |-> action, session |-> job[r].session, user |-> job[r].user,
   op |-> job[r].op, request |-> r, fingerprint |-> fp]

-----------------------------------------------------------------------------
(* Locks, derived from what the requests in flight hold.                   *)

\* Slip: the advisory lock is not taken.
AdvisoryFree_NotTaken(op) == op \in Ops

\* pg_advisory_xact_lock on the operation id, held to the transaction's end.
AdvisoryFree(op) == ~\E q \in Requests : InFlight(q) /\ job[q].op = op

\* Slip: rows are read without FOR UPDATE.
RowFree_Unlocked(r, s) == r \in Requests /\ s \in SessionIds

\* The row lock (or uncommitted insertion of the same primary key) on s.
HoldsRow(q, s) == job[q].session = s /\ job[q].write # Nothing

RowFree(r, s) == ~\E q \in Requests \ {r} : HoldsRow(q, s)

\* (date, fingerprint) of a submitted row: uq_attendance_submitted_population.
HasKey(row, date, fp) ==
  row.status = "submitted" /\ row.date = date /\ row.fingerprint = fp

\* Slip: uniqueness is decided on committed rows alone, as a SELECT would.
KeyBusy_CommittedOnly(r, date, fp) == FALSE

\* Slip: submissions of one date wait for each other.
HoldsKey_OneDate(q, date, fp) == job[q].write # Nothing /\ job[q].write # Absent

\* An index entry that q has made, or taken away from a submitted row, and not yet
\* committed: an inserter of the same entry waits for q before it decides.
HoldsKey(q, date, fp) ==
  \/ /\ \E e \in job[q].events : e.action = "submitted"
     /\ HasKey(job[q].write, date, fp)
  \/ /\ job[q].op # NoOp /\ job[q].write # Nothing
     /\ HasKey(sessions[job[q].session], date, fp)

KeyBusy(r, date, fp) == \E q \in Requests \ {r} : HoldsKey(q, date, fp)

\* What a request that holds a lock, or is about to take the row's, waits for.  The
\* advisory lock comes first, before a request holds anything.
WaitsFor(r, q) ==
  /\ r # q
  /\ \/ /\ pc[r] = "apply" /\ HoldsRow(q, job[r].session)
        /\ job[r].seen = Absent \/ Exists(job[r].session)
     \/ /\ pc[r] = "flush"
        /\ HoldsKey(q, job[r].write.date, Listed(job[r].write.roster))

\* Requests each of which waits for one of them, and the least such sets.
Blocked(C) == C # {} /\ \A r \in C : \E q \in C : WaitsFor(r, q)
Circle(C)  == Blocked(C) /\ \A D \in SUBSET C : Blocked(D) => D = C

DuplicateKey(s, date, fp) ==
  \E t \in SessionIds \ {s} : HasKey(sessions[t], date, fp)

-----------------------------------------------------------------------------
(* The domain functions of attendance/service.py, on row values.           *)

NewDraft(u, date) ==
  [status |-> "draft", version |-> 1, creator |-> u, submitter |-> NoUser,
   date |-> date, roster |-> EmptyRoster, edits |-> [w \in Workers |-> 1],
   fingerprint |-> {}]

NewlyAddsInactive(current, requested) ==
  \E w \in Listed(requested) : w \notin active /\ w \notin Listed(current)

\* update_draft: "conflict" is HTTP 409.  seen is the object's own state, held
\* the row whose entries it loads.  Duplicate and unregistered Workers (422)
\* cannot be expressed: a roster is a function on the register.
DraftRefusal(seen, expected, held, requested) ==
  IF \/ seen.status # "draft"
     \/ seen.version # expected
     \/ NewlyAddsInactive(held.roster, requested)
  THEN "conflict" ELSE "none"

UpdatedDraft(held, version, requested) ==
  [held EXCEPT !.version = version, !.roster = requested,
               !.edits = [w \in Workers |-> 1]]

\* Slip: unmarked entries are not looked for.
SubmitRefusal_UnmarkedAllowed(roster) ==
  IF Listed(roster) = {} THEN "rejected"
  ELSE IF ~(Listed(roster) \subseteq active) THEN "conflict" ELSE "none"

\* submit_session: empty and unmarked rosters are HTTP 422, an inactive Worker 409.
SubmitRefusal(roster) ==
  IF Listed(roster) = {} \/ \E w \in Workers : roster[w] = Unmarked
  THEN "rejected"
  ELSE IF ~(Listed(roster) \subseteq active) THEN "conflict" ELSE "none"

\* Slip: the fingerprint is not stored with the submission.
Submitted_NoFingerprint(row, u) ==
  [row EXCEPT !.status = "submitted", !.submitter = u, !.version = row.version + 1]

Submitted(row, u) ==
  [row EXCEPT !.status = "submitted", !.submitter = u,
              !.fingerprint = Listed(row.roster), !.version = row.version + 1]

\* correct_entry: the entry's version moves, the session's does not.
Corrected(row, w, mark) ==
  [row EXCEPT !.roster[w] = mark, !.edits[w] = row.edits[w] + 1]

SameSnapshot(row, p) == row.date = p.date /\ row.roster = p.roster

-----------------------------------------------------------------------------
Init ==
  /\ sessions = [s \in SessionIds |-> Absent]
  /\ receipts = [op \in Ops |-> NoReceipt]
  /\ audit = {}
  /\ active = Workers
  /\ queued = [op \in Ops |-> NotQueued]
  /\ pc = [r \in Requests |-> "new"]
  /\ job = [r \in Requests |-> IdleJob]

(***************************************************************************)
(* The environment: what devices queue, and the Worker register.           *)
(***************************************************************************)

\* A device queues a submission: of a draft it took from the server, with the
\* version it saw, or of a session it opened itself under a fresh UUID.
QueueOp(op, s, date, roster, pv) ==
  /\ queued[op] = NotQueued
  /\ roster \in RosterInputs
  /\ \/ s \in DeviceIds /\ \A o \in Ops : queued[o] # NotQueued => queued[o].target # s
     \/ Exists(s) /\ sessions[s].status = "draft" /\ date = sessions[s].date
  /\ queued' = [queued EXCEPT ![op] =
       [target |-> s, base |-> IF Exists(s) THEN sessions[s].version ELSE NoBase,
        date |-> date, roster |-> roster, payloadVersion |-> pv]]
  /\ UNCHANGED <<sessions, receipts, audit, active, pc, job>>

\* Deactivation and reactivation of a Worker; equal status is a no-op.
SetWorkerStatus(w) ==
  /\ active' = IF w \in active THEN active \ {w} ELSE active \cup {w}
  /\ UNCHANGED <<sessions, receipts, audit, queued, pc, job>>

\* start_session: nobody knows the new id until the insertion commits.
StartSession(s, u, date) ==
  /\ s \in OnlineIds /\ ~Exists(s)
  /\ \A e \in audit : e.session # s
  /\ \A op \in Ops : queued[op] # NotQueued => queued[op].target # s
  /\ sessions' = [sessions EXCEPT ![s] = NewDraft(u, date)]
  /\ audit' = audit \cup {[action |-> "created", session |-> s, user |-> u, op |-> NoOp,
                           request |-> NoRequest, fingerprint |-> {}]}
  /\ UNCHANGED <<receipts, active, queued, pc, job>>

(***************************************************************************)
(* Ends of a request.                                                      *)
(***************************************************************************)
Become(r, step, j) ==
  /\ pc' = [pc EXCEPT ![r] = step]
  /\ job' = [job EXCEPT ![r] = j]
  /\ UNCHANGED <<sessions, receipts, audit, active, queued>>

\* An HTTPException leaves the handler: the transaction rolls back.
Refuse(r) == Become(r, "failed", [IdleJob EXCEPT !.result = "refused"])

\* What remains of a request once its transaction is over: what it answered.
Answer(j) == [IdleJob EXCEPT !.user = j.user, !.op = j.op, !.result = j.result]

Commit(r) ==
  /\ pc[r] = "replied"
  /\ sessions' = IF job[r].write = Nothing THEN sessions
                 ELSE [sessions EXCEPT ![job[r].session] = job[r].write]
  /\ receipts' = IF job[r].store
                 THEN [receipts EXCEPT ![job[r].op] =
                         [actor |-> job[r].user, result |-> job[r].result]]
                 ELSE receipts
  /\ audit' = audit \cup job[r].events
  /\ pc' = [pc EXCEPT ![r] = "done"]
  /\ job' = [job EXCEPT ![r] = Answer(job[r])]
  /\ UNCHANGED <<active, queued>>

\* The process, the connection or the COMMIT itself fails, or the database ends a
\* request of a deadlock: nothing is kept.
Abort(r) == InFlight(r) /\ Become(r, "failed", Answer(job[r]))

(***************************************************************************)
(* POST /attendance-sessions/sync: ingest_sync_operation.                  *)
(***************************************************************************)

\* The early returns between the receipt lookup and the savepoint.
IngestPrecheck(u, p, row) ==
  IF p.payloadVersion # SUPPORTED_PAYLOAD_VERSION THEN "rejected"
  ELSE IF row.status = "absent" THEN "none"
  ELSE IF row.creator # u THEN "conflict"
  ELSE IF row.status = "submitted"
       THEN IF SameSnapshot(row, p) THEN "already_applied" ELSE "conflict"
  ELSE IF row.version # p.base THEN "conflict" ELSE "none"

\* Slip: the receipt's actor is not compared.
Replay_AnyActor(receipt, u) ==
  IF receipt.result = "applied" THEN "already_applied" ELSE receipt.result

\* _response_from_stored and the owner check before it.
Replay(receipt, u) ==
  IF receipt.actor # u THEN "rejected"
  ELSE IF receipt.result = "applied" THEN "already_applied" ELSE receipt.result

\* Slip: the audit events are recorded outside the savepoint and survive it.
StoreResult_AuditKept(j, result) ==
  [j EXCEPT !.result = result, !.store = TRUE, !.write = Nothing, !.seen = Absent]

\* A response that is stored as the operation's receipt; the savepoint, if one
\* was open, has been rolled back, and its row lock with it.
StoreResult(j, result) ==
  [j EXCEPT !.result = result, !.store = TRUE, !.write = Nothing, !.events = {},
            !.seen = Absent]

\* Advisory lock, receipt lookup, and the unlocked read of the session.
IngestBegin(r, u, op) ==
  /\ pc[r] = "new" /\ queued[op] # NotQueued
  /\ AdvisoryFree(op)
  /\ LET p   == queued[op]
         row == sessions[p.target]
         j   == NewJob(u, op, p.target)
         pre == IngestPrecheck(u, p, row)
     IN \/ /\ receipts[op] # NoReceipt
           /\ Become(r, "replied", [j EXCEPT !.result = Replay(receipts[op], u)])
        \/ /\ receipts[op] = NoReceipt /\ pre # "none"
           /\ Become(r, "replied", StoreResult(j, pre))
        \/ /\ receipts[op] = NoReceipt /\ pre = "none"
           /\ Become(r, "apply", [j EXCEPT !.seen = row])

\* The savepoint up to the flush of update_draft and the checks of
\* submit_session.  seen absent: create_draft inserts the row, and a row that
\* has appeared meanwhile is an IntegrityError.  seen present: the row is
\* locked, and one deleted meanwhile is a 404.
IngestApply(r) ==
  /\ pc[r] = "apply"
  /\ LET j      == job[r]
         s      == j.session
         p      == queued[j.op]
         insert == j.seen = Absent
         held   == IF insert THEN NewDraft(j.user, p.date) ELSE sessions[s]
         object == IF insert THEN held ELSE j.seen
         events == IF insert THEN {EventOf(r, "created", {})} ELSE {}
         draft  == DraftRefusal(object, object.version, held, p.roster)
         submit == SubmitRefusal(p.roster)
     IN \/ /\ insert /\ Exists(s) /\ RowFree(r, s)
           /\ Become(r, "replied", StoreResult(j, "conflict"))
        \/ /\ ~insert /\ ~Exists(s)
           /\ Become(r, "replied", StoreResult(j, "rejected"))
        \/ /\ insert # Exists(s) /\ RowFree(r, s)
           /\ \/ /\ draft # "none"
                 /\ Become(r, "replied", StoreResult(j, draft))
              \/ /\ draft = "none" /\ submit # "none"
                 /\ Become(r, "replied", StoreResult(j, submit))
              \/ /\ draft = "none" /\ submit = "none"
                 /\ Become(r, "flush",
                      [j EXCEPT !.events = events, !.seen = Absent,
                         !.write = UpdatedDraft(held, object.version + 1, p.roster)])

\* The flush that makes the row submitted, for an offline or online submission
\* alike: it waits for whoever is changing the same index entry.
FlushSubmission(r) ==
  /\ pc[r] = "flush"
  /\ LET j    == job[r]
         fp   == Listed(j.write.roster)
         dup  == DuplicateKey(j.session, j.write.date, fp)
         sync == j.op # NoOp
     IN /\ ~KeyBusy(r, j.write.date, fp)
        /\ \/ dup /\ sync /\ Become(r, "replied", StoreResult(j, "conflict"))
           \/ dup /\ ~sync /\ Refuse(r)
           \/ /\ ~dup
              /\ Become(r, "replied",
                   [j EXCEPT !.write = Submitted(j.write, j.user), !.store = sync,
                      !.result = IF sync THEN "applied" ELSE "ok",
                      !.events = j.events \cup {EventOf(r, "submitted", fp)}])

(***************************************************************************)
(* Online requests.  Each reads the row for the first time under its lock. *)
(***************************************************************************)

\* A handler that has written under the row lock answers and still holds it.
Stage(r, j, write, events) ==
  Become(r, "replied", [j EXCEPT !.write = write, !.events = events, !.result = "ok"])

OnlineEvent(r, u, s, action) ==
  {[action |-> action, session |-> s, user |-> u, op |-> NoOp, request |-> r,
    fingerprint |-> {}]}

\* save_draft, for a client that last saw version expected.
SaveDraft(r, u, s, expected, roster) ==
  /\ pc[r] = "new" /\ Exists(s) /\ RowFree(r, s)
  /\ LET row     == sessions[s]
         refusal == DraftRefusal(row, expected, row, roster)
     IN \/ refusal # "none" /\ Refuse(r)
        \/ /\ refusal = "none"
           /\ Stage(r, NewJob(u, NoOp, s), UpdatedDraft(row, row.version + 1, roster), {})

\* submit: a session already submitted is returned as it is.
SubmitOnline(r, u, s) ==
  /\ pc[r] = "new" /\ Exists(s) /\ RowFree(r, s)
  /\ LET row     == sessions[s]
         refusal == SubmitRefusal(row.roster)
         j       == NewJob(u, NoOp, s)
     IN \/ /\ row.status = "submitted"
           /\ Become(r, "done", [IdleJob EXCEPT !.result = "ok"])
        \/ row.status = "draft" /\ refusal # "none" /\ Refuse(r)
        \/ /\ row.status = "draft" /\ refusal = "none"
           /\ Become(r, "flush", [j EXCEPT !.write = row])

\* discard: only a draft; its entries go with it.
Discard(r, u, s) ==
  /\ pc[r] = "new" /\ Exists(s) /\ RowFree(r, s)
  /\ \/ sessions[s].status # "draft" /\ Refuse(r)
     \/ /\ sessions[s].status = "draft"
        /\ Stage(r, NewJob(u, NoOp, s), Absent, OnlineEvent(r, u, s, "discarded"))

\* correct_entry, for a client that last saw entry version expected.
CorrectEntry(r, u, s, w, expected, mark) ==
  /\ pc[r] = "new" /\ Exists(s) /\ RowFree(r, s)
  /\ w \in Listed(sessions[s].roster)
  /\ LET row == sessions[s]
         ok  == row.status = "submitted" /\ row.edits[w] = expected
     IN \/ ~ok /\ Refuse(r)
        \/ /\ ok
           /\ Stage(r, NewJob(u, NoOp, s), Corrected(row, w, mark),
                OnlineEvent(r, u, s, "corrected"))

\* 404: load_session finds no row.
OnlineNotFound(r, s) == pc[r] = "new" /\ ~Exists(s) /\ Refuse(r)

-----------------------------------------------------------------------------
Environment ==
  \/ \E op \in Ops, s \in SessionIds, d \in Dates, ro \in RosterInputs, pv \in PayloadVersions :
       QueueOp(op, s, d, ro, pv)
  \/ \E w \in Leavers : SetWorkerStatus(w)
  \/ \E s \in SessionIds, u \in Users, d \in Dates : StartSession(s, u, d)

\* The versions some client may have seen of a row or of an entry.
SeenVersions(s) == IF Exists(s) THEN 1..sessions[s].version ELSE {}
SeenEdits(s, w) == IF Exists(s) THEN 1..sessions[s].edits[w] ELSE {}

OnlineRequest(r) ==
  \E u \in Users, s \in SessionIds :
    \/ \E ro \in RosterInputs : \E v \in SeenVersions(s) : SaveDraft(r, u, s, v, ro)
    \/ SubmitOnline(r, u, s)
    \/ Discard(r, u, s)
    \/ \E w \in Workers, m \in Marks : \E v \in SeenEdits(s, w) :
         CorrectEntry(r, u, s, w, v, m)
    \/ OnlineNotFound(r, s)

\* What the server does on its own once a request has been received.
Progress(r) == IngestApply(r) \/ FlushSubmission(r) \/ Commit(r)

Next ==
  \/ Environment
  \/ \E r \in Requests :
       \/ \E u \in Users, op \in Ops : IngestBegin(r, u, op)
       \/ OnlineRequest(r)
       \/ Progress(r)
       \/ Abort(r)

Spec == Init /\ [][Next]_vars

-----------------------------------------------------------------------------
TypeOK ==
  /\ sessions \in [SessionIds -> Row \cup {Absent}]
  /\ \A s \in SessionIds : Exists(s) => SubmissionState(sessions[s])
  /\ receipts \in [Ops -> Receipt \cup {NoReceipt}]
  /\ audit \subseteq Event
  /\ active \subseteq Workers
  /\ queued \in [Ops -> Payload \cup {NotQueued}]
  /\ pc \in [Requests -> {"new", "apply", "flush", "replied", "done", "failed"}]
  /\ job \in [Requests -> Job]

(***************************************************************************)
(* Safety.                                                                 *)
(***************************************************************************)

\* Transport idempotency: however often an operation is sent, over however many
\* concurrent requests, exactly one submission is audited if its receipt says
\* applied, and an operation that was not applied left no trace at all.
OneFactPerOperation ==
  \A op \in Ops :
    LET trace == {e \in audit : e.op = op}
    IN IF receipts[op].result = "applied"
       THEN \E e \in trace : {x \in trace : x.action = "submitted"} = {e}
       ELSE trace = {}

\* The receipts, the audit trail and the committed answers together implement
\* exactly-once operations: one decision per operation, replayed ever after.
ExactlyOnce == INSTANCE ExactlyOnceOperations WITH
  outcome <- receipts,
  facts   <- {op \in Ops : \E e \in audit : e.op = op /\ e.action = "submitted"},
  answers <- {<<job[r].op, job[r].user, job[r].result>> :
                r \in {q \in Requests : pc[q] = "done" /\ job[q].op # NoOp}}
ImplementsExactlyOnce == ExactlyOnce!Spec

\* No two submitted sessions of one date have the same Workers on their rosters.
UniquePopulation ==
  \A s, t \in SessionIds :
    (/\ s # t /\ sessions[s].status = "submitted" /\ sessions[t].status = "submitted"
     /\ sessions[s].date = sessions[t].date)
    => Listed(sessions[s].roster) # Listed(sessions[t].roster)

\* A submitted session is complete, and its submitter has an audited submission
\* of exactly this population.
SubmittedIsAccounted ==
  \A s \in SessionIds : LET row == sessions[s] IN
    row.status = "submitted" =>
      /\ Listed(row.roster) # {} /\ \A w \in Workers : row.roster[w] # Unmarked
      /\ \E e \in audit : /\ e.action = "submitted" /\ e.session = s
                          /\ e.user = row.submitter /\ e.fingerprint = Listed(row.roster)

\* The audit trail accounts for every row: created once more than discarded
\* exactly while the row exists.
AuditBalances ==
  \A s \in SessionIds :
    Cardinality({e \in audit : e.session = s /\ e.action = "created"}) =
    Cardinality({e \in audit : e.session = s /\ e.action = "discarded"})
      + (IF Exists(s) THEN 1 ELSE 0)

\* Submission is final: a submitted session is never deleted, reopened, moved to
\* another date or given another creator.
SubmittedIsFinal ==
  [][\A s \in SessionIds : sessions[s].status = "submitted" =>
       /\ sessions'[s].status = "submitted"
       /\ sessions'[s].date = sessions[s].date
       /\ sessions'[s].creator = sessions[s].creator]_vars

\* Once submitted, what a session says changes only by an audited correction.
NothingOverwritten ==
  [][\A s \in SessionIds :
       (sessions[s].status = "submitted" /\ sessions'[s] # sessions[s])
       => \E e \in audit' \ audit : e.action = "corrected" /\ e.session = s]_vars

\* An offline submission based on a server version never re-creates the session.
BaseVersionIsHonoured ==
  \A e \in audit : (e.action = "created" /\ e.op # NoOp) => queued[e.op].base = NoBase

\* Lock waits close a circle in one way only: every request of it is an offline
\* submission that overwrites a session submitted since it was read (the defect
\* NothingOverwritten shows), and waits for the population another one is moving a
\* session away from.  Online requests and first submissions never deadlock.
DeadlocksAreStale ==
  \A C \in SUBSET Requests : Circle(C) => \A r \in C :
    /\ pc[r] = "flush" /\ job[r].op # NoOp
    /\ Exists(job[r].session) /\ sessions[job[r].session].status = "submitted"
=============================================================================
