----------------------- MODULE AttendanceServerProofs -----------------------
(***************************************************************************)
(* Theorems about AttendanceServer for every number of users, Workers,     *)
(* operations, sessions and concurrent requests.                           *)
(*                                                                         *)
(* All of them rest on one inductive invariant, Ledger: what a request in  *)
(* flight has staged is consistent with what is committed (JobOK), no two  *)
(* requests in flight work on one operation (OperationLock) or have staged *)
(* a change of one row (RowLock), and receipts and audit trail agree.      *)
(***************************************************************************)
EXTENDS AttendanceServer, TLAPS

Ongoing(step) == step \in {"apply", "flush", "replied"}

\* A request that holds a receiptless operation: nothing decided about it yet.
Undecided(j) == j.op \in Ops /\ receipts[j.op] = NoReceipt

\* What the events a request has staged say of its operation.
EventsOK(r, step, j) ==
  /\ \A e \in j.events : e.op = j.op /\ e.request = r
  /\ step = "flush" => \A e \in j.events : e.action # "submitted"
  /\ step = "replied" /\ j.op # NoOp =>
       IF j.store /\ j.result = "applied"
       THEN \E e \in j.events : {x \in j.events : x.action = "submitted"} = {e}
       ELSE j.events = {}

\* What a staged row owes to the committed row it will replace.
WriteOK(j) ==
  /\ j.write \in Row => SubmissionState(j.write)
  /\ (j.write # Nothing /\ sessions[j.session].status = "submitted") =>
       /\ j.write.status = "submitted"
       /\ j.write.date = sessions[j.session].date
       /\ j.write.creator = sessions[j.session].creator

JobOK(r, step, j) ==
  /\ ~Ongoing(step) => j.write = Nothing /\ j.events = {}
  /\ Ongoing(step) => /\ j.user \in Users
                      /\ j.op # NoOp => queued[j.op] # NotQueued
  /\ step = "apply" => /\ Undecided(j) /\ j.write = Nothing /\ j.events = {}
                       /\ j.session = queued[j.op].target
  /\ step = "flush" => /\ j.write \in Row /\ Listed(j.write.roster) # {}
                       /\ j.op # NoOp => Undecided(j)
  /\ step = "replied" =>
       /\ j.store => Undecided(j) /\ j.result \in SyncResults
       /\ (~j.store /\ j.op # NoOp) =>
            /\ receipts[j.op] # NoReceipt
            /\ j.result = Replay(receipts[j.op], j.user)
  /\ EventsOK(r, step, j)
  /\ WriteOK(j)

JobsOK == \A r \in Requests : JobOK(r, pc[r], job[r])

\* The advisory lock: at most one request in flight per operation.
OperationLock ==
  \A r, q \in Requests :
    (r # q /\ InFlight(r) /\ InFlight(q) /\ job[r].op = job[q].op) => job[r].op = NoOp

\* The row lock: at most one request has staged a change of a session.
RowLock ==
  \A r, q \in Requests :
    (r # q /\ job[r].write # Nothing /\ job[q].write # Nothing)
    => job[r].session # job[q].session

Ledger == TypeOK /\ JobsOK /\ OperationLock /\ RowLock /\ OneFactPerOperation

Steps == {"new", "apply", "flush", "replied", "done", "failed"}

-----------------------------------------------------------------------------
\* The empty records are told from the full ones by a field.
LEMMA EmptyRecords ==
  /\ Absent \notin Row /\ Nothing \notin Row /\ Absent # Nothing
  /\ NoReceipt \notin Receipt /\ NotQueued \notin Payload
BY DEF Absent, Nothing, Row, NoReceipt, Receipt, NotQueued, Payload, SyncResults

\* IdleJob is a job, and it holds and stages nothing.
LEMMA IdleJobFacts ==
  /\ IdleJob \in Job
  /\ IdleJob.op = NoOp /\ IdleJob.write = Nothing /\ IdleJob.events = {}
  /\ IdleJob.store = FALSE
BY SomeSession DEF IdleJob, NewJob, Job

\* A fresh job is a job.
LEMMA NewJobFacts ==
  ASSUME NEW u \in Users, NEW op \in Ops \cup {NoOp}, NEW s \in SessionIds
  PROVE  /\ NewJob(u, op, s) \in Job
         /\ NewJob(u, op, s).write = Nothing /\ NewJob(u, op, s).events = {}
BY DEF NewJob, Job

\* Nothing has happened initially.
LEMMA InitLedger == Init => Ledger
<1> SUFFICES ASSUME Init PROVE Ledger
  OBVIOUS
<1> USE DEF Init
<1>1. TypeOK
  BY IdleJobFacts DEF TypeOK, Exists, Absent
<1>2. JobsOK
  BY IdleJobFacts, EmptyRecords DEF JobsOK, JobOK, EventsOK, WriteOK, Ongoing
<1>3. OperationLock /\ RowLock
  BY IdleJobFacts DEF OperationLock, RowLock, InFlight
<1>4. OneFactPerOperation
  BY DEF OneFactPerOperation, NoReceipt
<1> QED
  BY <1>1, <1>2, <1>3, <1>4 DEF Ledger

\* A step that only moves one request keeps the invariant if the request's new
\* job is consistent with what is committed and takes no lock another one holds.
LEMMA BecomeLedger ==
  ASSUME Ledger, NEW r \in Requests, NEW step \in Steps, NEW j \in Job,
         Become(r, step, j), JobOK(r, step, j),
         (Ongoing(step) /\ j.op # NoOp) =>
           \A q \in Requests \ {r} : ~(InFlight(q) /\ job[q].op = j.op),
         j.write # Nothing => RowFree(r, j.session)
  PROVE  Ledger'
<1> USE DEF Become, Ledger
<1>1. TypeOK'
  BY DEF TypeOK, Exists, Steps
<1>2. JobsOK'
  <2> SUFFICES ASSUME NEW q \in Requests PROVE JobOK(q, pc[q], job[q])'
    BY DEF JobsOK
  <2>1. CASE q = r
    BY <2>1 DEF TypeOK, JobOK, EventsOK, WriteOK, Undecided
  <2>2. CASE q # r
    <3>1. JobOK(q, pc[q], job[q]) /\ pc'[q] = pc[q] /\ job'[q] = job[q]
      BY <2>2 DEF TypeOK, JobsOK
    <3> QED
      BY <3>1 DEF JobOK, EventsOK, WriteOK, Undecided
  <2> QED
    BY <2>1, <2>2
<1>3. OperationLock'
  BY DEF OperationLock, InFlight, Ongoing, TypeOK
<1>4. RowLock'
  BY DEF RowLock, RowFree, HoldsRow, TypeOK
<1>5. OneFactPerOperation'
  BY DEF OneFactPerOperation
<1> QED
  BY <1>1, <1>2, <1>3, <1>4, <1>5

\* Rolling back is always safe.
LEMMA RefuseLedger ==
  ASSUME Ledger, NEW r \in Requests, Refuse(r)
  PROVE  Ledger'
<1> DEFINE j == [IdleJob EXCEPT !.result = "refused"]
<1>1. j \in Job /\ j.op = NoOp /\ j.write = Nothing /\ j.events = {}
  BY IdleJobFacts DEF Job
<1>2. JobOK(r, "failed", j)
  BY <1>1, EmptyRecords DEF JobOK, EventsOK, WriteOK, Ongoing
<1>3. Become(r, "failed", j)
  BY DEF Refuse
<1> HIDE DEF j
<1> QED
  BY <1>1, <1>2, <1>3, BecomeLedger DEF Ongoing, Steps

\* A crash leaves what is committed and frees the request's locks.
LEMMA AbortLedger ==
  ASSUME Ledger, NEW r \in Requests, Abort(r)
  PROVE  Ledger'
<1> DEFINE j == Answer(job[r])
<1>1. j \in Job /\ j.write = Nothing /\ j.events = {}
  BY IdleJobFacts DEF Answer, Job, Ledger, TypeOK
<1>2. JobOK(r, "failed", j)
  BY <1>1, EmptyRecords DEF JobOK, EventsOK, WriteOK, Ongoing
<1>3. Become(r, "failed", j)
  BY DEF Abort
<1> HIDE DEF j
<1> QED
  BY <1>1, <1>2, <1>3, BecomeLedger DEF Ongoing, Steps

\* Storing a result keeps a request consistent if the operation is undecided.
LEMMA StoreResultFacts ==
  ASSUME NEW r, NEW j \in Job, NEW result \in SyncResults \ {"applied"},
         Undecided(j), j.user \in Users, queued[j.op] # NotQueued
  PROVE  /\ StoreResult(j, result) \in Job
         /\ StoreResult(j, result).op = j.op
         /\ StoreResult(j, result).write = Nothing
         /\ JobOK(r, "replied", StoreResult(j, result))
BY EmptyRecords
   DEF StoreResult, Job, JobOK, EventsOK, WriteOK, Ongoing, Undecided, SyncResults

\* The replies of the checks ahead of the savepoint.
LEMMA PrecheckType ==
  ASSUME NEW u, NEW p, NEW row
  PROVE  IngestPrecheck(u, p, row) \in {"none", "already_applied", "conflict", "rejected"}
BY DEF IngestPrecheck

LEMMA IngestBeginLedger ==
  ASSUME Ledger, NEW r \in Requests, NEW u \in Users, NEW op \in Ops,
         IngestBegin(r, u, op)
  PROVE  Ledger'
<1> DEFINE p == queued[op]
           row == sessions[p.target]
           j == NewJob(u, op, p.target)
           pre == IngestPrecheck(u, p, row)
           replayed == [j EXCEPT !.result = Replay(receipts[op], u)]
           read == [j EXCEPT !.seen = row]
<1>1. p \in Payload /\ p.target \in SessionIds /\ row \in Row \cup {Absent} /\ op # NoOp
  BY ConstantsAreDistinct DEF IngestBegin, Ledger, TypeOK, Payload
<1>2. /\ j \in Job /\ j.op = op /\ j.user = u /\ j.session = p.target
      /\ j.write = Nothing /\ j.events = {} /\ j.store = FALSE
  BY <1>1, NewJobFacts DEF NewJob
<1>3. \A q \in Requests \ {r} : ~(InFlight(q) /\ job[q].op = op)
  BY DEF IngestBegin, AdvisoryFree
<1>4. CASE receipts[op] # NoReceipt /\ Become(r, "replied", replayed)
  <2>1. receipts[op] \in Receipt
    BY <1>4 DEF Ledger, TypeOK
  <2>2. replayed \in Job
    BY <1>2, <2>1 DEF Replay, Job, Receipt, SyncResults
  <2>3. /\ replayed.op = op /\ replayed.user = u /\ replayed.write = Nothing
        /\ replayed.events = {} /\ replayed.store = FALSE
        /\ replayed.result = Replay(receipts[op], u)
    BY <1>2 DEF Job
  <2>4. JobOK(r, "replied", replayed)
    BY <1>4, <2>3, EmptyRecords DEF JobOK, EventsOK, WriteOK, Ongoing, IngestBegin
  <2> HIDE DEF replayed, j
  <2> QED
    BY <1>3, <1>4, <2>2, <2>3, <2>4, BecomeLedger DEF Steps
<1>5. CASE receipts[op] = NoReceipt /\ pre # "none" /\ Become(r, "replied", StoreResult(j, pre))
  <2>1. pre \in SyncResults \ {"applied"}
    BY <1>5, PrecheckType DEF SyncResults
  <2>2. Undecided(j) /\ j.user \in Users /\ queued[j.op] # NotQueued
    BY <1>2, <1>5 DEF Undecided, IngestBegin
  <2> DEFINE stored == StoreResult(j, pre)
  <2> HIDE DEF j, pre
  <2>3. /\ stored \in Job /\ stored.op = op /\ stored.write = Nothing
        /\ JobOK(r, "replied", stored)
    BY <1>2, <2>1, <2>2, StoreResultFacts
  <2> HIDE DEF stored
  <2>4. Become(r, "replied", stored)
    BY <1>5 DEF stored
  <2> QED
    BY <1>3, <2>3, <2>4, BecomeLedger DEF Steps
<1>6. CASE receipts[op] = NoReceipt /\ Become(r, "apply", read)
  <2>1. /\ read \in Job /\ read.op = op /\ read.user = u /\ read.session = p.target
        /\ read.write = Nothing /\ read.events = {}
    BY <1>1, <1>2 DEF Job
  <2>2. JobOK(r, "apply", read)
    BY <1>6, <2>1, EmptyRecords
       DEF JobOK, EventsOK, WriteOK, Ongoing, Undecided, IngestBegin
  <2> HIDE DEF read, j
  <2> QED
    BY <1>3, <1>6, <2>1, <2>2, BecomeLedger DEF Steps
<1> QED
  BY <1>4, <1>5, <1>6 DEF IngestBegin

-----------------------------------------------------------------------------
\* What the domain functions return.
LEMMA NewDraftRow ==
  ASSUME NEW u \in Users, NEW date \in Dates
  PROVE  NewDraft(u, date) \in Row /\ SubmissionState(NewDraft(u, date))
BY DEF NewDraft, Row, SubmissionState, Rosters, EmptyRoster

LEMMA UpdatedDraftRow ==
  ASSUME NEW row \in Row, NEW version \in Nat \ {0}, NEW roster \in Rosters
  PROVE  /\ UpdatedDraft(row, version, roster) \in Row
         /\ UpdatedDraft(row, version, roster).roster = roster
         /\ UpdatedDraft(row, version, roster).status = row.status
         /\ UpdatedDraft(row, version, roster).date = row.date
         /\ UpdatedDraft(row, version, roster).creator = row.creator
         /\ SubmissionState(row) => SubmissionState(UpdatedDraft(row, version, roster))
BY DEF UpdatedDraft, Row, SubmissionState

LEMMA SubmittedRow ==
  ASSUME NEW row \in Row, NEW u \in Users, Listed(row.roster) # {}
  PROVE  /\ Submitted(row, u) \in Row /\ SubmissionState(Submitted(row, u))
         /\ Submitted(row, u).status = "submitted"
         /\ Submitted(row, u).date = row.date
         /\ Submitted(row, u).creator = row.creator
<1>1. row.version + 1 \in Nat \ {0} /\ Listed(row.roster) \in SUBSET Workers /\ u # NoUser
  BY ConstantsAreDistinct DEF Row, Listed
<1> QED
  BY <1>1 DEF Submitted, Row, SubmissionState

\* A submission that is not refused has somebody on its roster.
LEMMA SubmitAccepted ==
  ASSUME NEW roster, SubmitRefusal(roster) = "none" PROVE Listed(roster) # {}
BY DEF SubmitRefusal

LEMMA RefusalTypes ==
  /\ \A a, b, c, d : DraftRefusal(a, b, c, d) \in {"none", "conflict"}
  /\ \A a : SubmitRefusal(a) \in {"none", "conflict", "rejected"}
BY DEF DraftRefusal, SubmitRefusal

LEMMA EventType ==
  ASSUME NEW r \in Requests, job[r] \in Job, job[r].user \in Users,
         NEW action \in {"created", "submitted", "corrected", "discarded"},
         NEW fp \in SUBSET Workers
  PROVE  /\ EventOf(r, action, fp) \in Event
         /\ EventOf(r, action, fp).op = job[r].op
         /\ EventOf(r, action, fp).request = r
         /\ EventOf(r, action, fp).action = action
BY DEF EventOf, Event, Job

LEMMA IngestApplyLedger ==
  ASSUME Ledger, NEW r \in Requests, IngestApply(r)
  PROVE  Ledger'
<1> DEFINE j      == job[r]
           s      == j.session
           p      == queued[j.op]
           insert == j.seen = Absent
           held   == IF insert THEN NewDraft(j.user, p.date) ELSE sessions[s]
           object == IF insert THEN held ELSE j.seen
           events == IF insert THEN {EventOf(r, "created", {})} ELSE {}
           draft  == DraftRefusal(object, object.version, held, p.roster)
           submit == SubmitRefusal(p.roster)
           write  == UpdatedDraft(held, object.version + 1, p.roster)
           staged == [j EXCEPT !.events = events, !.seen = Absent, !.write = write]
<1>1. /\ j \in Job /\ s \in SessionIds /\ j.user \in Users /\ Undecided(j)
      /\ p # NotQueued /\ j.write = Nothing /\ j.events = {} /\ pc[r] = "apply"
  <2>1. JobOK(r, "apply", j) /\ j \in Job /\ pc[r] = "apply"
    BY DEF Ledger, TypeOK, JobsOK, IngestApply
  <2> HIDE DEF j
  <2> QED
    BY <2>1, ConstantsAreDistinct DEF JobOK, Ongoing, Job, Undecided
<1>2. /\ p \in Payload /\ p.roster \in Rosters /\ p.date \in Dates /\ j.op # NoOp
      /\ j.op \in Ops
  BY <1>1, ConstantsAreDistinct DEF Ledger, TypeOK, Payload, Undecided
<1>3. \A q \in Requests \ {r} : ~(InFlight(q) /\ job[q].op = j.op)
  BY <1>1, <1>2 DEF Ledger, OperationLock, InFlight
<1>4. ASSUME NEW result \in SyncResults \ {"applied"},
             Become(r, "replied", StoreResult(j, result))
      PROVE  Ledger'
  <2> DEFINE stored == StoreResult(j, result)
  <2> HIDE DEF j
  <2>1. /\ stored \in Job /\ stored.op = j.op /\ stored.write = Nothing
        /\ JobOK(r, "replied", stored)
    BY <1>1, StoreResultFacts
  <2>2. Become(r, "replied", stored)
    BY <1>4
  <2> HIDE DEF stored
  <2> QED
    BY <1>3, <2>1, <2>2, BecomeLedger DEF Steps
<1>5. ASSUME insert # Exists(s), RowFree(r, s), submit = "none",
             Become(r, "flush", staged)
      PROVE  Ledger'
  <2>1. held \in Row /\ SubmissionState(held)
    BY <1>1, <1>2, <1>5, NewDraftRow DEF Ledger, TypeOK, Exists, Absent
  <2>2. object \in Row /\ object.version + 1 \in Nat \ {0}
    <3>1. object \in Row
      BY <1>1, <2>1 DEF Job
    <3> HIDE DEF object
    <3> QED
      BY <3>1 DEF Row
  <2>3. /\ write \in Row /\ write.roster = p.roster /\ SubmissionState(write)
        /\ write.status = held.status /\ write.date = held.date
        /\ write.creator = held.creator
    <3> HIDE DEF held, object, p
    <3> QED
      BY <1>2, <2>1, <2>2, UpdatedDraftRow
  <2>4. Listed(write.roster) # {}
    BY <1>5, <2>3, SubmitAccepted
  <2>5. events \subseteq Event /\ \A e \in events :
          e.op = j.op /\ e.request = r /\ e.action = "created"
    BY <1>1, EventType
  <2>6. sessions[s].status = "submitted" => held = sessions[s]
    BY <1>5 DEF Exists
  <2> HIDE DEF write, events, held
  <2>7. /\ staged \in Job /\ staged.op = j.op /\ staged.user = j.user
        /\ staged.session = s /\ staged.write = write /\ staged.events = events
        /\ staged.store = j.store
    BY <1>1, <2>3, <2>5 DEF Job
  <2> HIDE DEF staged
  <2>8. JobOK(r, "flush", staged)
    BY <1>1, <2>3, <2>4, <2>5, <2>6, <2>7
       DEF JobOK, EventsOK, WriteOK, Ongoing, Undecided
  <2> QED
    BY <1>3, <1>5, <2>7, <2>8, BecomeLedger DEF Steps
<1>6. draft \in {"none", "conflict"} /\ submit \in {"none", "conflict", "rejected"}
  BY RefusalTypes
<1> QED
  BY <1>4, <1>5, <1>6 DEF IngestApply, SyncResults

LEMMA FlushSubmissionLedger ==
  ASSUME Ledger, NEW r \in Requests, FlushSubmission(r)
  PROVE  Ledger'
<1> DEFINE j      == job[r]
           fp     == Listed(j.write.roster)
           sync   == j.op # NoOp
           write  == Submitted(j.write, j.user)
           events == j.events \cup {EventOf(r, "submitted", fp)}
           staged == [j EXCEPT !.write = write, !.store = sync,
                               !.result = IF sync THEN "applied" ELSE "ok",
                               !.events = events]
<1>1. /\ j \in Job /\ pc[r] = "flush" /\ j.session \in SessionIds /\ j.user \in Users
      /\ j.write \in Row /\ Listed(j.write.roster) # {}
      /\ sync => Undecided(j) /\ queued[j.op] # NotQueued
      /\ \A e \in j.events : e.op = j.op /\ e.request = r /\ e.action # "submitted"
      /\ WriteOK(j)
  <2>1. JobOK(r, "flush", j) /\ j \in Job /\ pc[r] = "flush"
    BY DEF Ledger, TypeOK, JobsOK, FlushSubmission
  <2> HIDE DEF j
  <2> QED
    BY <2>1 DEF JobOK, Ongoing, Job, EventsOK
<1>2. sync => \A q \in Requests \ {r} : ~(InFlight(q) /\ job[q].op = j.op)
  BY <1>1 DEF Ledger, OperationLock, InFlight
<1>3. CASE sync /\ Become(r, "replied", StoreResult(j, "conflict"))
  <2> DEFINE stored == StoreResult(j, "conflict")
  <2> HIDE DEF j
  <2>1. /\ stored \in Job /\ stored.op = j.op /\ stored.write = Nothing
        /\ JobOK(r, "replied", stored)
    BY <1>1, <1>3, StoreResultFacts DEF SyncResults
  <2>2. Become(r, "replied", stored)
    BY <1>3
  <2> HIDE DEF stored
  <2> QED
    BY <1>2, <2>1, <2>2, BecomeLedger DEF Steps
<1>4. CASE Become(r, "replied", staged)
  <2> DEFINE event == EventOf(r, "submitted", fp)
  <2>1. fp \in SUBSET Workers
    BY DEF Listed
  <2>2. event \in Event /\ event.op = j.op /\ event.request = r /\ event.action = "submitted"
    BY <1>1, <2>1, EventType
  <2>3. /\ write \in Row /\ SubmissionState(write) /\ write.status = "submitted"
        /\ write.date = j.write.date /\ write.creator = j.write.creator
    BY <1>1, SubmittedRow
  <2>4. RowFree(r, j.session)
    BY <1>1, EmptyRecords DEF Ledger, RowLock, RowFree, HoldsRow
  <2> HIDE DEF write, event
  <2>5. /\ staged \in Job /\ staged.op = j.op /\ staged.user = j.user
        /\ staged.session = j.session /\ staged.write = write
        /\ staged.events = j.events \cup {event} /\ staged.store = sync
        /\ staged.result = IF sync THEN "applied" ELSE "ok"
    BY <1>1, <2>2, <2>3 DEF Job, event, SyncResults
  <2> HIDE DEF staged, j
  <2>6. {x \in staged.events : x.action = "submitted"} = {event}
    BY <1>1, <2>2, <2>5
  <2>7. EventsOK(r, "replied", staged)
    BY <1>1, <2>2, <2>5, <2>6 DEF EventsOK
  <2>8. WriteOK(staged)
    BY <1>1, <2>3, <2>5, EmptyRecords DEF WriteOK
  <2>9. JobOK(r, "replied", staged)
    BY <1>1, <2>5, <2>7, <2>8 DEF JobOK, Ongoing, Undecided, SyncResults
  <2> QED
    BY <1>2, <1>4, <2>4, <2>5, <2>9, BecomeLedger DEF Steps
<1> QED
  BY <1>3, <1>4, RefuseLedger DEF FlushSubmission

\* What an online handler may stage.
LEMMA StageLedger ==
  ASSUME Ledger, NEW r \in Requests, NEW u \in Users, NEW s \in SessionIds,
         NEW write \in Row \cup {Absent}, NEW events \in SUBSET Event,
         Exists(s), RowFree(r, s),
         \A e \in events : e.op = NoOp /\ e.request = r,
         write \in Row => SubmissionState(write),
         sessions[s].status = "submitted" =>
           /\ write.status = "submitted" /\ write.date = sessions[s].date
           /\ write.creator = sessions[s].creator,
         Stage(r, NewJob(u, NoOp, s), write, events)
  PROVE  Ledger'
<1> DEFINE staged == [NewJob(u, NoOp, s) EXCEPT !.write = write, !.events = events,
                                                !.result = "ok"]
<1>1. /\ staged \in Job /\ staged.op = NoOp /\ staged.user = u /\ staged.session = s
      /\ staged.write = write /\ staged.events = events /\ staged.store = FALSE
  BY NewJobFacts DEF NewJob, Job
<1>2. Become(r, "replied", staged)
  BY DEF Stage
<1> HIDE DEF staged
<1>3. JobOK(r, "replied", staged)
  BY <1>1 DEF JobOK, EventsOK, WriteOK, Ongoing
<1> QED
  BY <1>1, <1>2, <1>3, BecomeLedger DEF Steps

\* The committed row of an existing session.
LEMMA CommittedRow ==
  ASSUME Ledger, NEW s \in SessionIds, Exists(s)
  PROVE  sessions[s] \in Row /\ SubmissionState(sessions[s])
BY DEF Ledger, TypeOK, Exists, Absent

LEMMA OnlineEventType ==
  ASSUME NEW r \in Requests, NEW u \in Users, NEW s \in SessionIds,
         NEW action \in {"created", "submitted", "corrected", "discarded"}
  PROVE  /\ OnlineEvent(r, u, s, action) \in SUBSET Event
         /\ \A e \in OnlineEvent(r, u, s, action) : e.op = NoOp /\ e.request = r
BY DEF OnlineEvent, Event

LEMMA SaveDraftLedger ==
  ASSUME Ledger, NEW r \in Requests, NEW u \in Users, NEW s \in SessionIds,
         NEW expected, NEW roster \in RosterInputs, SaveDraft(r, u, s, expected, roster)
  PROVE  Ledger'
<1>1. CASE Refuse(r)
  BY <1>1, RefuseLedger
<1> DEFINE row == sessions[s]
           write == UpdatedDraft(row, row.version + 1, roster)
<1>2. CASE /\ DraftRefusal(row, expected, row, roster) = "none"
           /\ Stage(r, NewJob(u, NoOp, s), write, {})
  <2>1. row \in Row /\ SubmissionState(row) /\ row.version + 1 \in Nat \ {0}
    BY CommittedRow DEF SaveDraft, Row
  <2>2. row.status # "submitted"
    BY <1>2 DEF DraftRefusal
  <2>3. write \in Row /\ SubmissionState(write)
    BY <2>1, InputsAreRosters, UpdatedDraftRow
  <2> HIDE DEF write
  <2> QED
    BY <1>2, <2>2, <2>3, StageLedger DEF SaveDraft
<1> QED
  BY <1>1, <1>2 DEF SaveDraft

LEMMA SubmitOnlineLedger ==
  ASSUME Ledger, NEW r \in Requests, NEW u \in Users, NEW s \in SessionIds,
         SubmitOnline(r, u, s)
  PROVE  Ledger'
<1> DEFINE row == sessions[s]
           same == [IdleJob EXCEPT !.result = "ok"]
           staged == [NewJob(u, NoOp, s) EXCEPT !.write = row]
<1>1. row \in Row /\ SubmissionState(row) /\ RowFree(r, s)
  BY CommittedRow DEF SubmitOnline
<1>2. CASE Become(r, "done", same)
  <2>1. same \in Job /\ same.op = NoOp /\ same.write = Nothing /\ same.events = {}
    BY IdleJobFacts DEF Job
  <2> HIDE DEF same
  <2>2. JobOK(r, "done", same)
    BY <2>1, EmptyRecords DEF JobOK, EventsOK, WriteOK, Ongoing
  <2> QED
    BY <1>2, <2>1, <2>2, BecomeLedger DEF Ongoing, Steps
<1>3. CASE SubmitRefusal(row.roster) = "none" /\ Become(r, "flush", staged)
  <2>1. /\ staged \in Job /\ staged.op = NoOp /\ staged.user = u /\ staged.session = s
        /\ staged.write = row /\ staged.events = {}
    BY <1>1, NewJobFacts DEF NewJob, Job
  <2>2. Listed(row.roster) # {}
    BY <1>3, SubmitAccepted
  <2> HIDE DEF staged
  <2>3. JobOK(r, "flush", staged)
    BY <1>1, <2>1, <2>2 DEF JobOK, EventsOK, WriteOK, Ongoing
  <2> QED
    BY <1>1, <1>3, <2>1, <2>3, BecomeLedger DEF Steps
<1> QED
  BY <1>2, <1>3, RefuseLedger DEF SubmitOnline

LEMMA DiscardLedger ==
  ASSUME Ledger, NEW r \in Requests, NEW u \in Users, NEW s \in SessionIds, Discard(r, u, s)
  PROVE  Ledger'
<1> DEFINE events == OnlineEvent(r, u, s, "discarded")
<1>1. CASE sessions[s].status = "draft" /\ Stage(r, NewJob(u, NoOp, s), Absent, events)
  <2>1. events \in SUBSET Event /\ \A e \in events : e.op = NoOp /\ e.request = r
    BY OnlineEventType
  <2> HIDE DEF events
  <2> QED
    BY <1>1, <2>1, EmptyRecords, StageLedger DEF Discard
<1> QED
  BY <1>1, RefuseLedger DEF Discard

\* Correcting one entry keeps the row's header.
LEMMA CorrectedRow ==
  ASSUME NEW row \in Row, SubmissionState(row), NEW w \in Workers, NEW mark \in Marks
  PROVE  /\ Corrected(row, w, mark) \in Row /\ SubmissionState(Corrected(row, w, mark))
         /\ Corrected(row, w, mark).status = row.status
         /\ Corrected(row, w, mark).date = row.date
         /\ Corrected(row, w, mark).creator = row.creator
<1> DEFINE roster == [row.roster EXCEPT ![w] = mark]
           edits == [row.edits EXCEPT ![w] = row.edits[w] + 1]
<1>1. roster \in Rosters
  BY DEF Row, Rosters, Entries
<1>2. edits \in [Workers -> Nat]
  BY DEF Row
<1>3. Corrected(row, w, mark) = [row EXCEPT !.roster = roster, !.edits = edits]
  BY DEF Row, Corrected
<1> HIDE DEF roster, edits
<1> QED
  BY <1>1, <1>2, <1>3 DEF Row, SubmissionState

LEMMA CorrectEntryLedger ==
  ASSUME Ledger, NEW r \in Requests, NEW u \in Users, NEW s \in SessionIds,
         NEW w \in Workers, NEW expected, NEW mark \in Marks,
         CorrectEntry(r, u, s, w, expected, mark)
  PROVE  Ledger'
<1> DEFINE row == sessions[s]
           write == Corrected(row, w, mark)
           events == OnlineEvent(r, u, s, "corrected")
<1>1. CASE Stage(r, NewJob(u, NoOp, s), write, events)
  <2>1. row \in Row /\ SubmissionState(row)
    BY CommittedRow DEF CorrectEntry
  <2>2. write \in Row /\ SubmissionState(write) /\ write.status = row.status
        /\ write.date = row.date /\ write.creator = row.creator
    <3> HIDE DEF row
    <3> QED
      BY <2>1, CorrectedRow
  <2>3. events \in SUBSET Event /\ \A e \in events : e.op = NoOp /\ e.request = r
    BY OnlineEventType
  <2> HIDE DEF events, write
  <2> QED
    BY <1>1, <2>2, <2>3, StageLedger DEF CorrectEntry
<1> QED
  BY <1>1, RefuseLedger DEF CorrectEntry

-----------------------------------------------------------------------------
\* A commit publishes what was staged: by the locks nobody else had staged
\* anything about the same operation or the same row.
LEMMA CommitLedger ==
  ASSUME Ledger, NEW r \in Requests, Commit(r)
  PROVE  Ledger'
<1> DEFINE j == job[r]
<1>1. JobOK(r, "replied", j) /\ j \in Job /\ pc[r] = "replied" /\ InFlight(r)
  BY DEF Ledger, TypeOK, JobsOK, Commit, InFlight
<1>2. /\ j.user \in Users /\ j.session \in SessionIds /\ j.events \in SUBSET Event
      /\ j.write \in Row \cup {Absent, Nothing}
      /\ j.store => Undecided(j) /\ j.result \in SyncResults
      /\ EventsOK(r, "replied", j) /\ WriteOK(j)
  <2> HIDE DEF j
  <2> QED
    BY <1>1 DEF JobOK, Ongoing, Job
<1>3. Answer(j) \in Job /\ Answer(j).write = Nothing /\ Answer(j).events = {}
  BY <1>1, IdleJobFacts DEF Answer, Job
<1>4. \A q \in Requests \ {r} : pc'[q] = pc[q] /\ job'[q] = job[q]
  BY DEF Commit, Ledger, TypeOK
<1>5. pc'[r] = "done" /\ job'[r] = Answer(j)
  BY DEF Commit, Ledger, TypeOK
<1>6. \A op \in Ops : op # j.op => receipts'[op] = receipts[op]
  BY DEF Commit, Ledger, TypeOK
<1>7. \A s \in SessionIds : (j.write = Nothing \/ s # j.session) => sessions'[s] = sessions[s]
  BY DEF Commit, Ledger, TypeOK
<1>8. TypeOK'
  <2>1. sessions' \in [SessionIds -> Row \cup {Absent}]
    BY <1>2 DEF Commit, Ledger, TypeOK
  <2>2. \A s \in SessionIds : sessions'[s].status # "absent" => SubmissionState(sessions'[s])
    <3> TAKE s \in SessionIds
    <3>1. CASE sessions'[s] = sessions[s]
      BY <3>1 DEF Ledger, TypeOK, Exists
    <3>2. CASE s = j.session /\ j.write # Nothing
      BY <1>2, <3>2 DEF Commit, Ledger, TypeOK, WriteOK, Absent
    <3> QED
      BY <1>7, <3>1, <3>2
  <2>3. receipts' \in [Ops -> Receipt \cup {NoReceipt}]
    BY <1>2 DEF Commit, Ledger, TypeOK, Receipt
  <2>4. audit' \subseteq Event
    BY <1>2 DEF Commit, Ledger, TypeOK
  <2>5. /\ pc' \in [Requests -> Steps] /\ job' \in [Requests -> Job]
        /\ active' = active /\ queued' = queued
    BY <1>3 DEF Commit, Ledger, TypeOK, Steps
  <2> QED
    BY <2>1, <2>2, <2>3, <2>4, <2>5 DEF Ledger, TypeOK, Exists, Steps
<1>9. JobsOK'
  <2> SUFFICES ASSUME NEW q \in Requests PROVE JobOK(q, pc[q], job[q])'
    BY DEF JobsOK
  <2>1. CASE q = r
    BY <1>3, <1>5, <2>1, EmptyRecords DEF JobOK, EventsOK, WriteOK, Ongoing
  <2>2. CASE q # r
    <3> DEFINE k == job[q]
    <3>1. JobOK(q, pc[q], k) /\ pc'[q] = pc[q] /\ job'[q] = k /\ k \in Job
      BY <1>4, <2>2 DEF Ledger, TypeOK, JobsOK
    <3>2. (Ongoing(pc[q]) /\ k.op # NoOp) => k.op \in Ops /\ k.op # j.op
      <4>1. k.op \in Ops \cup {NoOp}
        <5> HIDE DEF k
        <5> QED
          BY <3>1 DEF Job
      <4>2. Ongoing(pc[q]) => InFlight(q)
        BY DEF Ongoing, InFlight
      <4> QED
        BY <1>1, <2>2, <4>1, <4>2 DEF Ledger, OperationLock
    <3>3. (k.write # Nothing) => sessions'[k.session] = sessions[k.session]
      <4>1. k.session \in SessionIds
        <5> HIDE DEF k
        <5> QED
          BY <3>1 DEF Job
      <4>2. k.write # Nothing /\ j.write # Nothing => k.session # j.session
        BY <2>2 DEF Ledger, RowLock
      <4> HIDE DEF k, j
      <4> QED
        BY <1>7, <4>1, <4>2
    <3>4. (Ongoing(pc[q]) /\ k.op # NoOp) => receipts'[k.op] = receipts[k.op]
      BY <1>6, <3>2
    <3>5. queued' = queued
      BY DEF Commit
    <3> HIDE DEF k
    <3>6. WriteOK(job[q])'
      BY <3>1, <3>3 DEF JobOK, WriteOK
    <3>7. EventsOK(q, pc[q], job[q])'
      BY <3>1 DEF JobOK, EventsOK
    <3> QED
      BY <3>1, <3>2, <3>4, <3>5, <3>6, <3>7, ConstantsAreDistinct
         DEF JobOK, Undecided, Ongoing
  <2> QED
    BY <2>1, <2>2
<1>10. OperationLock' /\ RowLock'
  BY <1>3, <1>4, <1>5 DEF Ledger, OperationLock, RowLock, InFlight
<1>11. OneFactPerOperation'
  <2> SUFFICES ASSUME NEW op \in Ops
               PROVE  LET trace == {e \in audit' : e.op = op}
                      IN IF receipts'[op].result = "applied"
                         THEN \E e \in trace : {x \in trace : x.action = "submitted"} = {e}
                         ELSE trace = {}
    BY DEF OneFactPerOperation
  <2> DEFINE before == {e \in audit : e.op = op}
             after == {e \in audit' : e.op = op}
  <2>1. IF receipts[op].result = "applied"
        THEN \E e \in before : {x \in before : x.action = "submitted"} = {e}
        ELSE before = {}
    BY DEF Ledger, OneFactPerOperation
  <2>2. audit' = audit \cup j.events
    BY DEF Commit
  <2>3. \A e \in j.events : e.op = j.op
    BY <1>2 DEF EventsOK
  <2>4. CASE op # j.op
    <3>1. after = before /\ receipts'[op] = receipts[op]
      BY <1>6, <2>2, <2>3, <2>4
    <3> QED
      BY <2>1, <3>1
  <2>5. CASE op = j.op /\ ~j.store
    <3>1. j.events = {}
      BY <1>2, <2>5, ConstantsAreDistinct DEF EventsOK
    <3>2. audit' = audit /\ receipts' = receipts
      BY <2>2, <2>5, <3>1 DEF Commit
    <3> QED
      BY <2>1, <3>2
  <2>6. CASE op = j.op /\ j.store
    <3>1. receipts[op] = NoReceipt /\ op # NoOp
      BY <1>2, <2>6, ConstantsAreDistinct DEF Undecided
    <3>2. before = {}
      BY <2>1, <3>1 DEF NoReceipt
    <3>3. after = j.events
      BY <2>2, <2>3, <2>6, <3>2
    <3>4. receipts'[op].result = j.result
      BY <2>6 DEF Commit, Ledger, TypeOK
    <3>5. IF j.result = "applied"
          THEN \E e \in j.events : {x \in j.events : x.action = "submitted"} = {e}
          ELSE j.events = {}
      BY <1>2, <2>6, <3>1 DEF EventsOK
    <3> QED
      BY <3>3, <3>4, <3>5
  <2> QED
    BY <2>4, <2>5, <2>6
<1> QED
  BY <1>8, <1>9, <1>10, <1>11 DEF Ledger

-----------------------------------------------------------------------------
\* A device queues an operation nobody has sent yet.
LEMMA QueueOpLedger ==
  ASSUME Ledger, NEW op \in Ops, NEW s \in SessionIds, NEW date \in Dates,
         NEW roster \in RosterInputs, NEW pv \in PayloadVersions,
         QueueOp(op, s, date, roster, pv)
  PROVE  Ledger'
<1> DEFINE base == IF Exists(s) THEN sessions[s].version ELSE NoBase
           p == [target |-> s, base |-> base, date |-> date, roster |-> roster,
                 payloadVersion |-> pv]
<1>1. base \in Nat
  <2>1. CASE Exists(s)
    BY <2>1, CommittedRow DEF Row
  <2> QED
    BY <2>1 DEF NoBase
<1> HIDE DEF base
<1>2. p \in Payload
  BY <1>1, InputsAreRosters DEF Payload
<1>3. queued' = [queued EXCEPT ![op] = p]
  BY DEF QueueOp, base
<1> HIDE DEF p
<1>4. TypeOK'
  BY <1>2, <1>3 DEF QueueOp, Ledger, TypeOK, Exists
<1>5. JobsOK'
  <2> SUFFICES ASSUME NEW q \in Requests PROVE JobOK(q, pc[q], job[q])'
    BY DEF JobsOK
  <2>1. JobOK(q, pc[q], job[q]) /\ job[q].op \in Ops \cup {NoOp}
    BY DEF Ledger, TypeOK, JobsOK, Job
  <2>2. \A o \in Ops : queued[o] # NotQueued => queued'[o] = queued[o]
    BY <1>3 DEF QueueOp, Ledger, TypeOK
  <2> QED
    BY <2>1, <2>2, ConstantsAreDistinct
       DEF QueueOp, JobOK, EventsOK, WriteOK, Undecided, Ongoing
<1>6. (OperationLock /\ RowLock /\ OneFactPerOperation)'
  BY DEF QueueOp, Ledger, OperationLock, RowLock, OneFactPerOperation, InFlight
<1> QED
  BY <1>4, <1>5, <1>6 DEF Ledger

LEMMA SetWorkerStatusLedger ==
  ASSUME Ledger, NEW w \in Workers, SetWorkerStatus(w)
  PROVE  Ledger'
<1>1. TypeOK'
  BY DEF SetWorkerStatus, Ledger, TypeOK, Exists
<1>2. (JobsOK /\ OperationLock /\ RowLock /\ OneFactPerOperation)'
  BY DEF SetWorkerStatus, Ledger, JobsOK, JobOK, EventsOK, WriteOK, Undecided,
         OperationLock, RowLock, OneFactPerOperation, InFlight
<1> QED
  BY <1>1, <1>2 DEF Ledger

LEMMA StartSessionLedger ==
  ASSUME Ledger, NEW s \in SessionIds, NEW u \in Users, NEW date \in Dates,
         StartSession(s, u, date)
  PROVE  Ledger'
<1> DEFINE event == [action |-> "created", session |-> s, user |-> u, op |-> NoOp,
                     request |-> NoRequest, fingerprint |-> {}]
           row == NewDraft(u, date)
<1>1. event \in Event /\ event.op = NoOp
  BY DEF Event
<1>2. row \in Row /\ SubmissionState(row) /\ row.status = "draft"
  BY NewDraftRow DEF NewDraft
<1>3. audit' = audit \cup {event} /\ sessions' = [sessions EXCEPT ![s] = row]
  BY DEF StartSession
<1> HIDE DEF event, row
<1>4. TypeOK'
  BY <1>1, <1>2, <1>3 DEF StartSession, Ledger, TypeOK, Exists
<1>5. JobsOK'
  <2> SUFFICES ASSUME NEW q \in Requests PROVE JobOK(q, pc[q], job[q])'
    BY DEF JobsOK
  <2>1. JobOK(q, pc[q], job[q]) /\ job[q].session \in SessionIds
    BY DEF Ledger, TypeOK, JobsOK, Job
  <2>2. WriteOK(job[q])'
    BY <1>2, <1>3, <2>1 DEF StartSession, Ledger, TypeOK, JobOK, WriteOK
  <2> QED
    BY <2>1, <2>2 DEF StartSession, JobOK, EventsOK, Undecided
<1>6. (OperationLock /\ RowLock)'
  BY DEF StartSession, Ledger, OperationLock, RowLock, InFlight
<1>7. OneFactPerOperation'
  <2>1. \A op \in Ops : {e \in audit' : e.op = op} = {e \in audit : e.op = op}
    BY <1>1, <1>3, ConstantsAreDistinct
  <2> QED
    BY <2>1 DEF StartSession, Ledger, OneFactPerOperation
<1> QED
  BY <1>4, <1>5, <1>6, <1>7 DEF Ledger

\* Every step keeps the invariant.
LEMMA NextLedger == Ledger /\ [Next]_vars => Ledger'
<1> SUFFICES ASSUME Ledger, [Next]_vars PROVE Ledger'
  OBVIOUS
<1>1. CASE Environment
  BY <1>1, QueueOpLedger, SetWorkerStatusLedger, StartSessionLedger, LeaversAreWorkers
     DEF Environment
<1>2. ASSUME NEW r \in Requests, NEW u \in Users, NEW op \in Ops, IngestBegin(r, u, op)
      PROVE  Ledger'
  BY <1>2, IngestBeginLedger
<1>3. ASSUME NEW r \in Requests, OnlineRequest(r) PROVE Ledger'
  <2>1. ASSUME NEW u \in Users, NEW s \in SessionIds, NEW ro \in RosterInputs, NEW v,
               SaveDraft(r, u, s, v, ro)
        PROVE  Ledger'
    BY <2>1, SaveDraftLedger
  <2>2. ASSUME NEW u \in Users, NEW s \in SessionIds, NEW w \in Workers, NEW m \in Marks,
               NEW v, CorrectEntry(r, u, s, w, v, m)
        PROVE  Ledger'
    BY <2>2, CorrectEntryLedger
  <2>3. ASSUME NEW u \in Users, NEW s \in SessionIds,
               SubmitOnline(r, u, s) \/ Discard(r, u, s) \/ OnlineNotFound(r, s)
        PROVE  Ledger'
    BY <2>3, SubmitOnlineLedger, DiscardLedger, RefuseLedger DEF OnlineNotFound
  <2> QED
    BY <1>3, <2>1, <2>2, <2>3 DEF OnlineRequest
<1>4. ASSUME NEW r \in Requests, Progress(r) \/ Abort(r) PROVE Ledger'
  BY <1>4, IngestApplyLedger, FlushSubmissionLedger, CommitLedger, AbortLedger DEF Progress
<1>5. CASE UNCHANGED vars
  BY <1>5 DEF vars, Ledger, TypeOK, Exists, JobsOK, JobOK, EventsOK, WriteOK, Undecided,
              OperationLock, RowLock, OneFactPerOperation, InFlight
<1> QED
  BY <1>1, <1>2, <1>3, <1>4, <1>5 DEF Next

-----------------------------------------------------------------------------
\* In every reachable state of attendance ingestion and the online attendance
\* requests: rows, receipts, audit events, what is staged, and the locks agree.
THEOREM LedgerHolds == Spec => []Ledger
BY InitLedger, NextLedger, PTL DEF Spec

\* The state of the attendance server stays well typed, and every row satisfies
\* the table's submission-state check (ck_attendance_sessions_submission_state).
THEOREM TypeCorrect == Spec => []TypeOK
<1>1. Ledger => TypeOK
  BY DEF Ledger
<1> QED
  BY <1>1, LedgerHolds, PTL

\* ingest_sync_operation is idempotent: one submission is audited for an applied
\* operation, and nothing at all for one that was not applied.
THEOREM OneFact == Spec => []OneFactPerOperation
<1>1. Ledger => OneFactPerOperation
  BY DEF Ledger
<1> QED
  BY <1>1, LedgerHolds, PTL

\* What requests have been told, with effect, about operations.
Told == {<<job[r].op, job[r].user, job[r].result>> :
           r \in {q \in Requests : pc[q] = "done" /\ job[q].op # NoOp}}

\* A step that publishes nothing.
Quiet == Told' = Told /\ sessions' = sessions /\ receipts' = receipts /\ audit' = audit

\* A request that moves without ending in success publishes nothing.
LEMMA BecomeQuiet ==
  ASSUME Ledger, NEW r \in Requests, NEW step \in Steps, NEW j, pc[r] # "done",
         step # "done" \/ j.op = NoOp, Become(r, step, j)
  PROVE  Quiet
<1>1. \A q \in Requests \ {r} : pc'[q] = pc[q] /\ job'[q] = job[q]
  BY DEF Become, Ledger, TypeOK
<1>2. pc'[r] = step /\ job'[r] = j
  BY DEF Become, Ledger, TypeOK
<1> DEFINE done == {q \in Requests : pc[q] = "done" /\ job[q].op # NoOp}
<1>3. done' = done /\ r \notin done
  BY <1>1, <1>2
<1>4. \A q \in done : job'[q] = job[q]
  BY <1>1, <1>3
<1>5. Told' = Told
  BY <1>3, <1>4 DEF Told
<1> QED
  BY <1>5 DEF Quiet, Become

\* Everything a request does before its commit publishes nothing.
LEMMA RequestQuiet ==
  ASSUME Ledger, NEW r \in Requests,
         \/ \E u \in Users, op \in Ops : IngestBegin(r, u, op)
         \/ OnlineRequest(r) \/ IngestApply(r) \/ FlushSubmission(r) \/ Abort(r)
  PROVE  Quiet
<1>1. ASSUME NEW step \in Steps \ {"done"}, NEW j, pc[r] # "done", Become(r, step, j)
      PROVE  Quiet
  BY <1>1, BecomeQuiet
<1>2. ASSUME pc[r] # "done", Refuse(r) PROVE Quiet
  BY <1>1, <1>2 DEF Refuse, Steps
<1>3. ASSUME NEW u \in Users, NEW op \in Ops, IngestBegin(r, u, op) PROVE Quiet
  BY <1>1, <1>3 DEF IngestBegin, Steps
<1>4. ASSUME IngestApply(r) PROVE Quiet
  BY <1>1, <1>4 DEF IngestApply, Steps
<1>5. ASSUME FlushSubmission(r) PROVE Quiet
  BY <1>1, <1>2, <1>5 DEF FlushSubmission, Steps
<1>6. ASSUME Abort(r) PROVE Quiet
  BY <1>1, <1>6 DEF Abort, InFlight, Steps
<1>7. ASSUME NEW u \in Users, NEW s \in SessionIds, NEW ro, NEW v, SaveDraft(r, u, s, v, ro)
      PROVE  Quiet
  BY <1>1, <1>2, <1>7 DEF SaveDraft, Stage, Steps
<1>8. ASSUME NEW u \in Users, NEW s \in SessionIds, SubmitOnline(r, u, s) PROVE Quiet
  <2>1. CASE Become(r, "done", [IdleJob EXCEPT !.result = "ok"])
    <3>1. [IdleJob EXCEPT !.result = "ok"].op = NoOp
      BY IdleJobFacts DEF Job
    <3> QED
      BY <1>8, <2>1, <3>1, BecomeQuiet DEF SubmitOnline, Steps
  <2> QED
    BY <1>1, <1>2, <1>8, <2>1 DEF SubmitOnline, Steps
<1>9. ASSUME NEW u \in Users, NEW s \in SessionIds, Discard(r, u, s) PROVE Quiet
  BY <1>1, <1>2, <1>9 DEF Discard, Stage, Steps
<1>10. ASSUME NEW u \in Users, NEW s \in SessionIds, NEW w \in Workers, NEW m, NEW v,
              CorrectEntry(r, u, s, w, v, m)
       PROVE  Quiet
  BY <1>1, <1>2, <1>10 DEF CorrectEntry, Stage, Steps
<1>11. ASSUME NEW s \in SessionIds, OnlineNotFound(r, s) PROVE Quiet
  BY <1>2, <1>11 DEF OnlineNotFound
<1>12. CASE OnlineRequest(r)
  BY <1>7, <1>8, <1>9, <1>10, <1>11, <1>12 DEF OnlineRequest
<1> QED
  BY <1>3, <1>4, <1>5, <1>6, <1>12

\* The steps that publish: a start of a fresh session, and a commit.
LEMMA PublishingSteps ==
  ASSUME Ledger, [Next]_vars
  PROVE  \/ Quiet
         \/ \E s \in SessionIds, u \in Users, d \in Dates : StartSession(s, u, d)
         \/ \E r \in Requests : Commit(r)
<1>1. ASSUME NEW w \in Workers, SetWorkerStatus(w) PROVE Quiet
  BY <1>1 DEF SetWorkerStatus, Quiet, Told
<1>2. ASSUME NEW op, NEW s, NEW d, NEW ro, NEW pv, QueueOp(op, s, d, ro, pv) PROVE Quiet
  BY <1>2 DEF QueueOp, Quiet, Told
<1>3. CASE UNCHANGED vars
  BY <1>3 DEF vars, Quiet, Told
<1>4. CASE Environment
  BY <1>1, <1>2, <1>4, LeaversAreWorkers DEF Environment
<1>5. CASE \E r \in Requests :
             \/ \E u \in Users, op \in Ops : IngestBegin(r, u, op)
             \/ OnlineRequest(r) \/ Progress(r) \/ Abort(r)
  BY <1>5, RequestQuiet DEF Progress
<1> QED
  BY <1>3, <1>4, <1>5 DEF Next

\* No step of any request takes a submitted session back: discard, draft saves,
\* stale offline applications and corrections all preserve its header.
LEMMA SubmittedStep ==
  ASSUME Ledger, [Next]_vars, NEW s \in SessionIds, sessions[s].status = "submitted"
  PROVE  /\ sessions'[s].status = "submitted"
         /\ sessions'[s].date = sessions[s].date
         /\ sessions'[s].creator = sessions[s].creator
<1>1. CASE sessions' = sessions
  BY <1>1
<1>2. ASSUME NEW t \in SessionIds, NEW u \in Users, NEW d \in Dates, StartSession(t, u, d)
      PROVE  sessions'[s] = sessions[s]
  BY <1>2 DEF StartSession, Exists, Ledger, TypeOK
<1>3. ASSUME NEW r \in Requests, Commit(r), sessions'[s] # sessions[s]
      PROVE  /\ sessions'[s].status = "submitted"
             /\ sessions'[s].date = sessions[s].date
             /\ sessions'[s].creator = sessions[s].creator
  <2>1. s = job[r].session /\ job[r].write # Nothing /\ sessions'[s] = job[r].write
    BY <1>3 DEF Commit, Ledger, TypeOK
  <2>2. WriteOK(job[r])
    BY DEF Ledger, JobsOK, JobOK
  <2> QED
    BY <2>1, <2>2 DEF WriteOK
<1> QED
  BY <1>1, <1>2, <1>3, PublishingSteps DEF Quiet

\* Submission is final: whatever requests race, a submitted session keeps its
\* status, its date and its creator (load_session FOR UPDATE in every handler).
THEOREM SubmittedFinal == Spec => SubmittedIsFinal
<1>1. Ledger /\ [Next]_vars =>
        [\A s \in SessionIds : sessions[s].status = "submitted" =>
           /\ sessions'[s].status = "submitted"
           /\ sessions'[s].date = sessions[s].date
           /\ sessions'[s].creator = sessions[s].creator]_vars
  BY SubmittedStep
<1> QED
  BY <1>1, LedgerHolds, PTL DEF Spec, SubmittedIsFinal

-----------------------------------------------------------------------------
\* Refinement.  The facts the abstract specification sees in the audit trail.
Facts == {op \in Ops : \E e \in audit : e.op = op /\ e.action = "submitted"}

\* A commit takes effect in the abstract specification as one decision, as one
\* replayed answer, or, for an online request, not at all.
LEMMA CommitRefines ==
  ASSUME Ledger, NEW r \in Requests, Commit(r)
  PROVE  ExactlyOnce!Next \/ (receipts' = receipts /\ Facts' = Facts /\ Told' = Told)
<1> DEFINE j == job[r]
           Results == SyncResults \cup {"none", "ok", "refused"}
           done == {q \in Requests : pc[q] = "done" /\ job[q].op # NoOp}
<1>1. JobOK(r, "replied", j) /\ j \in Job /\ pc[r] = "replied"
  BY DEF Ledger, TypeOK, JobsOK, Commit
<1>2. /\ j.user \in Users /\ j.op \in Ops \cup {NoOp} /\ j.result \in Results
      /\ j.store => Undecided(j) /\ j.result \in SyncResults
      /\ (~j.store /\ j.op # NoOp) =>
           receipts[j.op] # NoReceipt /\ j.result = Replay(receipts[j.op], j.user)
      /\ EventsOK(r, "replied", j)
  <2> HIDE DEF j
  <2> QED
    BY <1>1 DEF JobOK, Ongoing, Job
<1>3. \A q \in Requests \ {r} : pc'[q] = pc[q] /\ job'[q] = job[q]
  BY DEF Commit, Ledger, TypeOK
<1>4. /\ pc'[r] = "done" /\ job'[r].op = j.op /\ job'[r].user = j.user
      /\ job'[r].result = j.result
  BY <1>1, IdleJobFacts DEF Commit, Ledger, TypeOK, Answer, Job
<1>5. CASE j.op = NoOp
  <2>1. receipts' = receipts
    BY <1>2, <1>5, ConstantsAreDistinct DEF Commit, Undecided
  <2>2. \A e \in j.events : e.op = NoOp
    BY <1>2, <1>5 DEF EventsOK
  <2>3. Facts' = Facts
    BY <2>2, ConstantsAreDistinct DEF Commit, Facts
  <2>4. done' = done /\ r \notin done
    BY <1>1, <1>3, <1>4, <1>5
  <2>5. Told' = Told
    BY <1>3, <2>4 DEF Told
  <2> QED
    BY <2>1, <2>3, <2>5
<1>6. CASE j.op \in Ops
  <2>1. j.op # NoOp
    BY <1>6, ConstantsAreDistinct
  <2>2. done' = done \cup {r} /\ r \notin done
    BY <1>1, <1>3, <1>4, <2>1
  <2>3. Told' = Told \cup {<<j.op, j.user, j.result>>}
    <3>1. Told' = {<<job'[q].op, job'[q].user, job'[q].result>> : q \in done'}
      BY DEF Told
    <3>2. Told = {<<job[q].op, job[q].user, job[q].result>> : q \in done}
      BY DEF Told
    <3>3. \A q \in done : job'[q] = job[q]
      BY <1>3, <2>2
    <3> HIDE DEF done
    <3> QED
      BY <1>4, <2>2, <3>1, <3>2, <3>3
  <2>4. PICK op \in Ops, u \in Users, result \in Results :
            op = j.op /\ u = j.user /\ result = j.result
    BY <1>2, <1>6
  <2>5. CASE j.store
    <3>1. /\ receipts[j.op] = ExactlyOnce!Undecided
          /\ receipts' = [receipts EXCEPT ![j.op] = [actor |-> j.user, result |-> j.result]]
          /\ audit' = audit \cup j.events
      BY <1>2, <2>5 DEF Commit, Undecided, ExactlyOnce!Undecided, NoReceipt
    <3>2. IF j.result = "applied"
          THEN \E e \in j.events : e.action = "submitted"
          ELSE j.events = {}
      BY <1>2, <2>1, <2>5 DEF EventsOK
    <3>3. \A e \in j.events : e.op = j.op
      BY <1>2 DEF EventsOK
    <3>4. Facts' = IF j.result = "applied" THEN Facts \cup {j.op} ELSE Facts
      BY <1>6, <3>1, <3>2, <3>3 DEF Facts
    <3>5. j.result \in {"applied", "already_applied", "conflict", "rejected"}
      BY <1>2, <2>5 DEF SyncResults
    <3>6. ExactlyOnce!Decide(op, u, result)
      BY <2>3, <2>4, <3>1, <3>4 DEF ExactlyOnce!Decide, Facts, Told
    <3> QED
      BY <2>4, <3>5, <3>6 DEF ExactlyOnce!Next
  <2>6. CASE ~j.store
    <3>1. receipts' = receipts /\ audit' = audit
      BY <1>2, <2>1, <2>6 DEF Commit, EventsOK
    <3>2. /\ receipts[j.op] # ExactlyOnce!Undecided
          /\ j.result = ExactlyOnce!Replayed(receipts[j.op], j.user)
      BY <1>2, <2>1, <2>6
         DEF NoReceipt, ExactlyOnce!Undecided, ExactlyOnce!Replayed, Replay
    <3>3. Facts' = Facts
      BY <3>1 DEF Facts
    <3>4. ExactlyOnce!Answer(op, u)
      BY <2>3, <2>4, <3>1, <3>2, <3>3 DEF ExactlyOnce!Answer, Facts, Told
    <3> QED
      BY <3>4 DEF ExactlyOnce!Next
  <2> QED
    BY <2>5, <2>6
<1> QED
  BY <1>2, <1>5, <1>6

\* Every step maps to a step of the abstract specification or to a stutter.
LEMMA NextRefines ==
  ASSUME Ledger, [Next]_vars
  PROVE  ExactlyOnce!Next \/ (receipts' = receipts /\ Facts' = Facts /\ Told' = Told)
<1>1. CASE Quiet
  BY <1>1 DEF Quiet, Facts
<1>2. ASSUME NEW s \in SessionIds, NEW u \in Users, NEW d \in Dates, StartSession(s, u, d)
      PROVE  receipts' = receipts /\ Facts' = Facts /\ Told' = Told
  <2>1. \A op \in Ops : {e \in audit' : e.op = op} = {e \in audit : e.op = op}
    BY <1>2, ConstantsAreDistinct DEF StartSession
  <2>2. Facts' = Facts
    BY <2>1 DEF Facts
  <2> QED
    BY <1>2, <2>2 DEF StartSession, Told
<1> QED
  BY <1>1, <1>2, CommitRefines, PublishingSteps

\* ingest_sync_operation implements exactly-once operations: the first committed
\* decision binds, and every later answer replays it to its own user only.
THEOREM ExactlyOnceRefinement == Spec => ImplementsExactlyOnce
<1>1. Init => ExactlyOnce!Init
  BY DEF Init, ExactlyOnce!Init, ExactlyOnce!Undecided, NoReceipt
<1>2. Ledger /\ [Next]_vars => [ExactlyOnce!Next]_<<receipts, Facts, Told>>
  BY NextRefines
<1> QED
  BY <1>1, <1>2, LedgerHolds, PTL
     DEF Spec, ImplementsExactlyOnce, ExactlyOnce!Spec, Facts, Told

-----------------------------------------------------------------------------
(* Deadlocks.                                                              *)

\* Everybody in a circle is waited for by somebody else in it.
LEMMA CircleIsClosed ==
  ASSUME NEW C \in SUBSET Requests, Circle(C), NEW r \in C
  PROVE  \E q \in C : WaitsFor(q, r)
<1> SUFFICES ASSUME \A q \in C : ~WaitsFor(q, r) PROVE FALSE
  OBVIOUS
<1>1. \A q \in C : \E p \in C : WaitsFor(q, p)
  BY DEF Circle, Blocked
<1>2. PICK p \in C : WaitsFor(r, p)
  BY <1>1
<1>3. p # r
  BY <1>2 DEF WaitsFor
<1>4. Blocked(C \ {r})
  BY <1>1, <1>3 DEF Blocked
<1> QED
  BY <1>4 DEF Circle

\* A request that waits has not made its submission yet, and one that waits for a
\* row holds nothing that another one could wait for.
LEMMA WaitingHolds ==
  ASSUME Ledger, NEW r \in Requests, NEW q \in Requests, NEW p \in Requests,
         WaitsFor(r, p), WaitsFor(q, r)
  PROVE  pc[r] = "flush" /\ \A e \in job[r].events : e.action # "submitted"
<1>1. JobOK(r, pc[r], job[r])
  BY DEF Ledger, JobsOK
<1>2. CASE pc[r] = "apply"
  <2>1. job[r].write = Nothing /\ job[r].events = {}
    BY <1>1, <1>2 DEF JobOK
  <2> QED
    BY <2>1 DEF WaitsFor, HoldsRow, HoldsKey
<1>3. CASE pc[r] = "flush"
  BY <1>1, <1>3 DEF JobOK, EventsOK
<1> QED
  BY <1>2, <1>3 DEF WaitsFor

\* Hence the only thing to wait for in a circle is the index entry that an offline
\* submission takes away from a session that is submitted already.
LEMMA CircleIsStale ==
  ASSUME Ledger, NEW C \in SUBSET Requests, Circle(C), NEW r \in C
  PROVE  /\ pc[r] = "flush" /\ job[r].op # NoOp
         /\ Exists(job[r].session) /\ sessions[job[r].session].status = "submitted"
<1>1. PICK p \in C : WaitsFor(r, p)
  BY DEF Circle, Blocked
<1>2. PICK q \in C : WaitsFor(q, r)
  BY CircleIsClosed
<1>3. PICK o \in C : WaitsFor(o, q)
  BY CircleIsClosed
<1>4. pc[r] = "flush" /\ \A e \in job[r].events : e.action # "submitted"
  BY <1>1, <1>2, WaitingHolds
<1>5. pc[q] = "flush"
  BY <1>2, <1>3, WaitingHolds
<1>6. HoldsKey(r, job[q].write.date, Listed(job[q].write.roster))
  BY <1>2, <1>5 DEF WaitsFor
<1> QED
  BY <1>4, <1>6 DEF HoldsKey, HasKey, Exists

\* For any number of requests, sessions and populations, lock waits close a circle
\* only among stale offline submissions that overwrite submitted sessions: the row
\* lock, the advisory lock and the unique index never deadlock anything else.
THEOREM OnlyStaleDeadlocks == Spec => []DeadlocksAreStale
<1>1. Ledger => DeadlocksAreStale
  BY CircleIsStale DEF DeadlocksAreStale
<1> QED
  BY InitLedger, NextLedger, <1>1, PTL DEF Spec
=============================================================================
