------------------------ MODULE AttendanceRecordProofs ------------------------
(***************************************************************************)
(* Three more theorems about AttendanceServer, for every number of users,  *)
(* Workers, sessions and concurrent requests: no two submitted sessions of *)
(* a date have the same population; every submitted session is complete    *)
(* and accounted for in the audit trail; and the trail accounts for every  *)
(* row: a session has been created once more than it was discarded exactly *)
(* while its row exists.                                                   *)
(*                                                                         *)
(* The first two rest on Population, which adds to Ledger what the waits   *)
(* at the unique index guarantee of rows that are staged and not yet       *)
(* committed; the third on Books, below.                                   *)
(***************************************************************************)
EXTENDS AttendanceServerProofs, FiniteSetTheorems

Complete(roster) == Listed(roster) # {} /\ \A w \in Workers : roster[w] # Unmarked

\* Two submitted rows that the unique index would not have side by side.
SameKey(a, b) == a.status = "submitted" /\ HasKey(b, a.date, a.fingerprint)

\* What a submitted row owes to its roster and to the events.
RowOK(s, row, events) ==
  row.status = "submitted" =>
    /\ row.fingerprint = Listed(row.roster) /\ Complete(row.roster)
    /\ \E e \in events : /\ e.action = "submitted" /\ e.session = s
                         /\ e.user = row.submitter /\ e.fingerprint = row.fingerprint

\* A row that is staged and answered for.
Pending(step, j) == step = "replied" /\ j.write # Nothing

\* It was submitted by this request, so that others wait for its index entry.
Claims(j) == \E e \in j.events : e.action = "submitted"

\* What a staged row owes to the committed ones.
StagedOK(step, j) ==
  /\ step = "flush" => Complete(j.write.roster)
  /\ Pending(step, j) =>
       /\ RowOK(j.session, j.write, audit \cup j.events)
       /\ \A t \in SessionIds \ {j.session} : ~SameKey(j.write, sessions[t])
       /\ (~Claims(j) /\ j.write.status = "submitted") =>
            SameKey(j.write, sessions[j.session])

RowsOK == \A s \in SessionIds : RowOK(s, sessions[s], audit)
KeysDiffer == \A s, t \in SessionIds : s # t => ~SameKey(sessions[s], sessions[t])
AllStagedOK == \A r \in Requests : StagedOK(pc[r], job[r])
StagedKeysDiffer ==
  \A r, q \in Requests :
    (r # q /\ Pending(pc[r], job[r]) /\ Pending(pc[q], job[q]))
    => ~SameKey(job[r].write, job[q].write)

Population == Ledger /\ RowsOK /\ KeysDiffer /\ AllStagedOK /\ StagedKeysDiffer

-----------------------------------------------------------------------------
LEMMA SameKeySymmetric == \A a, b : SameKey(a, b) => SameKey(b, a)
BY DEF SameKey, HasKey

\* More events account for what fewer did.
LEMMA RowOKGrows ==
  ASSUME NEW s, NEW row, NEW events, NEW more, RowOK(s, row, events), events \subseteq more
  PROVE  RowOK(s, row, more)
BY DEF RowOK

\* A step that only moves one request.
LEMMA BecomePopulation ==
  ASSUME Population, Ledger', NEW r \in Requests, NEW step, NEW j,
         Become(r, step, j), StagedOK(step, j),
         Pending(step, j) =>
           \A q \in Requests \ {r} :
             Pending(pc[q], job[q]) => ~SameKey(j.write, job[q].write)
  PROVE  Population'
<1> USE DEF Population
<1>1. UNCHANGED <<sessions, audit>> /\ pc'[r] = step /\ job'[r] = j
      /\ \A q \in Requests \ {r} : pc'[q] = pc[q] /\ job'[q] = job[q]
  BY DEF Become, Ledger, TypeOK
<1>2. RowsOK' /\ KeysDiffer'
  BY <1>1 DEF RowsOK, RowOK, KeysDiffer, SameKey, HasKey
<1>3. AllStagedOK'
  BY <1>1 DEF AllStagedOK, StagedOK, RowOK, SameKey, HasKey
<1>4. StagedKeysDiffer'
  BY <1>1, SameKeySymmetric DEF StagedKeysDiffer
<1> QED
  BY <1>2, <1>3, <1>4

\* Steps after which the request has no row staged.
LEMMA NothingStaged ==
  ASSUME Population, Ledger', NEW r \in Requests, NEW step, NEW j,
         Become(r, step, j), j.write = Nothing, step # "flush"
  PROVE  Population'
BY BecomePopulation DEF StagedOK, Pending

LEMMA EndPopulation ==
  ASSUME Population, Ledger', NEW r \in Requests, Refuse(r) \/ Abort(r)
  PROVE  Population'
<1>1. [IdleJob EXCEPT !.result = "refused"].write = Nothing
  BY IdleJobFacts DEF Job
<1>2. Answer(job[r]).write = Nothing
  BY IdleJobFacts DEF Answer, Job
<1> QED
  BY <1>1, <1>2, NothingStaged DEF Refuse, Abort

LEMMA StoreStagesNothing ==
  ASSUME NEW j \in Job, NEW result PROVE StoreResult(j, result).write = Nothing
BY DEF StoreResult, Job

LEMMA IngestBeginPopulation ==
  ASSUME Population, Ledger', NEW r \in Requests, NEW u \in Users, NEW op \in Ops,
         IngestBegin(r, u, op)
  PROVE  Population'
<1> DEFINE j == NewJob(u, op, queued[op].target)
<1>1. queued[op].target \in SessionIds
  BY DEF IngestBegin, Population, Ledger, TypeOK, Payload
<1>2. j \in Job /\ j.write = Nothing
  BY <1>1, NewJobFacts
<1>3. \A x : [j EXCEPT !.result = x].write = Nothing /\ [j EXCEPT !.seen = x].write = Nothing
  BY <1>2 DEF Job
<1>4. \A x : StoreResult(j, x).write = Nothing
  BY <1>2, StoreStagesNothing
<1> QED
  BY <1>3, <1>4, NothingStaged DEF IngestBegin

\* A submission that is not refused has a complete roster.
LEMMA AcceptedIsComplete ==
  ASSUME NEW roster, SubmitRefusal(roster) = "none" PROVE Complete(roster)
BY DEF SubmitRefusal, Complete

\* A refused offline submission stages nothing.
LEMMA StoredPopulation ==
  ASSUME Population, Ledger', NEW r \in Requests, NEW result,
         Become(r, "replied", StoreResult(job[r], result))
  PROVE  Population'
<1>1. job[r] \in Job
  BY DEF Population, Ledger, TypeOK
<1> QED
  BY <1>1, StoreStagesNothing, NothingStaged

LEMMA IngestApplyPopulation ==
  ASSUME Population, Ledger', NEW r \in Requests, IngestApply(r)
  PROVE  Population'
<1> DEFINE p      == queued[job[r].op]
           s      == job[r].session
           insert == job[r].seen = Absent
           held   == IF insert THEN NewDraft(job[r].user, p.date) ELSE sessions[s]
           object == IF insert THEN held ELSE job[r].seen
           events == IF insert THEN {EventOf(r, "created", {})} ELSE {}
           draft  == DraftRefusal(object, object.version, held, p.roster)
           submit == SubmitRefusal(p.roster)
           flush(row, version, evs) ==
             [job[r] EXCEPT !.events = evs, !.seen = Absent,
                            !.write = UpdatedDraft(row, version, p.roster)]
<1>1. ASSUME NEW row, NEW version, NEW evs, SubmitRefusal(p.roster) = "none",
             Become(r, "flush", flush(row, version, evs)), row \in Row
      PROVE  Population'
  <2> DEFINE write == UpdatedDraft(row, version, p.roster)
             j == flush(row, version, evs)
  <2>1. write.roster = p.roster
    BY <1>1 DEF UpdatedDraft, Row
  <2>2. j.write = write
    BY DEF Population, Ledger, TypeOK, Job
  <2>3. StagedOK("flush", j) /\ ~Pending("flush", j)
    BY <1>1, <2>1, <2>2, AcceptedIsComplete DEF StagedOK, Pending
  <2> HIDE DEF j
  <2> QED
    BY <1>1, <2>3, BecomePopulation DEF j
<1>2. /\ job[r].session \in SessionIds /\ job[r].user \in Users
      /\ p.date \in Dates
  <2>1. job[r] \in Job /\ JobOK(r, "apply", job[r])
    BY DEF Population, Ledger, TypeOK, JobsOK, IngestApply
  <2>2. job[r].op \in Ops /\ p # NotQueued
    BY <2>1, ConstantsAreDistinct DEF JobOK, Ongoing, Undecided
  <2> QED
    BY <2>1, <2>2 DEF JobOK, Ongoing, Job, Population, Ledger, TypeOK, Payload
<1>3. NewDraft(job[r].user, p.date) \in Row
  BY <1>2, NewDraftRow
<1>4. Exists(job[r].session) => sessions[job[r].session] \in Row
  BY <1>2 DEF Exists, Population, Ledger, TypeOK, Absent
<1>5. CASE \E result : Become(r, "replied", StoreResult(job[r], result))
  BY <1>5, StoredPopulation
<1>6. CASE /\ insert # Exists(s) /\ submit = "none"
           /\ Become(r, "flush", flush(held, object.version + 1, events))
  <2>1. held \in Row
    <3>1. insert # Exists(s)
      BY <1>6
    <3>2. insert \in BOOLEAN /\ Exists(s) \in BOOLEAN
      BY DEF Exists
    <3>3. insert \/ Exists(s)
      BY <3>1, <3>2
    <3> QED
      BY <1>3, <1>4, <3>3
  <2> HIDE DEF flush, held, object, events
  <2> QED
    BY <1>1, <1>6, <2>1
<1> QED
  <2>1. \/ \E result : Become(r, "replied", StoreResult(job[r], result))
        \/ /\ insert # Exists(s) /\ submit = "none"
           /\ Become(r, "flush", flush(held, object.version + 1, events))
    BY DEF IngestApply
  <2> QED
    BY <1>5, <1>6, <2>1

\* A submission that passes the unique index differs from every committed row
\* and from every row that is staged.
LEMMA FlushSubmissionPopulation ==
  ASSUME Population, Ledger', NEW r \in Requests, FlushSubmission(r)
  PROVE  Population'
<1> DEFINE j      == job[r]
           fp     == Listed(j.write.roster)
           event  == EventOf(r, "submitted", fp)
           write  == Submitted(j.write, j.user)
           staged == [j EXCEPT !.write = write, !.store = (j.op # NoOp),
                        !.result = IF j.op # NoOp THEN "applied" ELSE "ok",
                        !.events = j.events \cup {event}]
<1>1. CASE Refuse(r) \/ Become(r, "replied", StoreResult(j, "conflict"))
  BY <1>1, EndPopulation, StoredPopulation
<1>2. CASE ~DuplicateKey(j.session, j.write.date, fp) /\ Become(r, "replied", staged)
  <2>1. j \in Job /\ j.write \in Row /\ j.write # Nothing /\ j.session \in SessionIds
    BY EmptyRecords DEF FlushSubmission, Population, Ledger, TypeOK, JobsOK, JobOK, Job
  <2>2. staged.write = write /\ staged.session = j.session /\ event \in staged.events
    BY <2>1 DEF Job
  <2>3. /\ write.status = "submitted" /\ write.date = j.write.date
        /\ write.fingerprint = fp /\ write.roster = j.write.roster
        /\ write.submitter = j.user
    BY <2>1 DEF Submitted, Row
  <2>4. /\ event.action = "submitted" /\ event.session = j.session
        /\ event.user = j.user /\ event.fingerprint = fp
    BY DEF EventOf
  <2>5. Complete(j.write.roster)
    BY DEF FlushSubmission, Population, AllStagedOK, StagedOK
  <2> HIDE DEF staged, write, event
  <2>6. RowOK(j.session, write, audit \cup staged.events)
    BY <2>2, <2>3, <2>4, <2>5 DEF RowOK
  <2>7. \A t \in SessionIds \ {j.session} : ~SameKey(write, sessions[t])
    BY <1>2, <2>3 DEF SameKey, DuplicateKey
  <2>8. StagedOK("replied", staged)
    BY <2>2, <2>4, <2>6, <2>7 DEF StagedOK, Claims
  <2>9. ASSUME NEW q \in Requests \ {r}, Pending(pc[q], job[q])
        PROVE  ~SameKey(write, job[q].write)
    <3>1. CASE Claims(job[q])
      BY <2>3, <2>9, <3>1 DEF FlushSubmission, KeyBusy, HoldsKey, SameKey, Claims
    <3>2. CASE ~Claims(job[q])
      <4>1. job[q].session \in SessionIds \ {j.session}
        BY <2>1, <2>9 DEF Pending, Population, Ledger, RowLock, TypeOK, Job
      <4>2. job[q].write.status = "submitted" => SameKey(job[q].write, sessions[job[q].session])
        BY <2>9, <3>2 DEF Population, AllStagedOK, StagedOK
      <4> QED
        BY <2>7, <4>1, <4>2 DEF SameKey, HasKey
    <3> QED
      BY <3>1, <3>2
  <2> QED
    BY <1>2, <2>2, <2>8, <2>9, BecomePopulation
<1> QED
  BY <1>1, <1>2 DEF FlushSubmission

\* An unfinished row has no index entry.
LEMMA DraftPopulation ==
  ASSUME Population, Ledger', NEW r \in Requests, NEW u \in Users, NEW s \in SessionIds,
         NEW write, NEW events, write.status # "submitted",
         Stage(r, NewJob(u, NoOp, s), write, events)
  PROVE  Population'
<1> DEFINE j == [NewJob(u, NoOp, s) EXCEPT !.write = write, !.events = events, !.result = "ok"]
<1>1. j.write = write
  BY DEF NewJob
<1> HIDE DEF j
<1>2. StagedOK("replied", j)
  BY <1>1 DEF StagedOK, RowOK, SameKey
<1>3. Become(r, "replied", j)
  BY DEF Stage, j
<1> QED
  BY <1>1, <1>2, <1>3, BecomePopulation DEF SameKey

LEMMA SaveDraftPopulation ==
  ASSUME Population, Ledger', NEW r \in Requests, NEW u \in Users, NEW s \in SessionIds,
         NEW expected, NEW roster, SaveDraft(r, u, s, expected, roster)
  PROVE  Population'
<1>1. CASE Refuse(r)
  BY <1>1, EndPopulation
<1>2. ASSUME DraftRefusal(sessions[s], expected, sessions[s], roster) = "none",
             NEW write, write = UpdatedDraft(sessions[s], sessions[s].version + 1, roster),
             Stage(r, NewJob(u, NoOp, s), write, {})
      PROVE  Population'
  <2>1. sessions[s] \in Row /\ sessions[s].status # "submitted"
    BY <1>2 DEF SaveDraft, Exists, DraftRefusal, Absent, Population, Ledger, TypeOK
  <2>2. write.status = sessions[s].status
    BY <1>2, <2>1 DEF UpdatedDraft, Row
  <2> QED
    BY <1>2, <2>1, <2>2, DraftPopulation
<1> QED
  BY <1>1, <1>2 DEF SaveDraft

LEMMA DiscardPopulation ==
  ASSUME Population, Ledger', NEW r \in Requests, NEW u \in Users, NEW s \in SessionIds,
         Discard(r, u, s)
  PROVE  Population'
<1>1. Absent.status # "submitted"
  BY DEF Absent
<1> QED
  BY <1>1, EndPopulation, DraftPopulation DEF Discard

LEMMA SubmitOnlinePopulation ==
  ASSUME Population, Ledger', NEW r \in Requests, NEW u \in Users, NEW s \in SessionIds,
         SubmitOnline(r, u, s)
  PROVE  Population'
<1>1. CASE Refuse(r)
  BY <1>1, EndPopulation
<1>2. CASE Become(r, "done", [IdleJob EXCEPT !.result = "ok"])
  <2>1. [IdleJob EXCEPT !.result = "ok"].write = Nothing
    BY IdleJobFacts DEF Job
  <2> QED
    BY <1>2, <2>1, NothingStaged
<1>3. ASSUME SubmitRefusal(sessions[s].roster) = "none", NEW j,
             j = [NewJob(u, NoOp, s) EXCEPT !.write = sessions[s]], Become(r, "flush", j)
      PROVE  Population'
  <2>1. j.write = sessions[s]
    BY <1>3 DEF NewJob
  <2>2. StagedOK("flush", j) /\ ~Pending("flush", j)
    BY <1>3, <2>1, AcceptedIsComplete DEF StagedOK, Pending
  <2> QED
    BY <1>3, <2>2, BecomePopulation
<1> QED
  BY <1>1, <1>2, <1>3 DEF SubmitOnline

\* A corrected entry stays listed and marked.
LEMMA CorrectedPopulation ==
  ASSUME NEW row \in Row, NEW w \in Workers, w \in Listed(row.roster), NEW mark \in Marks
  PROVE  /\ Corrected(row, w, mark).status = row.status
         /\ Corrected(row, w, mark).date = row.date
         /\ Corrected(row, w, mark).submitter = row.submitter
         /\ Corrected(row, w, mark).fingerprint = row.fingerprint
         /\ Listed(Corrected(row, w, mark).roster) = Listed(row.roster)
         /\ Complete(row.roster) => Complete(Corrected(row, w, mark).roster)
<1>1. mark # Unmarked /\ mark # Unlisted
  BY ConstantsAreDistinct DEF Entries
<1>2. Corrected(row, w, mark).roster = [row.roster EXCEPT ![w] = mark]
      /\ row.roster \in [Workers -> Entries \cup {Unlisted}]
  BY DEF Corrected, Row, Rosters
<1>3. Listed(Corrected(row, w, mark).roster) = Listed(row.roster)
  BY <1>1, <1>2 DEF Listed
<1>4. Complete(row.roster) => Complete(Corrected(row, w, mark).roster)
  BY <1>1, <1>2, <1>3 DEF Complete
<1> QED
  BY <1>3, <1>4 DEF Corrected, Row

LEMMA CorrectEntryPopulation ==
  ASSUME Population, Ledger', NEW r \in Requests, NEW u \in Users, NEW s \in SessionIds,
         NEW w \in Workers, NEW expected, NEW mark \in Marks,
         CorrectEntry(r, u, s, w, expected, mark)
  PROVE  Population'
<1> DEFINE row    == sessions[s]
           write  == Corrected(row, w, mark)
           events == OnlineEvent(r, u, s, "corrected")
           j      == [NewJob(u, NoOp, s) EXCEPT !.write = write, !.events = events,
                                                !.result = "ok"]
<1>1. CASE Refuse(r)
  BY <1>1, EndPopulation
<1>2. CASE row.status = "submitted" /\ Stage(r, NewJob(u, NoOp, s), write, events)
  <2>1. row \in Row /\ w \in Listed(row.roster)
    BY DEF CorrectEntry, Exists, Absent, Population, Ledger, TypeOK
  <2>2. /\ write.status = "submitted" /\ write.date = row.date
        /\ write.submitter = row.submitter /\ write.fingerprint = row.fingerprint
        /\ Listed(write.roster) = Listed(row.roster)
        /\ Complete(row.roster) => Complete(write.roster)
    <3> HIDE DEF row
    <3> QED
      BY <1>2, <2>1, CorrectedPopulation
  <2>3. j.write = write /\ j.events = events /\ j.session = s
    BY DEF NewJob
  <2>4. RowOK(s, row, audit)
    BY DEF Population, RowsOK
  <2>5. Become(r, "replied", j)
    BY <1>2 DEF Stage
  <2> HIDE DEF write, events, j
  <2>6. RowOK(s, write, audit \cup events)
    BY <1>2, <2>2, <2>4 DEF RowOK
  <2>7. SameKey(write, row)
    BY <1>2, <2>2 DEF SameKey, HasKey
  <2>8. \A x : SameKey(write, x) => SameKey(row, x)
    BY <1>2, <2>2 DEF SameKey, HasKey
  <2>9. \A t \in SessionIds \ {s} : ~SameKey(write, sessions[t])
    BY <2>8 DEF Population, KeysDiffer
  <2>10. StagedOK("replied", j)
    BY <2>3, <2>6, <2>7, <2>9 DEF StagedOK
  <2>11. ASSUME NEW q \in Requests \ {r}, Pending(pc[q], job[q])
         PROVE  ~SameKey(write, job[q].write)
    <3>1. s \in SessionIds \ {job[q].session}
      BY <2>11 DEF Pending, CorrectEntry, RowFree, HoldsRow
    <3>2. ~SameKey(job[q].write, row)
      BY <2>11, <3>1 DEF Population, AllStagedOK, StagedOK
    <3> QED
      BY <2>8, <3>2, SameKeySymmetric
  <2> QED
    BY <2>3, <2>5, <2>10, <2>11, BecomePopulation
<1> QED
  BY <1>1, <1>2 DEF CorrectEntry

LEMMA OnlineRequestPopulation ==
  ASSUME Population, Ledger', NEW r \in Requests, OnlineRequest(r)
  PROVE  Population'
<1>1. ASSUME NEW u \in Users, NEW s \in SessionIds, NEW ro \in RosterInputs, NEW v,
             SaveDraft(r, u, s, v, ro)
      PROVE  Population'
  BY <1>1, SaveDraftPopulation
<1>2. ASSUME NEW u \in Users, NEW s \in SessionIds, NEW w \in Workers, NEW m \in Marks,
             NEW v, CorrectEntry(r, u, s, w, v, m)
      PROVE  Population'
  BY <1>2, CorrectEntryPopulation
<1>3. ASSUME NEW u \in Users, NEW s \in SessionIds,
             SubmitOnline(r, u, s) \/ Discard(r, u, s) \/ OnlineNotFound(r, s)
      PROVE  Population'
  BY <1>3, SubmitOnlinePopulation, DiscardPopulation, EndPopulation DEF OnlineNotFound
<1> QED
  BY <1>1, <1>2, <1>3 DEF OnlineRequest

-----------------------------------------------------------------------------
\* A commit makes a staged row the committed one; the other requests staged
\* other rows (RowLock), and no row with its key (StagedKeysDiffer).
LEMMA CommitPopulation ==
  ASSUME Population, Ledger', NEW r \in Requests, Commit(r)
  PROVE  Population'
<1> DEFINE j == job[r]
           s == j.session
<1>1. /\ j \in Job /\ s \in SessionIds /\ pc[r] = "replied"
      /\ audit' = audit \cup j.events
      /\ \A q \in Requests \ {r} : pc'[q] = pc[q] /\ job'[q] = job[q]
  BY DEF Commit, Population, Ledger, TypeOK, Job
<1>2. pc'[r] = "done"
  BY DEF Commit, Population, Ledger, TypeOK
<1>3. CASE j.write = Nothing
  <2>1. sessions' = sessions
    BY <1>3 DEF Commit
  <2>2. RowsOK'
    BY <1>1, <2>1, RowOKGrows DEF Population, RowsOK
  <2>3. KeysDiffer'
    BY <2>1 DEF Population, KeysDiffer, SameKey, HasKey
  <2>4. ASSUME NEW q \in Requests PROVE StagedOK(pc[q], job[q])'
    <3>1. CASE q = r
      BY <1>2, <3>1 DEF StagedOK, Pending
    <3>2. CASE q # r
      <4>1. pc'[q] = pc[q] /\ job'[q] = job[q] /\ StagedOK(pc[q], job[q])
        BY <1>1, <3>2 DEF Population, AllStagedOK
      <4> QED
        BY <1>1, <2>1, <4>1 DEF StagedOK, RowOK, SameKey, HasKey, Pending, Claims
    <3> QED
      BY <3>1, <3>2
  <2>5. StagedKeysDiffer'
    BY <1>1, <1>2 DEF Population, StagedKeysDiffer, Pending, SameKey, HasKey
  <2> QED
    BY <2>2, <2>3, <2>4, <2>5 DEF Population, AllStagedOK
<1>4. CASE j.write # Nothing
  <2>1. /\ sessions'[s] = j.write
        /\ \A t \in SessionIds \ {s} : sessions'[t] = sessions[t]
    BY <1>1, <1>4 DEF Commit, Population, Ledger, TypeOK
  <2>2. /\ RowOK(s, j.write, audit \cup j.events)
        /\ \A t \in SessionIds \ {s} : ~SameKey(j.write, sessions[t])
    BY <1>1, <1>4 DEF Population, AllStagedOK, StagedOK, Pending
  <2>3. RowsOK'
    <3> SUFFICES ASSUME NEW t \in SessionIds PROVE RowOK(t, sessions'[t], audit')
      BY DEF RowsOK, RowOK
    <3>1. CASE t = s
      BY <1>1, <2>1, <2>2, <3>1
    <3>2. CASE t # s
      BY <1>1, <2>1, <3>2, RowOKGrows DEF Population, RowsOK
    <3> QED
      BY <3>1, <3>2
  <2>4. \A a, b \in SessionIds : a # b => ~SameKey(sessions'[a], sessions'[b])
    BY <1>1, <2>1, <2>2, SameKeySymmetric DEF Population, KeysDiffer
  <2>5. ASSUME NEW q \in Requests PROVE StagedOK(pc[q], job[q])'
    <3>1. CASE q = r
      BY <1>2, <3>1 DEF StagedOK, Pending
    <3>2. CASE q # r
      <4>1. /\ pc'[q] = pc[q] /\ job'[q] = job[q] /\ StagedOK(pc[q], job[q])
            /\ job[q].session \in SessionIds
        BY <1>1, <3>2 DEF Population, AllStagedOK, Ledger, TypeOK, Job
      <4>2. ASSUME Pending(pc[q], job[q])
            PROVE  /\ job[q].session # s
                   /\ ~SameKey(job[q].write, j.write)
        <5>1. job[q].write # Nothing /\ Pending(pc[r], job[r])
          BY <1>1, <1>4, <4>2 DEF Pending
        <5> QED
          BY <3>2, <4>2, <5>1, <1>4 DEF Population, Ledger, RowLock, StagedKeysDiffer
      <4>3. ASSUME Pending(pc[q], job[q])
            PROVE  /\ RowOK(job[q].session, job[q].write, audit' \cup job[q].events)
                   /\ \A t \in SessionIds \ {job[q].session} :
                        ~SameKey(job[q].write, sessions'[t])
                   /\ (~Claims(job[q]) /\ job[q].write.status = "submitted") =>
                        SameKey(job[q].write, sessions'[job[q].session])
        <5>1. RowOK(job[q].session, job[q].write, audit' \cup job[q].events)
          BY <1>1, <4>1, <4>3, RowOKGrows DEF StagedOK
        <5> QED
          BY <2>1, <4>1, <4>2, <4>3, <5>1 DEF StagedOK
      <4> QED
        BY <4>1, <4>3 DEF StagedOK, RowOK, SameKey, HasKey, Pending, Claims
    <3> QED
      BY <3>1, <3>2
  <2>6. StagedKeysDiffer'
    BY <1>1, <1>2 DEF Population, StagedKeysDiffer, Pending, SameKey, HasKey
  <2> QED
    BY <2>3, <2>4, <2>5, <2>6 DEF Population, AllStagedOK, KeysDiffer, SameKey, HasKey
<1> QED
  BY <1>3, <1>4

\* A new draft takes no index entry.
LEMMA StartSessionPopulation ==
  ASSUME Population, Ledger', NEW s \in SessionIds, NEW u \in Users, NEW date \in Dates,
         StartSession(s, u, date)
  PROVE  Population'
<1>1. /\ pc' = pc /\ job' = job /\ audit \subseteq audit'
      /\ sessions[s].status = "absent" /\ sessions'[s].status = "draft"
      /\ \A t \in SessionIds \ {s} : sessions'[t] = sessions[t]
  BY DEF StartSession, Exists, NewDraft, Population, Ledger, TypeOK
<1>2. RowsOK'
  <2> SUFFICES ASSUME NEW t \in SessionIds PROVE RowOK(t, sessions'[t], audit')
    BY DEF RowsOK, RowOK
  <2>1. CASE t = s
    BY <1>1, <2>1 DEF RowOK
  <2>2. CASE t # s
    BY <1>1, <2>2, RowOKGrows DEF Population, RowsOK
  <2> QED
    BY <2>1, <2>2
<1>3. \A a, b \in SessionIds : a # b => ~SameKey(sessions'[a], sessions'[b])
  BY <1>1 DEF Population, KeysDiffer, SameKey, HasKey
<1>4. ASSUME NEW q \in Requests PROVE StagedOK(pc[q], job[q])'
  <2>1. StagedOK(pc[q], job[q]) /\ job[q].session \in SessionIds
    BY DEF Population, AllStagedOK, Ledger, TypeOK, Job
  <2>2. \A x : ~SameKey(x, sessions'[s]) /\ ~SameKey(x, sessions[s])
    BY <1>1 DEF SameKey, HasKey
  <2>3. RowOK(job[q].session, job[q].write, audit \cup job[q].events)
        => RowOK(job[q].session, job[q].write, audit' \cup job[q].events)
    BY <1>1 DEF RowOK
  <2>4. \A t \in SessionIds : SameKey(job[q].write, sessions'[t])
                              <=> SameKey(job[q].write, sessions[t])
    BY <1>1, <2>2
  <2> QED
    BY <1>1, <2>1, <2>3, <2>4 DEF StagedOK, RowOK, SameKey, HasKey, Pending, Claims
<1>5. StagedKeysDiffer'
  BY <1>1 DEF Population, StagedKeysDiffer, Pending, SameKey, HasKey
<1> QED
  BY <1>2, <1>3, <1>4, <1>5 DEF Population, AllStagedOK, KeysDiffer, SameKey, HasKey

\* What none of the population's rows and events depend on.
LEMMA UnchangedPopulation ==
  ASSUME Population, Ledger', UNCHANGED <<sessions, audit, pc, job>>
  PROVE  Population'
BY DEF Population, RowsOK, KeysDiffer, AllStagedOK, StagedKeysDiffer, StagedOK, RowOK,
       SameKey, HasKey, Pending, Claims

LEMMA InitPopulation == Init => Population
<1> SUFFICES ASSUME Init PROVE Population
  OBVIOUS
<1>1. \A s \in SessionIds : sessions[s].status # "submitted"
  BY DEF Init, Absent
<1>2. \A r \in Requests : pc[r] = "new"
  BY DEF Init
<1> QED
  BY <1>1, <1>2, InitLedger
     DEF Population, RowsOK, RowOK, KeysDiffer, SameKey, AllStagedOK, StagedOK,
         StagedKeysDiffer, Pending

\* Every step keeps the invariant.
LEMMA NextPopulation == Population /\ [Next]_vars => Population'
<1> SUFFICES ASSUME Population, [Next]_vars PROVE Population'
  OBVIOUS
<1>1. Ledger'
  BY NextLedger DEF Population
<1>2. CASE Environment
  <2>1. ASSUME NEW op, NEW s, NEW d, NEW ro, NEW pv, QueueOp(op, s, d, ro, pv)
        PROVE  Population'
    BY <1>1, <2>1, UnchangedPopulation DEF QueueOp
  <2>2. ASSUME NEW w, SetWorkerStatus(w) PROVE Population'
    BY <1>1, <2>2, UnchangedPopulation DEF SetWorkerStatus
  <2> QED
    BY <1>1, <1>2, <2>1, <2>2, StartSessionPopulation DEF Environment
<1>3. ASSUME NEW r \in Requests, NEW u \in Users, NEW op \in Ops, IngestBegin(r, u, op)
      PROVE  Population'
  BY <1>1, <1>3, IngestBeginPopulation
<1>4. ASSUME NEW r \in Requests, OnlineRequest(r) PROVE Population'
  BY <1>1, <1>4, OnlineRequestPopulation
<1>5. ASSUME NEW r \in Requests, Progress(r) \/ Abort(r) PROVE Population'
  BY <1>1, <1>5, IngestApplyPopulation, FlushSubmissionPopulation, CommitPopulation,
     EndPopulation DEF Progress
<1>6. CASE UNCHANGED vars
  BY <1>1, <1>6, UnchangedPopulation DEF vars
<1> QED
  BY <1>2, <1>3, <1>4, <1>5, <1>6 DEF Next

-----------------------------------------------------------------------------
\* In every reachable state, submitted rows and rows about to become so agree
\* with their rosters, with the unique index and with the audit trail.
THEOREM PopulationHolds == Spec => []Population
BY InitPopulation, NextPopulation, PTL DEF Spec

\* Whatever requests race, no two submitted sessions of a date list the same
\* Workers (uq_attendance_submitted_population and worker_set_fingerprint).
THEOREM UniquePopulations == Spec => []UniquePopulation
<1>1. Population => UniquePopulation
  BY DEF Population, RowsOK, RowOK, KeysDiffer, SameKey, HasKey, UniquePopulation
<1> QED
  BY <1>1, PopulationHolds, PTL

\* Every submitted session has a complete roster, and its submitter an audited
\* submission of exactly this population (submit_session and its audit event).
THEOREM SubmissionsAccounted == Spec => []SubmittedIsAccounted
<1>1. Population => SubmittedIsAccounted
  BY DEF Population, RowsOK, RowOK, Complete, SubmittedIsAccounted
<1> QED
  BY <1>1, PopulationHolds, PTL

-----------------------------------------------------------------------------
(* The audit trail.  Books says what a staged row and the events staged    *)
(* with it owe to each other, and that an event is the doing of one        *)
(* request that is over: two commits never write the same event.           *)


Of(events, s, action) == {e \in events : e.session = s /\ e.action = action}

One(events, s, action)  == \E e : Of(events, s, action) = {e}
None(events, s, action) == Of(events, s, action) = {}

\* A staged insertion comes with one creation, a staged deletion with one
\* discard, any other change with neither.  Only offline submissions insert.
EntryOK(j) ==
  /\ \A e \in j.events : e.session = j.session
  /\ j.write = Nothing =>
       None(j.events, j.session, "created") /\ None(j.events, j.session, "discarded")
  /\ (j.write # Nothing /\ ~Exists(j.session)) =>
       /\ One(j.events, j.session, "created") /\ None(j.events, j.session, "discarded")
       /\ j.write # Absent
       /\ j.op \in Ops /\ queued[j.op] # NotQueued /\ queued[j.op].target = j.session
  /\ (j.write # Nothing /\ Exists(j.session)) =>
       /\ None(j.events, j.session, "created")
       /\ IF j.write = Absent THEN One(j.events, j.session, "discarded")
          ELSE None(j.events, j.session, "discarded")

EntriesOK == \A r \in Requests : EntryOK(job[r])

\* An audited event was written by a request that is over, or by none.
Written == \A e \in audit : e.request = NoRequest \/ pc[e.request] = "done"

Countable ==
  \A s \in SessionIds : IsFiniteSet(Of(audit, s, "created")) /\ IsFiniteSet(Of(audit, s, "discarded"))

Books == Ledger /\ EntriesOK /\ Written /\ Countable /\ AuditBalances

-----------------------------------------------------------------------------
\* A step that only moves one request that is not over.
LEMMA BecomeBooks ==
  ASSUME Books, Ledger', NEW r \in Requests, NEW step, NEW j,
         Become(r, step, j), pc[r] # "done", EntryOK(j)
  PROVE  Books'
<1>1. /\ UNCHANGED <<sessions, audit, queued>> /\ job'[r] = j
      /\ \A q \in Requests \ {r} : pc'[q] = pc[q] /\ job'[q] = job[q]
  BY DEF Become, Books, Ledger, TypeOK
<1>2. EntriesOK'
  <2> SUFFICES ASSUME NEW q \in Requests PROVE EntryOK(job[q])'
    BY DEF EntriesOK
  <2>1. EntryOK(job'[q])
    BY <1>1 DEF Books, EntriesOK
  <2> QED
    BY <1>1, <2>1 DEF EntryOK, Exists
<1>3. Written'
  <2>1. \A e \in audit : e.request \in Requests \cup {NoRequest}
    BY DEF Books, Ledger, TypeOK, Event
  <2> QED
    BY <1>1, <2>1 DEF Books, Written
<1>4. (Countable /\ AuditBalances)'
  BY <1>1 DEF Books, Countable, AuditBalances, Of, Exists
<1> QED
  BY <1>2, <1>3, <1>4 DEF Books

\* Steps after which the request has nothing staged.
LEMMA NothingEntered ==
  ASSUME Books, Ledger', NEW r \in Requests, NEW step, NEW j,
         Become(r, step, j), pc[r] # "done", j.write = Nothing, j.events = {}
  PROVE  Books'
BY BecomeBooks DEF EntryOK, None, Of

LEMMA EndBooks ==
  ASSUME Books, Ledger', NEW r \in Requests,
         (pc[r] # "done" /\ Refuse(r)) \/ Abort(r)
  PROVE  Books'
<1>1. [IdleJob EXCEPT !.result = "refused"].write = Nothing
      /\ [IdleJob EXCEPT !.result = "refused"].events = {}
  BY IdleJobFacts DEF Job
<1>2. Answer(job[r]).write = Nothing /\ Answer(job[r]).events = {}
  BY IdleJobFacts DEF Answer, Job
<1> QED
  BY <1>1, <1>2, NothingEntered DEF Refuse, Abort, InFlight

LEMMA StoredBooks ==
  ASSUME Books, Ledger', NEW r \in Requests, pc[r] # "done", NEW j \in Job, NEW result,
         Become(r, "replied", StoreResult(j, result))
  PROVE  Books'
<1>1. StoreResult(j, result).write = Nothing /\ StoreResult(j, result).events = {}
  BY DEF StoreResult, Job
<1> QED
  BY <1>1, NothingEntered

LEMMA IngestBeginBooks ==
  ASSUME Books, Ledger', NEW r \in Requests, NEW u \in Users, NEW op \in Ops,
         IngestBegin(r, u, op)
  PROVE  Books'
<1> DEFINE j == NewJob(u, op, queued[op].target)
<1>1. queued[op].target \in SessionIds
  BY DEF IngestBegin, Books, Ledger, TypeOK, Payload
<1>2. j \in Job /\ j.write = Nothing /\ j.events = {}
  BY <1>1, NewJobFacts
<1>3. \A x : /\ [j EXCEPT !.result = x].write = Nothing /\ [j EXCEPT !.result = x].events = {}
             /\ [j EXCEPT !.seen = x].write = Nothing /\ [j EXCEPT !.seen = x].events = {}
  BY <1>2 DEF Job
<1>4. pc[r] # "done"
  BY DEF IngestBegin
<1>5. CASE \E x : \/ Become(r, "replied", [j EXCEPT !.result = x])
                  \/ Become(r, "apply", [j EXCEPT !.seen = x])
  <2> HIDE DEF j
  <2> QED
    BY <1>3, <1>4, <1>5, NothingEntered
<1>6. CASE \E x : Become(r, "replied", StoreResult(j, x))
  <2> HIDE DEF j
  <2> QED
    BY <1>2, <1>4, <1>6, StoredBooks
<1> QED
  BY <1>5, <1>6 DEF IngestBegin

\* A row on its way into the flush is a row.
LEMMA BecomeFlush ==
  ASSUME Books, Ledger', NEW r \in Requests, NEW j, Become(r, "flush", j)
  PROVE  j.write \in Row
<1>1. pc'[r] = "flush" /\ job'[r] = j
  BY DEF Become, Books, Ledger, TypeOK
<1>2. JobOK(r, pc[r], job[r])'
  BY DEF Ledger, JobsOK
<1> QED
  BY <1>1, <1>2 DEF JobOK

LEMMA IngestApplyBooks ==
  ASSUME Books, Ledger', NEW r \in Requests, IngestApply(r)
  PROVE  Books'
<1> DEFINE p      == queued[job[r].op]
           s      == job[r].session
           insert == job[r].seen = Absent
           held   == IF insert THEN NewDraft(job[r].user, p.date) ELSE sessions[s]
           object == IF insert THEN held ELSE job[r].seen
           created == EventOf(r, "created", {})
           events == IF insert THEN {created} ELSE {}
           flush(row, version, evs) ==
             [job[r] EXCEPT !.events = evs, !.seen = Absent,
                            !.write = UpdatedDraft(row, version, p.roster)]
<1>1. /\ pc[r] = "apply" /\ job[r] \in Job /\ job[r].op \in Ops /\ p # NotQueued
      /\ p.target = s /\ s \in SessionIds
  <2>1. job[r] \in Job /\ JobOK(r, "apply", job[r]) /\ pc[r] = "apply"
    BY DEF Books, Ledger, TypeOK, JobsOK, IngestApply
  <2> QED
    BY <2>1, ConstantsAreDistinct DEF JobOK, Ongoing, Undecided, Job
<1>2. CASE \E result : Become(r, "replied", StoreResult(job[r], result))
  BY <1>1, <1>2, StoredBooks
<1>3. CASE /\ insert # Exists(s)
           /\ Become(r, "flush", flush(held, object.version + 1, events))
  <2> DEFINE j == flush(held, object.version + 1, events)
  <2>1. j.session = s /\ j.op = job[r].op /\ j.events = events
    BY <1>1 DEF Job
  <2>2. Become(r, "flush", j)
    BY <1>3
  <2>3. insert = ~Exists(s)
    <3>1. insert # Exists(s)
      BY <1>3
    <3>2. insert \in BOOLEAN /\ Exists(s) \in BOOLEAN
      BY DEF Exists
    <3> QED
      BY <3>1, <3>2
  <2>4. created.session = s /\ created.action = "created"
    BY DEF EventOf
  <2> HIDE DEF j, created
  <2>5. j.write \in Row
    BY <2>2, BecomeFlush
  <2>6. j.write # Absent /\ j.write # Nothing
    BY <2>5, EmptyRecords
  <2>7. CASE insert
    <3>1. events = {created} /\ ~Exists(s)
      BY <2>3, <2>7
    <3>2. Of(events, s, "created") = {created} /\ Of(events, s, "discarded") = {}
      BY <2>4, <3>1 DEF Of
    <3>3. EntryOK(j)
      BY <1>1, <2>1, <2>4, <2>6, <3>1, <3>2 DEF EntryOK, One, None
    <3> QED
      BY <1>1, <2>2, <3>3, BecomeBooks
  <2>8. CASE ~insert
    <3>1. events = {} /\ Exists(s)
      BY <2>3, <2>8
    <3>2. EntryOK(j)
      BY <2>1, <2>6, <3>1 DEF EntryOK, None, Of
    <3> QED
      BY <1>1, <2>2, <3>2, BecomeBooks
  <2> QED
    BY <2>7, <2>8
<1> QED
  <2>1. \/ \E result : Become(r, "replied", StoreResult(job[r], result))
        \/ /\ insert # Exists(s)
           /\ Become(r, "flush", flush(held, object.version + 1, events))
    BY DEF IngestApply
  <2> QED
    BY <1>2, <1>3, <2>1

\* The submission itself neither creates nor discards.
LEMMA FlushSubmissionBooks ==
  ASSUME Books, Ledger', NEW r \in Requests, FlushSubmission(r)
  PROVE  Books'
<1> DEFINE j      == job[r]
           fp     == Listed(j.write.roster)
           event  == EventOf(r, "submitted", fp)
           write  == Submitted(j.write, j.user)
           staged == [j EXCEPT !.write = write, !.store = (j.op # NoOp),
                        !.result = IF j.op # NoOp THEN "applied" ELSE "ok",
                        !.events = j.events \cup {event}]
<1>1. /\ j \in Job /\ j.write \in Row /\ Listed(j.write.roster) # {} /\ j.user \in Users
      /\ pc[r] = "flush"
  BY DEF FlushSubmission, Books, Ledger, TypeOK, JobsOK, JobOK, Ongoing
<1>2. CASE Refuse(r) \/ Become(r, "replied", StoreResult(j, "conflict"))
  BY <1>1, <1>2, EndBooks, StoredBooks
<1>3. CASE Become(r, "replied", staged)
  <2>1. /\ staged.write = write /\ staged.session = j.session /\ staged.op = j.op
        /\ staged.events = j.events \cup {event}
    BY <1>1 DEF Job
  <2>2. write \in Row
    BY <1>1, SubmittedRow
  <2>3. event.action = "submitted" /\ event.session = j.session
    BY DEF EventOf
  <2> HIDE DEF event, write, staged
  <2>4. \A a \in {"created", "discarded"} :
          Of(staged.events, j.session, a) = Of(j.events, j.session, a)
    BY <2>1, <2>3 DEF Of
  <2>5. EntryOK(j) /\ j.write # Nothing /\ j.write # Absent
    BY <1>1, EmptyRecords DEF Books, EntriesOK
  <2>6. write # Nothing /\ write # Absent
    BY <2>2, EmptyRecords
  <2> HIDE DEF j
  <2>7. EntryOK(staged)
    BY <2>1, <2>3, <2>4, <2>5, <2>6 DEF EntryOK, One, None
  <2> QED
    BY <1>1, <1>3, <2>7, BecomeBooks
<1> QED
  BY <1>2, <1>3 DEF FlushSubmission

-----------------------------------------------------------------------------
\* A handler that changes an existing row under its lock.
LEMMA StageBooks ==
  ASSUME Books, Ledger', NEW r \in Requests, pc[r] = "new", NEW u \in Users,
         NEW s \in SessionIds, Exists(s), NEW write, write # Nothing, NEW events,
         \A e \in events : e.session = s /\ e.action # "created",
         IF write = Absent THEN One(events, s, "discarded") ELSE None(events, s, "discarded"),
         Stage(r, NewJob(u, NoOp, s), write, events)
  PROVE  Books'
<1> DEFINE j == [NewJob(u, NoOp, s) EXCEPT !.write = write, !.events = events,
                                           !.result = "ok"]
<1>1. j.write = write /\ j.events = events /\ j.session = s
  BY DEF NewJob
<1>2. Become(r, "replied", j)
  BY DEF Stage
<1> HIDE DEF j
<1>3. EntryOK(j)
  BY <1>1 DEF EntryOK, None, Of
<1> QED
  BY <1>2, <1>3, BecomeBooks

LEMMA SaveDraftBooks ==
  ASSUME Books, Ledger', NEW r \in Requests, NEW u \in Users, NEW s \in SessionIds,
         NEW expected, NEW roster \in RosterInputs, SaveDraft(r, u, s, expected, roster)
  PROVE  Books'
<1> DEFINE write == UpdatedDraft(sessions[s], sessions[s].version + 1, roster)
<1>1. pc[r] = "new" /\ Exists(s) /\ roster \in Rosters
  BY InputsAreRosters DEF SaveDraft
<1>2. sessions[s] \in Row /\ sessions[s].version + 1 \in Nat \ {0}
  <2>1. sessions[s] \in Row
    BY <1>1 DEF Exists, Absent, Books, Ledger, TypeOK
  <2> QED
    BY <2>1 DEF Row
<1>3. write \in Row
  <2> DEFINE row == sessions[s]
  <2> HIDE DEF row
  <2>1. row \in Row /\ row.version + 1 \in Nat \ {0}
    BY <1>2 DEF row
  <2>2. UpdatedDraft(row, row.version + 1, roster) \in Row
    BY <1>1, <2>1, UpdatedDraftRow
  <2> QED
    BY <2>2 DEF row
<1> HIDE DEF write
<1>4. write # Absent /\ write # Nothing
  BY <1>3, EmptyRecords
<1>5. CASE Stage(r, NewJob(u, NoOp, s), write, {})
  BY <1>1, <1>4, <1>5, StageBooks DEF None, Of
<1> QED
  BY <1>1, <1>5, EndBooks DEF SaveDraft, write

LEMMA DiscardBooks ==
  ASSUME Books, Ledger', NEW r \in Requests, NEW u \in Users, NEW s \in SessionIds,
         Discard(r, u, s)
  PROVE  Books'
<1> DEFINE event == [action |-> "discarded", session |-> s, user |-> u, op |-> NoOp,
                     request |-> r, fingerprint |-> {}]
<1>1. pc[r] = "new" /\ Exists(s)
  BY DEF Discard
<1>2. CASE Stage(r, NewJob(u, NoOp, s), Absent, OnlineEvent(r, u, s, "discarded"))
  <2>1. OnlineEvent(r, u, s, "discarded") = {event}
    BY DEF OnlineEvent
  <2>2. Of({event}, s, "discarded") = {event}
    BY DEF Of
  <2>3. \A e \in {event} : e.session = s /\ e.action # "created"
    OBVIOUS
  <2> HIDE DEF event
  <2> QED
    BY <1>1, <1>2, <2>1, <2>2, <2>3, EmptyRecords, StageBooks DEF One
<1> QED
  BY <1>1, <1>2, EndBooks DEF Discard

LEMMA CorrectEntryBooks ==
  ASSUME Books, Ledger', NEW r \in Requests, NEW u \in Users, NEW s \in SessionIds,
         NEW w \in Workers, NEW expected, NEW mark \in Marks,
         CorrectEntry(r, u, s, w, expected, mark)
  PROVE  Books'
<1> DEFINE write  == Corrected(sessions[s], w, mark)
           events == OnlineEvent(r, u, s, "corrected")
<1>1. pc[r] = "new" /\ Exists(s)
  BY DEF CorrectEntry
<1>2. sessions[s] \in Row /\ SubmissionState(sessions[s])
  BY <1>1 DEF Exists, Absent, Books, Ledger, TypeOK
<1>3. write \in Row
  BY <1>2, CorrectedRow
<1>4. \A e \in events : e.session = s /\ e.action = "corrected"
  BY DEF OnlineEvent
<1> HIDE DEF write, events
<1>5. write # Absent /\ write # Nothing
  BY <1>3, EmptyRecords
<1>6. CASE Stage(r, NewJob(u, NoOp, s), write, events)
  BY <1>1, <1>4, <1>5, <1>6, StageBooks DEF None, Of
<1> QED
  BY <1>1, <1>6, EndBooks DEF CorrectEntry, write, events

LEMMA SubmitOnlineBooks ==
  ASSUME Books, Ledger', NEW r \in Requests, NEW u \in Users, NEW s \in SessionIds,
         SubmitOnline(r, u, s)
  PROVE  Books'
<1>1. pc[r] = "new" /\ Exists(s)
  BY DEF SubmitOnline
<1>2. CASE Become(r, "done", [IdleJob EXCEPT !.result = "ok"])
  <2>1. [IdleJob EXCEPT !.result = "ok"].write = Nothing
        /\ [IdleJob EXCEPT !.result = "ok"].events = {}
    BY IdleJobFacts DEF Job
  <2> QED
    BY <1>1, <1>2, <2>1, NothingEntered
<1>3. CASE Become(r, "flush", [NewJob(u, NoOp, s) EXCEPT !.write = sessions[s]])
  <2> DEFINE j == [NewJob(u, NoOp, s) EXCEPT !.write = sessions[s]]
  <2>1. j.write = sessions[s] /\ j.events = {} /\ j.session = s
    BY DEF NewJob
  <2>2. j.write # Absent
    BY <1>1, <2>1 DEF Exists, Absent
  <2> HIDE DEF j
  <2>3. EntryOK(j)
    BY <1>1, <2>1, <2>2 DEF EntryOK, None, Of
  <2> QED
    BY <1>1, <1>3, <2>3, BecomeBooks DEF j
<1> QED
  BY <1>1, <1>2, <1>3, EndBooks DEF SubmitOnline

LEMMA OnlineRequestBooks ==
  ASSUME Books, Ledger', NEW r \in Requests, OnlineRequest(r)
  PROVE  Books'
<1>1. ASSUME NEW u \in Users, NEW s \in SessionIds, NEW ro \in RosterInputs, NEW v,
             SaveDraft(r, u, s, v, ro)
      PROVE  Books'
  BY <1>1, SaveDraftBooks
<1>2. ASSUME NEW u \in Users, NEW s \in SessionIds, NEW w \in Workers, NEW m \in Marks,
             NEW v, CorrectEntry(r, u, s, w, v, m)
      PROVE  Books'
  BY <1>2, CorrectEntryBooks
<1>3. ASSUME NEW u \in Users, NEW s \in SessionIds,
             SubmitOnline(r, u, s) \/ Discard(r, u, s) \/ OnlineNotFound(r, s)
      PROVE  Books'
  BY <1>3, SubmitOnlineBooks, DiscardBooks, EndBooks DEF OnlineNotFound
<1> QED
  BY <1>1, <1>2, <1>3 DEF OnlineRequest

-----------------------------------------------------------------------------
\* One event more in the trail is one more of its kind.
LEMMA OneMore ==
  ASSUME NEW events, NEW more, NEW s, NEW action, IsFiniteSet(Of(events, s, action)),
         One(more, s, action), Of(events, s, action) \cap Of(more, s, action) = {}
  PROVE  /\ IsFiniteSet(Of(events \cup more, s, action))
         /\ Cardinality(Of(events \cup more, s, action)) = Cardinality(Of(events, s, action)) + 1
<1>1. PICK e : Of(more, s, action) = {e}
  BY DEF One
<1>2. Of(events \cup more, s, action) = Of(events, s, action) \cup {e}
  BY <1>1 DEF Of
<1>3. e \notin Of(events, s, action)
  BY <1>1
<1> QED
  BY <1>2, <1>3, FS_AddElement

LEMMA NoneMore ==
  ASSUME NEW events, NEW more, NEW s, NEW action, None(more, s, action)
  PROVE  Of(events \cup more, s, action) = Of(events, s, action)
BY DEF None, Of

\* A commit enters what it staged, and the others staged other rows.
LEMMA CommitBooks ==
  ASSUME Books, Ledger', NEW r \in Requests, Commit(r)
  PROVE  Books'
<1> DEFINE j == job[r]
           s == j.session
<1>1. /\ j \in Job /\ s \in SessionIds /\ pc[r] = "replied" /\ EntryOK(j)
      /\ audit' = audit \cup j.events /\ queued' = queued
      /\ \A q \in Requests \ {r} : pc'[q] = pc[q] /\ job'[q] = job[q]
      /\ pc'[r] = "done" /\ job'[r] = Answer(j)
      /\ \A e \in j.events : e.request = r
  BY DEF Commit, Books, EntriesOK, Ledger, TypeOK, JobsOK, JobOK, EventsOK, Job
<1>2. \A t \in SessionIds \ {s} : sessions'[t] = sessions[t]
  BY <1>1 DEF Commit, Books, Ledger, TypeOK
<1>3. j.write = Nothing => sessions' = sessions
  BY DEF Commit
<1>4. j.write # Nothing => sessions'[s] = j.write
  BY <1>1 DEF Commit, Books, Ledger, TypeOK
<1>5. Written'
  <2>1. \A e \in audit : e.request \in Requests \cup {NoRequest}
    BY DEF Books, Ledger, TypeOK, Event
  <2> QED
    BY <1>1, <2>1 DEF Books, Written
<1>6. audit \cap j.events = {}
  BY <1>1, ConstantsAreDistinct DEF Books, Written
<1>7. EntriesOK'
  <2> SUFFICES ASSUME NEW q \in Requests PROVE EntryOK(job[q])'
    BY DEF EntriesOK
  <2>1. CASE q = r
    <3>1. Answer(j).write = Nothing /\ Answer(j).events = {}
      BY IdleJobFacts DEF Answer, Job
    <3> QED
      BY <1>1, <2>1, <3>1 DEF EntryOK, None, Of
  <2>2. CASE q # r
    <3>1. job'[q] = job[q] /\ EntryOK(job[q]) /\ job[q].session \in SessionIds
      BY <1>1, <2>2 DEF Books, EntriesOK, Ledger, TypeOK, Job
    <3>2. job[q].write # Nothing => sessions'[job[q].session] = sessions[job[q].session]
      BY <1>2, <1>3, <2>2, <3>1 DEF Books, Ledger, RowLock
    <3> QED
      BY <1>1, <3>1, <3>2 DEF EntryOK, Exists, One, None
  <2> QED
    BY <2>1, <2>2
<1>8. ASSUME NEW t \in SessionIds
      PROVE  /\ IsFiniteSet(Of(audit', t, "created")) /\ IsFiniteSet(Of(audit', t, "discarded"))
             /\ Cardinality(Of(audit', t, "created")) =
                Cardinality(Of(audit', t, "discarded"))
                  + (IF sessions'[t].status # "absent" THEN 1 ELSE 0)
  <2>1. /\ IsFiniteSet(Of(audit, t, "created")) /\ IsFiniteSet(Of(audit, t, "discarded"))
        /\ Cardinality(Of(audit, t, "created")) =
           Cardinality(Of(audit, t, "discarded")) + (IF Exists(t) THEN 1 ELSE 0)
    BY DEF Books, Countable, AuditBalances, Of
  <2>2. /\ Cardinality(Of(audit, t, "created")) \in Nat
        /\ Cardinality(Of(audit, t, "discarded")) \in Nat
    BY <2>1, FS_CardinalityType
  <2>3. \A a : Of(audit, t, a) \cap Of(j.events, t, a) = {}
    BY <1>6 DEF Of
  <2>4. CASE t # s \/ j.write = Nothing
    <3>1. None(j.events, t, "created") /\ None(j.events, t, "discarded")
      BY <1>1, <2>4 DEF EntryOK, None, Of
    <3>2. sessions'[t] = sessions[t]
      BY <1>2, <1>3, <2>4
    <3> QED
      BY <1>1, <2>1, <3>1, <3>2, NoneMore DEF Exists
  <2>5. CASE t = s /\ j.write # Nothing /\ ~Exists(s)
    <3>1. One(j.events, t, "created") /\ None(j.events, t, "discarded") /\ j.write # Absent
      BY <1>1, <2>5 DEF EntryOK
    <3>2. sessions'[t] = j.write /\ sessions'[t].status # "absent"
      BY <1>1, <1>4, <2>5, <3>1, EmptyRecords DEF Job, Row
    <3>3. /\ IsFiniteSet(Of(audit', t, "created"))
          /\ Cardinality(Of(audit', t, "created")) = Cardinality(Of(audit, t, "created")) + 1
      BY <1>1, <2>1, <2>3, <3>1, OneMore
    <3>4. Of(audit', t, "discarded") = Of(audit, t, "discarded")
      BY <1>1, <3>1, NoneMore
    <3> QED
      BY <2>1, <2>2, <2>5, <3>2, <3>3, <3>4
  <2>6. CASE t = s /\ j.write # Nothing /\ Exists(s) /\ j.write = Absent
    <3>1. One(j.events, t, "discarded") /\ None(j.events, t, "created")
      BY <1>1, <2>6 DEF EntryOK
    <3>2. sessions'[t].status = "absent"
      BY <1>4, <2>6 DEF Absent
    <3>3. /\ IsFiniteSet(Of(audit', t, "discarded"))
          /\ Cardinality(Of(audit', t, "discarded")) = Cardinality(Of(audit, t, "discarded")) + 1
      BY <1>1, <2>1, <2>3, <3>1, OneMore
    <3>4. Of(audit', t, "created") = Of(audit, t, "created")
      BY <1>1, <3>1, NoneMore
    <3> QED
      BY <2>1, <2>2, <2>6, <3>2, <3>3, <3>4
  <2>7. CASE t = s /\ j.write # Nothing /\ Exists(s) /\ j.write # Absent
    <3>1. None(j.events, t, "discarded") /\ None(j.events, t, "created")
      BY <1>1, <2>7 DEF EntryOK
    <3>2. sessions'[t].status # "absent"
      BY <1>1, <1>4, <2>7, EmptyRecords DEF Job, Row
    <3>3. /\ Of(audit', t, "created") = Of(audit, t, "created")
          /\ Of(audit', t, "discarded") = Of(audit, t, "discarded")
      BY <1>1, <3>1, NoneMore
    <3> QED
      BY <2>1, <2>7, <3>2, <3>3
  <2> QED
    BY <2>4, <2>5, <2>6, <2>7
<1> QED
  BY <1>5, <1>7, <1>8 DEF Books, Countable, AuditBalances, Of, Exists

\* A session starts under an identifier nobody has used or is about to use.
LEMMA StartSessionBooks ==
  ASSUME Books, Ledger', NEW s \in SessionIds, NEW u \in Users, NEW date \in Dates,
         StartSession(s, u, date)
  PROVE  Books'
<1> DEFINE event == [action |-> "created", session |-> s, user |-> u, op |-> NoOp,
                     request |-> NoRequest, fingerprint |-> {}]
           entry == {event}
<1>1. /\ pc' = pc /\ job' = job /\ queued' = queued /\ audit' = audit \cup entry
      /\ ~Exists(s) /\ sessions'[s].status = "draft"
      /\ \A t \in SessionIds \ {s} : sessions'[t] = sessions[t]
      /\ \A e \in audit : e.session # s
      /\ \A op \in Ops : queued[op] # NotQueued => queued[op].target # s
  BY DEF StartSession, NewDraft, Books, Ledger, TypeOK
<1>2. /\ \A e \in entry : e.request = NoRequest /\ e.session = s /\ e.action = "created"
      /\ Of(entry, s, "created") = {event}
  BY DEF Of
<1> HIDE DEF event, entry
<1>3. Written'
  BY <1>1, <1>2 DEF Books, Written
<1>4. EntriesOK'
  <2> SUFFICES ASSUME NEW q \in Requests PROVE EntryOK(job[q])'
    BY DEF EntriesOK
  <2>1. EntryOK(job[q]) /\ job[q].session \in SessionIds
    BY DEF Books, EntriesOK, Ledger, TypeOK, Job
  <2>2. job[q].write # Nothing => job[q].session # s
    BY <1>1, <2>1 DEF EntryOK
  <2> QED
    BY <1>1, <2>1, <2>2 DEF EntryOK, Exists, One, None
<1>5. ASSUME NEW t \in SessionIds
      PROVE  /\ IsFiniteSet(Of(audit', t, "created")) /\ IsFiniteSet(Of(audit', t, "discarded"))
             /\ Cardinality(Of(audit', t, "created")) =
                Cardinality(Of(audit', t, "discarded"))
                  + (IF sessions'[t].status # "absent" THEN 1 ELSE 0)
  <2>1. /\ IsFiniteSet(Of(audit, t, "created")) /\ IsFiniteSet(Of(audit, t, "discarded"))
        /\ Cardinality(Of(audit, t, "created")) =
           Cardinality(Of(audit, t, "discarded")) + (IF Exists(t) THEN 1 ELSE 0)
    BY DEF Books, Countable, AuditBalances, Of
  <2>2. /\ Cardinality(Of(audit, t, "created")) \in Nat
        /\ Cardinality(Of(audit, t, "discarded")) \in Nat
    BY <2>1, FS_CardinalityType
  <2>3. Of(audit', t, "discarded") = Of(audit, t, "discarded")
    BY <1>1, <1>2 DEF Of
  <2>4. CASE t # s
    <3>1. Of(audit', t, "created") = Of(audit, t, "created")
      BY <1>1, <1>2, <2>4 DEF Of
    <3> QED
      BY <1>1, <2>1, <2>3, <2>4, <3>1 DEF Exists
  <2>5. CASE t = s
    <3>1. Of(audit, t, "created") = {} /\ Of(entry, t, "created") = {event}
      BY <1>1, <1>2, <2>5 DEF Of
    <3>2. One(entry, t, "created")
      BY <3>1 DEF One
    <3>3. Of(audit, t, "created") \cap Of(entry, t, "created") = {}
      BY <3>1
    <3>4. /\ IsFiniteSet(Of(audit \cup entry, t, "created"))
          /\ Cardinality(Of(audit \cup entry, t, "created"))
               = Cardinality(Of(audit, t, "created")) + 1
      BY <2>1, <3>2, <3>3, OneMore
    <3>5. audit' = audit \cup entry /\ ~Exists(t) /\ sessions'[t].status = "draft"
      BY <1>1, <2>5
    <3> QED
      BY <2>1, <2>2, <2>3, <3>4, <3>5
  <2> QED
    BY <2>4, <2>5
<1> QED
  BY <1>3, <1>4, <1>5 DEF Books, Countable, AuditBalances, Of, Exists

LEMMA QueueOpBooks ==
  ASSUME Books, Ledger', NEW op \in Ops, NEW s, NEW d, NEW ro, NEW pv,
         QueueOp(op, s, d, ro, pv)
  PROVE  Books'
<1>1. /\ UNCHANGED <<sessions, audit, pc, job>>
      /\ \A o \in Ops : queued[o] # NotQueued => queued'[o] = queued[o]
  BY DEF QueueOp, Books, Ledger, TypeOK
<1>2. EntriesOK'
  <2> SUFFICES ASSUME NEW q \in Requests PROVE EntryOK(job[q])'
    BY DEF EntriesOK
  <2>1. EntryOK(job[q])
    BY DEF Books, EntriesOK
  <2> QED
    BY <1>1, <2>1 DEF EntryOK, Exists, One, None
<1> QED
  BY <1>1, <1>2 DEF Books, Written, Countable, AuditBalances, Of, Exists

LEMMA UnchangedBooks ==
  ASSUME Books, Ledger', UNCHANGED <<sessions, audit, queued, pc, job>>
  PROVE  Books'
BY DEF Books, EntriesOK, EntryOK, Written, Countable, AuditBalances, Of, Exists, One, None

LEMMA InitBooks == Init => Books
<1> SUFFICES ASSUME Init PROVE Books
  OBVIOUS
<1>1. EntriesOK
  BY IdleJobFacts DEF Init, EntriesOK, EntryOK, None, Of
<1>2. audit = {} /\ \A s \in SessionIds : ~Exists(s)
  BY DEF Init, Exists, Absent
<1>3. \A s, a : Of(audit, s, a) = {}
  BY <1>2 DEF Of
<1>4. Countable /\ Written
  BY <1>2, <1>3, FS_EmptySet DEF Countable, Written
<1>5. AuditBalances
  <2>1. Cardinality({}) = 0
    BY FS_EmptySet
  <2> QED
    BY <1>2, <1>3, <2>1 DEF AuditBalances, Of
<1> QED
  BY <1>1, <1>4, <1>5, InitLedger DEF Books

\* Every step keeps the books.
LEMMA NextBooks == Books /\ [Next]_vars => Books'
<1> SUFFICES ASSUME Books, [Next]_vars PROVE Books'
  OBVIOUS
<1>1. Ledger'
  BY NextLedger DEF Books
<1>2. CASE Environment
  <2>1. ASSUME NEW w, SetWorkerStatus(w) PROVE Books'
    BY <1>1, <2>1, UnchangedBooks DEF SetWorkerStatus
  <2> QED
    BY <1>1, <1>2, <2>1, QueueOpBooks, StartSessionBooks DEF Environment
<1>3. ASSUME NEW r \in Requests, NEW u \in Users, NEW op \in Ops, IngestBegin(r, u, op)
      PROVE  Books'
  BY <1>1, <1>3, IngestBeginBooks
<1>4. ASSUME NEW r \in Requests, OnlineRequest(r) PROVE Books'
  BY <1>1, <1>4, OnlineRequestBooks
<1>5. ASSUME NEW r \in Requests, Progress(r) \/ Abort(r) PROVE Books'
  BY <1>1, <1>5, IngestApplyBooks, FlushSubmissionBooks, CommitBooks, EndBooks DEF Progress
<1>6. CASE UNCHANGED vars
  BY <1>1, <1>6, UnchangedBooks DEF vars
<1> QED
  BY <1>2, <1>3, <1>4, <1>5, <1>6 DEF Next

-----------------------------------------------------------------------------
\* The audit trail accounts for every session row, whatever requests race,
\* fail or are refused in mid-savepoint: created once more than discarded
\* exactly while the row exists (record_operational_event in every handler).
THEOREM AuditAccounts == Spec => []AuditBalances
<1>1. Books => AuditBalances
  BY DEF Books
<1> QED
  BY InitBooks, NextBooks, <1>1, PTL DEF Spec
=============================================================================
