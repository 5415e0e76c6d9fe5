# Verification of Koranco

Koranco records the attendance of farm Workers and the harvest of farm units. A FastAPI /
SQLAlchemy / PostgreSQL service (`apps/api`) is the system of record; a Next.js application
(`apps/web`) captures work on phones with intermittent connectivity, queues it in IndexedDB and
submits it later. This directory holds TLA+ models of that program, the TLC runs that check them on
small instances, and TLAPS proofs of the results that hold for every instance.

## 1. Inventory

| Component | State | Operations | What must hold |
|---|---|---|---|
| Attendance server (`attendance/sync.py`, `service.py`, `routes.py`) | session rows with entries, operation receipts, audit events | ingest an offline submission; start, save, submit, correct, discard online | an operation is applied once and answered alike ever after; submission is final; no duplicate population per date; audit and rows agree |
| Harvest server (`harvest/*`) | harvest records, receipts, audit events | the same protocol; one record per UUID, checks on the farm unit | as above, and one transition per record whatever operations name it |
| Offline device store (`attendance/offline/db.ts`) | leases, cached Workers and units, drafts, outboxes of both domains | capture, save, queue, cache, suspend | queued work is never lost or changed; a record is submitted once; owners are isolated |
| Attendance sync engine (`attendance/offline/sync.ts`) | states of outbox rows and drafts | send each pending operation and map the answer | a draft is `synced` only if the server has it; a pending draft has an operation; nothing waits for ever |
| Harvest sync engine (`harvest/offline/sync.ts`) | the same | the same, other 4xx answers need attention | the same |
| Screens (`attendance-workspace.tsx`, `harvest-workspace.tsx`, lists) | what the user is told | load, save, submit, synchronize | what is reported is what happened |
| PWA shell (`pwa-registrar.tsx`, `sw.js`) | waiting service worker, loop flag | automatic synchronization, update gate | no update while work is pending |
| Client session (`lib/api/auth.ts`, `account-menu.tsx`) | user and CSRF token of a tab, lease | sign in, check, sign out | work is sent as its owner |
| Identity sessions (`identity/service.py`, `dependencies.py`) | login attempts, sessions | login, logout, request authentication | failures are counted; disabled accounts are shut out |
| Identity administration (`identity/administration.py`, `admin_routes.py`, `recovery.py`) | users, roles, permission rows | create, change role, disable, reactivate, reset, recover | an active Manager remains; permissions are those of the role |
| Workers register (`workers/service.py`) | Workers with status | create, edit, activate, deactivate | inactive Workers join no roster |
| Farm structure (`farm_structure/service.py`, `farm-structure-register.tsx`) | tree of farm units with status and history; the list and the form of a Manager | create, move, deactivate, reactivate | no circle; no active unit newly below an inactive one; no change of a parent that nobody asked for; a gapless history |
| Operational audit (`operational_audit/service.py`) | append-only events | record | covered by the properties of its callers |
| Reports (`reports/routes.py`, `modules/reports/*`) | none on the server; what a screen holds and has asked for | aggregate, load, filter, chart, export | what is shown was asked for; charts and lists account for the totals |
| Configuration, migrations, backup scripts, CI, design system | - | - | outside the models |

**Interaction.** Every HTTP request is one database transaction at READ COMMITTED
(`db/session.py`). Requests interact only through committed rows, row locks, unique indexes and
advisory locks. The transaction commits when the generator dependency is closed, after the response
has been sent. The device talks to the server through the sync endpoints alone; its tabs share
IndexedDB and the cookies, while the CSRF token and the loop flag belong to a tab.

**What is hard.** Reads before locks whose objects are used after the wait (SQLAlchemy's identity
map); unique-index waits; responses that precede commits; retries of lost responses, concurrently
with the first attempt; drafts discarded while they are queued; concurrent administrators; loops in
several tabs over one outbox; changes of user between choosing an operation and sending it. The full
list, with lines, is `hazards` in `PROJECT.json`.

## 2. Modules

| Module | Role |
|---|---|
| `AttendanceServer` | the attendance server: offline ingestion and online requests as concurrent transactions |
| `ExactlyOnceOperations` | abstract specification: what the server promises a device about its operations |
| `AttendanceServerProofs` | inductive invariant, safety theorems, the shape of every deadlock, refinement theorem |
| `AttendanceRecordProofs` | unique populations; complete, audited submissions; the audit trail accounts for every row |
| `MCAttendanceServer` | instances for TLC (three `.cfg` files) |
| `UserAdministration` | roles, permissions and status of users under concurrent administrators |
| `UserAdministrationProofs` | the advisory lock preserves an active Manager; types |
| `MCUserAdministration` | instances for TLC (three `.cfg` files) |
| `FieldDevice` | one browser: leases, drafts, outbox, pages, engines and session, against a server as an operation sees it |
| `MCFieldDevice` | instances for TLC (two `.cfg` files) |
| `FieldDeviceProofs` | inductive invariant of the device; its five safety theorems; what no step undoes |
| `FieldScreens` | the attendance and harvest screens composed with `FieldDevice`, which it extends |
| `MCFieldScreens` | instances for TLC (two `.cfg` files) |
| `FieldScreensProofs` | the device keeps its invariant under the screens; what a screen says is true; queued work is frozen |
| `ReportScreens` | the report screens, over the statements of their routes |
| `MCReportScreens` | one instance for TLC |
| `ReportScreensProofs` | what is shown was asked for; charts and lists account for the totals; the export buttons |
| `FarmStructure` | the register of farm units on the server: hierarchy, status, locks and deadlocks |
| `FarmStructureProofs` | inductive invariant; no circles, gapless history, the shape of every deadlock |
| `FarmRegister` | the farm structure screen of one Manager, composed with `FarmStructure` |
| `MCFarmRegister` | one instance for TLC |
| `FarmRegisterProofs` | the composition implements `FarmStructure`; types |

### AttendanceServer

`sessions`, `receipts`, `audit` and `active` are the committed tables (`attendance_sessions` with
entries, `attendance_sync_operations`, `operational_audit_events`, the status of Workers). `queued`
is what each operation holds in some device's outbox. `pc` and `job` are the requests: what each has
read (`seen`) and staged (`write`, `events`, `store`). Locks are not variables: `AdvisoryFree`,
`RowFree` and `KeyBusy` derive them from what the requests in flight hold (`HoldsRow`, `HoldsKey`),
and `WaitsFor` says whom a request waits for; `Circle` is a deadlock.

| Action | Code |
|---|---|
| `QueueOp` | `queueSubmission` on a device: a new session, or a server draft at the version it saw |
| `SetWorkerStatus` | activation and deactivation of a Worker |
| `StartSession` | `start_session` |
| `IngestBegin` | `ingest_sync_operation`: advisory lock, receipt replay, unlocked read, early answers |
| `IngestApply` | its savepoint: creation or row lock, `update_draft`, checks of `submit_session` |
| `FlushSubmission` | the flush that makes a row submitted; it waits at the partial unique index |
| `SaveDraft`, `SubmitOnline`, `Discard`, `CorrectEntry`, `OnlineNotFound` | the online routes |
| `Commit` | the transaction commits, after the answer |
| `Abort` | a crash, a lost connection or a failing commit, at any moment before it |

The row written by `IngestApply` combines the committed row (`held`) with the version and status of
the object read before the lock (`object`), as the ORM does: the `SELECT ... FOR UPDATE` waits for
the row, but hands back the identity-mapped object. Abstractions: an entry's status and times are
one `Mark`; a roster is a function on the register, so repeated or unregistered Workers (HTTP 422)
cannot be written down; the fingerprint is the set of Workers on the roster, for which the code uses
a hash of the sorted ids; lists, views and permission checks change no state and are left out. An
online submission of a session already submitted answers without effect and is completed at once.

### ExactlyOnceOperations

`outcome`, `facts` and `answers`: the first request about an operation to take effect decides it, an
applied operation is one fact, and every later answer replays the decision to the user it was made
for and rejects anybody else. `AttendanceServer` implements it with `receipts`, the operations with
an audited submission, and the committed answers. It says what a device
may rely on; `FieldDevice` has its own, sequential server, which adds the row a decision leaves.

### UserAdministration

`users` holds the committed rows with their permission rows; `pc` and `job` the requests, with the
target as it was loaded (`seen`) and whether the Manager lock is held. `Load` is authentication and
`load_user`; `Guard` is `ensure_not_final_active_manager`; `Write` runs to the answer; `Commit`
applies only the columns, and inserts and deletes only the permission rows, that differ from what was
loaded (`Changed`). Role changes, resets and creations are flushed before the answer and hold the
row; a status is flushed by the commit. Request slots are used again, so histories are unbounded.
`Load` reads actor and target in one step. The sessions that handlers revoke and the security events
they record are not part of this module.

### FieldDevice

The browser keeps `drafts`, `outbox`, `leases` and `cookie`, which all pages share; `tabs` is what a
page keeps in memory (user, CSRF token, whether it took itself for signed out, a write whose promise
is pending), `loops` what an engine run has read and where it is. `rows`, `receipts`, `live` and
`permitted` are the server's; `wire` holds requests that the device has given up and the server may
still serve. The pages are the most general callers: an open page may call any function of the store
for the user it was opened for, at any time. One step is what runs between two awaits, or one
IndexedDB transaction. The two domains share no table, so a behaviour is about one of them.

| Actions | Code |
|---|---|
| `Login`, `SignOut`, `SuspendLease`, `OpenOnline`, `OpenOffline` | `lib/api/auth.ts`, `account-menu.tsx`, `authenticated-home.tsx`, the lease functions of `db.ts` |
| `CreateLocalDraft`, `SaveLocalDraft`, the caching of a server draft (`FetchServerDraft`, `CheckOwner`, `PutDraft`), `QueueSubmission` and their harvest forms | `attendance/offline/db.ts` |
| `StartRegistrar`, `SessionAnswered`, `StartSync` | the registrar with its loop flag; "Sync now" and "Submit" |
| `ReadOutbox`, `MarkOperation`, `MarkDraft`, `Send`, `SettleConfirmed`, `SettleOperation`, `SettleDraft`, `PreserveForAttention` | `syncAttendance` and `syncHarvest`, await by await |
| `Answer`, `Refuse`, `Replay`, `Decide` | the ingestion, with an answer that may precede a commit that fails (`vain`) |
| `GiveUp`, `ClosePage`, `SessionEnds`, `ChangePermission`, `LeaseExpires`, `EditElsewhere`, `CorrectRow`, `CorrectElsewhere` | lost requests and answers, reloads, and what others do meanwhile |

Contents are opaque: one blank, of which some are refused by the request schema. A lease is valid,
expired or without the permission; the clock is the action `LeaseExpires`.

### FieldScreens

`screen` is the React state of each page: which view, the await at which its load (`load`) and its
handler (`step`) stand, what was typed, what it says. `Control` are the buttons that a view shows,
`Proceed` the continuations of handlers, `SessionStep` the account menu, `EngineProceeds` an engine
step together with the continuation of the handler that awaits it. Every step is a step of
`FieldDevice` or changes `screen` alone, so the two are composed by conjunction. The differences of
the domains are kept: attendance asks for session and draft at once and always re-reads the record;
harvest looks at its own copy first.

### ReportScreens

A figure (a total, a row of a series, a list) is the set of submitted records it adds up, which makes
figures comparable without arithmetic; `at` orders submissions. A member of the set is a version of a
record (`rows`): `Correct` gives a submitted harvest record another day, place and unit, as
`correct_record` does, and a session another content; both may fall between two statements. `loads` are the requests in flight:
the filter they were begun with, whether the effect still wants them (`active`, which only the
overview clears), and the answers of the statements run so far. `Read` runs one statement, in the
order of the routes, so that `Submit` and `Correct` may fall between two of them. `data` is the report
held, `newest`, `overtaken` and `touched` (what was corrected while a report was read) are history. `Chart` is `fillDateWindow` as a function from the
days it plots to the records of their bars. An export has two sides: `reply`, what the browser got,
and `log`, the security event in the transaction that commits after the file was sent.

### FarmStructure

`units` holds the committed rows (parent and status), `log` the audit events of each unit with the
states before and after, `pc` and `job` the requests with the row each has loaded (`seen`). As in
`AttendanceServer`, locks are derived from the requests in flight: `HoldsRow` is `load_unit(for_update)`,
`HoldsTree` the advisory lock of `validate_parent`, `SharesKey` the `FOR KEY SHARE` by which the
foreign key pins a parent. `Circle` is a deadlock among them.

| Action | Code |
|---|---|
| `BeginCreate` | `add_unit`, up to `validate_parent` |
| `BeginChange` | `edit_unit`, `change_unit_status`: the row lock, 404 |
| `Validate` | `validate_parent`: the lock of the tree, the checks and the walk to the root |
| `Write` | the flush, with the wait of the foreign key, the event and the answer |
| `CodeTaken` | the flush meets the code of another unit (409) |
| `Commit`, `Abort` | the end of the transaction, after the answer |
| `EndDeadlock` | PostgreSQL ends one request of a circle |

`Above` is the walk, written as the least set that contains the parent and, with each unit, its
parent; that form has no recursion and is what the proofs reason with. Codes, names and types are
left out, and so are harvest records that refer to a unit: they share its key as a placed unit does,
and never ask for the tree.

### FarmRegister

`list`, `filter` and `awaited` are the register on the screen and the loads in flight, which no one
cancels; `editing` the unit in the form, `choice` the selected parent. The form is uncontrolled, so
`choice` is the browser's: `Options` are the other active units of the list as it is now, `Selected`
is what remains when the options change. `mine` is what the screen has asked for: `Sent` begins a
request of `FarmStructure`, `Answered` and `NotDone` end it on the screen. One
status filter stands for the search, the type and the page of 50, which hide units in the same way.

## 3. Runs

| Run | Instance | Shows |
|---|---|---|
| `attendance_safety` (pass) | 3 requests, 2 operations, 2 users, 2 Workers, two server-born sessions and one device-born session, from the start or from two stale submissions under way | `TypeOK`, `OneFactPerOperation`, `UniquePopulation`, `SubmittedIsAccounted`, `AuditBalances`, `DeadlocksAreStale`, `SubmittedIsFinal`, refinement `ImplementsExactlyOnce` |
| `attendance_overwrite` (violation) | 3 requests, 1 operation | a draft is filled in and submitted online while an offline submission of it stands between its two reads, and is overwritten by it |
| `attendance_recreate` (violation) | 2 requests, 1 operation | a discarded draft is re-created although the operation carries its version |
| `managers_demotion` (pass) | 3 users, 2 requests, no promotion, reactivation or recovery | `TypeOK`, `FinalActiveManager` |
| `managers_promotion` (violation) | 2 users, 2 requests | the last active Manager is removed through a stale target |
| `role_permissions` (violation) | 2 users, 2 requests | two role changes leave the permission rows of no role |
| `device_safety` (pass) | 1 account, 1 draft, 1-2 pages, 1-2 engines, both domains, one disruption | `TypeOK`, `ConfirmedIsRecorded`, `SyncedIsRecorded`, `WaitingIsAccounted`, `OneSubmissionPerRecord` |
| `device_ownership` (violation) | 2 accounts on one page | queued work is decided under another account's session |
| `device_screens` (pass) | 1 page, screens and registrar, 1-2 drafts, at most one disruption, fair | `ScreensTypeOK`, `ConfirmedIsKept`, `QueuedIsFrozen`, `BusyEnds`, `QueueDrains` |
| `device_confirmed` (violation) | the same screens | a screen says "confirmed by the server" of an operation that was set aside for attention |
| `report_screens` (pass) | each screen, up to 3 loads, up to 3 records in up to 2 versions, 2 exports, fair | `ReportsTypeOK`, `ShownIsAsked`, `ChartsAreWhole`, `TotalsAreExplained`, `ExportButtonIsTrue`, `LoadingEnds` |
| `farm_register` (pass) | 2 units, one beneath the other, and a new one; 3 requests, or one screen with 3 clicks and a colleague's request | `RegisterTypeOK`, `Acyclic`, `HistoryIsGapless`, `DeadlocksAreParental` |

**What the device properties say.** `ConfirmedIsRecorded`: a deleted operation is recorded on the
server with its content. `SyncedIsRecorded`: so is a draft called synced. `WaitingIsAccounted`: a
draft that says it is pending or needs attention has an operation on the device or a record on the
server. `OneSubmissionPerRecord`: however often a draft is queued, put back by the cache and queued
again, at most one operation is applied to its record. `QueuedIsFrozen`: what was queued is
not edited; only the order of awaits in the screens sees to it, so it is claimed of one open page (a
second page may queue what the first is about to put back). It excepts records that were explicitly
corrected: when the answer to an applied operation is lost, the record is corrected elsewhere and the
draft is opened online, the device holds the corrected record beside the operation that it will send
again, to be answered by its receipt. All of them except work lost in a
transaction that failed after its answer (`vain`): the devices then delete the only copy, and no
client could know.

**What the report properties say.** `ChartsAreWhole`: a chart has all the records of its series, of
the selected unit where it is of harvest, and no others. `TotalsAreExplained`: a record that was counted
in a total is in the series and in the comparison as it was counted, and in the table of sources or,
when that table is full, after everything that is on it; a submission between two statements does not
disturb this. A harvest record that is corrected between the first statement and the last is
excepted, because it may be counted in one place and found in another, or counted twice
(`touched`); a correction of attendance at least leaves the session in its day.

**Deadlocks.** `DeadlocksAreStale` says which circles of lock waits there are. There are some: two
devices that took two drafts each make the other's population of theirs, both drafts are submitted as
they were, and the two submissions, each judged by the draft it had read, wait at the unique index for
the entry that the other is taking away. Every request of a circle is such a submission, that is, it is
about to overwrite a submitted session (finding 1); online requests and first submissions are in none.

**Bounds.** Three rosters of a Worker (marked either way, unmarked) distinguish equal from different
snapshots and complete from incomplete rosters. Two Workers make two populations, which is what two
requests need to wait for each other at two index entries; since that takes two complete offline and
online submissions, `Crossed` starts `attendance_safety` also from the moment at which the two
devices' submissions have read their drafts. Two sessions on one date reach the
duplicate population; two operations let two devices compete for one session; three requests let a
third party act between the two steps of a stale read, and are what `attendance_overwrite` needs: the
offline submission, a draft save that fills the roster and the online submission. A request slot serves one request in
`AttendanceServer`, which bounds row versions. `MCAttendanceServer` has one date: sessions of
different dates meet at no lock or index. Requests, users and operations are interchangeable, and so
are founders; no safety property and no action names one, which makes the symmetry sound. Runs with
liveness use none. Deadlock is not checked because requests run out and the system may really stop.

A device behaviour is bounded by its scenario: which pages and engines there are, which records began
on the server, and how often the world gets in the way (`Disrupt`: a lost request, a reload, an ended
session or lease, a permission taken away, a failed commit, an edit or correction elsewhere). One
disruption at any moment, against every interleaving of two engines and the screen, is what a retry
protocol has to survive once before it is back in a state it started from; two drafts wait for each
other in the queue; two operation ids allow a draft to be queued twice. `MaxVersion` bounds edits
elsewhere and `MaxLogins` sign-ins. A draft is not saved unchanged and not emptied again. In
`ReportScreens` a scenario bounds loads, exports and the records submitted meanwhile: two loads
overtake each other, three let an answer be overtaken twice; with windows of two days and gaps filled
up to a width of one, each branch of `fillDateWindow` is taken; limits of one and of two are exceeded by two and three
records; one correction of a record may move it to any day, unit and place. What an abandoned request of the overview reads is not followed, since nobody looks at it.

In the first scenario of `farm_register` nobody opens the screen and three requests, each used once,
act on two units and a new one: the first creates a root, the other two move it and the older root
beneath each other. In the second three clicks, such as "Edit", a filter and "Save", are taken on the
screen, while a colleague's request deactivates or moves a unit at any moment between them. The theorems hold for any numbers of all of these.

**Fairness.** Nothing is assumed of the attendance server, whose run checks safety only.

`FairSpec` of `FieldScreens` assumes that promises settle (`Proceed`), that engines go on, and that the
server serves what reaches it. Nobody has to press anything, and nothing starts an engine by itself:
the registrar has no timer, and runs when it is mounted, at a session update, at "online" and at
"visibilitychange" (`pwa-registrar.tsx:68-82`), as the guide says: retries are "user/event-driven, not
aggressive polling" (`docs/operations/offline-synchronization-guide.md:114-115`). That such events keep
coming is therefore not assumed of the code, but the hypothesis `EventsKeepComing` of `QueueDrains`,
which has four more, each of which names something the code does: the owner is and stays signed in with
the permission; a page with a registrar knows it (`Connected`: a session check answered late, with the
401 of a session that a sign-in has replaced, clears the fresh token and stops the registrar until
the next sign-in); nobody keeps pressing "Sync now" (`LeftAlone`: two engines with stale lists revive
an operation the other has set aside); and no payload that the server refuses stands in the queue of
attendance (`Blocked`: a 422 is taken for a bad connection, and nothing behind it is sent). `BusyEnds`
excepts the step "stuck": "Sync now" of attendance catches nothing and stays disabled when the record
cannot be read back. `FairSpec` of `ReportScreens` assumes that the newest request of a screen is
answered or fails.

## 4. Findings

1. `attendance_overwrite` - `attendance/sync.py:138` reads, `:185` locks and gets the stale object
   back. In the trace a draft is taken by a device, whose submission is read against it; before the
   row is locked, a draft save fills in the roster and an online submission submits it. That submitted
   session is then replaced by the roster of the device, and a second submission is audited, where `docs/architecture/offline-sync.md:54-57` promises a conflict.
2. `attendance_recreate` - `attendance/sync.py:177` creates the session whatever base version the
   operation carries; the harvest ingestion, to be kept "in lockstep", answers conflict.
3. `managers_promotion` - `administration.py:60` decides whether the lock is needed from a row read
   without it. Promotion or reactivation between load and commit lets the last Manager be removed.
4. `role_permissions` - `administration.py:33` writes the difference to the rows it loaded, so that
   a role change that waited for another one leaves a mixture.
5. `device_ownership` - an engine chooses operations for the user it was started for and sends each
   with whatever cookie and token the browser holds then (`auth.ts:24`, `sync.ts:33-37`). After a
   change of account the server records the work as the second account's.

6. `device_confirmed` - an engine that finds nothing to send answers "synced" (`sync.ts:33-38`), also
   when the operation was set aside for attention, and the screens then say "submitted and confirmed
   by the server" (`attendance-workspace.tsx:301-306`, `:331-335`, `harvest-workspace.tsx:331-334`,
   `:362-365`). `docs/operations/offline-synchronization-guide.md:107-112` confirms only what was applied, and
   `docs/design/principles.md:22` forbids to "imply that local capture equals server acceptance".
   `ConfirmedIsKept`, in `device_screens`, says what remains true: the operation is still on the device.

Two more disagreements are in the models as the code has them, without a property:

- `farm_structure/service.py:51` looks at the status of the parent, but a deactivation takes no lock
  of the tree (`:146`) and can commit before the assignment is written, although
  `docs/product/farm-structure.md:14` says that "an active unit cannot be newly assigned beneath an
  inactive parent".
- The parents a form offers are the active units listed (`farm-structure-register.tsx:218-222`), and it
  is not made anew for another unit. A unit whose parent is inactive or filtered out opens with "No
  parent" selected, and saving its name removes the relationship that
  `docs/product/farm-structure.md:15`, ADR-006 and `test_master_data.py:208-219` keep. A filter chosen
  while the form is open, and a second "Edit", have the same effect.

Met while modelling, and either excepted by name or claimed by no property: the stalls that section 3
names, the deadlock of stale submissions (`DeadlocksAreStale`), the stuck button, a passing 403 that sets an operation aside for good, a draft opened online replacing
unsubmitted edits (`PutDraft`). The attendance and harvest reports take answers in any order, so that
an overtaken answer leaves figures of an older filter on the screen (`ShownIsAsked`), and show
"Loading..." for ever under the alert of a failed load (`LoadingEnds` ends with the alert); the
overview's export buttons free each other (`ExportButtonIsTrue`); "Every session that produced the
totals above" ends at 100 sessions (`TotalsAreExplained`); a harvest record that is corrected while a
report is read may be in its total and in none of its rows; and the event of an export is committed
after the file was sent, or not at all (`CommitExport`), where `docs/product/reporting.md:156` has every
export recorded.

## 5. Proofs

`AttendanceServerProofs` proves, from the assumptions on the constants only (distinct null values,
marks that are not null, at least one session id, inputs that are rosters, positive payload versions):

- `LedgerHolds`: `Spec => []Ledger`. `OneFactPerOperation` is not inductive by itself: it speaks of
  committed tables, and a commit preserves it only because of what the request had staged and of
  what nobody else could have staged. `Ledger` adds `JobsOK` (what a request in flight owes to the
  committed state: an undecided operation, a row of the final shape, the events of one submission),
  `OperationLock` (one request in flight per operation) and `RowLock` (one staged change per row).
  Every action is one lemma; those that only move a request go through `BecomeLedger`, the commit
  through `CommitLedger`.
- `TypeCorrect`, `OneFact`: consequences of it.
- `SubmittedFinal`: an action property, from `WriteOK` and the lemma `PublishingSteps` that only a
  start or a commit changes tables. Even the stale application of finding 1 keeps status, date and
  creator.
- `OnlyStaleDeadlocks`: `DeadlocksAreStale`, from `Ledger`. A request that waits for a row holds nothing
  that anybody waits for (`WaitingHolds`), and in a minimal circle everybody is waited for
  (`CircleIsClosed`); so all wait at the index, none has made its own entry yet, and the only thing left
  to wait for is the entry of a submitted session that an offline submission takes away.
- `ExactlyOnceRefinement`: `Spec => ImplementsExactlyOnce`. A commit that stores a receipt is
  `Decide`, a commit that replays one is `Answer`, everything else stutters.

`AttendanceRecordProofs` proves `UniquePopulations` and `SubmissionsAccounted` from the invariant
`Population` (`PopulationHolds`), which extends `Ledger` to rows that are staged and not committed:
such a row has the fingerprint of its roster and the event of its submission (`RowOK`), its key differs
from those of all other rows (`StagedOK`) and of all other staged rows (`StagedKeysDiffer`). A
submission meets three kinds of competitors, and each is excluded by something else: committed rows by
the index itself, staged submissions by the wait for them, and staged corrections because they keep
the key of their own committed row. Overwriting a submitted row (finding 1) does not break it.

Its second part proves `AuditAccounts`. The invariant `Books` ties each staged insertion and
deletion to its one event (`EntryOK`) and each event to one request that is over (`Written`), so that a
commit adds one element to a finite set; re-creation (finding 2) is counted like any other creation.

`UserAdministrationProofs` proves `AdministrationTyped`, and `ManagerRemains`: under `DemotionsOnly`, for any number of users
and requests, an active Manager remains. The invariant `Managed` needs `OneHolder` (the advisory
lock), `Reserve` (its holder knows another active Manager) and `Fresh` (a target that is an active
Manager was one when it was loaded). `Fresh` is exactly what finding 3 breaks, which is why the
theorem is stated for systems without promotion, reactivation and recovery.

`FieldDeviceProofs` proves the five invariants of `FieldDevice` (`DeviceTypes`,
`OnlyConfirmedWorkLeaves`, `SyncedDraftsAreRecorded`, `WaitingDraftsAreKept`, `RecordsAreSubmittedOnce`)
for any numbers of accounts, pages, engines, drafts, operations, contents, logins and disruptions. Its
assumptions are about names only: operation ids are numbers, so that an outbox has a first one; engines
belong to pages; blanks are among the contents that the server refuses; nobody is not a user. Each of
the invariants is about the store and the server, while what could break it is in between: `DeviceInv`
follows an operation from the outbox (`OpSound`) to the run that took it on and the request and answer
of that run (`RunSound`), the request that outlives it (`RequestSound`), the receipt, and back to the
draft (`DraftSound`), and says what a page may still be about to put (`PageSound`): an answer that
confirms is about an operation that has arrived, even if another run has settled it meanwhile. That a
record is submitted once rests on two facts: the server decides one operation at a time, and applies
none to a record that is submitted (`Decides`, `AppliedOnceKeeps`); the device may queue a draft as often
as it likes, which the code lets it do. The proof
rests on `Forward`, what no step undoes: what was queued keeps its content, owner and draft, what has left
never returns, a draft never disappears, what is submitted stays so and says the same (explicit
corrections aside), a decision is not taken back. A conjunct that a step does not touch survives because
of `Forward`, which leaves one lemma per action for the rest. As an action property it is a theorem of
its own, `NothingIsUndone`.

`FieldScreensProofs` proves `ScreensTyped` and `ConfirmedWorkIsKept` from `ScreensInv`, which adds to
`DeviceInv` what a screen relies on across its awaits: while it follows a submission, or says that one
is confirmed, the draft it shows is kept (`WorkspaceSound`), and it waits for an engine only where it
does (`Follows`). The one assumption more is that each page has an engine for its buttons. The screens
compose with the device by conjunction, but also correct records and discard them, so that
the invariants of the device have to be proved again: `ScreensKeepTheDevice` and `ScreensUndoNothing`.

`QueuedStaysFrozen` is `QueuedIsFrozen`, under the hypothesis `OnePage` that each scenario opens at most
one page. It is not inductive: what changes a draft is a write whose promise was pending when
the draft was queued, and a record fetched from the server. `FrozenInv` therefore follows every
operation, those that have left included: a draft that began here says what each of its operations says
(`FrozenDraft`), its record came from one of them (`RowOfOps`), and a pending save belongs to a screen
that waits for it, on a draft of which nothing was queued yet (`WriteHeld`).

`ReportScreensProofs` proves the five invariants of `ReportScreens` for any finite set of records and any
filters, days, window lengths, limits, loads and exports. `ReportsInv` says that what a request has read
is what its statements ask for under the filter it was begun with (`LoadsSound`), and that the report held
is one request's (`DataSound`). From it, `SeriesIsInWindow` and `ChartIsWhole` give `ChartsAlwaysWhole`:
the window is computed twice, by the server from the filter and by the screen from the answer, and
`fillDateWindow` drops no row of a charted series; `BarsAreOfTheirDay` and the rest of `ChartsFollow` give
the converse, that no bar has a record of another day, place or unit. `ScreenInv` adds that submissions are numbered, so
that a list has an order (`RecordsNumbered`); that a later statement has found what an earlier one
counted, or is at its limit with later ones, for every record that is not `touched`, and that a version
of a record keeps its kind and, of attendance, its day (`ReadSound`, `AlikeIsWanted`, for
`TotalsAlwaysExplained`); that only the newest request
belongs to the filter shown (`LoadsNumbered`, `ShownSound`, for `WhatIsShownWasAsked`); and which exports
a button stands for (`ExportsSound`, for `ExportButtonAlwaysTrue`). `ReportsTyped` is the type invariant.

`FarmStructureProofs` proves, for any units, any founding tree and any number of requests, that
`Register` always holds (`RegisterHolds`), and from it `AlwaysAcyclic`, `AlwaysGapless` and
`OnlyParentalDeadlocks`. None of them is inductive: a commit keeps the tree free of circles because
what was validated is still so, which needs `TreeLock` (one holder of the tree) and `JobsOK` (the
parent of a validated request still passes the walk); it keeps histories gapless because the row is
still the one that was loaded (`JobsOK`, from `UnitLock`, one request per row). `MoveKeepsAcyclic` is
the argument about trees: if, after the move, the parents of a set of units were all among them, then
the part of the set above the new parent, or else the whole set, would have been like that before. `CircleIsParental` reduces a minimal
circle to two requests, since whoever waits for the tree waits for its one holder.

`FarmRegisterProofs` proves that screen and server together implement the specification of the server
(`ScreenImplementsStructure`), so that the three results carry over (`ScreenKeepsRegister`): the screen
asks for nothing that `FarmStructure` does not describe. `ScreenInv` is the register's invariant with the
types of the screen (`ScreenTyped`), and needs of what was asked only that it names known units (`AsksOK`).

Every safety invariant and action property that a passing run checks is proved. Model-checked only is
liveness under fairness, which is out of this prover's reach: `BusyEnds`, `QueueDrains` and
`LoadingEnds`. Before their proofs, TLC checked the inductive
invariants of the device, the screens and the reports on the instances of their runs, and `FrozenInv`
also with three contents, two operations a draft and two disruptions, which is where the exception of `QueuedIsFrozen` was met. What the proofs assume are the
named `ASSUME`s of the modules, which TLC evaluates on every run, and the hypotheses `DemotionsOnly` and
`OnePage`, without which the code breaks the property.

## 6. Not modelled, and what is left

- **Harvest server transactions.** `FieldDevice` has its decisions, one at a time. Its interleavings
  would be `AttendanceServer` again with a record per UUID and the status of the farm unit.
- **Identity sessions.** Failure counting and logins racing revocation. Hashing and cookies are
  libraries' work.
- **PWA update gate and service worker.** The gate compares a count of rows with zero; what follows
  is the browser's.
- **Caches of Workers and farm units** on the device: replaced as a whole, and nothing is decided from
  them. Filters, tables and choices of the list screens; the screens of users and Workers: forms over single
  requests, without relations between rows. Bars, labels and CSV text of the reports.
- **Configuration, logging, migrations, backup scripts, CI, design system**: no protocol state.
- **Proofs still worth having**: that the device implements the abstract specification of a submission
  (captured, queued, decided once, settled), as the attendance server implements
  `ExactlyOnceOperations`.
