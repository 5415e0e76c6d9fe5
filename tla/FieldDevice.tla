----------------------------- MODULE FieldDevice -----------------------------
(***************************************************************************)
(* A field device: the IndexedDB store of offline/db.ts that all tabs of   *)
(* one browser share, the two engines (attendance and harvest sync.ts)     *)
(* that send its outbox, the session of lib/api/auth.ts and the server as  *)
(* far as an operation can tell.  The tabs are the most general callers:   *)
(* an open screen may call any function of the store for the user it was   *)
(* opened for, at any time.                                                *)
(*                                                                         *)
(* The two domains never touch each other's tables, so a behaviour is      *)
(* about one of them, which its scenario names.                            *)
(*                                                                         *)
(* A step is what runs between two awaits, or one IndexedDB transaction.   *)
(***************************************************************************)
EXTENDS Naturals, FiniteSets, Sequences, FiniteSetsExt

CONSTANTS
  Users,        \* the accounts that use this device
  NoUser,
  Tabs,         \* open pages of the application in one browser
  Loops,        \* engines that may run: <<tab, who starts it>>
  Scenarios,    \* what a behaviour is about: see Scenario
  Ids,          \* aggregate UUIDs
  Ops,          \* operation UUIDs: createdAt orders them, or key order does
  Contents,     \* what a draft can say
  Blank,        \* a draft just created: an empty roster, no FarmUnit
  Malformed,    \* contents the request schema refuses (HTTP 422)
  MaxLogins,    \* bound: sign-ins
  MaxVersion    \* bound: the version another device's edits bring a row to

ASSUME OpsAreOrdered == Ops \subseteq Nat
ASSUME LoopsOfTabs   == Loops \subseteq Tabs \X {"registrar", "screen"}

\* The domain; the pages that are open, and the engines that run in them; the
\* aggregates and the operations there are, and which of them began as a draft on
\* the server; how often the world may get in the way (a bound, see Disrupt).
Scenario == [domain: {"attendance", "harvest"}, pages: SUBSET Tabs, engines: SUBSET Loops,
             ids: SUBSET Ids, ops: SUBSET Ops, born: SUBSET Ids, disruptions: Nat]

ASSUME ScenariosAreSuch == Scenarios \subseteq Scenario
ASSUME ContentKinds  == Malformed \subseteq Contents /\ Blank \in Malformed
ASSUME Nobody        == NoUser \notin Users
ASSUME BoundsAreNat  == MaxLogins \in Nat /\ MaxVersion \in Nat

\* base 0 is a baseServerVersion of null.
Draft   == [owner: Users, base: Nat, content: Contents,
            state: {"editing", "pending_submission", "syncing", "synced",
                    "needs_attention"}]
NoDraft == [state |-> "absent"]

\* A deleted row is kept as a mark: its UUID is never drawn again.
Operation == [owner: Users, target: Ids, base: Nat, content: Contents,
              state: {"pending", "syncing", "needs_attention", "deleted"}]
NoOp      == [state |-> "unused"]

\* allowed is the domain's flag, attendanceAllowed or harvestAllowed.
Lease   == [allowed: BOOLEAN, expired: BOOLEAN]
NoLease == [allowed |-> FALSE, expired |-> TRUE]

Row   == [status: {"draft", "submitted"}, version: Nat, creator: Users,
          content: Contents, corrected: BOOLEAN]
NoRow == [status |-> "absent"]

SyncResults == {"applied", "already_applied", "conflict", "rejected"}
Receipt   == [actor: Users, version: Nat, result: SyncResults]
Undecided == [result |-> "none"]

\* What a page will put after an await: what a save computed from the draft it
\* read, or what the cache of a server answer will hold, before ("fetched") and
\* after ("cache") it has looked whose draft is there.
Write   == [kind: {"save", "fetched", "cache"}, id: Ids, draft: Draft]
NoWrite == [kind |-> "none"]

VARIABLES
  scenario,
  disruptions, \* how many times the world got in the way
  drafts,    \* the domain's drafts table
  outbox,    \* the domain's outbox table
  leases,    \* the leases table
  newest,    \* the owner of the lease that expires last
  logins,    \* the user of every session the server has opened, in order
  live,      \* the sessions that are neither revoked nor expired
  cookie,    \* the session the browser's cookies name; 0: none
  permitted, \* the users who hold the domain's record permission
  tabs,      \* what each page holds in memory
  loops,     \* where each engine run is
  rows,      \* the server's aggregates
  receipts,  \* the server's decisions on operations
  vain,      \* the operations applied in a transaction that then failed to commit
  wire       \* requests that have left the device and were not served

env     == <<scenario, disruptions>>
store   == <<drafts, outbox>>
session == <<leases, newest, logins, live, cookie, permitted>>
server  == <<rows, receipts, vain>>
vars    == <<env, store, session, tabs, loops, server, wire>>

domain == scenario.domain
born   == scenario.born

NewTab   == [csrf |-> 0, signedOut |-> FALSE, user |-> NoUser,
             suspend |-> NoUser, write |-> NoWrite]
NotSent  == [op |-> 0]
IdleLoop == [pc |-> "idle", owner |-> NoUser, asked |-> 0, todo |-> {},
             request |-> NotSent, reply |-> Undecided]

Init ==
  /\ scenario \in Scenarios
  /\ disruptions = 0
  /\ drafts = [i \in Ids |-> NoDraft]
  /\ outbox = [o \in Ops |-> NoOp]
  /\ leases = [u \in Users |-> NoLease] /\ newest = NoUser
  /\ logins = << >> /\ live = {} /\ cookie = 0
  /\ permitted = Users
  /\ tabs = [t \in Tabs |-> NewTab]
  /\ loops = [r \in Loops |-> IdleLoop]
  /\ \E u \in Users, c \in Contents \ Malformed :
       rows = [i \in Ids |-> IF i \notin born THEN NoRow ELSE
                [status |-> "draft", version |-> 1, creator |-> u, content |-> c,
                 corrected |-> FALSE]]
  /\ receipts = [o \in Ops |-> Undecided]
  /\ vain = {}
  /\ wire = {}

-----------------------------------------------------------------------------
\* What nobody using the device chose: a lost or failed request, a reload, a
\* session, lease or permission that ends, an edit on another device.
Disrupt == disruptions < scenario.disruptions /\ disruptions' = disruptions + 1

(* Leases: what lets a user capture work without the server.               *)

Lapsed(u) == leases[u].expired

\* validOfflineLease for a known user.
ValidLease(u) == u \in Users /\ ~leases[u].expired /\ leases[u].allowed

\* recordOfflineLease: whoever was validated last expires last.
RecordLease(u) ==
  /\ leases' = [leases EXCEPT ![u] = [allowed |-> u \in permitted, expired |-> FALSE]]
  /\ newest' = u

\* preserveOfflineAuthorization: without the permission the old lease stays.
PreserveLease(u) ==
  IF u \in permitted THEN RecordLease(u) ELSE UNCHANGED <<leases, newest>>

\* suspendOfflineLease, which sign-out starts and does not wait for.
SuspendLease(t) ==
  /\ tabs[t].suspend # NoUser
  /\ leases' = [leases EXCEPT ![tabs[t].suspend].allowed = FALSE]
  /\ tabs' = [tabs EXCEPT ![t].suspend = NoUser]
  /\ UNCHANGED <<env, store, newest, logins, live, cookie, permitted, loops,
                 server, wire>>

\* Twelve hours pass since the lease was recorded.
LeaseExpires(u) ==
  /\ Disrupt
  /\ ~Lapsed(u)
  /\ u = newest => \A v \in Users \ {u} : Lapsed(v)
  /\ leases' = [leases EXCEPT ![u].expired = TRUE]
  /\ UNCHANGED <<scenario, store, newest, logins, live, cookie, permitted, tabs, loops,
                 server, wire>>

-----------------------------------------------------------------------------
(* The session: one cookie for the browser, one token per page.            *)

Holder(n) == logins[n]

\* updateAuthenticatedClientSession.
Refreshed(t, n) == [tabs EXCEPT ![t].csrf = n, ![t].signedOut = FALSE]

\* clearAuthenticatedClientSession.
Cleared(t) == [tabs EXCEPT ![t].csrf = 0, ![t].signedOut = TRUE]

\* login, from a page that then leaves for the home screen.
Login(t, u) ==
  /\ Len(logins) < MaxLogins
  /\ logins' = Append(logins, u)
  /\ cookie' = Len(logins) + 1
  /\ live' = live \cup {cookie'}
  /\ tabs' = [Refreshed(t, cookie') EXCEPT ![t].user = NoUser]
  /\ PreserveLease(u)
  /\ UNCHANGED <<env, store, permitted, loops, server, wire>>

\* handleSignOut: the server revokes the session of the token; without a token
\* or with another session's it refuses, and nothing changes.  heard: whether the
\* page receives the answer.
SignOut(t, heard) ==
  /\ tabs[t].csrf # 0 /\ tabs[t].csrf = cookie /\ cookie \in live
  /\ live' = live \ {cookie}
  /\ cookie' = IF heard THEN 0 ELSE cookie
  /\ tabs' = IF heard
             THEN [Cleared(t) EXCEPT ![t].suspend = Holder(cookie), ![t].user = NoUser]
             ELSE tabs
  /\ UNCHANGED <<env, store, leases, newest, logins, permitted, loops, server, wire>>

\* The server ends a session: it expires, or an administrator revokes it.
SessionEnds(n) ==
  /\ Disrupt
  /\ n \in live
  /\ live' = live \ {n}
  /\ UNCHANGED <<scenario, store, leases, newest, logins, cookie, permitted, tabs, loops,
                 server, wire>>

\* An administrator grants or takes the record permission.
ChangePermission(u) ==
  /\ Disrupt
  /\ permitted' = IF u \in permitted THEN permitted \ {u} ELSE permitted \cup {u}
  /\ UNCHANGED <<scenario, store, leases, newest, logins, live, cookie, tabs, loops,
                 server, wire>>

\* A screen verifies the session when it opens (getCurrentSession) and works for
\* its user; the harvest screens then record the lease themselves.
OpenOnline(t) ==
  /\ tabs[t].write = NoWrite
  /\ cookie \in live
  /\ LET u == Holder(cookie) IN
       /\ tabs' = [Refreshed(t, cookie) EXCEPT ![t].user = u]
       /\ IF domain = "harvest" THEN RecordLease(u) ELSE PreserveLease(u)
  /\ UNCHANGED <<env, store, logins, live, cookie, permitted, loops, server, wire>>

\* The session could not be verified, by a 401 or for want of a connection: the
\* screen opens for the owner of the lease that expires last.
OpenOffline(t, unauthenticated) ==
  /\ Disrupt
  /\ tabs[t].write = NoWrite
  /\ unauthenticated => cookie \notin live
  /\ LET page == IF unauthenticated THEN Cleared(t) ELSE tabs
     IN tabs' = [page EXCEPT ![t].user = IF ValidLease(newest) THEN newest ELSE NoUser]
  /\ UNCHANGED <<scenario, store, session, loops, server, wire>>

\* The page is closed or reloaded: its memory and its engine runs are gone.
ClosePage(t) ==
  /\ Disrupt
  /\ tabs' = [tabs EXCEPT ![t] = NewTab]
  /\ loops' = [r \in Loops |-> IF r[1] = t THEN IdleLoop ELSE loops[r]]
  /\ UNCHANGED <<scenario, store, session, server, wire>>

-----------------------------------------------------------------------------
(* The store.                                                              *)

Outstanding(i) ==
  {o \in Ops : outbox[o].state \notin {"unused", "deleted"} /\ outbox[o].target = i}

\* ownerDraft, ownerHarvestDraft.
OwnDraft(u, i) == drafts[i] # NoDraft /\ drafts[i].owner = u

\* The draft a user opens on this device, under a fresh UUID.
NewDraft(u) == [owner |-> u, base |-> 0, content |-> Blank, state |-> "editing"]

CreateDraft(t, i) ==
  /\ ValidLease(tabs[t].user)
  /\ i \notin born /\ drafts[i] = NoDraft
  /\ drafts' = [drafts EXCEPT ![i] = NewDraft(tabs[t].user)]
  /\ UNCHANGED <<env, outbox, session, tabs, loops, server, wire>>

CreateLocalDraft(t, i)        == domain = "attendance" /\ CreateDraft(t, i)
CreateLocalHarvestDraft(t, i) == domain = "harvest" /\ CreateDraft(t, i)

StartWrite(t, write) ==
  /\ tabs[t].write = NoWrite
  /\ tabs' = [tabs EXCEPT ![t].write = write]
  /\ UNCHANGED <<env, store, session, loops, server, wire>>

\* The checks of a save; the put comes after the next await.
Savable(u, i) == ValidLease(u) /\ OwnDraft(u, i) /\ drafts[i].state = "editing"

SaveDraft(t, i, c) ==
  /\ Savable(tabs[t].user, i)
  /\ StartWrite(t, [kind |-> "save", id |-> i, draft |-> [drafts[i] EXCEPT !.content = c]])

SaveLocalDraft(t, i, c)        == domain = "attendance" /\ SaveDraft(t, i, c)
SaveLocalHarvestDraft(t, i, c) == domain = "harvest" /\ SaveDraft(t, i, c)

\* Slip: the row's status is taken for the draft's state.
CachedDraft_StatusAsState(u, row) ==
  [owner |-> u, base |-> row.version, content |-> row.content, state |-> row.status]

\* What cacheServerDraft makes of a server answer, for user u.
CachedDraft(u, row) ==
  [owner |-> u, base |-> row.version, content |-> row.content,
   state |-> IF row.status = "submitted" THEN "synced" ELSE "editing"]

\* A screen has the server's answer and will cache it.  Reading harvest is the
\* same, in the harvest screen's own order of awaits.
FetchServerDraft(t, i) ==
  /\ tabs[t].user # NoUser /\ cookie \in live /\ rows[i] # NoRow
  /\ StartWrite(t, [kind |-> "fetched", id |-> i,
                    draft |-> CachedDraft(tabs[t].user, rows[i])])

OfAnother(u, i) == drafts[i] # NoDraft /\ drafts[i].owner # u

\* The cache reads the draft that is there, and throws when it is another user's.
CheckOwner(t) ==
  LET w == tabs[t].write IN
  /\ w # NoWrite /\ w.kind = "fetched"
  /\ tabs' = [tabs EXCEPT ![t].write =
                IF OfAnother(w.draft.owner, w.id) THEN NoWrite ELSE [w EXCEPT !.kind = "cache"]]
  /\ UNCHANGED <<env, store, session, loops, server, wire>>

\* The put, in a transaction of its own: it replaces whatever is there by then.
PutDraft(t) ==
  LET w == tabs[t].write IN
  /\ w # NoWrite /\ w.kind # "fetched"
  /\ drafts' = [drafts EXCEPT ![w.id] = w.draft]
  /\ tabs' = [tabs EXCEPT ![t].write = NoWrite]
  /\ UNCHANGED <<env, outbox, session, loops, server, wire>>

\* The operations that make queueSubmission hand one back instead of adding its
\* own.  Only the harvest search asks whose they are.
ExistingOperations(u, i) ==
  {o \in Outstanding(i) : domain = "harvest" => outbox[o].owner = u}

\* Slip: the draft is left as it was.
Enqueue_DraftUntouched(u, i, o) ==
  /\ ExistingOperations(u, i) = {}
  /\ outbox[o] = NoOp
  /\ outbox' = [outbox EXCEPT ![o] =
       [owner |-> u, target |-> i, base |-> drafts[i].base,
        content |-> drafts[i].content, state |-> "pending"]]
  /\ UNCHANGED <<env, drafts, session, tabs, loops, server, wire>>

\* The body of the queueing transaction.
Enqueue(u, i, o) ==
  /\ ExistingOperations(u, i) = {}
  /\ outbox[o] = NoOp
  /\ outbox' = [outbox EXCEPT ![o] =
       [owner |-> u, target |-> i, base |-> drafts[i].base,
        content |-> drafts[i].content, state |-> "pending"]]
  /\ drafts' = [drafts EXCEPT ![i].state = "pending_submission"]
  /\ UNCHANGED <<env, session, tabs, loops, server, wire>>

\* Any UUID: the attendance engine takes its operations in key order.
QueueSubmission(t, i, o) ==
  /\ domain = "attendance"
  /\ ValidLease(tabs[t].user) /\ OwnDraft(tabs[t].user, i)
  /\ Enqueue(tabs[t].user, i, o)

\* The harvest engine takes its operations in the order they were queued.
QueueHarvestSubmission(t, i, o) ==
  /\ domain = "harvest"
  /\ ValidLease(tabs[t].user) /\ OwnDraft(tabs[t].user, i)
  /\ drafts[i].content # Blank
  /\ \A p \in Ops : outbox[p] = NoOp => o <= p
  /\ Enqueue(tabs[t].user, i, o)

-----------------------------------------------------------------------------
(* The engines: syncAttendance and syncHarvest.                            *)

Page(r)    == r[1]
Current(r) == Min(loops[r].todo)
Target(r)  == outbox[Current(r)].target
Running(r) == loops[r].pc # "idle"

Step(r, loop) == loops' = [loops EXCEPT ![r] = loop]

Return(r) == Step(r, IdleLoop)

\* trySync of the registrar: it asks for the session first.
StartRegistrar(r) ==
  /\ r[2] = "registrar" /\ ~Running(r)
  /\ ~tabs[Page(r)].signedOut
  /\ Step(r, [IdleLoop EXCEPT !.pc = "checking", !.asked = cookie])
  /\ UNCHANGED <<env, store, session, tabs, server, wire>>

\* The answer to the session question, about the session the cookie named when
\* it was asked: a user, a 401, or none at all.
SessionAnswered(r) ==
  LET n == loops[r].asked
      t == Page(r)
  IN
  /\ loops[r].pc = "checking"
  /\ \/ /\ n \in live
        /\ tabs' = Refreshed(t, n)
        /\ PreserveLease(Holder(n))
        /\ Step(r, [IdleLoop EXCEPT !.pc = "start", !.owner = Holder(n)])
        /\ UNCHANGED disruptions
     \/ /\ n \notin live
        /\ tabs' = Cleared(t)
        /\ Return(r)
        /\ UNCHANGED <<leases, newest, disruptions>>
     \/ /\ Disrupt
        /\ Return(r)
        /\ UNCHANGED <<tabs, leases, newest>>
  /\ UNCHANGED <<scenario, store, logins, live, cookie, permitted, server, wire>>

\* A screen runs the engine for its user, at a submission or on "Sync now".
StartSync(r) ==
  /\ r[2] = "screen" /\ ~Running(r)
  /\ tabs[Page(r)].user # NoUser
  /\ Step(r, [IdleLoop EXCEPT !.pc = "start", !.owner = tabs[Page(r)].user])
  /\ UNCHANGED <<env, store, session, tabs, server, wire>>

\* Slip: an operation that a closed page left "syncing" is not taken on again.
Sendable_OnlyPending(u) == {o \in Ops : outbox[o].state = "pending" /\ outbox[o].owner = u}

\* The operations an engine run takes on: those set aside are left out.
Sendable(u) ==
  {o \in Ops : outbox[o].state \in {"pending", "syncing"} /\ outbox[o].owner = u}

ReadOutbox(r) ==
  /\ loops[r].pc = "start"
  /\ \/ /\ r[2] = "registrar" /\ tabs[Page(r)].signedOut
        /\ Return(r)
     \/ /\ ~(r[2] = "registrar" /\ tabs[Page(r)].signedOut)
        /\ IF Sendable(loops[r].owner) = {} THEN Return(r)
           ELSE Step(r, [loops[r] EXCEPT !.pc = "mark", !.todo = Sendable(loops[r].owner)])
  /\ UNCHANGED <<env, store, session, tabs, server, wire>>

\* Dexie's update does nothing to a row that is no longer there.
OpBecomes(o, state) ==
  outbox' = IF outbox[o].state = "deleted" THEN outbox
            ELSE [outbox EXCEPT ![o].state = state]

MarkOperation(r) ==
  /\ loops[r].pc = "mark"
  /\ OpBecomes(Current(r), "syncing")
  /\ Step(r, [loops[r] EXCEPT !.pc = "markDraft"])
  /\ UNCHANGED <<env, drafts, session, tabs, server, wire>>

MarkDraft(r) ==
  /\ loops[r].pc = "markDraft"
  /\ drafts' = [drafts EXCEPT ![Target(r)].state = "syncing"]
  /\ Step(r, [loops[r] EXCEPT !.pc = "send"])
  /\ UNCHANGED <<env, outbox, session, tabs, server, wire>>

Failure(result) == [result |-> result, version |-> 0]

\* send: the cookie is whatever the browser holds now; csrfHeaders throws when
\* the page holds no token.
Send(r) ==
  /\ loops[r].pc = "send"
  /\ LET q == [op |-> Current(r), by |-> r, session |-> cookie,
               csrf |-> tabs[Page(r)].csrf]
     IN \/ /\ q.csrf = 0
           /\ Step(r, [loops[r] EXCEPT !.pc = "settle", !.reply = Failure("unreachable")])
           /\ UNCHANGED wire
        \/ /\ q.csrf # 0
           /\ Step(r, [loops[r] EXCEPT !.pc = "waiting", !.request = q])
           /\ wire' = wire \cup {q}
  /\ UNCHANGED <<env, store, session, tabs, server>>

\* No answer: the connection fails, or the answer is a 5xx.  The request may
\* still be served later.
GiveUp(r) ==
  /\ Disrupt
  /\ loops[r].pc = "waiting"
  /\ Step(r, [loops[r] EXCEPT !.pc = "settle", !.request = NotSent,
                              !.reply = Failure("unreachable")])
  /\ UNCHANGED <<scenario, store, session, tabs, server, wire>>

\* Slip: an operation is confirmed without looking at the result.
Confirms_Anything(result) == result \in {"applied", "already_applied", "conflict"}

Confirms(result) == result \in {"applied", "already_applied"}

\* The failures that stop an operation for good.  preserveForAttention is also
\* where the harvest engine takes every other 4xx.
SetsAside(result) ==
  \/ result \in {"conflict", "rejected", "forbidden"}
  \/ domain = "harvest" /\ result = "invalid"

\* The outcome a run hands its caller when it is about to return.
Outcome(r) ==
  LET result == loops[r].reply.result IN
  IF loops[r].pc = "start" \/ Confirms(result) THEN "synced"
  ELSE IF SetsAside(result) THEN "needs_attention"
  ELSE IF result = "unauthenticated" THEN "authentication_required" ELSE "waiting"

\* What is left of a run once its current operation has been confirmed.
Continue(r) ==
  LET rest == loops[r].todo \ {Current(r)}
  IN IF rest = {} THEN Return(r)
     ELSE Step(r, [loops[r] EXCEPT !.pc = "mark", !.todo = rest, !.request = NotSent,
                                   !.reply = Undecided])

\* Slip: the harvest engine, too, keeps the draft as it is by then.
ConfirmedDraft_Kept(o, version) ==
  [drafts[outbox[o].target] EXCEPT !.state = "synced", !.base = version]

\* The draft of a confirmed operation: the harvest engine also takes over what
\* the server recorded, which is what the operation says.
ConfirmedDraft(o, version) ==
  LET d == drafts[outbox[o].target] IN
  [d EXCEPT !.state = "synced", !.base = version,
            !.content = IF domain = "harvest" THEN outbox[o].content ELSE d.content]

\* One transaction on both tables.
SettleConfirmed(r) ==
  LET o == Current(r) IN
  /\ loops[r].pc = "settle" /\ Confirms(loops[r].reply.result)
  /\ outbox' = [outbox EXCEPT ![o].state = "deleted"]
  /\ drafts' = [drafts EXCEPT ![Target(r)] = ConfirmedDraft(o, loops[r].reply.version)]
  /\ Continue(r)
  /\ UNCHANGED <<env, session, tabs, server, wire>>

\* What the other results make of the operation and of its draft.
OpAfter(result)    == IF SetsAside(result) THEN "needs_attention" ELSE "pending"
DraftAfter(result) == IF SetsAside(result) THEN "needs_attention" ELSE "pending_submission"

\* The failure paths of the attendance engine, and the retries of the harvest
\* engine: two updates, one after the other.
SettleOperation(r) ==
  LET result == loops[r].reply.result IN
  /\ loops[r].pc = "settle" /\ ~Confirms(result)
  /\ domain = "harvest" => ~SetsAside(result)
  /\ OpBecomes(Current(r), OpAfter(result))
  /\ Step(r, [loops[r] EXCEPT !.pc = "settleDraft"])
  /\ UNCHANGED <<env, drafts, session, tabs, server, wire>>

SettleDraft(r) ==
  LET result == loops[r].reply.result IN
  /\ loops[r].pc = "settleDraft"
  /\ drafts' = [drafts EXCEPT ![Target(r)].state = DraftAfter(result)]
  /\ Return(r)
  /\ UNCHANGED <<env, outbox, session, tabs, server, wire>>

\* Slip: the operation that needs attention leaves the outbox.
PreserveForAttention_Removed(r) ==
  LET result == loops[r].reply.result IN
  /\ loops[r].pc = "settle" /\ domain = "harvest" /\ SetsAside(result)
  /\ outbox' = [outbox EXCEPT ![Current(r)].state = "deleted"]
  /\ drafts' = [drafts EXCEPT ![Target(r)].state = "needs_attention"]
  /\ Return(r)
  /\ UNCHANGED <<env, session, tabs, server, wire>>

\* preserveForAttention of the harvest engine: one transaction.
PreserveForAttention(r) ==
  LET result == loops[r].reply.result IN
  /\ loops[r].pc = "settle" /\ domain = "harvest" /\ SetsAside(result)
  /\ OpBecomes(Current(r), "needs_attention")
  /\ drafts' = [drafts EXCEPT ![Target(r)].state = "needs_attention"]
  /\ Return(r)
  /\ UNCHANGED <<env, session, tabs, server, wire>>

-----------------------------------------------------------------------------
(* The server, one operation at a time (AttendanceServer has the races of  *)
(* its transactions).                                                      *)

\* The answer a request gets before its body is looked at, or "ok".
Authority(q) ==
  IF q.session \notin live THEN "unauthenticated"
  ELSE IF q.csrf # q.session \/ Holder(q.session) \notin permitted THEN "forbidden"
  ELSE "ok"

\* The answer to an operation that was decided before.
ReplayReceipt(receipt, u) ==
  IF receipt.actor # u THEN "rejected"
  ELSE IF receipt.result = "applied" THEN "already_applied" ELSE receipt.result

\* Slip: a submitted row is taken for a draft of the version the operation names.
Verdict_SubmittedIsDraft(o, u) ==
  LET row == rows[outbox[o].target]
      op  == outbox[o]
  IN IF row = NoRow
     THEN IF domain = "harvest" /\ op.base # 0 THEN "conflict" ELSE "applied"
     ELSE IF row.creator # u THEN "conflict"
     ELSE IF row.version # op.base THEN "conflict" ELSE "applied"

\* What the ingestion makes of a new operation o of user u; "applied" stands for
\* a draft that may be written and submitted.  Only harvest asks for the draft an
\* operation was based on.
Verdict(o, u) ==
  LET row == rows[outbox[o].target]
      op  == outbox[o]
  IN IF row = NoRow
     THEN IF domain = "harvest" /\ op.base # 0 THEN "conflict" ELSE "applied"
     ELSE IF row.creator # u THEN "conflict"
     ELSE IF row.status = "submitted"
          THEN IF row.content = op.content THEN "already_applied" ELSE "conflict"
     ELSE IF row.version # op.base THEN "conflict" ELSE "applied"

AppliedRow(o, u) ==
  [status |-> "submitted", creator |-> u, content |-> outbox[o].content,
   corrected |-> FALSE, version |-> IF rows[outbox[o].target] # NoRow THEN rows[outbox[o].target].version + 2
               ELSE IF domain = "harvest" THEN 2 ELSE 3]

\* An answer reaches the run that still waits for it.
Answer(q, reply) ==
  /\ wire' = wire \ {q}
  /\ loops' = IF loops[q.by].request = q
              THEN [loops EXCEPT ![q.by].pc = "settle", ![q.by].request = NotSent,
                                 ![q.by].reply = reply]
              ELSE loops

Refuse(q) ==
  /\ Authority(q) # "ok" \/ outbox[q.op].content \in Malformed
  /\ Answer(q, Failure(IF Authority(q) # "ok" THEN Authority(q) ELSE "invalid"))
  /\ UNCHANGED <<env, store, session, tabs, server>>

Replay(q) ==
  LET u == Holder(q.session) IN
  /\ Authority(q) = "ok" /\ outbox[q.op].content \notin Malformed
  /\ receipts[q.op] # Undecided
  /\ Answer(q, [result |-> ReplayReceipt(receipts[q.op], u),
                version |-> receipts[q.op].version])
  /\ UNCHANGED <<env, store, session, tabs, server>>

\* result may be "rejected" or "conflict" where the verdict is "applied": a Worker
\* or a FarmUnit is inactive, or the same fact was recorded under another id.
Decide(q, result) ==
  LET u       == Holder(q.session)
      target  == outbox[q.op].target
      verdict == Verdict(q.op, u)
      version == IF result = "applied" THEN AppliedRow(q.op, u).version
                 ELSE IF rows[target] = NoRow THEN 0 ELSE rows[target].version
  IN
  /\ Authority(q) = "ok" /\ outbox[q.op].content \notin Malformed
  /\ receipts[q.op] = Undecided
  /\ result = verdict \/ (verdict = "applied" /\ result \in {"conflict", "rejected"})
  /\ Answer(q, [result |-> result, version |-> version])
  /\ \/ /\ receipts' = [receipts EXCEPT ![q.op] =
                          [actor |-> u, version |-> version, result |-> result]]
        /\ rows' = IF result = "applied" THEN [rows EXCEPT ![target] = AppliedRow(q.op, u)]
                   ELSE rows
        /\ UNCHANGED <<vain, disruptions>>
     \* The answer was sent, and the transaction then fails to commit.
     \/ /\ Disrupt
        /\ vain' = IF result = "applied" THEN vain \cup {q.op} ELSE vain
        /\ UNCHANGED <<rows, receipts>>
  /\ UNCHANGED <<scenario, store, session, tabs>>

\* A draft of the server is edited, submitted or discarded on another device.
EditElsewhere(i) ==
  /\ Disrupt
  /\ rows[i] # NoRow /\ rows[i].status = "draft" /\ rows[i].version < MaxVersion
  /\ \/ rows' = [rows EXCEPT ![i] = NoRow]
     \/ \E c \in Contents \ (Malformed \cup {rows[i].content}) :
          rows' = [rows EXCEPT ![i].content = c, ![i].version = @ + 1]
     \/ rows' = [rows EXCEPT ![i].status = "submitted", ![i].version = @ + 1]
  /\ UNCHANGED <<scenario, store, session, tabs, loops, receipts, vain, wire>>

\* A submitted record is corrected: an explicit change of what it says.  Only
\* harvest moves the version of the record itself.
CorrectRow(i) ==
  /\ Disrupt                \* bound
  /\ rows[i] # NoRow /\ rows[i].status = "submitted"
  /\ ~rows[i].corrected  \* bound: once
  /\ \E c \in Contents \ Malformed :
       rows' = [rows EXCEPT ![i].content = c, ![i].corrected = TRUE,
                            ![i].version = IF domain = "harvest" THEN @ + 1 ELSE @]

CorrectElsewhere(i) ==
  /\ CorrectRow(i)
  /\ UNCHANGED <<scenario, store, session, tabs, loops, receipts, vain, wire>>

-----------------------------------------------------------------------------
UserStep ==
  \E t \in scenario.pages :
    \/ \E u \in Users : Login(t, u)
    \/ \E heard \in BOOLEAN : SignOut(t, heard)
    \/ SuspendLease(t)
    \/ OpenOnline(t)
    \/ \E unauthenticated \in BOOLEAN : OpenOffline(t, unauthenticated)
    \/ ClosePage(t)
    \/ CheckOwner(t) \/ PutDraft(t)
    \/ \E i \in scenario.ids :
         \/ CreateLocalDraft(t, i)
         \/ CreateLocalHarvestDraft(t, i)
         \/ FetchServerDraft(t, i)
         \* bound: no draft is saved unchanged or emptied again
         \/ \E c \in Contents \ {Blank} :
              /\ OwnDraft(tabs[t].user, i) /\ c # drafts[i].content
              /\ SaveLocalDraft(t, i, c) \/ SaveLocalHarvestDraft(t, i, c)
         \/ \E o \in scenario.ops : QueueSubmission(t, i, o) \/ QueueHarvestSubmission(t, i, o)

EngineStep(r) ==
  \/ SessionAnswered(r)
  \/ ReadOutbox(r)
  \/ MarkOperation(r)
  \/ MarkDraft(r)
  \/ Send(r)
  \/ SettleConfirmed(r)
  \/ SettleOperation(r)
  \/ SettleDraft(r)
  \/ PreserveForAttention(r)

Serve(q) ==
  \/ Refuse(q)
  \/ Replay(q)
  \/ \E result \in SyncResults : Decide(q, result)

Elsewhere ==
  \/ \E u \in Users : LeaseExpires(u) \/ ChangePermission(u)
  \/ \E n \in live : SessionEnds(n)
  \/ \E i \in Ids : EditElsewhere(i) \/ CorrectElsewhere(i)

Next ==
  \/ UserStep
  \/ Elsewhere
  \/ \E r \in scenario.engines : StartRegistrar(r) \/ StartSync(r) \/ EngineStep(r) \/ GiveUp(r)
  \/ \E q \in wire : Serve(q)

Spec == Init /\ [][Next]_vars

-----------------------------------------------------------------------------
Request == [op: Ops, by: Loops, session: Nat, csrf: Nat]

TypeOK ==
  /\ scenario \in Scenarios /\ disruptions \in 0..scenario.disruptions
  /\ drafts \in [Ids -> Draft \cup {NoDraft}]
  /\ outbox \in [Ops -> Operation \cup {NoOp}]
  /\ leases \in [Users -> Lease] /\ newest \in Users \cup {NoUser}
  /\ logins \in Seq(Users) /\ live \subseteq 1..Len(logins) /\ cookie \in 0..Len(logins)
  /\ permitted \subseteq Users
  /\ tabs \in [Tabs -> [csrf: Nat, signedOut: BOOLEAN, user: Users \cup {NoUser},
                        suspend: Users \cup {NoUser}, write: Write \cup {NoWrite}]]
  /\ loops \in [Loops -> [pc: {"idle", "checking", "start", "mark", "markDraft", "send",
                               "waiting", "settle", "settleDraft"},
                          owner: Users \cup {NoUser}, asked: Nat, todo: SUBSET Ops,
                          request: Request \cup {NotSent},
                          reply: [result: SyncResults \cup {"unreachable", "invalid",
                                    "unauthenticated", "forbidden"}, version: Nat]
                                 \cup {Undecided}]]
  /\ rows \in [Ids -> Row \cup {NoRow}]
  /\ receipts \in [Ops -> Receipt \cup {Undecided}]
  /\ vain \subseteq Ops /\ wire \subseteq Request

Submitted(i) == rows[i] # NoRow /\ rows[i].status = "submitted"
LostFor(i)   == \E o \in vain : outbox[o].target = i

\* The server's books have i as c, or an explicit correction of it.
Recorded(i, c) == Submitted(i) /\ (rows[i].content = c \/ rows[i].corrected)

\* Work leaves the device only into the server's books: an operation that the
\* engine deleted is a submitted row with exactly the queued content.  The one
\* exception is a commit that failed after its answer was sent.
ConfirmedIsRecorded ==
  \A o \in Ops : outbox[o].state = "deleted" =>
    Recorded(outbox[o].target, outbox[o].content) \/ o \in vain

\* "Server confirmed" is true: a draft shown as synced is submitted on the server,
\* and the harvest screens show what the server recorded.
SyncedIsRecorded ==
  \A i \in Ids : drafts[i].state = "synced" =>
    \/ Submitted(i) /\ (domain = "harvest" => Recorded(i, drafts[i].content))
    \/ LostFor(i)

\* Nothing waits for nothing: a draft that says it waits or needs attention has an
\* operation in the outbox, or is on the server already.
WaitingIsAccounted ==
  \A i \in Ids : drafts[i].state \in {"pending_submission", "syncing", "needs_attention"} =>
    Outstanding(i) # {} \/ Submitted(i) \/ LostFor(i)

\* A record is submitted once.  One draft may well be queued more than once: after a
\* confirmation, by a second account of the device, or from a copy that was cached
\* again.  Whatever is sent then, late or twice, the server applies one operation.
OneSubmissionPerRecord ==
  \A o, p \in Ops :
    /\ receipts[o].result = "applied" /\ receipts[p].result = "applied"
    /\ outbox[o].target = outbox[p].target
    => o = p

\* docs/architecture/offline-sync.md: another account cannot synchronize it.
SynchronizedByOwner ==
  \A o \in Ops : receipts[o] # Undecided => receipts[o].actor = outbox[o].owner
=============================================================================
