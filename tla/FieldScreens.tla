---------------------------- MODULE FieldScreens ----------------------------
(***************************************************************************)
(* The field screens as callers of the device: attendance-workspace.tsx    *)
(* and harvest-workspace.tsx, and the list screens they are reached from.  *)
(* FieldDevice lets a tab call anything at any time; here a call happens   *)
(* when a control that the screen shows is used, and what the screen       *)
(* believes (its React state) is compared with the store and the server.   *)
(*                                                                         *)
(* One account uses the device, and a screen runs one handler at a time    *)
(* (the user still types while it runs); FieldDevice has the rest.         *)
(***************************************************************************)
EXTENDS FieldDevice

\* Every page can run the engine of its screen.
ASSUME ScreensHaveEngines == \A t \in Tabs : <<t, "screen">> \in Loops

VARIABLE screen  \* what each page shows: Closed, a list or a workspace

screenVars == <<vars, screen>>

Busy == {"saving", "savingForReview", "savingForSubmit", "queueing", "queued", "submitting",
         "syncing", "refreshSubmit", "refreshSync", "confirmSubmit", "confirmSync"}

\* load and step: the await the page's load, and its handler, are at.
\* status is the session's or record's, "none" before one is loaded; local is
\* localState, "none" before a harvest screen holds a draft.
Workspace ==
  [place: {"workspace"}, id: Ids,
   load: {"local", "sync", "refresh", "fetch", "check", "cache", "none"},
   step: Busy \cup {"ready", "stuck"},
   local: {"none", "editing", "pending_submission", "syncing", "synced", "needs_attention"},
   status: {"none", "draft", "submitted"},
   typed: Contents, dirty: BOOLEAN, review: BOOLEAN,
   confirmed: BOOLEAN,   \* it says "confirmed by the server"
   outcome: {"none", "synced", "waiting", "authentication_required", "needs_attention"},
   online: BOOLEAN]

Closed == [place |-> "home"]
List(online) == [place |-> "list", online |-> online]

NewScreen(i) ==
  [place |-> "workspace", id |-> i, load |-> "none", step |-> "ready", local |-> "none",
   status |-> "none", typed |-> Blank, dirty |-> FALSE, review |-> FALSE,
   confirmed |-> FALSE, outcome |-> "none", online |-> FALSE]

Show(t, s) == screen' = [screen EXCEPT ![t] = s]

At(t, place) == screen[t].place = place
In(t, field, values) == At(t, "workspace") /\ screen[t][field] \in values

Attendance == domain = "attendance"
Harvest    == domain = "harvest"

-----------------------------------------------------------------------------
(* What is rendered: one view at a time.                                   *)

Loaded(s) == s.place = "workspace" /\ (s.status # "none" \/ s.local # "none")

PendingView(s) ==
  /\ Loaded(s)
  /\ s.local \in {"pending_submission", "syncing", "needs_attention"}
  /\ Harvest => s.status # "submitted"

SubmittedView(s) == Loaded(s) /\ ~PendingView(s) /\ s.status = "submitted"

ReviewView(s) == Loaded(s) /\ ~PendingView(s) /\ ~SubmittedView(s) /\ s.review

\* The roster, or the harvest form, which stays open below its review.
DraftView(s) ==
  /\ Loaded(s) /\ ~PendingView(s) /\ ~SubmittedView(s)
  /\ Attendance => ~s.review

-----------------------------------------------------------------------------
(* Opening a screen.                                                       *)

OpenList(t) ==
  /\ At(t, "home")
  /\ \/ OpenOnline(t) /\ Show(t, List(TRUE))
     \/ /\ \E unauthenticated \in BOOLEAN : OpenOffline(t, unauthenticated)
        /\ ValidLease(newest)
        /\ Show(t, List(FALSE))

\* "Start draft", and /harvest/new.  The attendance list then leaves for the
\* workspace, which loads as any other.
StartDraft(t, i) ==
  /\ At(t, "list")
  /\ \/ CreateLocalDraft(t, i) /\ Show(t, Closed)
     \/ /\ CreateLocalHarvestDraft(t, i)
        /\ Show(t, [NewScreen(i) EXCEPT !.load = "local", !.online = screen[t].online])

\* The copy of this device, opened when the server has no answer.
LocalScreen(i) ==
  IF ValidLease(newest) /\ OwnDraft(newest, i)
  THEN [NewScreen(i) EXCEPT !.local = drafts[i].state, !.status = "draft",
                            !.typed = drafts[i].content]
  ELSE Closed

\* Attendance asks for the session and for the draft at once.
OpenAttendance(t, i) ==
  /\ Attendance /\ ~At(t, "workspace")
  /\ \/ OpenOnline(t) /\ Show(t, [NewScreen(i) EXCEPT !.load = "fetch"])
     \/ /\ \E unauthenticated \in BOOLEAN : OpenOffline(t, unauthenticated)
        /\ Show(t, LocalScreen(i))

AttendanceFetched(t) ==
  /\ Attendance /\ In(t, "load", {"fetch"})
  /\ FetchServerDraft(t, screen[t].id)
  /\ Show(t, [screen[t] EXCEPT !.load = "check"])

\* The cache may throw: the page's write, by then, is about another user's draft.
Refused(t) == OfAnother(tabs[t].write.draft.owner, tabs[t].write.id)

\* What the load catches, it takes for a server without an answer.
AttendanceChecked(t) ==
  /\ Attendance /\ In(t, "load", {"check"})
  /\ CheckOwner(t)
  /\ Show(t, IF Refused(t) THEN LocalScreen(screen[t].id)
             ELSE [screen[t] EXCEPT !.load = "cache"])

\* The screen shows what it has cached.
AttendanceCached(t) ==
  LET d == tabs[t].write.draft IN
  /\ Attendance /\ In(t, "load", {"cache"})
  /\ PutDraft(t)
  /\ Show(t, [screen[t] EXCEPT !.load = "none", !.local = d.state, !.typed = d.content,
                !.status = IF d.state = "synced" THEN "submitted" ELSE "draft"])

\* The server has no such record, or no answer.
NoAnswer(i) ==
  \/ (cookie \notin live \/ rows[i] = NoRow) /\ UNCHANGED disruptions
  \/ cookie \in live /\ rows[i] # NoRow /\ Disrupt

AttendanceNotFetched(t) ==
  /\ Attendance /\ In(t, "load", {"fetch"})
  /\ NoAnswer(screen[t].id)
  /\ Show(t, LocalScreen(screen[t].id))
  /\ UNCHANGED <<scenario, store, session, tabs, loops, server, wire>>

\* Harvest asks for the session first, and then looks at its own copy.
OpenHarvest(t, i) ==
  /\ Harvest /\ ~At(t, "workspace")
  /\ \/ OpenOnline(t) /\ Show(t, [NewScreen(i) EXCEPT !.load = "local", !.online = TRUE])
     \/ /\ \E unauthenticated \in BOOLEAN : OpenOffline(t, unauthenticated)
        /\ Show(t, IF ValidLease(newest) THEN [NewScreen(i) EXCEPT !.load = "local"] ELSE Closed)

\* applyLocal.
WithLocal(s, d) == [s EXCEPT !.local = d.state, !.typed = d.content]

\* Slip: the server's status is taken for the state of the device's copy.
WithRecord_StatusAsState(s, row) ==
  [s EXCEPT !.status = row.status, !.typed = row.content, !.local = row.status]

\* applyRecord.
WithRecord(s, row) ==
  [s EXCEPT !.status = row.status, !.typed = row.content,
            !.local = IF row.status = "submitted" THEN "synced" ELSE "editing"]

Engine(t) == <<t, "screen">>

HarvestReadsLocal(t) ==
  LET s     == screen[t]
      local == WithLocal(s, drafts[s.id])
      found == OwnDraft(tabs[t].user, s.id)
  IN
  /\ Harvest /\ In(t, "load", {"local"})
  /\ \/ /\ ~s.online
        /\ Show(t, IF found THEN [local EXCEPT !.load = "none"] ELSE Closed)
        /\ UNCHANGED vars
     \/ /\ s.online /\ found /\ drafts[s.id].state \in {"pending_submission", "syncing"}
        /\ StartSync(Engine(t))
        /\ Show(t, [local EXCEPT !.load = "sync"])
     \/ /\ s.online /\ ~(found /\ drafts[s.id].state \in {"pending_submission", "syncing"})
        /\ Show(t, [(IF found THEN local ELSE s) EXCEPT !.load = "fetch"])
        /\ UNCHANGED vars

HarvestFetched(t) ==
  /\ Harvest /\ In(t, "load", {"fetch"})
  /\ FetchServerDraft(t, screen[t].id)
  /\ Show(t, [WithRecord(screen[t], rows[screen[t].id]) EXCEPT !.load = "check"])

\* What cannot be cached is shown all the same.
HarvestChecked(t) ==
  /\ Harvest /\ In(t, "load", {"check"})
  /\ CheckOwner(t)
  /\ Show(t, [screen[t] EXCEPT !.load = IF Refused(t) THEN "none" ELSE "cache"])

HarvestCached(t) ==
  /\ Harvest /\ In(t, "load", {"cache"})
  /\ PutDraft(t)
  /\ Show(t, [screen[t] EXCEPT !.load = "none"])

HarvestNotFetched(t) ==
  /\ Harvest /\ In(t, "load", {"fetch"})
  /\ NoAnswer(screen[t].id)
  /\ Show(t, IF Loaded(screen[t]) THEN [screen[t] EXCEPT !.load = "none"] ELSE Closed)
  /\ UNCHANGED <<scenario, store, session, tabs, loops, server, wire>>

-----------------------------------------------------------------------------
(* The controls.                                                           *)

Ready(t) == screen[t].step = "ready"

\* The user types, also while a handler runs.
Edit(t, c) ==
  /\ DraftView(screen[t]) /\ c # screen[t].typed
  /\ Show(t, [screen[t] EXCEPT !.typed = c, !.dirty = Attendance,
                               !.confirmed = Harvest /\ @])
  /\ UNCHANGED vars

\* A save the store refuses leaves an error on the screen and nothing else.
StartSave(t, step) ==
  /\ Ready(t)
  /\ \/ SaveLocalDraft(t, screen[t].id, screen[t].typed)
     \/ SaveLocalHarvestDraft(t, screen[t].id, screen[t].typed)
  /\ Show(t, [screen[t] EXCEPT !.step = step])

Save(t) ==
  /\ DraftView(screen[t])
  /\ IF Attendance THEN screen[t].dirty ELSE screen[t].typed # Blank
  /\ StartSave(t, "saving")

\* Attendance saves a changed roster first; harvest validates.
OpenReview(t) ==
  /\ DraftView(screen[t]) /\ ~screen[t].review
  /\ \/ screen[t].dirty /\ StartSave(t, "savingForReview")
     \/ /\ ~screen[t].dirty
        /\ Harvest => Ready(t) /\ screen[t].typed # Blank
        /\ Show(t, [screen[t] EXCEPT !.review = TRUE])
        /\ UNCHANGED vars

CloseReview(t) ==
  /\ ReviewView(screen[t])
  /\ Show(t, [screen[t] EXCEPT !.review = FALSE])
  /\ UNCHANGED vars

\* The put of a save: whatever was typed meanwhile, the roster counts as saved.
Saved(t) ==
  LET s == screen[t] IN
  /\ In(t, "step", {"saving", "savingForReview", "savingForSubmit"})
  /\ tabs[t].write # NoWrite
  /\ PutDraft(t)
  /\ Show(t, IF s.step = "savingForSubmit" THEN [s EXCEPT !.step = "queueing"]
             ELSE [s EXCEPT !.step = "ready", !.dirty = FALSE, !.local = "editing",
                            !.confirmed = FALSE,
                            !.review = @ \/ s.step = "savingForReview"])

\* Attendance queues what was saved before the review, which must be complete;
\* harvest saves what the form says now.
Submit(t) ==
  /\ ReviewView(screen[t])
  /\ \/ /\ Attendance /\ Ready(t) /\ screen[t].typed # Blank
        /\ Show(t, [screen[t] EXCEPT !.step = "queueing"])
        /\ UNCHANGED vars
     \/ Harvest /\ StartSave(t, "savingForSubmit")

\* Whether the queueing transaction hands back an operation, new or not.
Queueable(t, i) ==
  /\ ValidLease(tabs[t].user) /\ OwnDraft(tabs[t].user, i)
  /\ Harvest => drafts[i].content # Blank
  /\ \/ ExistingOperations(tabs[t].user, i) # {}
     \/ \E o \in scenario.ops : outbox[o] = NoOp  \* bound: UUIDs left

Queued(t) ==
  LET i == screen[t].id IN
  /\ In(t, "step", {"queueing"})
  /\ \/ /\ Queueable(t, i)
        /\ \/ \E o \in scenario.ops : QueueSubmission(t, i, o) \/ QueueHarvestSubmission(t, i, o)
           \/ ExistingOperations(tabs[t].user, i) # {} /\ UNCHANGED vars
        /\ Show(t, [screen[t] EXCEPT !.step = "queued", !.local = "pending_submission"])
     \/ /\ ~Queueable(t, i)
        /\ Show(t, [screen[t] EXCEPT !.step = "ready"])
        /\ UNCHANGED vars

SyncQueued(t) ==
  /\ In(t, "step", {"queued"})
  /\ StartSync(Engine(t))
  /\ Show(t, [screen[t] EXCEPT !.step = "submitting"])

SyncNow(t) ==
  /\ PendingView(screen[t]) /\ Ready(t)
  /\ StartSync(Engine(t))
  /\ Show(t, [screen[t] EXCEPT !.step = "syncing"])

\* What the screen makes of the outcome of the run it waited for.
AttendanceOutcome(s, outcome) ==
  IF s.step = "submitting"
  THEN IF outcome = "synced" THEN [s EXCEPT !.step = "confirmSubmit"]
       ELSE [s EXCEPT !.step = "ready", !.review = FALSE,
                      !.local = IF outcome = "needs_attention" THEN outcome ELSE @]
  ELSE [s EXCEPT !.step = IF outcome = "synced" THEN "confirmSync" ELSE "ready"]

HarvestOutcome(s, outcome) ==
  IF s.load = "sync" THEN [s EXCEPT !.load = "refresh", !.outcome = outcome]
  ELSE [s EXCEPT !.outcome = outcome,
          !.step = IF s.step = "submitting" THEN "refreshSubmit" ELSE "refreshSync"]

\* A run of the screen's engine ends, or goes on.
Follow(r) ==
  LET t == Page(r) IN
  IF r[2] = "screen" /\ loops'[r] = IdleLoop
  THEN Show(t, IF Attendance THEN AttendanceOutcome(screen[t], Outcome(r))
               ELSE HarvestOutcome(screen[t], Outcome(r)))
  ELSE UNCHANGED screen

\* Harvest reads its own draft again after a run.
HarvestRefreshed(t) ==
  LET s         == screen[t]
      refreshed == [WithLocal(s, drafts[s.id]) EXCEPT !.outcome = "none"]
  IN
  /\ Harvest
  /\ \/ /\ In(t, "load", {"refresh"})
        /\ Show(t, [refreshed EXCEPT !.load = IF s.outcome = "synced" THEN "fetch" ELSE "none"])
     \/ /\ In(t, "step", {"refreshSubmit", "refreshSync"})
        /\ Show(t, [refreshed EXCEPT
             !.review = @ /\ s.step = "refreshSync",
             !.local = IF s.outcome = "needs_attention" THEN s.outcome ELSE @,
             !.step = IF s.outcome # "synced" THEN "ready"
                      ELSE IF s.step = "refreshSubmit" THEN "confirmSubmit" ELSE "confirmSync"])
  /\ UNCHANGED vars

\* The run said "synced": the record is read back, and whatever its status the
\* screen says that it is confirmed.
Confirmed(t) ==
  LET s == screen[t] IN
  /\ In(t, "step", {"confirmSubmit", "confirmSync"})
  /\ cookie \in live /\ rows[s.id] # NoRow
  /\ Show(t, [WithRecord(s, rows[s.id]) EXCEPT
       !.step = "ready", !.confirmed = TRUE,
       !.local = IF Attendance THEN "synced" ELSE @,
       !.review = @ /\ s.step = "confirmSync"])
  /\ UNCHANGED vars

\* Slip: a failure to read the record back is not caught.
NotConfirmed_Uncaught(t) ==
  /\ In(t, "step", {"confirmSubmit", "confirmSync"})
  /\ NoAnswer(screen[t].id)
  /\ Show(t, screen[t])
  /\ UNCHANGED <<scenario, store, session, tabs, loops, server, wire>>

\* "Sync now" of attendance does not catch the failure: it stays busy.
NotConfirmed(t) ==
  LET s == screen[t] IN
  /\ In(t, "step", {"confirmSubmit", "confirmSync"})
  /\ NoAnswer(s.id)
  /\ Show(t, [s EXCEPT !.step = IF Attendance /\ s.step = "confirmSync" THEN "stuck"
                                ELSE "ready"])
  /\ UNCHANGED <<scenario, store, session, tabs, loops, server, wire>>

\* "Discard draft": the server's draft goes, the copy on the device stays.
Discard(t) ==
  LET i == screen[t].id IN
  /\ Attendance /\ DraftView(screen[t]) /\ Ready(t)
  /\ cookie \in live /\ tabs[t].csrf = cookie
  /\ rows[i] # NoRow /\ rows[i].status = "draft" /\ rows[i].creator = Holder(cookie)
  /\ rows' = [rows EXCEPT ![i] = NoRow]
  /\ Show(t, Closed)
  /\ UNCHANGED <<env, store, session, tabs, loops, receipts, vain, wire>>

\* "Record correction" of a submitted record.
Correct(t) ==
  LET s == screen[t] IN
  /\ SubmittedView(s) /\ (Harvest => Ready(t))
  /\ cookie \in live /\ tabs[t].csrf = cookie
  /\ CorrectRow(s.id)
  /\ Show(t, [(IF Attendance THEN [s EXCEPT !.typed = rows'[s.id].content]
               ELSE WithRecord(s, rows'[s.id])) EXCEPT !.confirmed = FALSE])
  /\ UNCHANGED <<scenario, store, session, tabs, loops, receipts, vain, wire>>

Leave(t) ==
  /\ \/ At(t, "list")
     \/ In(t, "step", {"ready", "stuck"}) /\ screen[t].load = "none"
  /\ Show(t, Closed)
  /\ UNCHANGED vars

-----------------------------------------------------------------------------
Control(t) ==
  \/ OpenList(t)
  \/ \E i \in scenario.ids : StartDraft(t, i) \/ OpenAttendance(t, i) \/ OpenHarvest(t, i)
  \/ \E c \in Contents : Edit(t, c)
  \/ Save(t) \/ OpenReview(t) \/ CloseReview(t) \/ Submit(t) \/ SyncNow(t)
  \/ Discard(t) \/ Correct(t) \/ Leave(t)

\* The continuations of the page's promises.
Proceed(t) ==
  \/ AttendanceFetched(t) \/ AttendanceChecked(t) \/ AttendanceCached(t)
  \/ AttendanceNotFetched(t)
  \/ HarvestReadsLocal(t) \/ HarvestNotFetched(t)
  \/ HarvestFetched(t) \/ HarvestChecked(t) \/ HarvestCached(t)
  \/ Saved(t) \/ Queued(t) \/ SyncQueued(t)
  \/ HarvestRefreshed(t) \/ Confirmed(t) \/ NotConfirmed(t)

\* Accounts are changed on the home screen; a reload goes there.
SessionStep(t) ==
  \/ /\ At(t, "home")
     /\ \/ \E u \in Users : Login(t, u)
        \/ \E heard \in BOOLEAN : SignOut(t, heard)
     /\ UNCHANGED screen
  \/ SuspendLease(t) /\ UNCHANGED screen
  \/ ClosePage(t) /\ Show(t, Closed)

EngineProceeds(r) == EngineStep(r) /\ Follow(r)

ScreensInit == Init /\ screen = [t \in Tabs |-> Closed]

ScreensNext ==
  \/ \E t \in scenario.pages : Control(t) \/ Proceed(t) \/ SessionStep(t)
  \/ \E r \in scenario.engines :
       \/ StartRegistrar(r) /\ UNCHANGED screen
       \/ EngineProceeds(r)
       \/ GiveUp(r) /\ UNCHANGED screen
  \/ (Elsewhere \/ \E q \in wire : Serve(q)) /\ UNCHANGED screen

ScreensSpec == ScreensInit /\ [][ScreensNext]_screenVars

\* Promises settle, and the server answers what reaches it.  Nothing starts a run by
\* itself: that takes a control of a screen, or an event of the registrar.
Fairness ==
  /\ \A t \in Tabs : WF_screenVars(t \in scenario.pages /\ Proceed(t))
  /\ \A r \in Loops : WF_screenVars(
       /\ r \in scenario.engines
       /\ \/ EngineProceeds(r)
          \/ (\E q \in wire : q.by = r /\ Serve(q)) /\ UNCHANGED screen)

FairSpec == ScreensSpec /\ Fairness

-----------------------------------------------------------------------------
ScreensTypeOK == screen \in [Tabs -> Workspace \cup {Closed, List(TRUE), List(FALSE)}]

\* docs/operations/offline-synchronization-guide.md: "applied" makes a draft synced, a
\* refusal sets it aside for attention.  So what a screen calls "confirmed by the
\* server" is submitted there.  (It is not: a run that finds nothing left to send
\* reports "synced", also when what it would have sent was set aside.)
ConfirmedIsSubmitted ==
  \A t \in Tabs : screen[t].place = "workspace" /\ screen[t].confirmed =>
    Submitted(screen[t].id) \/ LostFor(screen[t].id)

\* However wrong its words, a screen never says "confirmed by the server" of work
\* that is gone: it is submitted, or the operation is still on the device.
ConfirmedIsKept ==
  \A t \in Tabs : screen[t].place = "workspace" /\ screen[t].confirmed =>
    \/ Submitted(screen[t].id)
    \/ Outstanding(screen[t].id) # {}
    \/ LostFor(screen[t].id)

\* What a user queued is what the device keeps and nobody edits: a draft that began
\* here and has a submission outstanding says what the submission says, or what an
\* explicit correction of the record made of it.  Only the screens' order of awaits
\* sees to it, on the only page that is open: a second page may queue what the first
\* one is about to put back.
QueuedIsFrozen ==
  \A i \in Ids \ born : \A o \in Outstanding(i) :
    /\ drafts[i].state # "editing"
    /\ drafts[i].content = outbox[o].content \/ (Submitted(i) /\ rows[i].corrected)

\* A screen that is busy becomes ready, "Sync now" of attendance excepted, which
\* stays busy when the record cannot be read back.
BusyEnds == \A t \in Tabs : In(t, "step", Busy) ~> ~In(t, "step", Busy)

Waiting(o) ==
  outbox[o].state \in {"pending", "syncing"} /\ outbox[o].content \notin Malformed

\* The owner of o is signed in and may record, and a page that runs a registrar
\* knows it: a session check answered late can leave the page signed out.
Connected(o) ==
  /\ outbox[o] # NoOp =>
       cookie \in live /\ Holder(cookie) = outbox[o].owner /\ outbox[o].owner \in permitted
  /\ \E r \in scenario.engines : r[2] = "registrar" /\ ~tabs[Page(r)].signedOut

\* Nobody keeps pressing "Sync now": two engines that take turns with stale lists
\* can revive a rejected operation for ever, and the next one never gets its turn.
LeftAlone == \A r \in scenario.engines : r[2] = "screen" => ~Running(r)

\* The attendance engine takes a payload the server refuses for a bad connection:
\* it is tried again for ever, and nothing behind it is sent.
Blocked ==
  /\ Attendance
  /\ \E o \in Ops : outbox[o].state \in {"pending", "syncing"} /\ outbox[o].content \in Malformed

\* A mount, a session update, "online" or "visibilitychange" starts a registrar again
\* and again: there is no timer, and nothing promises that such events happen.
EventsKeepComing ==
  \E r \in Loops : []<><<StartRegistrar(r) /\ UNCHANGED screen>>_screenVars

\* Queued work drains as long as events keep starting the registrar: no control has to
\* be touched.  Once its owner is and stays connected, a waiting operation is confirmed
\* or set aside, whatever failed before.
QueueDrains ==
  \A o \in Ops :
    EventsKeepComing /\ <>[](Connected(o) /\ LeftAlone /\ ~Blocked)
    => (Waiting(o) ~> ~Waiting(o))
=============================================================================
