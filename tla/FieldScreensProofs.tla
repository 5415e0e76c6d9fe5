------------------------- MODULE FieldScreensProofs -------------------------
(***************************************************************************)
(* The screens of FieldScreens, for every number of accounts, pages,       *)
(* engine runs, drafts, operations and disruptions: what a screen says of  *)
(* an operation is true of the store and of the server, and the device     *)
(* keeps its invariant under the screens, which also discard and correct.  *)
(*                                                                         *)
(* The invariant, ScreensInv, adds to DeviceInv what a screen may rely on  *)
(* across its awaits: while it waits for the outcome of a submission, and  *)
(* while it says "confirmed", the draft it shows is not lost.              *)
(***************************************************************************)
EXTENDS FieldScreens, FieldDeviceProofs

Screens == Workspace \cup {Closed, List(TRUE), List(FALSE)}

\* The steps of a handler from the queueing transaction to the record's answer.
Following == {"queued", "submitting", "syncing", "refreshSubmit", "refreshSync",
              "confirmSubmit", "confirmSync"}

\* The screen relies on a draft that was submitted.
Waits(s) ==
  s.local \in WaitingStates \/ s.step \in Following \/ s.load \in {"sync", "refresh"}

\* The screen waits for the engine.
Follows(s) == s.place = "workspace" /\ (s.load = "sync" \/ s.step \in {"submitting", "syncing"})

\* A handler runs on what the screen has loaded; harvest alone looks at its own copy
\* first; and no handler runs before anything is loaded.
Shape(s) ==
  /\ s.step # "ready" => Loaded(s)
  /\ s.load \in {"local", "sync", "refresh"} => Harvest
  /\ s.load = "local" \/ (Attendance /\ s.load # "none") => s.step = "ready" /\ ~Loaded(s)

WorkspaceSound(s) ==
  /\ Waits(s) => Kept(s.id) /\ drafts[s.id] # NoDraft
  /\ s.confirmed => Kept(s.id)
  /\ Shape(s)

ScreenSound(t) ==
  /\ At(t, "workspace") => WorkspaceSound(screen[t])
  /\ Running(Engine(t)) => Follows(screen[t])

ScreensInv == DeviceInv /\ ScreensTypeOK /\ \A t \in Tabs : ScreenSound(t)

-----------------------------------------------------------------------------
LEMMA PlacesAreApart ==
  ASSUME NEW s \in Screens
  PROVE  /\ s.place = "workspace" <=> s \in Workspace
         /\ Closed.place = "home" /\ \A online \in BOOLEAN : List(online).place = "list"
BY DEF Screens, Workspace, Closed, List

LEMMA WorkspaceTyped ==
  ASSUME ScreensTypeOK, NEW t \in Tabs, At(t, "workspace")
  PROVE  screen[t] \in Workspace
BY PlacesAreApart DEF ScreensTypeOK, Screens, At

\* The engine of one page is not that of another.
LEMMA EnginesApart ==
  ASSUME NEW t \in Tabs
  PROVE  Engine(t) \in Loops /\ \A u \in Tabs \ {t} : Engine(u) \in Loops \ {Engine(t)}
BY ScreensHaveEngines DEF Engine

\* What the invariant says of a screen stays true of it until it moves.
LEMMA ShownStays ==
  ASSUME ScreensInv, DeviceInv', Forward, NEW t \in Tabs, screen'[t] = screen[t],
         Running(Engine(t))' => Running(Engine(t))
  PROVE  ScreenSound(t)'
<1> USE DEF ScreensInv
<1>1. CASE At(t, "workspace")
  <2>1. PICK s \in Workspace : s = screen[t]
    BY <1>1, WorkspaceTyped
  <2>2. s.id \in Ids /\ WorkspaceSound(s)
    BY <1>1, <2>1 DEF Workspace, ScreenSound
  <2>3. OutboxTyped' /\ \A o \in Ops : OpSound(o)'
    BY TypePartsNext DEF DeviceInv
  <2>4. Kept(s.id) => Kept(s.id)'
    BY <2>2, <2>3, KeptStays
  <2>5. drafts[s.id] # NoDraft => drafts'[s.id] # NoDraft
    BY <2>2 DEF Forward, StoreForward
  <2>6. Shape(s)'
    BY <2>2 DEF WorkspaceSound, Shape, Forward, Attendance, Harvest, domain, Loaded
  <2>7. WorkspaceSound(s)'
    BY <2>2, <2>4, <2>5, <2>6 DEF WorkspaceSound, Waits
  <2>8. screen'[t] = s
    BY <2>1
  <2>9. WorkspaceSound(screen[t])'
    BY <2>7, <2>8 DEF WorkspaceSound, Shape, Kept, Submitted, Outstanding, LostFor, Waits,
                      Attendance, Harvest, domain, Loaded
  <2> QED
    BY <2>9 DEF ScreenSound, Follows, At
<1>2. CASE ~At(t, "workspace")
  BY <1>2 DEF ScreenSound, At, Follows
<1> QED
  BY <1>1, <1>2

\* A step that moves no screen.
LEMMA NobodyMoves ==
  ASSUME ScreensInv, DeviceInv', Forward, UNCHANGED screen,
         \A t \in Tabs : Running(Engine(t))' => Running(Engine(t))
  PROVE  ScreensInv'
<1>1. \A t \in Tabs : ScreenSound(t)'
  BY ShownStays
<1> QED
  BY <1>1 DEF ScreensInv, ScreensTypeOK

\* A step that moves the screen of one page to s.
LEMMA ScreenMoves ==
  ASSUME ScreensInv, DeviceInv', Forward, NEW t \in Tabs, NEW s \in Screens, Show(t, s),
         \A u \in Tabs \ {t} : Running(Engine(u))' => Running(Engine(u)),
         Running(Engine(t))' => Follows(s),
         s.place = "workspace" => WorkspaceSound(s)'
  PROVE  ScreensInv'
<1> USE DEF ScreensInv
<1>1. screen' \in [Tabs -> Screens] /\ screen'[t] = s
      /\ \A u \in Tabs \ {t} : screen'[u] = screen[u]
  BY DEF Show, ScreensTypeOK, Screens
<1>2. ScreensTypeOK'
  BY <1>1 DEF ScreensTypeOK, Screens
<1>3. \A u \in Tabs \ {t} : ScreenSound(u)'
  BY <1>1, ShownStays
<1>4. ScreenSound(t)'
  <2>1. s.place = "workspace" => WorkspaceSound(screen[t])'
    BY <1>1 DEF WorkspaceSound, Shape, Kept, Submitted, Outstanding, LostFor, Waits,
                Attendance, Harvest, domain, Loaded
  <2> QED
    BY <1>1, <2>1 DEF ScreenSound, Follows, At
<1> QED
  BY <1>2, <1>3, <1>4

\* A step after which the page shows no workspace.
LEMMA ScreenLeaves ==
  ASSUME ScreensInv, DeviceInv', Forward, NEW t \in Tabs, NEW s \in Screens \ Workspace, Show(t, s),
         \A u \in Tabs \ {t} : Running(Engine(u))' => Running(Engine(u)),
         ~Running(Engine(t))'
  PROVE  ScreensInv'
BY ScreenMoves, PlacesAreApart

\* A step of a workspace: what it says that it did not say before is justified.
LEMMA WorkspaceMoves ==
  ASSUME ScreensInv, DeviceInv', Forward, NEW t \in Tabs, At(t, "workspace"),
         NEW s \in Workspace, s.id = screen[t].id, Show(t, s),
         \A u \in Tabs \ {t} : Running(Engine(u))' => Running(Engine(u)),
         Running(Engine(t))' => Follows(s),
         Waits(s) => Waits(screen[t]) \/ (Kept(s.id)' /\ drafts'[s.id] # NoDraft),
         s.confirmed => screen[t].confirmed \/ Waits(screen[t]),
         Shape(s)
  PROVE  ScreensInv'
<1> USE DEF ScreensInv
<1>1. s.id \in Ids /\ WorkspaceSound(screen[t])
  BY DEF Workspace, ScreenSound
<1>2. OutboxTyped' /\ \A o \in Ops : OpSound(o)'
  BY TypePartsNext DEF DeviceInv
<1>3. Kept(s.id) => Kept(s.id)'
  BY <1>1, <1>2, KeptStays
<1>4. drafts[s.id] # NoDraft => drafts'[s.id] # NoDraft
  BY <1>1 DEF Forward, StoreForward
<1>5. Shape(s)'
  BY DEF Shape, Forward, Attendance, Harvest, domain, Loaded
<1>6. WorkspaceSound(s)'
  BY <1>1, <1>3, <1>4, <1>5 DEF WorkspaceSound, Waits
<1>7. s \in Screens
  BY DEF Screens
<1> QED
  BY <1>6, <1>7, ScreenMoves

-----------------------------------------------------------------------------
(* Steps of the device as the screens take them.                           *)

LEMMA NoEngineMoves ==
  ASSUME loops' = loops
  PROVE  \A r \in Loops : Running(r)' => Running(r)
BY DEF Running

LEMMA NoEngineOfAPageMoves ==
  ASSUME loops' = loops
  PROVE  \A t \in Tabs : Running(Engine(t))' => Running(Engine(t))
BY DEF Running

\* The server did not answer, or answered that there is nothing.
LEMMA NoAnswerKeeps ==
  ASSUME DeviceInv, NEW i \in Ids, NoAnswer(i),
         UNCHANGED <<scenario, store, session, tabs, loops, server, wire>>
  PROVE  Forward /\ DeviceInv'
<1> USE TypeParts DEF DeviceInv
<1>1. disruptions' = disruptions \/ Disrupt
  BY DEF NoAnswer
<1>2. SessionTyped' /\ PagesTyped'
  BY DEF SessionTyped, session, PagesTyped
<1> QED
  BY <1>1, <1>2, SessionStepKeeps

\* The engine of a page starts, and no other.
LEMMA StartSyncKeeps ==
  ASSUME DeviceInv, NEW t \in Tabs, StartSync(Engine(t))
  PROVE  /\ Forward /\ DeviceInv'
         /\ \A u \in Tabs \ {t} : Running(Engine(u))' => Running(Engine(u))
<1>1. \A u \in Tabs \ {t} : loops'[Engine(u)] = loops[Engine(u)]
  BY EnginesApart, TypeParts DEF StartSync, Step, DeviceInv, LoopsTyped
<1> QED
  BY <1>1, EnginesApart, StartKeeps DEF Running

\* A step of an engine run is a step of a run that goes.
LEMMA EngineStepsRun ==
  ASSUME DeviceInv, NEW r \in Loops, EngineStep(r)
  PROVE  /\ Running(r)
         /\ \A p \in Loops \ {r} : loops'[p] = loops[p]
<1> USE TypeParts DEF DeviceInv
<1>1. Running(r)
  BY DEF EngineStep, SessionAnswered, ReadOutbox, MarkOperation, MarkDraft, Send,
         SettleConfirmed, SettleOperation, SettleDraft, PreserveForAttention, Running
<1>2. \E run : Step(r, run)
  <2>1. CASE SessionAnswered(r)
    BY <2>1 DEF SessionAnswered, Return
  <2>2. CASE ReadOutbox(r)
    BY <2>2 DEF ReadOutbox, Return
  <2>3. CASE MarkOperation(r) \/ MarkDraft(r) \/ Send(r)
    BY <2>3 DEF MarkOperation, MarkDraft, Send
  <2>4. CASE SettleConfirmed(r)
    BY <2>4 DEF SettleConfirmed, Continue, Return
  <2>5. CASE SettleOperation(r) \/ SettleDraft(r) \/ PreserveForAttention(r)
    BY <2>5 DEF SettleOperation, SettleDraft, PreserveForAttention, Return
  <2> QED
    BY <2>1, <2>2, <2>3, <2>4, <2>5 DEF EngineStep
<1> QED
  BY <1>1, <1>2 DEF Step, LoopsTyped

-----------------------------------------------------------------------------
(* Opening a screen.                                                       *)

\* The page shows no workspace, so its engine does not run.
LEMMA IdleElsewhere ==
  ASSUME ScreensInv, NEW t \in Tabs, ~At(t, "workspace")
  PROVE  ~Running(Engine(t))
BY DEF ScreensInv, ScreenSound, Follows, At

LEMMA NewScreenTyped ==
  ASSUME NEW i \in Ids
  PROVE  /\ NewScreen(i) \in Workspace /\ ~Loaded(NewScreen(i)) /\ ~Waits(NewScreen(i))
         /\ NewScreen(i).load = "none" /\ NewScreen(i).step = "ready"
         /\ ~NewScreen(i).confirmed /\ NewScreen(i).id = i
BY ContentKinds DEF NewScreen, Workspace, Loaded, Waits, WaitingStates, Following

\* A screen that opens, or opens again, on what is true of draft i.
LEMMA WorkspaceOpens ==
  ASSUME ScreensInv, DeviceInv', Forward, NEW t \in Tabs, NEW s \in Workspace, Show(t, s),
         loops' = loops, ~Running(Engine(t)), ~s.confirmed, s.step = "ready",
         s.load \in {"none", "local", "fetch"},
         s.load # "none" => ~Loaded(s), s.load = "local" => Harvest,
         s.local \in WaitingStates => Kept(s.id)' /\ drafts'[s.id] # NoDraft
  PROVE  ScreensInv'
<1>1. Shape(s)'
  BY DEF Shape, Forward, Attendance, Harvest, domain, Loaded
<1>2. WorkspaceSound(s)'
  BY <1>1 DEF WorkspaceSound, Waits, Following
<1>3. s \in Screens /\ ~Running(Engine(t))'
  BY NoEngineOfAPageMoves DEF Screens
<1> QED
  BY <1>2, <1>3, NoEngineOfAPageMoves, ScreenMoves

\* The copy of this device.
LEMMA LocalScreenIsSound ==
  ASSUME DeviceInv, NEW i \in Ids
  PROVE  \/ LocalScreen(i) = Closed
         \/ /\ LocalScreen(i) \in Workspace /\ LocalScreen(i).id = i
            /\ LocalScreen(i).load = "none" /\ LocalScreen(i).step = "ready"
            /\ ~LocalScreen(i).confirmed
            /\ LocalScreen(i).local \in WaitingStates => Kept(i) /\ drafts[i] # NoDraft
<1> USE TypeParts DEF DeviceInv
<1> SUFFICES ASSUME ValidLease(newest), OwnDraft(newest, i)
             PROVE  /\ LocalScreen(i) \in Workspace /\ LocalScreen(i).id = i
                    /\ LocalScreen(i).load = "none" /\ LocalScreen(i).step = "ready"
                    /\ ~LocalScreen(i).confirmed
                    /\ LocalScreen(i).local \in WaitingStates => Kept(i) /\ drafts[i] # NoDraft
  BY DEF LocalScreen
<1>1. drafts[i] \in Draft
  BY DEF OwnDraft, DraftsTyped
<1>2. PICK d \in Draft : d = drafts[i]
  BY <1>1
<1>3. PICK s \in Workspace : s = NewScreen(i)
  BY NewScreenTyped
<1> DEFINE opened == [s EXCEPT !.local = d.state, !.status = "draft", !.typed = d.content]
<1>4. opened \in Workspace /\ opened.id = s.id /\ opened.load = s.load /\ opened.step = s.step
      /\ opened.confirmed = s.confirmed /\ opened.local = d.state
  BY DEF Workspace, Draft
<1>5. LocalScreen(i) = opened
  BY <1>2, <1>3 DEF LocalScreen
<1> HIDE DEF opened
<1>6. d.state \in WaitingStates => Kept(i) /\ drafts[i] # NoDraft
  BY <1>2, <1>1, MarksAreApart DEF DraftSound
<1> QED
  BY <1>3, <1>4, <1>5, <1>6, NewScreenTyped

LEMMA ClosedIsAScreen ==
  /\ Closed \in Screens \ Workspace
  /\ \A online \in BOOLEAN : List(online) \in Screens \ Workspace
BY DEF Screens, Workspace, Closed, List

LEMMA OpenListSound ==
  ASSUME ScreensInv, NEW t \in Tabs, OpenList(t)
  PROVE  Forward /\ ScreensInv'
<1> USE DEF ScreensInv
<1>1. ~At(t, "workspace")
  BY DEF OpenList, At
<1>2. Forward /\ DeviceInv' /\ loops' = loops
  BY OpenOnlineKeeps, OpenOfflineKeeps DEF OpenList, OpenOnline, OpenOffline
<1>3. ~Running(Engine(t))'
  BY <1>1, <1>2, IdleElsewhere, NoEngineOfAPageMoves
<1> QED
  BY <1>2, <1>3, ClosedIsAScreen, NoEngineOfAPageMoves, ScreenLeaves DEF OpenList

\* A screen that still has to ask for the record, or for its own copy.
Opening(s, load) ==
  /\ s \in Workspace /\ s.load = load /\ s.step = "ready" /\ ~s.confirmed
  /\ ~Loaded(s) /\ s.local \notin WaitingStates

LEMMA OpeningScreens ==
  ASSUME NEW i \in Ids, NEW load \in {"local", "fetch"}
  PROVE  /\ Opening([NewScreen(i) EXCEPT !.load = load], load)
         /\ \A online \in BOOLEAN :
              Opening([NewScreen(i) EXCEPT !.load = load, !.online = online], load)
<1>1. PICK new \in Workspace : new = NewScreen(i)
  BY NewScreenTyped
<1>2. ~Loaded(new) /\ new.local \notin WaitingStates /\ new.step = "ready" /\ ~new.confirmed
  BY <1>1, NewScreenTyped DEF Waits
<1>3. Opening([new EXCEPT !.load = load], load)
  BY <1>2 DEF Opening, Workspace, Loaded
<1>4. ASSUME NEW online \in BOOLEAN
      PROVE  Opening([new EXCEPT !.load = load, !.online = online], load)
  BY <1>2 DEF Opening, Workspace, Loaded
<1> QED
  BY <1>1, <1>3, <1>4

LEMMA OpensToLoad ==
  ASSUME ScreensInv, DeviceInv', Forward, NEW t \in Tabs, NEW load \in {"local", "fetch"}, NEW s,
         Opening(s, load), Show(t, s), loops' = loops, ~Running(Engine(t)),
         load = "local" => Harvest
  PROVE  ScreensInv'
BY WorkspaceOpens DEF Opening

LEMMA StartDraftSound ==
  ASSUME ScreensInv, NEW t \in Tabs, NEW i \in Ids, StartDraft(t, i)
  PROVE  Forward /\ ScreensInv'
<1> USE DEF ScreensInv
<1>1. At(t, "list") /\ ~At(t, "workspace")
  BY DEF StartDraft, At
<1>2. Forward /\ DeviceInv' /\ loops' = loops
  BY CreateDraftKeeps
     DEF StartDraft, CreateLocalDraft, CreateLocalHarvestDraft, CreateDraft
<1>3. ~Running(Engine(t)) /\ ~Running(Engine(t))'
  BY <1>1, <1>2, IdleElsewhere, NoEngineOfAPageMoves
<1>4. CASE Show(t, Closed)
  BY <1>2, <1>3, <1>4, ClosedIsAScreen, NoEngineOfAPageMoves, ScreenLeaves
<1>5. CASE CreateLocalHarvestDraft(t, i)
           /\ Show(t, [NewScreen(i) EXCEPT !.load = "local", !.online = screen[t].online])
  <2>1. PICK online \in BOOLEAN : online = screen[t].online
    <3>1. screen[t] = List(TRUE) \/ screen[t] = List(FALSE)
      BY <1>1, PlacesAreApart DEF ScreensTypeOK, Screens, At, Workspace, Closed
    <3>2. List(TRUE).online = TRUE /\ List(FALSE).online = FALSE
      BY DEF List
    <3> QED
      BY <3>1, <3>2
  <2>2. PICK s : s = [NewScreen(i) EXCEPT !.load = "local", !.online = online]
    OBVIOUS
  <2>3. Show(t, s) /\ Opening(s, "local") /\ Harvest
    BY <1>5, <2>1, <2>2, OpeningScreens DEF CreateLocalHarvestDraft, Harvest
  <2> QED
    BY <1>2, <1>3, <2>3, OpensToLoad
<1> QED
  BY <1>4, <1>5 DEF StartDraft

LEMMA OpensLocally ==
  ASSUME ScreensInv, DeviceInv', Forward, NEW t \in Tabs, NEW i \in Ids,
         Show(t, LocalScreen(i)), loops' = loops, ~Running(Engine(t))
  PROVE  ScreensInv'
<1> USE DEF ScreensInv
<1>1. CASE LocalScreen(i) = Closed
  BY <1>1, ClosedIsAScreen, NoEngineOfAPageMoves, ScreenLeaves
<1>2. CASE LocalScreen(i) # Closed
  <2>1. PICK s \in Workspace : s = LocalScreen(i)
    BY <1>2, LocalScreenIsSound
  <2>2. /\ s.id = i /\ s.load = "none" /\ s.step = "ready" /\ ~s.confirmed
        /\ s.local \in WaitingStates => Kept(i) /\ drafts[i] # NoDraft
    BY <1>2, <2>1, LocalScreenIsSound
  <2>3. OutboxTyped' /\ \A o \in Ops : OpSound(o)'
    BY TypePartsNext DEF DeviceInv
  <2>4. s.local \in WaitingStates => Kept(s.id)' /\ drafts'[s.id] # NoDraft
    BY <2>2, <2>3, KeptStays DEF Forward, StoreForward
  <2> QED
    BY <2>1, <2>2, <2>4, WorkspaceOpens
<1> QED
  BY <1>1, <1>2

LEMMA OpenAttendanceSound ==
  ASSUME ScreensInv, NEW t \in Tabs, NEW i \in Ids, OpenAttendance(t, i)
  PROVE  Forward /\ ScreensInv'
<1> USE DEF ScreensInv
<1>1. Forward /\ DeviceInv' /\ loops' = loops
  BY OpenOnlineKeeps, OpenOfflineKeeps DEF OpenAttendance, OpenOnline, OpenOffline
<1>2. ~Running(Engine(t))
  BY IdleElsewhere DEF OpenAttendance
<1>3. CASE Show(t, [NewScreen(i) EXCEPT !.load = "fetch"])
  <2>1. PICK s : s = [NewScreen(i) EXCEPT !.load = "fetch"]
    OBVIOUS
  <2> QED
    BY <1>1, <1>2, <1>3, <2>1, OpeningScreens, OpensToLoad
<1>4. CASE Show(t, LocalScreen(i))
  BY <1>1, <1>2, <1>4, OpensLocally
<1> QED
  BY <1>1, <1>3, <1>4 DEF OpenAttendance

LEMMA OpenHarvestSound ==
  ASSUME ScreensInv, NEW t \in Tabs, NEW i \in Ids, OpenHarvest(t, i)
  PROVE  Forward /\ ScreensInv'
<1> USE DEF ScreensInv
<1>1. Forward /\ DeviceInv' /\ loops' = loops
  BY OpenOnlineKeeps, OpenOfflineKeeps DEF OpenHarvest, OpenOnline, OpenOffline
<1>2. ~Running(Engine(t)) /\ ~Running(Engine(t))'
  BY <1>1, IdleElsewhere, NoEngineOfAPageMoves DEF OpenHarvest
<1>3. CASE Show(t, Closed)
  BY <1>1, <1>2, <1>3, ClosedIsAScreen, NoEngineOfAPageMoves, ScreenLeaves
<1>4. CASE Show(t, [NewScreen(i) EXCEPT !.load = "local", !.online = TRUE])
  <2>1. PICK s : s = [NewScreen(i) EXCEPT !.load = "local", !.online = TRUE]
    OBVIOUS
  <2>2. Opening(s, "local") /\ Harvest
    BY <2>1, OpeningScreens DEF OpenHarvest
  <2> QED
    BY <1>1, <1>2, <1>4, <2>1, <2>2, OpensToLoad
<1>5. CASE Show(t, [NewScreen(i) EXCEPT !.load = "local"])
  <2>1. PICK s : s = [NewScreen(i) EXCEPT !.load = "local"]
    OBVIOUS
  <2>2. Opening(s, "local") /\ Harvest
    BY <2>1, OpeningScreens DEF OpenHarvest
  <2> QED
    BY <1>1, <1>2, <1>5, <2>1, <2>2, OpensToLoad
<1> QED
  BY <1>1, <1>3, <1>4, <1>5 DEF OpenHarvest

-----------------------------------------------------------------------------
(* Loading.                                                                *)

\* A step of a workspace that starts no engine: it goes on waiting for the run it
\* waits for.
LEMMA WorkspaceGoesOn ==
  ASSUME ScreensInv, DeviceInv', Forward, NEW t \in Tabs, At(t, "workspace"),
         NEW s \in Workspace, s.id = screen[t].id, Show(t, s), loops' = loops,
         Follows(screen[t]) => Follows(s),
         Waits(s) => Waits(screen[t]) \/ (Kept(s.id)' /\ drafts'[s.id] # NoDraft),
         s.confirmed => screen[t].confirmed \/ Waits(screen[t]),
         Shape(s)
  PROVE  ScreensInv'
<1>1. Running(Engine(t))' => Follows(s)
  BY NoEngineOfAPageMoves DEF ScreensInv, ScreenSound
<1> QED
  BY <1>1, NoEngineOfAPageMoves, WorkspaceMoves

\* What the invariant says of the workspace a page shows.
LEMMA WorkspaceIs ==
  ASSUME ScreensInv, NEW t \in Tabs, At(t, "workspace")
  PROVE  /\ screen[t] \in Workspace /\ screen[t].id \in Ids
         /\ WorkspaceSound(screen[t]) /\ (Running(Engine(t)) => Follows(screen[t]))
<1>1. screen[t] \in Workspace
  BY WorkspaceTyped DEF ScreensInv
<1> QED
  BY <1>1 DEF ScreensInv, ScreenSound, Workspace

\* A load of attendance goes on to its next await.
LEMMA AttendanceLoadGoesOn ==
  ASSUME ScreensInv, DeviceInv', Forward, loops' = loops, NEW t \in Tabs, At(t, "workspace"),
         Attendance, NEW s \in Workspace, s = screen[t], s.load \in {"fetch", "check"},
         NEW load \in {"check", "cache"}, Show(t, [s EXCEPT !.load = load])
  PROVE  ScreensInv'
<1>1. Shape(s)
  BY WorkspaceIs DEF WorkspaceSound
<1> DEFINE new == [s EXCEPT !.load = load]
<1>2. /\ new \in Workspace /\ new.id = s.id /\ new.load = load /\ new.step = s.step
      /\ new.confirmed = s.confirmed /\ new.local = s.local /\ new.status = s.status
      /\ new.place = s.place
  BY DEF Workspace
<1>3. Show(t, new)
  OBVIOUS
<1> HIDE DEF new
<1>4. Shape(new) /\ (Waits(new) => Waits(s)) /\ (Follows(s) => Follows(new))
  BY <1>1, <1>2 DEF Shape, Waits, Follows, Loaded, Attendance, Harvest
<1> QED
  BY <1>2, <1>3, <1>4, WorkspaceGoesOn

LEMMA AttendanceFetchedSound ==
  ASSUME ScreensInv, NEW t \in Tabs, AttendanceFetched(t)
  PROVE  Forward /\ ScreensInv'
<1> USE DEF ScreensInv
<1>1. At(t, "workspace")
  BY DEF AttendanceFetched, In
<1>2. PICK s \in Workspace : s = screen[t]
  BY <1>1, WorkspaceIs
<1>3. s.id \in Ids /\ Shape(s) /\ s.load = "fetch" /\ Attendance
  BY <1>1, <1>2, WorkspaceIs DEF WorkspaceSound, AttendanceFetched, In
<1>4. Forward /\ DeviceInv' /\ loops' = loops
  BY <1>2, <1>3, FetchServerDraftKeeps DEF AttendanceFetched, FetchServerDraft, StartWrite
<1>5. Show(t, [s EXCEPT !.load = "check"])
  BY <1>2 DEF AttendanceFetched
<1> QED
  BY <1>1, <1>2, <1>3, <1>4, <1>5, AttendanceLoadGoesOn

\* The answer is about to be cached, or, where the draft is another user's, the copy of
\* this device is opened instead.
LEMMA AttendanceCheckedSound ==
  ASSUME ScreensInv, NEW t \in Tabs, AttendanceChecked(t)
  PROVE  Forward /\ ScreensInv'
<1> USE DEF ScreensInv
<1>1. At(t, "workspace")
  BY DEF AttendanceChecked, In
<1>2. PICK s \in Workspace : s = screen[t]
  BY <1>1, WorkspaceIs
<1>3. s.id \in Ids /\ Shape(s) /\ s.load = "check" /\ Attendance
  BY <1>1, <1>2, WorkspaceIs DEF WorkspaceSound, AttendanceChecked, In
<1>4. Forward /\ DeviceInv' /\ loops' = loops
  BY CheckOwnerKeeps DEF AttendanceChecked, CheckOwner
<1>5. CASE Refused(t)
  <2>1. ~Running(Engine(t))
    BY <1>1, <1>2, <1>3, WorkspaceIs DEF Shape, Follows
  <2>2. PICK i \in Ids : i = s.id
    BY <1>3
  <2>3. Show(t, LocalScreen(i))
    BY <1>2, <1>5, <2>2 DEF AttendanceChecked
  <2> QED
    BY <1>4, <2>1, <2>3, OpensLocally
<1>6. CASE ~Refused(t)
  <2>1. Show(t, [s EXCEPT !.load = "cache"])
    BY <1>2, <1>6 DEF AttendanceChecked
  <2> QED
    BY <1>1, <1>2, <1>3, <1>4, <2>1, AttendanceLoadGoesOn
<1> QED
  BY <1>5, <1>6

LEMMA AttendanceCachedSound ==
  ASSUME ScreensInv, NEW t \in Tabs, AttendanceCached(t)
  PROVE  Forward /\ ScreensInv'
<1> USE DEF ScreensInv
<1>1. At(t, "workspace")
  BY DEF AttendanceCached, In
<1>2. PICK s \in Workspace : s = screen[t]
  BY <1>1, WorkspaceIs
<1>3. Shape(s) /\ s.load = "cache" /\ Attendance
  BY <1>1, <1>2, WorkspaceIs DEF WorkspaceSound, AttendanceCached, In
<1>4. Forward /\ DeviceInv' /\ loops' = loops
  BY PutDraftKeeps DEF AttendanceCached, PutDraft
<1>5. PICK d \in Draft : d = tabs[t].write.draft
  BY TypeParts DEF AttendanceCached, PutDraft, DeviceInv, PagesTyped, PageMemory, Write
<1>6. d.state \in {"editing", "synced"}
  BY <1>5 DEF AttendanceCached, PutDraft, DeviceInv, PageSound
<1>7. PICK status \in {"submitted", "draft"} :
        status = IF d.state = "synced" THEN "submitted" ELSE "draft"
  OBVIOUS
<1> DEFINE new == [s EXCEPT !.load = "none", !.local = d.state, !.typed = d.content,
                            !.status = status]
<1>8. /\ new \in Workspace /\ new.id = s.id /\ new.load = "none" /\ new.step = s.step
      /\ new.confirmed = s.confirmed /\ new.local = d.state /\ new.status = status
      /\ new.place = s.place
  BY <1>6 DEF Workspace, Draft
<1>9. Show(t, new)
  BY <1>2, <1>5, <1>7 DEF AttendanceCached
<1> HIDE DEF new
<1>10. Shape(new) /\ (Waits(new) => Waits(s)) /\ (Follows(s) => Follows(new))
  BY <1>3, <1>6, <1>8
     DEF Shape, Waits, WaitingStates, Follows, Loaded, Attendance, Harvest, Workspace
<1> QED
  BY <1>1, <1>2, <1>4, <1>8, <1>9, <1>10, WorkspaceGoesOn

LEMMA AttendanceNotFetchedSound ==
  ASSUME ScreensInv, NEW t \in Tabs, AttendanceNotFetched(t)
  PROVE  Forward /\ ScreensInv'
<1> USE DEF ScreensInv
<1>1. At(t, "workspace") /\ screen[t].load = "fetch" /\ Attendance
  BY DEF AttendanceNotFetched, In
<1>2. screen[t].id \in Ids /\ ~Running(Engine(t))
  BY <1>1, WorkspaceIs DEF WorkspaceSound, Shape, Follows
<1>3. PICK i \in Ids : i = screen[t].id
  BY <1>2
<1>4. Forward /\ DeviceInv' /\ loops' = loops
  BY <1>3, NoAnswerKeeps DEF AttendanceNotFetched
<1>5. Show(t, LocalScreen(i))
  BY <1>3 DEF AttendanceNotFetched
<1> QED
  BY <1>2, <1>4, <1>5, OpensLocally

\* What the device's copy of a draft says.
LEMMA CopySound ==
  ASSUME DeviceInv, NEW i \in Ids, drafts[i] # NoDraft
  PROVE  /\ drafts[i] \in Draft
         /\ drafts[i].state \in WaitingStates => Kept(i)
BY TypeParts DEF DeviceInv, DraftsTyped, DraftSound

LEMMA WithLocalTyped ==
  ASSUME NEW s \in Workspace, NEW d \in Draft
  PROVE  /\ WithLocal(s, d) \in Workspace /\ WithLocal(s, d).local = d.state
         /\ \A f \in {"id", "load", "step", "confirmed", "status", "place", "outcome", "review"} :
              WithLocal(s, d)[f] = s[f]
BY DEF WithLocal, Workspace, Draft

LEMMA WithRecordTyped ==
  ASSUME NEW s \in Workspace, NEW row \in Row
  PROVE  /\ WithRecord(s, row) \in Workspace
         /\ WithRecord(s, row).local \in {"synced", "editing"}
         /\ WithRecord(s, row).status = row.status
         /\ \A f \in {"id", "load", "step", "confirmed", "place", "outcome", "review"} :
              WithRecord(s, row)[f] = s[f]
BY DEF WithRecord, Workspace, Row

\* What waits on this device still waits, or has arrived, after any step.
LEMMA KeptForward ==
  ASSUME DeviceInv, DeviceInv', Forward, NEW i \in Ids, drafts[i] # NoDraft
  PROVE  drafts'[i] # NoDraft /\ (Kept(i) => Kept(i)')
<1>1. OutboxTyped' /\ \A o \in Ops : OpSound(o)'
  BY TypePartsNext DEF DeviceInv
<1> QED
  BY <1>1, KeptStays DEF Forward, StoreForward

\* The page takes over the copy of this device and goes on loading, or is ready.
LEMMA TakesOverCopy ==
  ASSUME ScreensInv, DeviceInv', Forward, NEW t \in Tabs, At(t, "workspace"), Harvest,
         screen[t].load = "local", NEW d, d = drafts[screen[t].id], d # NoDraft,
         NEW load \in {"none", "fetch", "sync"},
         Show(t, [WithLocal(screen[t], d) EXCEPT !.load = load]),
         \A u \in Tabs \ {t} : Running(Engine(u))' => Running(Engine(u)),
         Running(Engine(t))' => Running(Engine(t)) \/ load = "sync",
         load = "sync" => d.state \in WaitingStates
  PROVE  ScreensInv'
<1> USE DEF ScreensInv
<1>1. PICK s \in Workspace : s = screen[t]
  BY WorkspaceIs
<1>2. s.id \in Ids /\ Shape(s) /\ (Running(Engine(t)) => Follows(s)) /\ s.load = "local"
  BY <1>1, WorkspaceIs DEF WorkspaceSound
<1>3. d \in Draft /\ (d.state \in WaitingStates => Kept(s.id)' /\ drafts'[s.id] # NoDraft)
  BY <1>1, <1>2, CopySound, KeptForward
<1>4. PICK local \in Workspace : local = WithLocal(s, d)
  BY <1>3, WithLocalTyped
<1>5. /\ local.local = d.state /\ local.id = s.id /\ local.step = s.step
      /\ local.confirmed = s.confirmed /\ local.status = s.status
  BY <1>3, <1>4, WithLocalTyped
<1> DEFINE new == [local EXCEPT !.load = load]
<1>6. /\ new \in Workspace /\ new.local = d.state /\ new.id = s.id /\ new.step = s.step
      /\ new.confirmed = s.confirmed /\ new.load = load /\ new.place = "workspace"
  BY <1>5 DEF Workspace
<1>7. Show(t, new)
  BY <1>1, <1>4
<1> HIDE DEF new
<1>8. s.step = "ready" /\ Shape(new)
  BY <1>2, <1>6 DEF Shape, Attendance, Harvest
<1>9. Waits(new) => Kept(new.id)' /\ drafts'[new.id] # NoDraft
  BY <1>3, <1>6, <1>8 DEF Waits, Following
<1>10. Running(Engine(t))' => Follows(new)
  BY <1>2, <1>6, <1>8 DEF Follows
<1> QED
  BY <1>1, <1>6, <1>7, <1>8, <1>9, <1>10, WorkspaceMoves

LEMMA HarvestReadsLocalSound ==
  ASSUME ScreensInv, NEW t \in Tabs, HarvestReadsLocal(t)
  PROVE  Forward /\ ScreensInv'
<1> USE DEF ScreensInv
<1>1. At(t, "workspace") /\ screen[t].load = "local" /\ Harvest
  BY DEF HarvestReadsLocal, In
<1>2. PICK s \in Workspace : s = screen[t]
  BY <1>1, WorkspaceIs
<1>3. s.id \in Ids /\ Shape(s) /\ s.step = "ready" /\ ~Loaded(s) /\ ~Running(Engine(t))
  BY <1>1, <1>2, WorkspaceIs DEF WorkspaceSound, Shape, Follows
<1>4. PICK d : d = drafts[s.id]
  OBVIOUS
<1> DEFINE found == OwnDraft(tabs[t].user, s.id)
<1>5. found => d # NoDraft
  BY <1>4 DEF OwnDraft
<1>6. \/ ~s.online /\ Show(t, IF found THEN [WithLocal(s, d) EXCEPT !.load = "none"] ELSE Closed)
         /\ UNCHANGED vars
      \/ s.online /\ found /\ d.state \in {"pending_submission", "syncing"}
         /\ StartSync(Engine(t)) /\ Show(t, [WithLocal(s, d) EXCEPT !.load = "sync"])
      \/ s.online /\ Show(t, [(IF found THEN WithLocal(s, d) ELSE s) EXCEPT !.load = "fetch"])
         /\ UNCHANGED vars
  BY <1>2, <1>4 DEF HarvestReadsLocal
<1> HIDE DEF found
<1>7. ASSUME UNCHANGED vars
      PROVE  Forward /\ DeviceInv' /\ loops' = loops
             /\ \A u \in Tabs : Running(Engine(u))' => Running(Engine(u))
  <2>1. loops' = loops
    BY <1>7 DEF vars
  <2> QED
    BY <1>7, <2>1, StutterKeeps, NoEngineOfAPageMoves
<1>8. CASE found /\ UNCHANGED vars /\ (Show(t, [WithLocal(s, d) EXCEPT !.load = "none"])
                                       \/ Show(t, [WithLocal(s, d) EXCEPT !.load = "fetch"]))
  BY <1>1, <1>2, <1>4, <1>5, <1>7, <1>8, TakesOverCopy
<1>9. CASE Show(t, Closed) /\ UNCHANGED vars
  BY <1>3, <1>7, <1>9, ClosedIsAScreen, ScreenLeaves
<1>10. CASE UNCHANGED vars /\ Show(t, [s EXCEPT !.load = "fetch"])
  <2> DEFINE new == [s EXCEPT !.load = "fetch"]
  <2>1. /\ new \in Workspace /\ new.id = s.id /\ new.load = "fetch" /\ new.step = s.step
        /\ new.confirmed = s.confirmed /\ new.local = s.local /\ new.status = s.status
        /\ new.place = s.place
    BY DEF Workspace
  <2>2. Show(t, new)
    BY <1>10
  <2> HIDE DEF new
  <2>3. Shape(new) /\ (Waits(new) => Waits(s)) /\ ~Follows(s)
    BY <1>1, <1>2, <1>3, <2>1 DEF Shape, Waits, Follows, Loaded, Attendance, Harvest
  <2> QED
    BY <1>1, <1>2, <1>7, <1>10, <2>1, <2>2, <2>3, WorkspaceGoesOn
<1>11. CASE found /\ d.state \in {"pending_submission", "syncing"} /\ StartSync(Engine(t))
            /\ Show(t, [WithLocal(s, d) EXCEPT !.load = "sync"])
  <2>1. Forward /\ DeviceInv' /\ \A u \in Tabs \ {t} : Running(Engine(u))' => Running(Engine(u))
    BY <1>11, StartSyncKeeps
  <2> QED
    BY <1>1, <1>2, <1>4, <1>5, <1>11, <2>1, TakesOverCopy DEF WaitingStates
<1> QED
  BY <1>6, <1>8, <1>9, <1>10, <1>11

LEMMA HarvestFetchedSound ==
  ASSUME ScreensInv, NEW t \in Tabs, HarvestFetched(t)
  PROVE  Forward /\ ScreensInv'
<1> USE DEF ScreensInv
<1>1. At(t, "workspace")
  BY DEF HarvestFetched, In
<1>2. PICK s \in Workspace : s = screen[t]
  BY <1>1, WorkspaceIs
<1>3. s.id \in Ids /\ Shape(s) /\ s.load = "fetch" /\ Harvest
  BY <1>1, <1>2, WorkspaceIs DEF WorkspaceSound, HarvestFetched, In
<1>4. Forward /\ DeviceInv' /\ loops' = loops
  BY <1>2, <1>3, FetchServerDraftKeeps DEF HarvestFetched, FetchServerDraft, StartWrite
<1>5. PICK row \in Row : row = rows[s.id]
  BY <1>2, <1>3, TypeParts DEF HarvestFetched, FetchServerDraft, DeviceInv, RowsTyped
<1>6. PICK shown \in Workspace : shown = WithRecord(s, row)
  BY WithRecordTyped
<1>7. /\ shown.local \in {"synced", "editing"} /\ shown.id = s.id /\ shown.step = s.step
      /\ shown.confirmed = s.confirmed
  BY <1>6, WithRecordTyped
<1> DEFINE new == [shown EXCEPT !.load = "check"]
<1>8. /\ new \in Workspace /\ new.id = s.id /\ new.load = "check" /\ new.step = s.step
      /\ new.confirmed = s.confirmed /\ new.local \in {"synced", "editing"}
      /\ new.place = "workspace"
  BY <1>7 DEF Workspace
<1>9. Show(t, new)
  BY <1>2, <1>5, <1>6 DEF HarvestFetched
<1> HIDE DEF new
<1>10. Shape(new) /\ (Waits(new) => Waits(s)) /\ (Follows(s) => Follows(new))
  BY <1>3, <1>8 DEF Shape, Waits, WaitingStates, Follows, Loaded, Attendance, Harvest
<1> QED
  BY <1>1, <1>2, <1>4, <1>8, <1>9, <1>10, WorkspaceGoesOn

\* A load of harvest goes on, or ends: what is shown stays.
LEMMA HarvestLoadGoesOn ==
  ASSUME ScreensInv, DeviceInv', Forward, loops' = loops, NEW t \in Tabs, At(t, "workspace"), Harvest,
         screen[t].load \in {"fetch", "check", "cache"}, NEW load \in {"cache", "none"},
         Show(t, [screen[t] EXCEPT !.load = load])
  PROVE  ScreensInv'
<1>1. PICK s \in Workspace : s = screen[t]
  BY WorkspaceIs
<1>2. Shape(s)
  BY <1>1, WorkspaceIs DEF WorkspaceSound
<1> DEFINE new == [s EXCEPT !.load = load]
<1>3. /\ new \in Workspace /\ new.id = s.id /\ new.load = load /\ new.step = s.step
      /\ new.confirmed = s.confirmed /\ new.local = s.local /\ new.status = s.status
      /\ new.place = s.place
  BY DEF Workspace
<1>4. Show(t, new)
  BY <1>1
<1> HIDE DEF new
<1>5. Shape(new) /\ (Waits(new) => Waits(s)) /\ (Follows(s) => Follows(new))
  BY <1>1, <1>2, <1>3 DEF Shape, Waits, Follows, Loaded, Attendance, Harvest
<1> QED
  BY <1>1, <1>3, <1>4, <1>5, WorkspaceGoesOn

LEMMA HarvestCheckedSound ==
  ASSUME ScreensInv, NEW t \in Tabs, HarvestChecked(t)
  PROVE  Forward /\ ScreensInv'
<1>1. Forward /\ DeviceInv' /\ loops' = loops
  BY CheckOwnerKeeps DEF ScreensInv, HarvestChecked, CheckOwner
<1>2. PICK load \in {"cache", "none"} : load = IF Refused(t) THEN "none" ELSE "cache"
  OBVIOUS
<1> QED
  BY <1>1, <1>2, HarvestLoadGoesOn DEF HarvestChecked, In

LEMMA HarvestCachedSound ==
  ASSUME ScreensInv, NEW t \in Tabs, HarvestCached(t)
  PROVE  Forward /\ ScreensInv'
<1>1. Forward /\ DeviceInv' /\ loops' = loops
  BY PutDraftKeeps DEF ScreensInv, HarvestCached, PutDraft
<1> QED
  BY <1>1, HarvestLoadGoesOn DEF HarvestCached, In

LEMMA HarvestNotFetchedSound ==
  ASSUME ScreensInv, NEW t \in Tabs, HarvestNotFetched(t)
  PROVE  Forward /\ ScreensInv'
<1> USE DEF ScreensInv
<1>1. At(t, "workspace") /\ screen[t].load = "fetch" /\ Harvest
  BY DEF HarvestNotFetched, In
<1>2. PICK i \in Ids : i = screen[t].id
  BY <1>1, WorkspaceIs
<1>3. Forward /\ DeviceInv' /\ loops' = loops
  BY <1>2, NoAnswerKeeps DEF HarvestNotFetched
<1>4. CASE Loaded(screen[t])
  BY <1>1, <1>3, <1>4, HarvestLoadGoesOn DEF HarvestNotFetched
<1>5. CASE ~Loaded(screen[t])
  <2>1. Show(t, Closed)
    BY <1>5 DEF HarvestNotFetched
  <2>2. ~Running(Engine(t))
    BY <1>1, <1>5, WorkspaceIs DEF WorkspaceSound, Shape, Follows
  <2> QED
    BY <1>3, <2>1, <2>2, ClosedIsAScreen, NoEngineOfAPageMoves, ScreenLeaves
<1> QED
  BY <1>4, <1>5

-----------------------------------------------------------------------------
(* The controls, and the handlers behind them.                             *)

\* A step of a handler, or of a control, on what is loaded.
LEMMA HandlerMoves ==
  ASSUME ScreensInv, DeviceInv', Forward, NEW t \in Tabs, At(t, "workspace"), loops' = loops,
         NEW new \in Workspace, Show(t, new), new.id = screen[t].id, new.load = screen[t].load,
         Loaded(screen[t]), Loaded(new), Follows(screen[t]) => Follows(new),
         Waits(new) => Waits(screen[t]) \/ (Kept(new.id)' /\ drafts'[new.id] # NoDraft),
         new.confirmed => screen[t].confirmed \/ Waits(screen[t])
  PROVE  ScreensInv'
<1>1. Shape(new)
  BY WorkspaceIs DEF WorkspaceSound, Shape
<1> QED
  BY <1>1, WorkspaceGoesOn

\* What is on the screen while a view is.
LEMMA ViewsAreLoaded ==
  ASSUME NEW t \in Tabs,
         \/ DraftView(screen[t]) \/ ReviewView(screen[t]) \/ PendingView(screen[t])
         \/ SubmittedView(screen[t])
  PROVE  Loaded(screen[t]) /\ At(t, "workspace")
BY DEF DraftView, ReviewView, PendingView, SubmittedView, Loaded, At

\* A handler runs on what is loaded.
LEMMA BusyIsLoaded ==
  ASSUME ScreensInv, NEW t \in Tabs, At(t, "workspace"), screen[t].step # "ready"
  PROVE  Loaded(screen[t])
BY WorkspaceIs DEF WorkspaceSound, Shape

LEMMA NothingMoves ==
  ASSUME DeviceInv, UNCHANGED vars
  PROVE  Forward /\ DeviceInv' /\ loops' = loops
BY StutterKeeps DEF vars

LEMMA EditSound ==
  ASSUME ScreensInv, NEW t \in Tabs, NEW c \in Contents, Edit(t, c)
  PROVE  Forward /\ ScreensInv'
<1> USE DEF ScreensInv
<1>1. Loaded(screen[t]) /\ At(t, "workspace")
  BY ViewsAreLoaded DEF Edit
<1>2. PICK s \in Workspace : s = screen[t]
  BY <1>1, WorkspaceIs
<1>3. Forward /\ DeviceInv' /\ loops' = loops
  BY NothingMoves DEF Edit
<1>4. PICK dirty \in BOOLEAN, confirmed \in BOOLEAN :
        dirty = Attendance /\ confirmed = (Harvest /\ s.confirmed)
  BY DEF Attendance, Harvest
<1> DEFINE new == [s EXCEPT !.typed = c, !.dirty = dirty, !.confirmed = confirmed]
<1>5. /\ new \in Workspace /\ new.id = s.id /\ new.load = s.load /\ new.step = s.step
      /\ new.confirmed = confirmed /\ new.local = s.local /\ new.status = s.status
      /\ new.place = s.place
  BY DEF Workspace
<1>6. Show(t, new)
  BY <1>2, <1>4 DEF Edit
<1> HIDE DEF new
<1>7. Loaded(new) /\ (Follows(s) => Follows(new)) /\ (Waits(new) => Waits(s))
      /\ (new.confirmed => s.confirmed)
  BY <1>1, <1>2, <1>4, <1>5 DEF Loaded, Follows, Waits
<1> QED
  BY <1>1, <1>2, <1>3, <1>5, <1>6, <1>7, HandlerMoves

Saving == {"saving", "savingForReview", "savingForSubmit"}

\* A handler goes from one step to another, the screen shows what it showed.
LEMMA StepChanges ==
  ASSUME ScreensInv, DeviceInv', Forward, NEW t \in Tabs, Loaded(screen[t]), loops' = loops,
         NEW step \in Busy \cup {"ready", "stuck"}, Show(t, [screen[t] EXCEPT !.step = step]),
         screen[t].step \in {"submitting", "syncing"} => step = screen[t].step,
         step \in Following => screen[t].step \in Following
  PROVE  ScreensInv'
<1>1. At(t, "workspace")
  BY DEF Loaded, At
<1>2. PICK s \in Workspace : s = screen[t]
  BY <1>1, WorkspaceIs
<1> DEFINE new == [s EXCEPT !.step = step]
<1>3. /\ new \in Workspace /\ new.id = s.id /\ new.load = s.load /\ new.step = step
      /\ new.confirmed = s.confirmed /\ new.local = s.local /\ new.status = s.status
      /\ new.place = s.place
  BY DEF Workspace
<1>4. Show(t, new)
  BY <1>2
<1> HIDE DEF new
<1>5. Loaded(new) /\ (Follows(s) => Follows(new)) /\ (Waits(new) => Waits(s))
  BY <1>2, <1>3 DEF Loaded, Follows, Waits
<1> QED
  BY <1>1, <1>2, <1>3, <1>4, <1>5, HandlerMoves

LEMMA StartSaveSound ==
  ASSUME ScreensInv, NEW t \in Tabs, NEW step \in Saving, Loaded(screen[t]), StartSave(t, step)
  PROVE  Forward /\ ScreensInv'
<1> USE DEF ScreensInv
<1>1. PICK s \in Workspace : s = screen[t]
  BY WorkspaceIs DEF Loaded, At
<1>2. s.id \in Ids /\ s.typed \in Contents
  BY DEF Workspace
<1>3. Forward /\ DeviceInv' /\ loops' = loops
  BY <1>1, <1>2, SaveDraftKeeps
     DEF StartSave, SaveLocalDraft, SaveLocalHarvestDraft, SaveDraft, StartWrite
<1>4. step \in Busy /\ step \notin Following /\ screen[t].step = "ready"
  BY DEF Saving, Busy, Following, StartSave, Ready
<1> QED
  BY <1>3, <1>4, StepChanges DEF StartSave

LEMMA SaveSound ==
  ASSUME ScreensInv, NEW t \in Tabs, Save(t)
  PROVE  Forward /\ ScreensInv'
BY StartSaveSound, ViewsAreLoaded DEF Save, Saving

\* A control opens the review, or closes it.
LEMMA ReviewSound ==
  ASSUME ScreensInv, NEW t \in Tabs, Loaded(screen[t]), UNCHANGED vars,
         NEW review \in BOOLEAN, Show(t, [screen[t] EXCEPT !.review = review])
  PROVE  Forward /\ ScreensInv'
<1> USE DEF ScreensInv
<1>1. At(t, "workspace")
  BY DEF Loaded, At
<1>2. PICK s \in Workspace : s = screen[t]
  BY <1>1, WorkspaceIs
<1> DEFINE new == [s EXCEPT !.review = review]
<1>3. /\ new \in Workspace /\ new.id = s.id /\ new.load = s.load /\ new.step = s.step
      /\ new.confirmed = s.confirmed /\ new.local = s.local /\ new.status = s.status
      /\ new.place = s.place
  BY DEF Workspace
<1>4. Show(t, new)
  BY <1>2
<1> HIDE DEF new
<1>5. Loaded(new) /\ (Follows(s) => Follows(new)) /\ (Waits(new) => Waits(s))
  BY <1>2, <1>3 DEF Loaded, Follows, Waits
<1> QED
  BY <1>1, <1>2, <1>3, <1>4, <1>5, NothingMoves, HandlerMoves

LEMMA OpenReviewSound ==
  ASSUME ScreensInv, NEW t \in Tabs, OpenReview(t) \/ CloseReview(t)
  PROVE  Forward /\ ScreensInv'
<1>1. Loaded(screen[t])
  BY ViewsAreLoaded DEF OpenReview, CloseReview
<1> QED
  BY <1>1, StartSaveSound, ReviewSound DEF OpenReview, CloseReview, Saving

LEMMA SavedSound ==
  ASSUME ScreensInv, NEW t \in Tabs, Saved(t)
  PROVE  Forward /\ ScreensInv'
<1> USE DEF ScreensInv
<1>1. At(t, "workspace") /\ screen[t].step \in Saving
  BY DEF Saved, In, Saving
<1>2. Loaded(screen[t])
  BY <1>1, BusyIsLoaded DEF Saving
<1>3. PICK s \in Workspace : s = screen[t]
  BY <1>1, WorkspaceIs
<1>4. Forward /\ DeviceInv' /\ loops' = loops
  BY PutDraftKeeps DEF Saved, PutDraft
<1>5. CASE s.step = "savingForSubmit"
  <2>1. Show(t, [screen[t] EXCEPT !.step = "queueing"])
    BY <1>3, <1>5 DEF Saved
  <2> QED
    BY <1>1, <1>2, <1>4, <2>1, StepChanges DEF Busy, Following, Saving
<1>6. CASE s.step # "savingForSubmit"
  <2>1. PICK review \in BOOLEAN : review = (s.review \/ s.step = "savingForReview")
    BY DEF Workspace
  <2> DEFINE new == [s EXCEPT !.step = "ready", !.dirty = FALSE, !.local = "editing",
                              !.confirmed = FALSE, !.review = review]
  <2>2. /\ new \in Workspace /\ new.id = s.id /\ new.load = s.load /\ new.step = "ready"
        /\ ~new.confirmed /\ new.local = "editing" /\ new.place = "workspace"
    BY DEF Workspace
  <2>3. Show(t, new)
    BY <1>3, <1>6, <2>1 DEF Saved
  <2> HIDE DEF new
  <2>4. Loaded(new) /\ (Follows(s) => Follows(new)) /\ (Waits(new) => Waits(s))
    BY <1>1, <1>3, <2>2 DEF Loaded, Follows, Waits, Saving, WaitingStates, Following
  <2> QED
    BY <1>1, <1>2, <1>3, <1>4, <2>2, <2>3, <2>4, HandlerMoves
<1> QED
  BY <1>4, <1>5, <1>6

LEMMA SubmitSound ==
  ASSUME ScreensInv, NEW t \in Tabs, Submit(t)
  PROVE  Forward /\ ScreensInv'
<1> USE DEF ScreensInv
<1>1. Loaded(screen[t])
  BY ViewsAreLoaded DEF Submit
<1>2. CASE Harvest /\ StartSave(t, "savingForSubmit")
  BY <1>1, <1>2, StartSaveSound DEF Saving
<1>3. CASE Ready(t) /\ Show(t, [screen[t] EXCEPT !.step = "queueing"]) /\ UNCHANGED vars
  <2>1. Forward /\ DeviceInv' /\ loops' = loops
    BY <1>3, NothingMoves
  <2> QED
    BY <1>1, <1>3, <2>1, StepChanges DEF Busy, Following, Ready
<1> QED
  BY <1>2, <1>3 DEF Submit

\* A queued operation is kept, as soon as it is queued.
LEMMA QueuedIsKept ==
  ASSUME DeviceInv', NEW o \in Ops, Used(o)'
  PROVE  Kept(outbox[o].target)'
<1>1. OutboxTyped' /\ OpSound(o)'
  BY TypePartsNext DEF DeviceInv
<1>2. CASE outbox'[o].state = "deleted"
  BY <1>1, <1>2 DEF OpSound, Arrived, Recorded, Kept, LostFor
<1>3. CASE outbox'[o].state # "deleted"
  BY <1>1, <1>3 DEF Kept, Outstanding, OutboxTyped, Operation, Used
<1> QED
  BY <1>2, <1>3

LEMMA QueuedSound ==
  ASSUME ScreensInv, NEW t \in Tabs, Queued(t)
  PROVE  Forward /\ ScreensInv'
<1> USE DEF ScreensInv
<1>1. At(t, "workspace") /\ screen[t].step = "queueing"
  BY DEF Queued, In
<1>2. Loaded(screen[t])
  BY <1>1, BusyIsLoaded
<1>3. PICK s \in Workspace : s = screen[t]
  BY <1>1, WorkspaceIs
<1>4. PICK i \in Ids : i = s.id
  BY DEF Workspace
<1>5. CASE UNCHANGED vars /\ Show(t, [screen[t] EXCEPT !.step = "ready"])
  <2>1. Forward /\ DeviceInv' /\ loops' = loops
    BY <1>5, NothingMoves
  <2> QED
    BY <1>1, <1>2, <1>5, <2>1, StepChanges DEF Following
<1>6. CASE /\ Queueable(t, i)
           /\ \/ \E o \in scenario.ops : QueueSubmission(t, i, o) \/ QueueHarvestSubmission(t, i, o)
              \/ ExistingOperations(tabs[t].user, i) # {} /\ UNCHANGED vars
           /\ Show(t, [s EXCEPT !.step = "queued", !.local = "pending_submission"])
  <2>1. drafts[i] # NoDraft
    BY <1>6 DEF Queueable, OwnDraft
  <2>2. ASSUME NEW o \in Ops, QueueSubmission(t, i, o) \/ QueueHarvestSubmission(t, i, o)
        PROVE  Forward /\ DeviceInv' /\ loops' = loops /\ Kept(i)'
    <3>1. Forward /\ DeviceInv' /\ Used(o)' /\ outbox'[o].target = i
      BY <2>2, QueueSubmissionKeeps
    <3>2. Kept(outbox[o].target)'
      BY <3>1, QueuedIsKept
    <3>3. loops' = loops
      BY <2>2 DEF QueueSubmission, QueueHarvestSubmission, Enqueue
    <3> QED
      BY <3>1, <3>2, <3>3 DEF Kept, Submitted, Outstanding, LostFor
  <2>3. scenario.ops \subseteq Ops
    BY ScenarioTyped, TypeParts DEF DeviceInv
  <2>4. Forward /\ DeviceInv' /\ loops' = loops /\ Kept(i)'
    <3>1. CASE ExistingOperations(tabs[t].user, i) # {} /\ UNCHANGED vars
      <4>1. Forward /\ DeviceInv' /\ loops' = loops
        BY <3>1, NothingMoves
      <4>2. Kept(i)
        BY <3>1 DEF ExistingOperations, Kept
      <4> QED
        BY <2>1, <4>1, <4>2, KeptForward
    <3> QED
      BY <1>6, <2>2, <2>3, <3>1
  <2>5. drafts'[i] # NoDraft
    BY <2>1, <2>4, KeptForward
  <2> DEFINE new == [s EXCEPT !.step = "queued", !.local = "pending_submission"]
  <2>6. /\ new \in Workspace /\ new.id = s.id /\ new.load = s.load /\ new.step = "queued"
        /\ new.confirmed = s.confirmed /\ new.local = "pending_submission"
        /\ new.place = "workspace"
    BY DEF Workspace, Busy
  <2>7. Show(t, new)
    BY <1>6
  <2> HIDE DEF new
  <2>8. Loaded(new) /\ (Follows(s) => Follows(new)) /\ Kept(new.id)'
    BY <1>1, <1>3, <1>4, <2>4, <2>6 DEF Loaded, Follows
  <2> QED
    BY <1>1, <1>2, <1>3, <1>4, <2>4, <2>5, <2>6, <2>7, <2>8, HandlerMoves
<1> QED
  BY <1>3, <1>4, <1>5, <1>6 DEF Queued

\* A handler starts the engine and waits for it.
LEMMA StartsEngine ==
  ASSUME ScreensInv, NEW t \in Tabs, Loaded(screen[t]), StartSync(Engine(t)),
         NEW step \in {"submitting", "syncing"}, Show(t, [screen[t] EXCEPT !.step = step]),
         Waits(screen[t])
  PROVE  Forward /\ ScreensInv'
<1> USE DEF ScreensInv
<1>1. PICK s \in Workspace : s = screen[t]
  BY WorkspaceIs DEF Loaded, At
<1>2. Shape(s)
  BY <1>1, WorkspaceIs DEF WorkspaceSound, Loaded, At
<1>3. Forward /\ DeviceInv' /\ \A u \in Tabs \ {t} : Running(Engine(u))' => Running(Engine(u))
  BY StartSyncKeeps
<1> DEFINE new == [s EXCEPT !.step = step]
<1>4. /\ new \in Workspace /\ new.id = s.id /\ new.load = s.load /\ new.step = step
      /\ new.confirmed = s.confirmed /\ new.local = s.local /\ new.status = s.status
      /\ new.place = s.place
  BY DEF Workspace, Busy
<1>5. Show(t, new)
  BY <1>1
<1> HIDE DEF new
<1>6. Shape(new) /\ Follows(new)
  BY <1>1, <1>2, <1>4 DEF Shape, Loaded, Follows
<1>7. At(t, "workspace")
  BY DEF At, Loaded
<1> QED
  BY <1>1, <1>3, <1>4, <1>5, <1>6, <1>7, WorkspaceMoves

LEMMA SyncSound ==
  ASSUME ScreensInv, NEW t \in Tabs, SyncQueued(t) \/ SyncNow(t)
  PROVE  Forward /\ ScreensInv'
<1>1. CASE SyncQueued(t)
  <2>1. Loaded(screen[t]) /\ Waits(screen[t])
    BY <1>1, BusyIsLoaded DEF SyncQueued, In, Waits, Following
  <2> QED
    BY <1>1, <2>1, StartsEngine DEF SyncQueued
<1>2. CASE SyncNow(t)
  <2>1. Loaded(screen[t]) /\ Waits(screen[t])
    BY <1>2 DEF SyncNow, PendingView, Waits, WaitingStates
  <2> QED
    BY <1>2, <2>1, StartsEngine DEF SyncNow
<1> QED
  BY <1>1, <1>2

-----------------------------------------------------------------------------
(* The engine, and what a screen makes of its outcome.                     *)

Outcomes == {"synced", "waiting", "authentication_required", "needs_attention"}

LEMMA OutcomeTyped == ASSUME NEW r PROVE Outcome(r) \in Outcomes
BY DEF Outcome, Outcomes

\* The run that a screen waits for ends.
LEMMA OutcomeSound ==
  ASSUME ScreensInv, DeviceInv', Forward, NEW t \in Tabs, Follows(screen[t]),
         NEW outcome \in Outcomes,
         Show(t, IF Attendance THEN AttendanceOutcome(screen[t], outcome)
                 ELSE HarvestOutcome(screen[t], outcome)),
         \A u \in Tabs \ {t} : Running(Engine(u))' => Running(Engine(u)),
         ~Running(Engine(t))'
  PROVE  ScreensInv'
<1> USE DEF ScreensInv
<1>1. At(t, "workspace")
  BY DEF Follows, At
<1>2. PICK s \in Workspace : s = screen[t]
  BY <1>1, WorkspaceIs
<1>3. Shape(s) /\ (s.load = "sync" \/ s.step \in {"submitting", "syncing"}) /\ Waits(s)
  BY <1>1, <1>2, WorkspaceIs DEF WorkspaceSound, Follows, Waits, Following
<1>4. CASE Attendance
  <2> DEFINE new == AttendanceOutcome(s, outcome)
  <2>1. s.step \in {"submitting", "syncing"} /\ s.load = "none" /\ Loaded(s)
    BY <1>3, <1>4 DEF Shape, Attendance, Harvest
  <2>2. /\ new \in Workspace /\ new.id = s.id /\ new.load = s.load
        /\ new.confirmed = s.confirmed /\ new.local \in {s.local, "needs_attention"}
        /\ new.status = s.status /\ new.place = s.place
    BY DEF AttendanceOutcome, Workspace, Busy
  <2>3. Show(t, new)
    BY <1>2, <1>4
  <2> HIDE DEF new
  <2>4. Shape(new)
    BY <2>1, <2>2 DEF Shape, Loaded
  <2> QED
    BY <1>1, <1>2, <1>3, <2>2, <2>3, <2>4, WorkspaceMoves
<1>5. CASE ~Attendance
  <2> DEFINE new == HarvestOutcome(s, outcome)
  <2>1. Harvest
    BY <1>5, ScenarioTyped, TypeParts DEF DeviceInv, Attendance, Harvest
  <2>2. /\ new \in Workspace /\ new.id = s.id
        /\ new.confirmed = s.confirmed /\ new.local = s.local
        /\ new.status = s.status /\ new.place = s.place
        /\ \/ s.load = "sync" /\ new.load = "refresh" /\ new.step = s.step
           \/ s.load # "sync" /\ new.load = s.load
    BY <1>3 DEF HarvestOutcome, Workspace, Busy, Outcomes
  <2>3. Show(t, new)
    BY <1>2, <1>5
  <2> HIDE DEF new
  <2>4. Shape(new)
    BY <1>3, <1>5, <2>1, <2>2 DEF Shape, Loaded
  <2> QED
    BY <1>1, <1>2, <1>3, <2>2, <2>3, <2>4, WorkspaceMoves
<1> QED
  BY <1>4, <1>5

LEMMA EngineProceedsSound ==
  ASSUME ScreensInv, NEW r \in Loops, EngineProceeds(r)
  PROVE  Forward /\ ScreensInv'
<1> USE DEF ScreensInv
<1>1. /\ Forward /\ DeviceInv' /\ Running(r) /\ Follow(r)
      /\ \A p \in Loops \ {r} : loops'[p] = loops[p]
  BY EngineStepKeeps, EngineStepsRun DEF EngineProceeds
<1>2. \A u \in Tabs : Running(Engine(u))' => Running(Engine(u))
  BY <1>1, EnginesApart DEF Running
<1>3. CASE UNCHANGED screen
  BY <1>1, <1>2, <1>3, NobodyMoves
<1>4. CASE r[2] = "screen" /\ loops'[r] = IdleLoop
  <2>1. PICK t \in Tabs : t = Page(r) /\ r = Engine(t)
    BY <1>4, LoopsOfTabs DEF Page, Engine
  <2>2. PICK outcome \in Outcomes : outcome = Outcome(r)
    BY OutcomeTyped
  <2>3. Show(t, IF Attendance THEN AttendanceOutcome(screen[t], outcome)
                ELSE HarvestOutcome(screen[t], outcome))
    BY <1>1, <1>4, <2>1, <2>2 DEF Follow
  <2>4. ~Running(Engine(t))' /\ Follows(screen[t])
    BY <1>1, <1>4, <2>1 DEF Running, IdleLoop, ScreenSound
  <2> QED
    BY <1>1, <1>2, <2>3, <2>4, OutcomeSound
<1> QED
  BY <1>1, <1>3, <1>4 DEF Follow

-----------------------------------------------------------------------------
(* What follows the outcome, and the record's own controls.                *)

LEMMA ReviewRewritten ==
  ASSUME NEW r \in Workspace, NEW review \in BOOLEAN, NEW step \in Busy \cup {"ready", "stuck"},
         NEW state \in {"editing", "pending_submission", "syncing", "synced", "needs_attention"}
  PROVE  [r EXCEPT !.review = review, !.local = state, !.step = step] \in Workspace
BY DEF Workspace

LEMMA HarvestRefreshedSound ==
  ASSUME ScreensInv, NEW t \in Tabs, HarvestRefreshed(t)
  PROVE  Forward /\ ScreensInv'
<1> USE DEF ScreensInv
<1>1. /\ At(t, "workspace") /\ Harvest /\ UNCHANGED vars
      /\ screen[t].load = "refresh" \/ screen[t].step \in {"refreshSubmit", "refreshSync"}
  BY DEF HarvestRefreshed, In
<1>2. Forward /\ DeviceInv' /\ loops' = loops
  BY <1>1, NothingMoves
<1>3. PICK s \in Workspace : s = screen[t]
  BY <1>1, WorkspaceIs
<1>4. s.id \in Ids /\ Shape(s) /\ Waits(s) /\ drafts[s.id] # NoDraft
  BY <1>1, <1>3, WorkspaceIs DEF WorkspaceSound, Waits, Following
<1>5. PICK d \in Draft : d = drafts[s.id]
  BY <1>4, CopySound
<1>6. PICK read \in Workspace : read = WithLocal(s, d)
  BY WithLocalTyped
<1>7. /\ read.local = d.state /\ read.id = s.id /\ read.load = s.load /\ read.step = s.step
      /\ read.confirmed = s.confirmed /\ read.place = "workspace"
  BY <1>6, WithLocalTyped DEF Workspace
<1> DEFINE refreshed == [read EXCEPT !.outcome = "none"]
<1>8. CASE s.load = "refresh" /\ Show(t,
             [refreshed EXCEPT !.load = IF s.outcome = "synced" THEN "fetch" ELSE "none"])
  <2>1. PICK load \in {"fetch", "none"} :
          load = IF s.outcome = "synced" THEN "fetch" ELSE "none"
    OBVIOUS
  <2> DEFINE new == [refreshed EXCEPT !.load = load]
  <2>2. /\ new \in Workspace /\ new.id = s.id /\ new.load = load /\ new.step = s.step
        /\ new.confirmed = s.confirmed /\ new.local = d.state /\ new.place = "workspace"
    BY <1>7 DEF Workspace
  <2>3. Show(t, new)
    BY <1>8, <2>1
  <2> HIDE DEF new, refreshed
  <2>4. Shape(new) /\ (Follows(s) => Follows(new))
    BY <1>1, <1>8, <2>2 DEF Shape, Loaded, Follows, Attendance, Harvest, Draft
  <2> QED
    BY <1>1, <1>2, <1>3, <1>4, <2>2, <2>3, <2>4, WorkspaceGoesOn
<1>9. CASE s.step \in {"refreshSubmit", "refreshSync"} /\ Show(t, [refreshed EXCEPT
             !.review = @ /\ s.step = "refreshSync",
             !.local = IF s.outcome = "needs_attention" THEN s.outcome ELSE @,
             !.step = IF s.outcome # "synced" THEN "ready"
                      ELSE IF s.step = "refreshSubmit" THEN "confirmSubmit" ELSE "confirmSync"])
  <2>1. PICK step \in {"ready", "confirmSubmit", "confirmSync"} :
          step = IF s.outcome # "synced" THEN "ready"
                 ELSE IF s.step = "refreshSubmit" THEN "confirmSubmit" ELSE "confirmSync"
    OBVIOUS
  <2>2. PICK local \in {d.state, "needs_attention"} :
          local = IF s.outcome = "needs_attention" THEN s.outcome ELSE read.local
    BY <1>7
  <2>3. PICK review \in BOOLEAN : review = (read.review /\ s.step = "refreshSync")
    BY DEF Workspace
  <2>4. PICK r \in Workspace : r = refreshed
    BY DEF Workspace
  <2>5. /\ r.id = s.id /\ r.load = s.load /\ r.confirmed = s.confirmed
        /\ r.review = read.review /\ r.local = read.local
    BY <1>7, <2>4 DEF Workspace
  <2>6. Show(t, [r EXCEPT !.review = review, !.local = local, !.step = step])
    BY <1>9, <2>1, <2>2, <2>3, <2>4, <2>5
  <2> HIDE DEF refreshed
  <2>7. PICK state \in {"editing", "pending_submission", "syncing", "synced", "needs_attention"},
             next \in Busy \cup {"ready", "stuck"} :
          state = local /\ next = step
    BY DEF Draft, Busy
  <2> DEFINE new == [r EXCEPT !.review = review, !.local = state, !.step = next]
  <2>8. /\ new \in Workspace /\ new.id = r.id /\ new.load = r.load /\ new.step = step
        /\ new.confirmed = r.confirmed /\ new.local = local /\ new.place = "workspace"
    <3>1. new \in Workspace
      BY ReviewRewritten
    <3>2. new.id = r.id /\ new.load = r.load /\ new.step = next
      BY DEF Workspace
    <3>3. new.confirmed = r.confirmed /\ new.local = state /\ new.place = "workspace"
      BY DEF Workspace
    <3> QED
      BY <2>7, <3>1, <3>2, <3>3
  <2>9. Show(t, new) /\ local # "none"
    BY <2>6, <2>7
  <2> HIDE DEF new
  <2>10. Loaded(new)
    BY <2>8, <2>9 DEF Loaded
  <2>11. Loaded(s) /\ (Follows(s) => Follows(new))
    BY <1>3, <1>4, <1>9, <2>5, <2>8 DEF Shape, Follows
  <2> QED
    BY <1>1, <1>2, <1>3, <1>4, <2>5, <2>8, <2>9, <2>10, <2>11, HandlerMoves
<1> QED
  BY <1>2, <1>3, <1>5, <1>6, <1>8, <1>9 DEF HarvestRefreshed, In

LEMMA ConfirmedSound ==
  ASSUME ScreensInv, NEW t \in Tabs, Confirmed(t)
  PROVE  Forward /\ ScreensInv'
<1> USE DEF ScreensInv
<1>1. At(t, "workspace") /\ screen[t].step \in {"confirmSubmit", "confirmSync"} /\ UNCHANGED vars
  BY DEF Confirmed, In
<1>2. Loaded(screen[t]) /\ Waits(screen[t])
  BY <1>1, BusyIsLoaded DEF Waits, Following
<1>3. Forward /\ DeviceInv' /\ loops' = loops
  BY <1>1, NothingMoves
<1>4. PICK s \in Workspace : s = screen[t]
  BY <1>1, WorkspaceIs
<1>5. PICK row \in Row : row = rows[s.id]
  BY <1>4, TypeParts DEF Confirmed, DeviceInv, RowsTyped, Workspace
<1>6. PICK shown \in Workspace : shown = WithRecord(s, row)
  BY WithRecordTyped
<1>7. /\ shown.local \in {"synced", "editing"} /\ shown.id = s.id /\ shown.load = s.load
      /\ shown.review = s.review
  BY <1>6, WithRecordTyped
<1>8. PICK local \in {"synced", "editing"} :
        local = IF Attendance THEN "synced" ELSE shown.local
  BY <1>7
<1>9. PICK review \in BOOLEAN : review = (shown.review /\ s.step = "confirmSync")
  BY DEF Workspace
<1> DEFINE new == [shown EXCEPT !.step = "ready", !.confirmed = TRUE, !.local = local,
                                !.review = review]
<1>10. /\ new \in Workspace /\ new.id = s.id /\ new.load = s.load /\ new.step = "ready"
       /\ new.local \in {"synced", "editing"} /\ new.place = "workspace"
  BY <1>7 DEF Workspace
<1>11. Show(t, new)
  BY <1>4, <1>5, <1>6, <1>8, <1>9 DEF Confirmed
<1> HIDE DEF new
<1>12. Loaded(new) /\ (Follows(s) => Follows(new))
  BY <1>1, <1>4, <1>10 DEF Loaded, Follows
<1> QED
  BY <1>1, <1>2, <1>3, <1>4, <1>10, <1>11, <1>12, HandlerMoves DEF Waits

LEMMA NotConfirmedSound ==
  ASSUME ScreensInv, NEW t \in Tabs, NotConfirmed(t)
  PROVE  Forward /\ ScreensInv'
<1> USE DEF ScreensInv
<1>1. At(t, "workspace") /\ screen[t].step \in {"confirmSubmit", "confirmSync"}
  BY DEF NotConfirmed, In
<1>2. Loaded(screen[t])
  BY <1>1, BusyIsLoaded
<1>3. PICK i \in Ids : i = screen[t].id
  BY <1>1, WorkspaceIs
<1>4. Forward /\ DeviceInv' /\ loops' = loops
  BY <1>3, NoAnswerKeeps DEF NotConfirmed
<1>5. PICK step \in {"ready", "stuck"} :
        step = IF Attendance /\ screen[t].step = "confirmSync" THEN "stuck" ELSE "ready"
  OBVIOUS
<1>6. Show(t, [screen[t] EXCEPT !.step = step])
  BY <1>5 DEF NotConfirmed
<1> QED
  BY <1>1, <1>2, <1>4, <1>6, StepChanges DEF Following

LEMMA DiscardSound ==
  ASSUME ScreensInv, NEW t \in Tabs, Discard(t)
  PROVE  Forward /\ ScreensInv'
<1> USE DEF ScreensInv
<1>1. At(t, "workspace") /\ Attendance /\ screen[t].step = "ready"
  BY ViewsAreLoaded DEF Discard, Ready
<1>2. PICK i \in Ids : i = screen[t].id
  BY <1>1, WorkspaceIs
<1>3. ~Running(Engine(t))
  BY <1>1, WorkspaceIs DEF WorkspaceSound, Shape, Follows, Attendance, Harvest
<1>4. /\ rows[i].status = "draft" /\ rows' = [rows EXCEPT ![i] = NoRow]
      /\ UNCHANGED <<env, store, session, tabs, loops, receipts, vain, wire>> /\ Show(t, Closed)
  BY <1>2 DEF Discard
<1>5. RowsTyped' /\ \A j \in Ids : Submitted(j) => rows'[j] = rows[j]
  BY <1>4, TypeParts DEF DeviceInv, RowsTyped, Submitted
<1>6. \A j \in Ids : Submitted(j) =>
        /\ rows'[j] # NoRow /\ rows'[j].status = "submitted"
        /\ rows'[j].corrected \/ (rows'[j].content = rows[j].content
                                  /\ rows'[j].corrected = rows[j].corrected)
  BY <1>5 DEF Submitted
<1>7. Forward /\ DeviceInv' /\ loops' = loops
  BY <1>4, <1>5, <1>6, RowChangeKeeps DEF env
<1> QED
  BY <1>3, <1>4, <1>7, ClosedIsAScreen, NoEngineOfAPageMoves, ScreenLeaves

LEMMA CorrectSound ==
  ASSUME ScreensInv, NEW t \in Tabs, Correct(t)
  PROVE  Forward /\ ScreensInv'
<1> USE DEF ScreensInv
<1>1. At(t, "workspace") /\ Loaded(screen[t])
  BY ViewsAreLoaded DEF Correct
<1>2. PICK s \in Workspace : s = screen[t]
  BY <1>1, WorkspaceIs
<1>3. PICK i \in Ids : i = s.id
  BY DEF Workspace
<1>4. CorrectRow(i) /\ UNCHANGED <<scenario, store, session, tabs, loops, receipts, vain, wire>>
  BY <1>2, <1>3 DEF Correct
<1>5. Forward /\ DeviceInv' /\ loops' = loops
  BY <1>4, CorrectRowKeeps
<1>6. Submitted(i)'
  BY <1>4, <1>5 DEF CorrectRow, Submitted, Forward, ServerForward
<1>7. PICK row \in Row : row = rows'[i]
  BY <1>5, <1>6, TypePartsNext DEF DeviceInv, RowsTyped, Submitted
<1>8. row.status = "submitted" /\ row.content \in Contents
  BY <1>6, <1>7 DEF Submitted, Row
<1>9. PICK shown \in Workspace :
        shown = IF Attendance THEN [s EXCEPT !.typed = row.content] ELSE WithRecord(s, row)
  BY <1>8, WithRecordTyped DEF Workspace
<1>10. /\ shown.id = s.id /\ shown.load = s.load /\ shown.step = s.step
       /\ shown.local = s.local \/ shown.local \in {"synced", "editing"}
       /\ (shown.local = s.local /\ shown.status = s.status) \/ shown.status = "submitted"
  <2>1. CASE Attendance
    BY <1>9, <2>1 DEF Workspace
  <2>2. CASE ~Attendance
    BY <1>8, <1>9, <2>2, WithRecordTyped
  <2> QED
    BY <2>1, <2>2
<1> DEFINE new == [shown EXCEPT !.confirmed = FALSE]
<1>11. /\ new \in Workspace /\ new.id = shown.id /\ new.load = shown.load
       /\ new.step = shown.step /\ ~new.confirmed /\ new.local = shown.local
       /\ new.status = shown.status /\ new.place = "workspace"
  BY DEF Workspace
<1>12. Show(t, new)
  BY <1>2, <1>3, <1>7, <1>9 DEF Correct
<1> HIDE DEF new
<1>13. Loaded(new) /\ (Follows(s) => Follows(new)) /\ (Waits(new) => Waits(s))
  BY <1>1, <1>2, <1>10, <1>11 DEF Loaded, Follows, Waits, WaitingStates
<1>14. new.id = screen[t].id /\ new.load = screen[t].load
  BY <1>2, <1>10, <1>11
<1> QED
  BY <1>1, <1>2, <1>5, <1>11, <1>12, <1>13, <1>14, HandlerMoves

LEMMA LeaveSound ==
  ASSUME ScreensInv, NEW t \in Tabs, Leave(t)
  PROVE  Forward /\ ScreensInv'
<1> USE DEF ScreensInv
<1>1. ~Running(Engine(t))
  <2>1. CASE At(t, "list")
    BY <2>1, IdleElsewhere DEF At
  <2>2. CASE In(t, "step", {"ready", "stuck"}) /\ screen[t].load = "none"
    BY <2>2, WorkspaceIs DEF In, Follows
  <2> QED
    BY <2>1, <2>2 DEF Leave
<1>2. Forward /\ DeviceInv' /\ loops' = loops /\ Show(t, Closed)
  BY NothingMoves DEF Leave
<1> QED
  BY <1>1, <1>2, ClosedIsAScreen, NoEngineOfAPageMoves, ScreenLeaves

LEMMA SessionStepSound ==
  ASSUME ScreensInv, NEW t \in Tabs, SessionStep(t)
  PROVE  Forward /\ ScreensInv'
<1> USE DEF ScreensInv
<1>1. CASE /\ UNCHANGED screen
           /\ \/ SuspendLease(t)
              \/ \E u \in Users : Login(t, u)
              \/ \E heard \in BOOLEAN : SignOut(t, heard)
  <2>1. Forward /\ DeviceInv'
    BY <1>1, LoginKeeps, SignOutKeeps, SuspendLeaseKeeps
  <2>2. loops' = loops
    BY <1>1 DEF Login, SignOut, SuspendLease
  <2> QED
    BY <1>1, <2>1, <2>2, NoEngineOfAPageMoves, NobodyMoves
<1>2. CASE ClosePage(t) /\ Show(t, Closed)
  <2>1. Forward /\ DeviceInv'
    BY <1>2, ClosePageKeeps
  <2>2. \A r \in Loops : loops'[r] = IF r[1] = t THEN IdleLoop ELSE loops[r]
    BY <1>2 DEF ClosePage
  <2>3. \A u \in Tabs : Engine(u)[1] = u
    BY DEF Engine
  <2>4. ~Running(Engine(t))' /\ \A u \in Tabs \ {t} : Running(Engine(u))' => Running(Engine(u))
    BY <2>2, <2>3, EnginesApart DEF Running, IdleLoop
  <2> QED
    BY <1>2, <2>1, <2>4, ClosedIsAScreen, ScreenLeaves
<1> QED
  BY <1>1, <1>2 DEF SessionStep

LEMMA ServedRunsWait ==
  ASSUME DeviceInv, NEW q \in wire, Serve(q)
  PROVE  \A r \in Loops : Running(r)' => Running(r)
<1> USE TypeParts DEF DeviceInv
<1>1. q.by \in Loops /\ q # NotSent
  BY MarksAreApart DEF WireTyped, Request
<1>2. PICK reply : Answer(q, reply)
  BY DEF Serve, Refuse, Replay, Decide
<1>3. loops[q.by].request = q => Running(q.by)
  BY <1>1 DEF RunSound, Running
<1>4. \A r \in Loops \ {q.by} : loops'[r].pc = loops[r].pc
  BY <1>1, <1>2 DEF Answer, LoopsTyped
<1>5. loops[q.by].request # q => loops' = loops
  BY <1>2 DEF Answer
<1> QED
  BY <1>1, <1>3, <1>4, <1>5 DEF Running

\* The registrar, and a request that gets no answer.
LEMMA OtherEngineSteps ==
  ASSUME ScreensInv, NEW r \in Loops, StartRegistrar(r) \/ GiveUp(r), UNCHANGED screen
  PROVE  Forward /\ ScreensInv'
<1> USE TypeParts DEF ScreensInv, DeviceInv
<1>1. Forward /\ DeviceInv'
  BY StartKeeps, GiveUpKeeps
<1>2. \A p \in Loops \ {r} : loops'[p] = loops[p]
  BY DEF StartRegistrar, GiveUp, Step, LoopsTyped
<1>3. r[2] = "registrar" \/ Running(r)
  BY DEF StartRegistrar, GiveUp, Running
<1>4. \A t \in Tabs : Engine(t) = r => r[2] = "screen"
  BY DEF Engine
<1>5. \A t \in Tabs : Running(Engine(t))' => Running(Engine(t))
  BY <1>2, <1>3, <1>4, EnginesApart DEF Running
<1> QED
  BY <1>1, <1>5, NobodyMoves

LEMMA ControlSound ==
  ASSUME ScreensInv, NEW t \in Tabs, Control(t)
  PROVE  Forward /\ ScreensInv'
<1>1. scenario.ids \subseteq Ids
  BY ScenarioTyped, TypeParts DEF ScreensInv, DeviceInv
<1> QED
  BY <1>1, OpenListSound, StartDraftSound, OpenAttendanceSound, OpenHarvestSound, EditSound,
     SaveSound, OpenReviewSound, SubmitSound, SyncSound, DiscardSound, CorrectSound, LeaveSound
     DEF Control

LEMMA ProceedSound ==
  ASSUME ScreensInv, NEW t \in Tabs, Proceed(t)
  PROVE  Forward /\ ScreensInv'
BY AttendanceFetchedSound, AttendanceCheckedSound, AttendanceCachedSound,
   AttendanceNotFetchedSound, HarvestReadsLocalSound, HarvestFetchedSound, HarvestCheckedSound,
   HarvestCachedSound, HarvestNotFetchedSound,
   SavedSound, QueuedSound, SyncSound, HarvestRefreshedSound, ConfirmedSound, NotConfirmedSound
   DEF Proceed

LEMMA ScreensNextSound ==
  ASSUME ScreensInv, ScreensNext
  PROVE  Forward /\ ScreensInv'
<1>1. scenario.pages \subseteq Tabs /\ scenario.engines \subseteq Loops
  BY ScenarioTyped, TypeParts DEF ScreensInv, DeviceInv
<1>2. ASSUME NEW t \in Tabs, Control(t) \/ Proceed(t) \/ SessionStep(t)
      PROVE  Forward /\ ScreensInv'
  BY <1>2, ControlSound, ProceedSound, SessionStepSound
<1>3. ASSUME NEW r \in Loops,
             \/ (StartRegistrar(r) \/ GiveUp(r)) /\ UNCHANGED screen
             \/ EngineProceeds(r)
      PROVE  Forward /\ ScreensInv'
  BY <1>3, OtherEngineSteps, EngineProceedsSound
<1>4. CASE Elsewhere /\ UNCHANGED screen
  <2>1. Forward /\ DeviceInv'
    BY <1>4, ElsewhereKeeps DEF ScreensInv
  <2>2. loops' = loops
    BY <1>4 DEF Elsewhere, LeaseExpires, ChangePermission, SessionEnds, EditElsewhere,
                CorrectElsewhere
  <2> QED
    BY <1>4, <2>1, <2>2, NoEngineOfAPageMoves, NobodyMoves
<1>5. ASSUME NEW q \in wire, Serve(q), UNCHANGED screen
      PROVE  Forward /\ ScreensInv'
  <2>1. Forward /\ DeviceInv'
    BY <1>5, ServeKeeps DEF ScreensInv
  <2>2. \A t \in Tabs : Running(Engine(t))' => Running(Engine(t))
    BY <1>5, ServedRunsWait, EnginesApart DEF ScreensInv
  <2> QED
    BY <1>5, <2>1, <2>2, NobodyMoves
<1> QED
  BY <1>1, <1>2, <1>3, <1>4, <1>5 DEF ScreensNext

LEMMA ScreensStutter ==
  ASSUME ScreensInv, UNCHANGED screenVars
  PROVE  Forward /\ ScreensInv'
<1>1. Forward /\ DeviceInv' /\ loops' = loops /\ UNCHANGED screen
  BY NothingMoves DEF ScreensInv, screenVars
<1> QED
  BY <1>1, NoEngineOfAPageMoves, NobodyMoves

LEMMA ScreensStart == ASSUME ScreensInit PROVE ScreensInv
<1>1. DeviceInv /\ screen = [t \in Tabs |-> Closed] /\ \A r \in Loops : loops[r] = IdleLoop
  BY DeviceInit DEF ScreensInit, Init
<1>2. ScreensTypeOK
  BY <1>1 DEF ScreensTypeOK
<1>3. \A t \in Tabs : ScreenSound(t)
  BY <1>1, EnginesApart, ClosedIsAScreen, PlacesAreApart
     DEF ScreenSound, At, Running, IdleLoop, Closed
<1> QED
  BY <1>1, <1>2, <1>3 DEF ScreensInv

LEMMA ScreensInvariant == ScreensSpec => []ScreensInv
<1>1. ScreensInv /\ [ScreensNext]_screenVars => ScreensInv'
  BY ScreensNextSound, ScreensStutter
<1> QED
  BY <1>1, ScreensStart, PTL DEF ScreensSpec

-----------------------------------------------------------------------------
(* What it implies.                                                        *)

\* A page shows the home screen, a list or a workspace whose fields have their types.
THEOREM ScreensTyped == ScreensSpec => []ScreensTypeOK
<1>1. ScreensInv => ScreensTypeOK
  BY DEF ScreensInv
<1> QED
  BY <1>1, ScreensInvariant, PTL

\* What a screen calls confirmed is submitted, or still has its operation on this
\* device, or was lost in a commit that failed after its answer.
THEOREM ConfirmedWorkIsKept == ScreensSpec => []ConfirmedIsKept
<1>1. ScreensInv => ConfirmedIsKept
  BY DEF ScreensInv, ScreenSound, WorkspaceSound, ConfirmedIsKept, Kept, At
<1> QED
  BY <1>1, ScreensInvariant, PTL

\* The screens call the device in their own order, discard and correct; under them,
\* too, the device loses nothing it was asked to submit, claims nothing it cannot
\* show, and submits no draft twice.
THEOREM ScreensKeepTheDevice ==
  ScreensSpec => [](ConfirmedIsRecorded /\ SyncedIsRecorded /\ WaitingIsAccounted
                    /\ OneSubmissionPerRecord)
<1>1. ScreensInv => DeviceInv
  BY DEF ScreensInv
<1> QED
  BY <1>1, DeviceInvImplies, ScreensInvariant, PTL

\* Nor is anything undone by a screen: what is queued is never changed, and what is
\* submitted keeps saying the same, explicit corrections aside.
THEOREM ScreensUndoNothing == ScreensSpec => [][Forward]_screenVars
<1>1. ScreensInv /\ [ScreensNext]_screenVars => [Forward]_screenVars
  BY ScreensNextSound
<1> QED
  BY <1>1, ScreensInvariant, PTL DEF ScreensSpec

-----------------------------------------------------------------------------
(* What is queued is frozen.  It takes one open page: a second one could    *)
(* queue what the first is about to save.                                  *)
(*                                                                         *)
(* The invariant follows every operation, also one that has left: a draft  *)
(* that began here says what each operation of it says, the record came    *)
(* from one of them, and a save is put back before anything is queued.     *)

OnePage == \A s \in Scenarios : \A t, u \in s.pages : t = u

OpOf(o, i) == Used(o) /\ outbox[o].target = i

Corrected(i) == Submitted(i) /\ rows[i].corrected

FrozenDraft(i) ==
  \A o \in Ops : OpOf(o, i) =>
    /\ drafts[i].state # "editing"
    /\ drafts[i].content = outbox[o].content \/ Corrected(i)

RowOfOps(i) ==
  rows[i] # NoRow =>
    /\ Submitted(i)
    /\ rows[i].corrected \/ \E o \in Ops : OpOf(o, i) /\ outbox[o].content = rows[i].content

PendingSave(t) == tabs[t].write # NoWrite /\ tabs[t].write.kind = "save"

WriteHeld(t) ==
  LET w == tabs[t].write IN
  /\ PendingSave(t) =>
       /\ t \in scenario.pages /\ In(t, "step", Saving)
       /\ w.id \notin born => \A o \in Ops : ~OpOf(o, w.id)
  /\ w # NoWrite /\ w.kind # "save" /\ w.id \notin born => w.draft.state = "synced"

FrozenInv ==
  /\ ScreensInv
  /\ \A i \in Ids \ born : FrozenDraft(i) /\ RowOfOps(i)
  /\ \A t \in Tabs : WriteHeld(t)

\* A step after which each page writes what it was about to write, or nothing, or
\* what it may; and saves on, or has nothing more to put.
WritesStay ==
  /\ \A t \in Tabs : tabs'[t].write \in {tabs[t].write, NoWrite} \/ WriteHeld(t)'
  /\ \A t \in Tabs : In(t, "step", Saving) =>
       In(t, "step", Saving)' \/ tabs'[t].write = NoWrite

LEMMA FrozenStep ==
  ASSUME FrozenInv, ScreensInv', Forward, WritesStay,
         \A i \in Ids \ born : \A o \in Ops : OpOf(o, i) =>
           /\ drafts'[i].state # "editing"
           /\ drafts'[i].content \in {drafts[i].content, outbox[o].content} \/ Corrected(i)',
         \A o \in Ops : Used(o)' =>
           \/ Used(o)
           \/ /\ \A t \in Tabs : ~PendingSave(t)
              /\ drafts'[outbox'[o].target].state # "editing"
              /\ drafts'[outbox'[o].target].content = outbox'[o].content,
         \A i \in Ids \ born :
           rows'[i] = rows[i] \/ (RowOfOps(i)' /\ (Corrected(i) => Corrected(i)'))
  PROVE  FrozenInv'
<1> USE DEF FrozenInv
<1>1. born' = born /\ scenario' = scenario
  BY DEF Forward, born
<1>2. \A o \in Ops : Used(o) => Used(o)' /\ outbox'[o].target = outbox[o].target
                                /\ outbox'[o].content = outbox[o].content
  BY DEF Forward, StoreForward
<1>3. \A i \in Ids \ born : Corrected(i) => Corrected(i)'
  BY DEF Corrected, Submitted
<1>4. ASSUME NEW i \in Ids \ born PROVE FrozenDraft(i)'
  <2> SUFFICES ASSUME NEW o \in Ops, OpOf(o, i)'
               PROVE  /\ drafts'[i].state # "editing"
                      /\ drafts'[i].content = outbox'[o].content \/ Corrected(i)'
    BY DEF FrozenDraft
  <2>1. CASE Used(o)
    <3>1. OpOf(o, i) /\ outbox'[o].content = outbox[o].content
      BY <1>2, <2>1 DEF OpOf
    <3> QED
      BY <1>3, <3>1 DEF FrozenDraft
  <2>2. CASE ~Used(o)
    BY <2>2 DEF OpOf
  <2> QED
    BY <2>1, <2>2
<1>5. ASSUME NEW i \in Ids \ born PROVE RowOfOps(i)'
  <2>1. CASE rows'[i] = rows[i]
    BY <1>2, <2>1 DEF RowOfOps, OpOf, Submitted
  <2> QED
    BY <2>1
<1>6. ASSUME NEW t \in Tabs PROVE WriteHeld(t)'
  <2>1. CASE tabs'[t].write = NoWrite
    BY <2>1 DEF WriteHeld, PendingSave
  <2>2. CASE tabs'[t].write = tabs[t].write /\ tabs[t].write # NoWrite
    <3>1. ASSUME PendingSave(t)
          PROVE  /\ t \in scenario.pages /\ In(t, "step", Saving)'
                 /\ tabs[t].write.id \notin born => \A o \in Ops : ~OpOf(o, tabs[t].write.id)'
      <4>1. t \in scenario.pages /\ In(t, "step", Saving)
            /\ (tabs[t].write.id \notin born => \A o \in Ops : ~OpOf(o, tabs[t].write.id))
        BY <3>1 DEF WriteHeld
      <4>2. In(t, "step", Saving)'
        BY <2>2, <4>1 DEF WritesStay
      <4>3. \A o \in Ops : Used(o)' => Used(o) /\ outbox'[o].target = outbox[o].target
        BY <1>2, <3>1
      <4> QED
        BY <2>2, <4>1, <4>2, <4>3 DEF OpOf
    <3> QED
      BY <1>1, <2>2, <3>1 DEF WriteHeld, PendingSave, OpOf
  <2> QED
    BY <2>1, <2>2 DEF WritesStay
<1> QED
  BY <1>1, <1>4, <1>5, <1>6

\* A step that leaves the store and the records alone.
LEMMA FrozenQuiet ==
  ASSUME FrozenInv, ScreensInv', Forward, WritesStay, UNCHANGED store, rows' = rows
  PROVE  FrozenInv'
<1>1. \A o \in Ops : outbox'[o] = outbox[o] /\ (Used(o)' => Used(o))
  BY DEF store, Used
<1>2. \A i \in Ids \ born : \A o \in Ops : OpOf(o, i) =>
        /\ drafts'[i].state # "editing" /\ drafts'[i].content = drafts[i].content
  BY DEF FrozenInv, FrozenDraft, store
<1> QED
  BY <1>1, <1>2, FrozenStep

-----------------------------------------------------------------------------
(* Which steps leave it alone: those of the sessions, of the screens that   *)
(* save nothing, and of the requests.                                      *)

\* A step that moves one screen: if it was saving it goes on, or has put what it had.
LEMMA OneScreenMoves ==
  ASSUME NEW t \in Tabs, \A u \in Tabs \ {t} : screen'[u] = screen[u],
         \A u \in Tabs : tabs'[u].write \in {tabs[u].write, NoWrite} \/ WriteHeld(u)',
         In(t, "step", Saving) => In(t, "step", Saving)' \/ tabs'[t].write = NoWrite
  PROVE  WritesStay
<1>1. ASSUME NEW u \in Tabs, In(u, "step", Saving)
      PROVE  In(u, "step", Saving)' \/ tabs'[u].write = NoWrite
  <2>1. CASE u = t
    BY <1>1, <2>1
  <2>2. CASE u # t
    BY <1>1, <2>2 DEF In, At
  <2> QED
    BY <2>1, <2>2
<1> QED
  BY <1>1 DEF WritesStay

\* Such a step when it changes neither the store nor the records.
LEMMA FrozenShow ==
  ASSUME FrozenInv, ScreensInv', Forward, UNCHANGED store, rows' = rows, NEW t \in Tabs,
         \A u \in Tabs \ {t} : screen'[u] = screen[u],
         \A u \in Tabs : tabs'[u].write \in {tabs[u].write, NoWrite} \/ WriteHeld(u)',
         In(t, "step", Saving) => In(t, "step", Saving)' \/ tabs'[t].write = NoWrite
  PROVE  FrozenInv'
BY OneScreenMoves, FrozenQuiet

\* No screen moves.
LEMMA FrozenStill ==
  ASSUME FrozenInv, ScreensInv', Forward, UNCHANGED store, rows' = rows, UNCHANGED screen,
         \A t \in Tabs : tabs'[t].write \in {tabs[t].write, NoWrite}
  PROVE  FrozenInv'
<1>1. WritesStay
  BY DEF WritesStay, In, At
<1> QED
  BY <1>1, FrozenQuiet

LEMMA ShownAlone ==
  ASSUME ScreensTypeOK, NEW t \in Tabs, NEW s, Show(t, s)
  PROVE  screen'[t] = s /\ \A u \in Tabs \ {t} : screen'[u] = screen[u]
BY DEF ScreensTypeOK, Show

\* Nobody is saving on a screen that is loading, opening or ready.
LEMMA SavesLater ==
  ASSUME ScreensInv, NEW t \in Tabs,
         \/ ~At(t, "workspace")
         \/ screen[t].step \notin Saving
         \/ screen[t].load = "local"
         \/ Attendance /\ screen[t].load # "none"
         \/ ~Loaded(screen[t])
  PROVE  ~In(t, "step", Saving)
<1> SUFFICES ASSUME At(t, "workspace"), screen[t].step \in Saving
             PROVE  FALSE
  BY DEF In
<1> QED
  BY WorkspaceIs DEF WorkspaceSound, Shape, Saving

LEMMA SessionFrozen ==
  ASSUME FrozenInv, ScreensInv', Forward, NEW t \in Tabs, SessionStep(t)
  PROVE  FrozenInv'
<1> USE DEF FrozenInv, ScreensInv
<1>1. CASE /\ UNCHANGED screen
           /\ \/ SuspendLease(t)
              \/ \E u \in Users : Login(t, u)
              \/ \E heard \in BOOLEAN : SignOut(t, heard)
  <2>1. WritesKept
    BY <1>1, LoginKeeps, SignOutKeeps, SuspendLeaseKeeps
  <2>2. UNCHANGED store /\ rows' = rows
    BY <1>1 DEF Login, SignOut, SuspendLease, server
  <2> QED
    BY <1>1, <2>1, <2>2, FrozenStill DEF WritesKept
<1>2. CASE ClosePage(t) /\ Show(t, Closed)
  <2>1. \A u \in Tabs : tabs'[u].write \in {tabs[u].write, NoWrite} /\ tabs'[t].write = NoWrite
    BY <1>2, TypeParts DEF ClosePage, NewTab, PagesTyped, DeviceInv
  <2>2. UNCHANGED store /\ rows' = rows
    BY <1>2 DEF ClosePage, server
  <2>3. \A u \in Tabs \ {t} : screen'[u] = screen[u]
    BY <1>2, ShownAlone
  <2> QED
    BY <2>1, <2>2, <2>3, FrozenShow
<1> QED
  BY <1>1, <1>2 DEF SessionStep

\* A page opens a screen, or asks what to show on it: nothing is being saved there.
LEMMA OpeningFrozen ==
  ASSUME FrozenInv, ScreensInv', Forward, NEW t \in Tabs, NEW s, Show(t, s), UNCHANGED store,
         rows' = rows, WritesKept, ~In(t, "step", Saving)
  PROVE  FrozenInv'
<1>1. \A u \in Tabs \ {t} : screen'[u] = screen[u]
  BY ShownAlone DEF FrozenInv, ScreensInv
<1> QED
  BY <1>1, FrozenShow DEF WritesKept

LEMMA OpensFrozen ==
  ASSUME FrozenInv, ScreensInv', Forward, NEW t \in Tabs,
         OpenList(t) \/ \E i \in Ids : OpenAttendance(t, i) \/ OpenHarvest(t, i)
  PROVE  FrozenInv'
<1> USE DEF FrozenInv, ScreensInv
<1>1. /\ ~At(t, "workspace") /\ \E s : Show(t, s)
      /\ OpenOnline(t) \/ \E unauthenticated \in BOOLEAN : OpenOffline(t, unauthenticated)
  <2>1. CASE OpenList(t)
    BY <2>1 DEF OpenList, At
  <2>2. ASSUME NEW i \in Ids, OpenAttendance(t, i) \/ OpenHarvest(t, i)
        PROVE  /\ ~At(t, "workspace") /\ \E s : Show(t, s)
               /\ OpenOnline(t) \/ \E unauthenticated \in BOOLEAN : OpenOffline(t, unauthenticated)
    BY <2>2 DEF OpenAttendance, OpenHarvest
  <2> QED
    BY <2>1, <2>2
<1>2. ~In(t, "step", Saving)
  BY <1>1 DEF In
<1>3. WritesKept
  BY <1>1, OpenOnlineKeeps, OpenOfflineKeeps
<1>4. UNCHANGED store /\ rows' = rows
  BY <1>1 DEF OpenOnline, OpenOffline, server
<1> QED
  BY <1>1, <1>2, <1>3, <1>4, OpeningFrozen

\* A step of a screen that changes nothing on the device or the server: it was not
\* saving, or it is still.
LEMMA ShowFrozen ==
  ASSUME FrozenInv, ScreensInv', Forward, NEW t \in Tabs, NEW s, Show(t, s), UNCHANGED store,
         rows' = rows, tabs' = tabs,
         In(t, "step", Saving) => s.place = "workspace" /\ s.step = screen[t].step
  PROVE  FrozenInv'
<1>1. screen'[t] = s /\ \A u \in Tabs \ {t} : screen'[u] = screen[u]
  BY ShownAlone DEF FrozenInv, ScreensInv
<1>2. In(t, "step", Saving) => In(t, "step", Saving)'
  BY <1>1 DEF In, At
<1> QED
  BY <1>1, <1>2, FrozenShow

\* The loads that write nothing.
LEMMA LoadsFrozen ==
  ASSUME FrozenInv, ScreensInv', Forward, NEW t \in Tabs,
         AttendanceNotFetched(t) \/ HarvestReadsLocal(t) \/ HarvestNotFetched(t)
  PROVE  FrozenInv'
<1> USE DEF FrozenInv
<1>1. CASE AttendanceNotFetched(t)
  <2>1. ~In(t, "step", Saving)
    BY <1>1, SavesLater DEF AttendanceNotFetched, In
  <2> QED
    BY <1>1, <2>1, ShowFrozen DEF AttendanceNotFetched, server
<1>2. CASE HarvestReadsLocal(t)
  <2>1. ~In(t, "step", Saving)
    BY <1>2, SavesLater DEF HarvestReadsLocal, In
  <2>2. UNCHANGED store /\ rows' = rows /\ tabs' = tabs
    BY <1>2 DEF HarvestReadsLocal, StartSync, vars, server
  <2>3. PICK s : Show(t, s)
    BY <1>2 DEF HarvestReadsLocal
  <2> QED
    BY <2>1, <2>2, <2>3, ShowFrozen
<1>3. CASE HarvestNotFetched(t)
  <2>1. At(t, "workspace") /\ UNCHANGED store /\ rows' = rows /\ tabs' = tabs
    BY <1>3 DEF HarvestNotFetched, In, server
  <2>2. CASE ~Loaded(screen[t])
    <3>1. ~In(t, "step", Saving)
      BY <2>2, SavesLater
    <3>2. PICK s : Show(t, s)
      BY <1>3 DEF HarvestNotFetched
    <3> QED
      BY <2>1, <3>1, <3>2, ShowFrozen
  <2>3. CASE Loaded(screen[t])
    <3>1. PICK s \in Workspace : s = screen[t]
      BY <2>1, WorkspaceIs
    <3> DEFINE new == [s EXCEPT !.load = "none"]
    <3>2. new.step = s.step /\ new.place = "workspace" /\ Show(t, new)
      BY <1>3, <2>3, <3>1 DEF Workspace, HarvestNotFetched
    <3> HIDE DEF new
    <3> QED
      BY <2>1, <3>1, <3>2, ShowFrozen
  <2> QED
    BY <2>2, <2>3
<1> QED
  BY <1>1, <1>2, <1>3

\* The controls that write nothing and may be used while a handler runs.
LEMMA EditFrozen ==
  ASSUME FrozenInv, ScreensInv', Forward, NEW t \in Tabs, NEW c \in Contents, Edit(t, c)
  PROVE  FrozenInv'
<1> USE DEF FrozenInv
<1>1. At(t, "workspace")
  BY ViewsAreLoaded DEF Edit
<1>2. PICK s \in Workspace : s = screen[t]
  BY <1>1, WorkspaceIs
<1>3. PICK dirty \in BOOLEAN, confirmed \in BOOLEAN :
        dirty = Attendance /\ confirmed = (Harvest /\ s.confirmed)
  BY DEF Attendance, Harvest
<1> DEFINE new == [s EXCEPT !.typed = c, !.dirty = dirty, !.confirmed = confirmed]
<1>4. new.step = s.step /\ new.place = "workspace" /\ Show(t, new)
  BY <1>2, <1>3 DEF Workspace, Edit
<1> HIDE DEF new
<1> QED
  BY <1>2, <1>4, ShowFrozen DEF Edit, vars, server

LEMMA ReviewFrozen ==
  ASSUME FrozenInv, ScreensInv', Forward, NEW t \in Tabs, At(t, "workspace"), UNCHANGED vars,
         NEW review \in BOOLEAN, Show(t, [screen[t] EXCEPT !.review = review])
  PROVE  FrozenInv'
<1> USE DEF FrozenInv
<1>1. PICK s \in Workspace : s = screen[t]
  BY WorkspaceIs
<1> DEFINE new == [s EXCEPT !.review = review]
<1>2. new.step = s.step /\ new.place = "workspace" /\ Show(t, new)
  BY <1>1 DEF Workspace
<1> HIDE DEF new
<1> QED
  BY <1>1, <1>2, ShowFrozen DEF vars, server

\* The steps of a handler that does not save.
LEMMA HandlersFrozen ==
  ASSUME FrozenInv, ScreensInv', Forward, NEW t \in Tabs,
         \/ Submit(t) /\ UNCHANGED vars
         \/ Queued(t) /\ UNCHANGED vars
         \/ SyncQueued(t) \/ SyncNow(t)
         \/ HarvestRefreshed(t) /\ In(t, "step", {"refreshSubmit", "refreshSync"})
         \/ Confirmed(t) \/ NotConfirmed(t)
         \/ Leave(t)
  PROVE  FrozenInv'
<1> USE DEF FrozenInv
<1>1. UNCHANGED store /\ rows' = rows /\ tabs' = tabs
  BY DEF SyncQueued, SyncNow, StartSync, HarvestRefreshed, Confirmed, NotConfirmed, Leave,
         vars, server
<1>2. PICK s : Show(t, s)
  BY DEF Submit, Queued, SyncQueued, SyncNow, HarvestRefreshed, Confirmed, NotConfirmed, Leave,
         StartSave
<1>3. CASE ~In(t, "step", Saving)
  BY <1>1, <1>2, <1>3, ShowFrozen
<1>4. CASE Submit(t) /\ UNCHANGED vars /\ In(t, "step", Saving)
  BY <1>4 DEF Submit, Ready, In, Saving, StartSave
<1>5. CASE ~(Submit(t) /\ UNCHANGED vars)
  BY <1>3, <1>5 DEF Queued, SyncQueued, SyncNow, HarvestRefreshed, Confirmed, NotConfirmed,
                    Leave, In, At, Saving, Ready
<1> QED
  BY <1>3, <1>4, <1>5

LEMMA RefreshFrozen ==
  ASSUME FrozenInv, ScreensInv', Forward, NEW t \in Tabs, HarvestRefreshed(t)
  PROVE  FrozenInv'
<1> USE DEF FrozenInv
<1>1. CASE In(t, "step", {"refreshSubmit", "refreshSync"})
  BY <1>1, HandlersFrozen
<1>2. CASE ~In(t, "step", {"refreshSubmit", "refreshSync"})
  <2>1. At(t, "workspace") /\ screen[t].load = "refresh"
    BY <1>2 DEF HarvestRefreshed, In
  <2>2. PICK s \in Workspace : s = screen[t]
    BY <2>1, WorkspaceIs
  <2>3. s.id \in Ids /\ drafts[s.id] # NoDraft
    BY <2>1, <2>2, WorkspaceIs DEF WorkspaceSound, Waits
  <2>4. PICK d \in Draft : d = drafts[s.id]
    BY <2>3, CopySound DEF ScreensInv
  <2>5. PICK read \in Workspace : read = WithLocal(s, d)
    BY WithLocalTyped
  <2>6. read.step = s.step
    BY <2>5, WithLocalTyped
  <2> DEFINE load == IF s.outcome = "synced" THEN "fetch" ELSE "none"
             new  == [[read EXCEPT !.outcome = "none"] EXCEPT !.load = load]
  <2>7. Show(t, new) /\ UNCHANGED vars
    BY <1>2, <2>2, <2>4, <2>5 DEF HarvestRefreshed
  <2> HIDE DEF load
  <2>8. new.step = s.step /\ new.place = "workspace"
    BY <2>6 DEF Workspace
  <2> HIDE DEF new
  <2> QED
    BY <2>2, <2>7, <2>8, ShowFrozen DEF vars, server
<1> QED
  BY <1>1, <1>2

-----------------------------------------------------------------------------
(* The engine: it changes states, and what it writes is what was queued.   *)

\* A screen that follows a run is not saving, or loads and goes on saving.
LEMMA FollowSavesOn ==
  ASSUME ScreensInv, NEW r \in Loops, Running(r), Follow(r), NEW t \in Tabs, In(t, "step", Saving)
  PROVE  In(t, "step", Saving)'
<1> USE DEF ScreensInv
<1>1. CASE UNCHANGED screen
  BY <1>1 DEF In, At
<1>2. CASE r[2] = "screen" /\ loops'[r] = IdleLoop
  <2>1. PICK u \in Tabs : u = Page(r) /\ r = Engine(u)
    BY <1>2, LoopsOfTabs DEF Page, Engine
  <2>2. Show(u, IF Attendance THEN AttendanceOutcome(screen[u], Outcome(r))
                ELSE HarvestOutcome(screen[u], Outcome(r)))
    BY <1>2, <2>1 DEF Follow
  <2>3. CASE u # t
    BY <2>2, <2>3, ShownAlone DEF In, At
  <2>4. CASE u = t
    <3>1. PICK s \in Workspace : s = screen[t]
      BY <2>4, WorkspaceIs DEF In
    <3>2. Shape(s) /\ s.step \in Saving /\ s.load = "sync"
      BY <2>1, <2>4, <3>1, WorkspaceIs DEF WorkspaceSound, In, Follows, Saving
    <3>3. ~Attendance
      BY <3>2 DEF Shape, Attendance, Harvest
    <3> DEFINE new == [s EXCEPT !.load = "refresh", !.outcome = Outcome(r)]
    <3>4. Show(t, new)
      BY <2>2, <2>4, <3>1, <3>2, <3>3 DEF HarvestOutcome
    <3>5. new.step = s.step /\ new.place = "workspace"
      BY DEF Workspace
    <3> HIDE DEF new
    <3> QED
      BY <3>2, <3>4, <3>5, ShownAlone DEF In, At
  <2> QED
    BY <2>3, <2>4
<1> QED
  BY <1>1, <1>2 DEF Follow

LEMMA EngineWritesStay ==
  ASSUME ScreensInv, NEW r \in Loops, EngineProceeds(r)
  PROVE  WritesStay
<1> USE DEF ScreensInv
<1>1. Running(r) /\ Follow(r)
  BY EngineStepsRun DEF EngineProceeds
<1>2. SessionAnswered(r) => WritesKept
  BY SessionAnsweredKeeps
<1>3. ~SessionAnswered(r) => tabs' = tabs
  BY DEF EngineProceeds, EngineStep, ReadOutbox, MarkOperation, MarkDraft, Send,
         SettleConfirmed, SettleOperation, SettleDraft, PreserveForAttention
<1>4. \A t \in Tabs : tabs'[t].write = tabs[t].write
  BY <1>2, <1>3 DEF WritesKept
<1> QED
  BY <1>1, <1>4, FollowSavesOn DEF WritesStay

\* A step of a run that changes the state of its operation, or of the draft, or has
\* the draft say what the operation says.
LEMMA RunFrozen ==
  ASSUME FrozenInv, ScreensInv', Forward, WritesStay, rows' = rows,
         NEW i \in Ids, NEW o \in Ops, OpOf(o, i),
         \/ outbox' = outbox
         \/ \E s \in {"pending", "syncing", "needs_attention", "deleted"} :
              outbox' = [outbox EXCEPT ![o].state = s],
         \/ drafts' = drafts
         \/ \E d \in Draft : /\ drafts' = [drafts EXCEPT ![i] = d] /\ d.state # "editing"
                             /\ d.content \in {drafts[i].content, outbox[o].content}
  PROVE  FrozenInv'
<1> USE TypeParts DEF FrozenInv, ScreensInv, DeviceInv
<1>1. \A p \in Ops : Used(p)' => Used(p)
  BY DEF OutboxTyped, Used, OpOf
<1>2. \A j \in Ids \ {i} : drafts'[j] = drafts[j]
  BY DEF DraftsTyped
<1>3. ASSUME NEW j \in Ids \ born, NEW p \in Ops, OpOf(p, j)
      PROVE  /\ drafts'[j].state # "editing"
             /\ drafts'[j].content \in {drafts[j].content, outbox[p].content} \/ Corrected(j)'
  <2>1. drafts[j].state # "editing" /\ (drafts[j].content = outbox[p].content \/ Corrected(j))
    BY <1>3 DEF FrozenDraft
  <2>2. CASE drafts'[j] = drafts[j]
    BY <2>1, <2>2
  <2>3. CASE drafts'[j] # drafts[j]
    <3>1. j = i /\ (drafts[i].content = outbox[o].content \/ Corrected(i))
      BY <1>2, <1>3, <2>3 DEF FrozenDraft
    <3>2. Corrected(i) => Corrected(i)'
      BY DEF Corrected, Submitted
    <3>3. PICK d \in Draft : /\ drafts' = [drafts EXCEPT ![i] = d] /\ d.state # "editing"
                             /\ d.content \in {drafts[i].content, outbox[o].content}
      BY <2>3
    <3>4. drafts'[i] = d
      BY <3>3 DEF DraftsTyped
    <3> QED
      BY <3>1, <3>2, <3>3, <3>4
  <2> QED
    BY <2>2, <2>3
<1> QED
  BY <1>1, <1>3, FrozenStep

LEMMA EngineFrozen ==
  ASSUME FrozenInv, ScreensInv', Forward, NEW r \in Loops, EngineProceeds(r)
  PROVE  FrozenInv'
<1> USE TypeParts DEF FrozenInv, ScreensInv, DeviceInv
<1>1. WritesStay
  BY EngineWritesStay
<1>2. rows' = rows
  BY DEF EngineProceeds, EngineStep, SessionAnswered, ReadOutbox, MarkOperation, MarkDraft, Send,
         SettleConfirmed, SettleOperation, SettleDraft, PreserveForAttention, server
<1>3. CASE SessionAnswered(r) \/ ReadOutbox(r) \/ Send(r)
  <2>1. UNCHANGED store
    BY <1>3 DEF SessionAnswered, ReadOutbox, Send
  <2> QED
    BY <1>1, <1>2, <2>1, FrozenQuiet
<1>4. ASSUME loops[r].pc \in Working
      PROVE  \E o \in Ops, i \in Ids : /\ o = Current(r) /\ OpOf(o, i) /\ i = Target(r)
                                       /\ i = outbox[o].target /\ drafts[i] \in Draft
                                       /\ outbox[o].content \in Contents
  BY <1>4, CurrentIsUsed, OpTyped DEF OpOf, Target
<1>5. CASE MarkOperation(r) \/ SettleOperation(r)
  <2>1. PICK o \in Ops, i \in Ids : o = Current(r) /\ OpOf(o, i)
    BY <1>4, <1>5 DEF MarkOperation, SettleOperation, Working
  <2>2. PICK s \in {"pending", "syncing", "needs_attention", "deleted"} : OpBecomes(o, s)
    BY <1>5, <2>1 DEF MarkOperation, SettleOperation, OpAfter
  <2>3. drafts' = drafts
    BY <1>5 DEF MarkOperation, SettleOperation
  <2> QED
    BY <1>1, <1>2, <2>1, <2>2, <2>3, RunFrozen DEF OpBecomes
<1>6. CASE MarkDraft(r) \/ SettleDraft(r) \/ PreserveForAttention(r)
  <2>1. PICK o \in Ops, i \in Ids : /\ o = Current(r) /\ OpOf(o, i) /\ i = Target(r)
                                    /\ drafts[i] \in Draft
    BY <1>4, <1>6 DEF MarkDraft, SettleDraft, PreserveForAttention, Working
  <2>2. PICK s \in WaitingStates : drafts' = [drafts EXCEPT ![i].state = s]
    BY <1>6, <2>1 DEF MarkDraft, SettleDraft, DraftAfter, PreserveForAttention, WaitingStates
  <2> DEFINE d == [drafts[i] EXCEPT !.state = s]
  <2>3. /\ d \in Draft /\ d.state # "editing" /\ d.content = drafts[i].content
        /\ drafts' = [drafts EXCEPT ![i] = d]
    BY <2>1, <2>2 DEF Draft, WaitingStates
  <2> HIDE DEF d
  <2>4. \/ outbox' = outbox
        \/ outbox' = [outbox EXCEPT ![o].state = "needs_attention"]
    BY <1>6, <2>1 DEF MarkDraft, SettleDraft, PreserveForAttention, OpBecomes
  <2> QED
    BY <1>1, <1>2, <2>1, <2>3, <2>4, RunFrozen
<1>7. CASE SettleConfirmed(r)
  <2>1. PICK o \in Ops, i \in Ids : /\ o = Current(r) /\ OpOf(o, i) /\ i = Target(r)
                                    /\ i = outbox[o].target /\ drafts[i] \in Draft
                                    /\ outbox[o].content \in Contents
    BY <1>4, <1>7 DEF SettleConfirmed, Working
  <2>2. PICK version \in Nat : version = loops[r].reply.version
    BY <1>7 DEF SettleConfirmed, LoopsTyped, EngineRun, Reply, Undecided, Confirms
  <2>3. /\ outbox' = [outbox EXCEPT ![o].state = "deleted"]
        /\ drafts' = [drafts EXCEPT ![i] = ConfirmedDraft(o, version)]
    BY <1>7, <2>1, <2>2 DEF SettleConfirmed
  <2>4. /\ ConfirmedDraft(o, version) \in Draft /\ ConfirmedDraft(o, version).state # "editing"
        /\ ConfirmedDraft(o, version).content \in {drafts[i].content, outbox[o].content}
    BY <2>1 DEF ConfirmedDraft, Draft
  <2> QED
    BY <1>1, <1>2, <2>1, <2>3, <2>4, RunFrozen
<1> QED
  BY <1>3, <1>5, <1>6, <1>7 DEF EngineProceeds, EngineStep

-----------------------------------------------------------------------------
(* The server, and other devices.                                          *)

LEMMA RowsFrozen ==
  ASSUME FrozenInv, ScreensInv', Forward, WritesStay, UNCHANGED store,
         \A i \in Ids \ born :
           rows'[i] = rows[i] \/ (RowOfOps(i)' /\ (Corrected(i) => Corrected(i)'))
  PROVE  FrozenInv'
<1>1. \A o \in Ops : outbox'[o] = outbox[o] /\ (Used(o)' => Used(o))
  BY DEF store, Used
<1>2. \A i \in Ids \ born : \A o \in Ops : OpOf(o, i) =>
        /\ drafts'[i].state # "editing" /\ drafts'[i].content = drafts[i].content
  BY DEF FrozenInv, FrozenDraft, store
<1> QED
  BY <1>1, <1>2, FrozenStep

\* A correction, from here or from elsewhere, is explicit.
LEMMA CorrectionFrozen ==
  ASSUME FrozenInv, ScreensInv', Forward, WritesStay, UNCHANGED store, NEW i \in Ids, CorrectRow(i)
  PROVE  FrozenInv'
<1> USE TypeParts, MarksAreApart DEF FrozenInv, ScreensInv, DeviceInv, RowsTyped
<1>1. rows[i] \in Row /\ rows[i].status = "submitted" /\ ~rows[i].corrected
  BY DEF CorrectRow
<1>2. rows'[i].corrected /\ \A j \in Ids \ {i} : rows'[j] = rows[j]
  BY <1>1 DEF CorrectRow, Row
<1>3. Submitted(i)'
  BY <1>1 DEF Submitted, Forward, ServerForward
<1>4. RowOfOps(i)' /\ Corrected(i)'
  BY <1>2, <1>3 DEF RowOfOps, Corrected
<1> QED
  BY <1>2, <1>4, RowsFrozen

\* A record that began here was submitted at once: there is no draft of it on the
\* server for anybody to edit or discard.
LEMMA NoDraftElsewhere ==
  ASSUME FrozenInv, NEW i \in Ids, rows[i] # NoRow, rows[i].status = "draft"
  PROVE  i \in born
BY DEF FrozenInv, RowOfOps, Submitted

LEMMA ElsewhereFrozen ==
  ASSUME FrozenInv, ScreensInv', Forward, Elsewhere, UNCHANGED screen
  PROVE  FrozenInv'
<1> USE DEF FrozenInv
<1>1. UNCHANGED store /\ tabs' = tabs
  BY DEF Elsewhere, LeaseExpires, ChangePermission, SessionEnds, EditElsewhere, CorrectElsewhere
<1>2. WritesStay
  BY <1>1 DEF WritesStay, In, At
<1>3. CASE rows' = rows
  BY <1>1, <1>3, FrozenStill
<1>4. ASSUME NEW i \in Ids, EditElsewhere(i)
      PROVE  FrozenInv'
  <2>1. i \in born
    BY <1>4, NoDraftElsewhere DEF EditElsewhere
  <2>2. \A j \in Ids \ {i} : rows'[j] = rows[j]
    BY <1>4, TypeParts DEF EditElsewhere, ScreensInv, DeviceInv, RowsTyped
  <2> QED
    BY <1>1, <1>2, <2>1, <2>2, RowsFrozen
<1>5. ASSUME NEW i \in Ids, CorrectElsewhere(i)
      PROVE  FrozenInv'
  BY <1>1, <1>2, <1>5, CorrectionFrozen DEF CorrectElsewhere
<1> QED
  BY <1>3, <1>4, <1>5 DEF Elsewhere, LeaseExpires, ChangePermission, SessionEnds, server

\* What the server applies is what the operation says, to a record there was not.
LEMMA ServeFrozen ==
  ASSUME FrozenInv, ScreensInv', Forward, NEW q \in wire, Serve(q), UNCHANGED screen
  PROVE  FrozenInv'
<1> USE TypeParts DEF FrozenInv, ScreensInv, DeviceInv
<1>1. UNCHANGED store /\ tabs' = tabs
  BY DEF Serve, Refuse, Replay, Decide
<1>2. WritesStay
  BY <1>1 DEF WritesStay, In, At
<1>3. CASE rows' = rows
  BY <1>1, <1>3, FrozenStill
<1>4. CASE rows' # rows
  <2>1. PICK result \in SyncResults : Decide(q, result)
    BY <1>4 DEF Serve, Refuse, Replay, server
  <2>2. PICK o \in Ops : o = q.op /\ Used(o)
    BY DEF WireTyped, Request, RequestSound
  <2>3. PICK u \in Users : u = Holder(q.session)
    BY <2>1, HolderTyped DEF Decide, Authority
  <2>4. PICK i \in Ids : i = outbox[o].target
    BY <2>2, OpTyped
  <2>5. /\ rows' = [rows EXCEPT ![i] = AppliedRow(o, u)]
        /\ Verdict(o, u) = "applied"
    BY <1>4, <2>1, <2>2, <2>3, <2>4 DEF Decide
  <2>6. /\ AppliedRow(o, u) \in Row /\ AppliedRow(o, u).status = "submitted"
        /\ AppliedRow(o, u).content = outbox[o].content
    BY <2>2, AppliedRowTyped
  <2>7. \A j \in Ids \ {i} : rows'[j] = rows[j]
    BY <2>5 DEF RowsTyped
  <2>8. ASSUME i \notin born
        PROVE  RowOfOps(i)' /\ ~Corrected(i)
    <3>1. ~Submitted(i)
      BY <2>4, <2>5, VerdictReadsTheRow
    <3>2. rows'[i] = AppliedRow(o, u) /\ rows'[i] # NoRow
      BY <2>5, <2>6, MarksAreApart DEF RowsTyped
    <3>3. OpOf(o, i)' /\ outbox'[o].content = outbox[o].content
      BY <1>1, <2>2, <2>4 DEF OpOf, Used, store
    <3> QED
      BY <2>6, <3>1, <3>2, <3>3 DEF RowOfOps, Submitted, Corrected
  <2> QED
    BY <1>1, <1>2, <2>7, <2>8, RowsFrozen
<1> QED
  BY <1>3, <1>4

\* The record's own controls.
LEMMA DiscardFrozen ==
  ASSUME FrozenInv, ScreensInv', Forward, NEW t \in Tabs, Discard(t)
  PROVE  FrozenInv'
<1> USE DEF FrozenInv
<1>1. At(t, "workspace") /\ ~In(t, "step", Saving)
  BY ViewsAreLoaded, SavesLater DEF Discard, Ready, Saving
<1>2. PICK i \in Ids : i = screen[t].id
  BY <1>1, WorkspaceIs
<1>3. /\ rows[i] # NoRow /\ rows[i].status = "draft" /\ rows' = [rows EXCEPT ![i] = NoRow]
      /\ UNCHANGED store /\ tabs' = tabs /\ Show(t, Closed)
  BY <1>2 DEF Discard
<1>4. i \in born /\ \A j \in Ids \ {i} : rows'[j] = rows[j]
  BY <1>3, NoDraftElsewhere, TypeParts DEF ScreensInv, DeviceInv, RowsTyped
<1>5. WritesStay
  BY <1>1, <1>3, ShownAlone, OneScreenMoves DEF ScreensInv
<1> QED
  BY <1>3, <1>4, <1>5, RowsFrozen

LEMMA CorrectFrozen ==
  ASSUME FrozenInv, ScreensInv', Forward, NEW t \in Tabs, Correct(t)
  PROVE  FrozenInv'
<1> USE DEF FrozenInv
<1>1. At(t, "workspace") /\ UNCHANGED store /\ tabs' = tabs
  BY ViewsAreLoaded DEF Correct
<1>2. PICK s \in Workspace : s = screen[t]
  BY <1>1, WorkspaceIs
<1>3. PICK i \in Ids : i = s.id
  BY DEF Workspace
<1>4. CorrectRow(i)
  BY <1>2, <1>3 DEF Correct
<1>5. PICK new : Show(t, new) /\ (Attendance => new.step = s.step /\ new.place = "workspace")
  <2>1. CASE Attendance
    <3> DEFINE new == [[s EXCEPT !.typed = rows'[i].content] EXCEPT !.confirmed = FALSE]
    <3>1. Show(t, new) /\ new.step = s.step /\ new.place = "workspace"
      BY <1>2, <1>3, <2>1 DEF Correct, Workspace
    <3> QED
      BY <3>1
  <2>2. CASE ~Attendance
    BY <2>2 DEF Correct
  <2> QED
    BY <2>1, <2>2
<1>6. Attendance \/ ~In(t, "step", Saving)
  <2>1. Attendance \/ Harvest
    BY ScenarioTyped, TypeParts DEF ScreensInv, DeviceInv, Attendance, Harvest
  <2> QED
    BY <1>1, <2>1, SavesLater DEF Correct, Ready, Saving
<1>7. screen'[t] = new /\ \A u \in Tabs \ {t} : screen'[u] = screen[u]
  BY <1>5, ShownAlone DEF ScreensInv
<1>8. In(t, "step", Saving) => In(t, "step", Saving)'
  BY <1>2, <1>5, <1>6, <1>7 DEF In, At
<1>9. WritesStay
  BY <1>1, <1>7, <1>8, OneScreenMoves
<1> QED
  BY <1>1, <1>4, <1>9, CorrectionFrozen

-----------------------------------------------------------------------------
(* What the pages write.                                                   *)

\* A fresh draft has no operation yet.
LEMMA StartDraftFrozen ==
  ASSUME FrozenInv, ScreensInv', Forward, NEW t \in Tabs, NEW i \in Ids, StartDraft(t, i)
  PROVE  FrozenInv'
<1> USE TypeParts DEF FrozenInv, ScreensInv, DeviceInv
<1>1. CreateDraft(t, i)
  BY DEF StartDraft, CreateLocalDraft, CreateLocalHarvestDraft
<1>2. /\ drafts[i] = NoDraft /\ outbox' = outbox /\ rows' = rows /\ tabs' = tabs
      /\ \A j \in Ids \ {i} : drafts'[j] = drafts[j]
  BY <1>1 DEF CreateDraft, DraftsTyped, server
<1>3. \A o \in Ops : ~OpOf(o, i)
  BY <1>2 DEF OpSound, OpOf
<1>4. PICK s : Show(t, s)
  BY DEF StartDraft
<1>5. ~In(t, "step", Saving)
  BY DEF StartDraft, In, At
<1>6. WritesStay
  BY <1>2, <1>4, <1>5, ShownAlone, OneScreenMoves
<1>7. \A o \in Ops : Used(o)' => Used(o)
  BY <1>2 DEF Used
<1>8. ASSUME NEW j \in Ids \ born, NEW o \in Ops, OpOf(o, j)
      PROVE  drafts'[j].state # "editing" /\ drafts'[j].content = drafts[j].content
  BY <1>2, <1>3, <1>8 DEF FrozenDraft
<1> QED
  BY <1>2, <1>6, <1>7, <1>8, FrozenStep

\* A save is of a draft in editing, which has no operation; what is cached of a
\* record that began here is what was submitted.
LEMMA StartWriteHeld ==
  ASSUME FrozenInv, Forward, NEW t \in Tabs, NEW w, w # NoWrite, StartWrite(t, w),
         w.kind = "save" =>
           t \in scenario.pages /\ In(t, "step", Saving)' /\ Savable(tabs[t].user, w.id),
         w.kind # "save" => CachedDraft(tabs[t].user, rows[w.id]) = w.draft
                            /\ rows[w.id] # NoRow,
         w.id \in Ids
  PROVE  /\ UNCHANGED store /\ rows' = rows
         /\ \A u \in Tabs : tabs'[u].write = tabs[u].write \/ WriteHeld(u)'
<1>1. UNCHANGED store /\ rows' = rows /\ scenario' = scenario
  BY DEF StartWrite, env, server
<1>2. tabs'[t].write = w /\ \A u \in Tabs \ {t} : tabs'[u] = tabs[u]
  BY TypeParts DEF FrozenInv, ScreensInv, DeviceInv, StartWrite, PagesTyped, PageMemory
<1>3. w.kind = "save" /\ w.id \notin born => \A o \in Ops : ~OpOf(o, w.id)
  BY DEF FrozenInv, Savable, FrozenDraft
<1>4. w.kind # "save" /\ w.id \notin born => w.draft.state = "synced"
  BY DEF FrozenInv, RowOfOps, Submitted, CachedDraft
<1>5. \A o \in Ops : Used(o)' /\ outbox'[o].target = w.id => OpOf(o, w.id)
  BY <1>1 DEF OpOf, Used, store
<1>6. WriteHeld(t)'
  <2>1. w.kind = "save" => t \in scenario'.pages /\ In(t, "step", Saving)'
    BY <1>1
  <2>2. w.kind = "save" /\ w.id \notin born' =>
          \A o \in Ops : ~(Used(o)' /\ outbox'[o].target = w.id)
    BY <1>1, <1>3, <1>5 DEF born
  <2>3. w.kind # "save" /\ w.id \notin born' => w.draft.state = "synced"
    BY <1>1, <1>4 DEF born
  <2> QED
    BY <1>2, <2>1, <2>2, <2>3 DEF WriteHeld, PendingSave, OpOf
<1> QED
  BY <1>1, <1>2, <1>6

LEMMA StartSaveFrozen ==
  ASSUME FrozenInv, ScreensInv', Forward, NEW t \in scenario.pages, t \in Tabs,
         At(t, "workspace"), NEW step \in Saving, StartSave(t, step)
  PROVE  FrozenInv'
<1> USE DEF FrozenInv
<1>1. PICK s \in Workspace : s = screen[t] /\ s.id \in Ids
  BY WorkspaceIs
<1> DEFINE w == [kind |-> "save", id |-> s.id, draft |-> [drafts[s.id] EXCEPT !.content = s.typed]]
<1>2. Savable(tabs[t].user, s.id) /\ StartWrite(t, w)
  BY <1>1 DEF StartSave, SaveLocalDraft, SaveLocalHarvestDraft, SaveDraft
<1>3. w # NoWrite /\ w.kind = "save" /\ w.id = s.id
  BY DEF NoWrite
<1> HIDE DEF w
<1> DEFINE new == [s EXCEPT !.step = step]
<1>4. Show(t, new) /\ new.step = step /\ new.place = "workspace"
  BY <1>1 DEF StartSave, Workspace
<1> HIDE DEF new
<1>5. screen'[t] = new /\ \A u \in Tabs \ {t} : screen'[u] = screen[u]
  BY <1>4, ShownAlone DEF ScreensInv
<1>6. In(t, "step", Saving)'
  BY <1>4, <1>5 DEF In, At
<1>7. /\ UNCHANGED store /\ rows' = rows
      /\ \A u \in Tabs : tabs'[u].write = tabs[u].write \/ WriteHeld(u)'
  BY <1>1, <1>2, <1>3, <1>6, StartWriteHeld
<1> QED
  BY <1>5, <1>6, <1>7, FrozenShow

LEMMA FetchedFrozen ==
  ASSUME FrozenInv, ScreensInv', Forward, NEW t \in Tabs,
         AttendanceFetched(t) \/ HarvestFetched(t)
  PROVE  FrozenInv'
<1> USE DEF FrozenInv
<1>1. At(t, "workspace") /\ FetchServerDraft(t, screen[t].id)
  BY DEF AttendanceFetched, HarvestFetched, In
<1>2. PICK s \in Workspace : s = screen[t] /\ s.id \in Ids
  BY <1>1, WorkspaceIs
<1>3. rows[s.id] # NoRow /\ rows[s.id] \in Row
  BY <1>1, <1>2, TypeParts DEF FetchServerDraft, ScreensInv, DeviceInv, RowsTyped
<1> DEFINE w == [kind |-> "fetched", id |-> s.id, draft |-> CachedDraft(tabs[t].user, rows[s.id])]
<1>4. StartWrite(t, w)
  BY <1>1, <1>2 DEF FetchServerDraft
<1>5. /\ w # NoWrite /\ w.kind # "save" /\ w.id = s.id
      /\ w.draft = CachedDraft(tabs[t].user, rows[w.id])
  BY DEF NoWrite
<1> HIDE DEF w
<1>6. /\ UNCHANGED store /\ rows' = rows
      /\ \A u \in Tabs : tabs'[u].write = tabs[u].write \/ WriteHeld(u)'
  BY <1>2, <1>3, <1>4, <1>5, StartWriteHeld
<1>7. CASE AttendanceFetched(t)
  <2>1. ~In(t, "step", Saving)
    BY <1>7, SavesLater DEF AttendanceFetched, In
  <2> QED
    BY <1>6, <1>7, <2>1, ShownAlone, FrozenShow DEF AttendanceFetched, ScreensInv
<1>8. CASE HarvestFetched(t)
  <2>1. PICK shown \in Workspace : shown = WithRecord(s, rows[s.id])
    BY <1>3, WithRecordTyped
  <2>2. shown.step = s.step
    BY <1>3, <2>1, WithRecordTyped
  <2> DEFINE new == [shown EXCEPT !.load = "check"]
  <2>3. Show(t, new) /\ new.step = s.step /\ new.place = "workspace"
    BY <1>2, <1>8, <2>1, <2>2 DEF HarvestFetched, Workspace
  <2> HIDE DEF new
  <2>4. screen'[t] = new /\ \A u \in Tabs \ {t} : screen'[u] = screen[u]
    BY <2>3, ShownAlone DEF ScreensInv
  <2>5. In(t, "step", Saving) => In(t, "step", Saving)'
    BY <1>2, <2>3, <2>4 DEF In, At
  <2> QED
    BY <1>6, <2>4, <2>5, FrozenShow
<1> QED
  BY <1>7, <1>8

\* A fetched answer passes the check, or is dropped.
LEMMA CheckedFrozen ==
  ASSUME FrozenInv, ScreensInv', Forward, NEW t \in Tabs,
         AttendanceChecked(t) \/ HarvestChecked(t)
  PROVE  FrozenInv'
<1> USE TypeParts DEF FrozenInv, ScreensInv, DeviceInv
<1>1. CheckOwner(t) /\ At(t, "workspace")
  BY DEF AttendanceChecked, HarvestChecked, In
<1>2. PICK w \in Write : w = tabs[t].write /\ w # NoWrite /\ w.kind = "fetched"
  BY <1>1, MarksAreApart DEF CheckOwner, PagesTyped, PageMemory
<1> DEFINE checked == [w EXCEPT !.kind = "cache"]
<1>3. PICK new \in {NoWrite, checked} : tabs' = [tabs EXCEPT ![t].write = new]
  BY <1>1, <1>2 DEF CheckOwner
<1>4. checked \in Write /\ checked.kind = "cache" /\ checked.id = w.id /\ checked.draft = w.draft
  BY <1>2 DEF Write
<1> HIDE DEF checked
<1>5. tabs'[t].write = new /\ \A u \in Tabs \ {t} : tabs'[u].write = tabs[u].write
  BY <1>3 DEF PagesTyped, PageMemory
<1>6. UNCHANGED store /\ rows' = rows /\ born' = born
  BY <1>1 DEF CheckOwner, server, env, born
<1>7. new # NoWrite => WriteHeld(t)'
  BY <1>2, <1>4, <1>5, <1>6 DEF WriteHeld, PendingSave
<1>8. \A u \in Tabs : tabs'[u].write \in {tabs[u].write, NoWrite} \/ WriteHeld(u)'
  BY <1>5, <1>7
<1>9. PICK s \in Workspace : s = screen[t]
  BY <1>1, WorkspaceIs
<1>10. CASE AttendanceChecked(t)
  <2>1. ~In(t, "step", Saving)
    BY <1>10, SavesLater DEF AttendanceChecked, In
  <2>2. PICK shown : Show(t, shown)
    BY <1>10 DEF AttendanceChecked
  <2> QED
    BY <1>6, <1>8, <2>1, <2>2, ShownAlone, FrozenShow
<1>11. CASE HarvestChecked(t)
  <2>1. PICK load : Show(t, [s EXCEPT !.load = load])
    BY <1>9, <1>11 DEF HarvestChecked
  <2> DEFINE shown == [s EXCEPT !.load = load]
  <2>2. shown.step = s.step /\ shown.place = "workspace" /\ Show(t, shown)
    BY <2>1 DEF Workspace
  <2> HIDE DEF shown
  <2>3. screen'[t] = shown /\ \A u \in Tabs \ {t} : screen'[u] = screen[u]
    BY <2>2, ShownAlone
  <2>4. In(t, "step", Saving) => In(t, "step", Saving)'
    BY <1>9, <2>2, <2>3 DEF In, At
  <2> QED
    BY <1>6, <1>8, <2>3, <2>4, FrozenShow
<1> QED
  BY <1>10, <1>11

\* What is put is what the record says already, or what nobody has queued.
LEMMA PutFrozen ==
  ASSUME FrozenInv, ScreensInv', Forward, NEW t \in Tabs,
         AttendanceCached(t) \/ HarvestCached(t) \/ Saved(t)
  PROVE  FrozenInv'
<1> USE TypeParts DEF FrozenInv, ScreensInv, DeviceInv
<1>1. PutDraft(t)
  BY DEF AttendanceCached, HarvestCached, Saved
<1>2. PICK s : Show(t, s)
  BY DEF AttendanceCached, HarvestCached, Saved
<1>3. PICK w \in Write : w = tabs[t].write /\ w # NoWrite
  BY <1>1, MarksAreApart DEF PutDraft, PagesTyped, PageMemory
<1>4. w.id \in Ids /\ w.draft \in Draft
  BY DEF Write
<1>5. /\ drafts' = [drafts EXCEPT ![w.id] = w.draft]
      /\ tabs' = [tabs EXCEPT ![t].write = NoWrite] /\ outbox' = outbox /\ rows' = rows
  BY <1>1, <1>3 DEF PutDraft, server
<1>6. \A u \in Tabs : tabs'[u].write \in {tabs[u].write, NoWrite} /\ tabs'[t].write = NoWrite
  BY <1>5 DEF PagesTyped, PageMemory
<1>7. WritesStay
  BY <1>2, <1>6, ShownAlone, OneScreenMoves
<1>8. ASSUME NEW i \in Ids \ born, NEW o \in Ops, OpOf(o, i)
      PROVE  /\ drafts'[i].state # "editing"
             /\ drafts'[i].content \in {drafts[i].content, outbox[o].content} \/ Corrected(i)'
  <2>1. drafts[i].state # "editing"
    BY <1>8 DEF FrozenDraft
  <2>2. CASE drafts'[i] = drafts[i]
    BY <2>1, <2>2
  <2>3. CASE drafts'[i] # drafts[i]
    <3>1. i = w.id /\ drafts'[i] = w.draft
      BY <1>4, <1>5, <2>3 DEF DraftsTyped
    <3>2. w.kind # "save" /\ w.draft.state = "synced"
      BY <1>3, <1>4, <1>8, <3>1 DEF WriteHeld, PendingSave
    <3>3. Submitted(i) /\ (rows[i].content = w.draft.content \/ rows[i].corrected)
      BY <1>3, <3>1, <3>2 DEF PageSound, Recorded
    <3>4. CASE rows[i].corrected
      BY <1>5, <3>1, <3>2, <3>3, <3>4 DEF Corrected, Submitted
    <3>5. CASE ~rows[i].corrected
      <4>1. PICK p \in Ops : OpOf(p, i) /\ outbox[p].content = rows[i].content
        BY <3>3, <3>5 DEF RowOfOps, Submitted
      <4>2. drafts[i].content = outbox[p].content
        BY <3>5, <4>1 DEF FrozenDraft, Corrected
      <4> QED
        BY <3>1, <3>2, <3>3, <3>5, <4>1, <4>2
    <3> QED
      BY <3>4, <3>5
  <2> QED
    BY <2>2, <2>3
<1>9. \A o \in Ops : Used(o)' => Used(o)
  BY <1>5 DEF Used
<1> QED
  BY <1>5, <1>7, <1>8, <1>9, FrozenStep

\* The page that queues is the one that would save, and it does not: no save is
\* pending that would put the draft back.
LEMMA NoSavePending ==
  ASSUME OnePage, FrozenInv, NEW t \in scenario.pages, In(t, "step", {"queueing"})
  PROVE  \A u \in Tabs : ~PendingSave(u)
<1> SUFFICES ASSUME NEW u \in Tabs, PendingSave(u) PROVE FALSE
  OBVIOUS
<1>1. u \in scenario.pages /\ In(u, "step", Saving)
  BY DEF FrozenInv, WriteHeld
<1>2. scenario \in Scenarios
  BY TypeParts DEF FrozenInv, ScreensInv, DeviceInv, EnvTyped
<1>3. u = t
  BY <1>1, <1>2 DEF OnePage
<1> QED
  BY <1>1, <1>3 DEF In, Saving

LEMMA QueuedFrozen ==
  ASSUME OnePage, FrozenInv, ScreensInv', Forward, NEW t \in scenario.pages, t \in Tabs, Queued(t)
  PROVE  FrozenInv'
<1> USE TypeParts DEF FrozenInv, ScreensInv, DeviceInv
<1>1. In(t, "step", {"queueing"})
  BY DEF Queued
<1>2. PICK i \in Ids : i = screen[t].id
  BY <1>1, WorkspaceIs DEF In
<1>3. CASE UNCHANGED vars
  BY <1>3, HandlersFrozen
<1>4. ASSUME NEW o \in Ops, QueueSubmission(t, i, o) \/ QueueHarvestSubmission(t, i, o)
      PROVE  FrozenInv'
  <2>1. Enqueue(tabs[t].user, i, o) /\ drafts[i] # NoDraft
    BY <1>4 DEF QueueSubmission, QueueHarvestSubmission, OwnDraft
  <2>2. drafts[i] \in Draft /\ tabs' = tabs /\ rows' = rows
    BY <2>1 DEF DraftsTyped, Enqueue, server
  <2>3. /\ drafts'[i].state = "pending_submission" /\ drafts'[i].content = drafts[i].content
        /\ \A j \in Ids \ {i} : drafts'[j] = drafts[j]
    BY <2>1, <2>2 DEF Enqueue, DraftsTyped, Draft
  <2>4. /\ outbox'[o].target = i /\ outbox'[o].content = drafts[i].content
        /\ \A p \in Ops \ {o} : outbox'[p] = outbox[p]
    BY <2>1 DEF Enqueue, OutboxTyped
  <2>5. \A u \in Tabs : ~PendingSave(u)
    BY <1>1, NoSavePending
  <2>6. PICK s : Show(t, s)
    BY DEF Queued
  <2>7. WritesStay
    BY <1>1, <2>2, <2>6, ShownAlone, OneScreenMoves DEF In, Saving
  <2>8. ASSUME NEW j \in Ids \ born, NEW p \in Ops, OpOf(p, j)
        PROVE  drafts'[j].state # "editing" /\ drafts'[j].content = drafts[j].content
    BY <2>3, <2>8 DEF FrozenDraft
  <2>9. ASSUME NEW p \in Ops, Used(p)', ~Used(p)
        PROVE  /\ drafts'[outbox'[p].target].state # "editing"
               /\ drafts'[outbox'[p].target].content = outbox'[p].content
    <3>1. p = o
      BY <2>4, <2>9 DEF Used
    <3> QED
      BY <2>3, <2>4, <3>1
  <2> HIDE DEF FrozenInv, ScreensInv, DeviceInv
  <2> QED
    BY <2>2, <2>5, <2>7, <2>8, <2>9, FrozenStep
<1>5. scenario.ops \subseteq Ops
  BY ScenarioTyped
<1> QED
  BY <1>2, <1>3, <1>4, <1>5 DEF Queued

LEMMA ControlFrozen ==
  ASSUME FrozenInv, ScreensInv', Forward, NEW t \in scenario.pages, t \in Tabs, Control(t)
  PROVE  FrozenInv'
<1>1. scenario.ids \subseteq Ids
  BY ScenarioTyped, TypeParts DEF FrozenInv, ScreensInv, DeviceInv
<1>2. CASE Save(t) \/ OpenReview(t) \/ CloseReview(t) \/ Submit(t)
  <2>1. At(t, "workspace")
    BY <1>2, ViewsAreLoaded DEF Save, OpenReview, CloseReview, Submit
  <2>2. \/ \E step \in Saving : StartSave(t, step)
        \/ \E review \in BOOLEAN : UNCHANGED vars /\ Show(t, [screen[t] EXCEPT !.review = review])
        \/ Submit(t) /\ UNCHANGED vars
    BY <1>2 DEF Save, OpenReview, CloseReview, Submit, Saving
  <2> QED
    BY <2>1, <2>2, StartSaveFrozen, ReviewFrozen, HandlersFrozen
<1>3. CASE ~(Save(t) \/ OpenReview(t) \/ CloseReview(t) \/ Submit(t))
  BY <1>1, <1>3, OpensFrozen, StartDraftFrozen, EditFrozen, HandlersFrozen, DiscardFrozen,
     CorrectFrozen DEF Control
<1> QED
  BY <1>2, <1>3

LEMMA ScreensNextFrozen ==
  ASSUME OnePage, FrozenInv, ScreensInv', Forward, ScreensNext
  PROVE  FrozenInv'
<1>1. scenario.pages \subseteq Tabs /\ scenario.engines \subseteq Loops
  BY ScenarioTyped, TypeParts DEF FrozenInv, ScreensInv, DeviceInv
<1>2. ASSUME NEW t \in scenario.pages, t \in Tabs, Proceed(t)
      PROVE  FrozenInv'
  BY <1>2, FetchedFrozen, CheckedFrozen, PutFrozen, LoadsFrozen, QueuedFrozen, RefreshFrozen, HandlersFrozen
     DEF Proceed
<1>3. ASSUME NEW r \in Loops, StartRegistrar(r) \/ GiveUp(r), UNCHANGED screen
      PROVE  FrozenInv'
  <2>1. UNCHANGED store /\ rows' = rows /\ tabs' = tabs
    BY <1>3 DEF StartRegistrar, GiveUp, server
  <2> QED
    BY <1>3, <2>1, FrozenStill
<1> QED
  BY <1>1, <1>2, <1>3, ControlFrozen, SessionFrozen, EngineFrozen, ElsewhereFrozen, ServeFrozen
     DEF ScreensNext

LEMMA FrozenStart == ASSUME ScreensInit PROVE FrozenInv
<1>1. /\ \A o \in Ops : outbox[o] = NoOp
      /\ \A i \in Ids \ born : rows[i] = NoRow
      /\ \A t \in Tabs : tabs[t].write = NoWrite
  BY DEF ScreensInit, Init, NewTab
<1>2. \A i \in Ids \ born : FrozenDraft(i) /\ RowOfOps(i)
  BY <1>1 DEF FrozenDraft, RowOfOps, OpOf, Used
<1>3. \A t \in Tabs : WriteHeld(t)
  BY <1>1 DEF WriteHeld, PendingSave
<1> QED
  BY <1>2, <1>3, ScreensStart DEF FrozenInv

LEMMA FrozenInvariant == ASSUME OnePage PROVE ScreensSpec => []FrozenInv
<1>1. ASSUME FrozenInv, [ScreensNext]_screenVars
      PROVE  FrozenInv'
  <2>1. Forward /\ ScreensInv'
    BY <1>1, ScreensNextSound, ScreensStutter DEF FrozenInv
  <2>2. CASE UNCHANGED screenVars
    BY <1>1, <2>1, <2>2, FrozenStill DEF screenVars, vars, server
  <2> QED
    BY <1>1, <2>1, <2>2, ScreensNextFrozen
<1> QED
  BY <1>1, FrozenStart, PTL DEF ScreensSpec

\* While one page is open, what a user queued is what the device keeps: neither a late
\* save, nor a reload that caches the record, nor the engine's answer changes the draft
\* of an operation that is outstanding, explicit corrections of the record aside.
THEOREM QueuedStaysFrozen == OnePage => (ScreensSpec => []QueuedIsFrozen)
<1> SUFFICES ASSUME OnePage PROVE ScreensSpec => []QueuedIsFrozen
  OBVIOUS
<1>1. ASSUME FrozenInv PROVE QueuedIsFrozen
  <2> SUFFICES ASSUME NEW i \in Ids \ born, NEW o \in Outstanding(i)
               PROVE  /\ drafts[i].state # "editing"
                      /\ \/ drafts[i].content = outbox[o].content
                         \/ Submitted(i) /\ rows[i].corrected
    BY DEF QueuedIsFrozen
  <2>1. OpOf(o, i)
    BY DEF Outstanding, OpOf, Used, NoOp
  <2> QED
    BY <1>1, <2>1 DEF FrozenInv, FrozenDraft, Outstanding, Corrected
<1> QED
  BY <1>1, FrozenInvariant, PTL
=============================================================================
