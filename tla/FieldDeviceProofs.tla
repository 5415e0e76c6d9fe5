-------------------------- MODULE FieldDeviceProofs --------------------------
(***************************************************************************)
(* The safety invariants of FieldDevice, for every number of accounts,     *)
(* pages, engine runs, drafts, operations and disruptions: what leaves the *)
(* device is in the server's books, what says it waits is accounted for,   *)
(* and a record is submitted by one operation.                             *)
(*                                                                         *)
(* The invariant, DeviceInv, follows an operation from the outbox through  *)
(* the run that took it on, the request, the receipt and the answer back   *)
(* to the outbox.  Forward says what no step undoes; every conjunct of the *)
(* invariant that a step does not touch survives because of it.            *)
(***************************************************************************)
EXTENDS FieldDevice, FiniteSetTheorems, WellFoundedInduction, TLAPS

-----------------------------------------------------------------------------
(* The type invariant, by the part of the state it is about.               *)

PageMemory == [csrf: Nat, signedOut: BOOLEAN, user: Users \cup {NoUser},
               suspend: Users \cup {NoUser}, write: Write \cup {NoWrite}]

Reply == [result: SyncResults \cup {"unreachable", "invalid", "unauthenticated", "forbidden"},
          version: Nat] \cup {Undecided}

EngineRun == [pc: {"idle", "checking", "start", "mark", "markDraft", "send", "waiting",
                   "settle", "settleDraft"},
              owner: Users \cup {NoUser}, asked: Nat, todo: SUBSET Ops,
              request: Request \cup {NotSent}, reply: Reply]

EnvTyped     == scenario \in Scenarios /\ disruptions \in 0..scenario.disruptions
DraftsTyped  == drafts \in [Ids -> Draft \cup {NoDraft}]
OutboxTyped  == outbox \in [Ops -> Operation \cup {NoOp}]
SessionTyped ==
  /\ leases \in [Users -> Lease] /\ newest \in Users \cup {NoUser}
  /\ logins \in Seq(Users) /\ live \subseteq 1..Len(logins) /\ cookie \in 0..Len(logins)
  /\ permitted \subseteq Users
PagesTyped   == tabs \in [Tabs -> PageMemory]
LoopsTyped   == loops \in [Loops -> EngineRun]
RowsTyped    == rows \in [Ids -> Row \cup {NoRow}]
BooksTyped   == receipts \in [Ops -> Receipt \cup {Undecided}] /\ vain \subseteq Ops
WireTyped    == wire \subseteq Request

\* TypeOK is the conjunction of these parts.
LEMMA TypeParts ==
  TypeOK <=> /\ EnvTyped /\ DraftsTyped /\ OutboxTyped /\ SessionTyped /\ PagesTyped
             /\ LoopsTyped /\ RowsTyped /\ BooksTyped /\ WireTyped
BY DEF TypeOK, EnvTyped, DraftsTyped, OutboxTyped, SessionTyped, PagesTyped, PageMemory,
       LoopsTyped, EngineRun, Reply, RowsTyped, BooksTyped, WireTyped

LEMMA TypePartsNext ==
  TypeOK' <=> /\ EnvTyped' /\ DraftsTyped' /\ OutboxTyped' /\ SessionTyped' /\ PagesTyped'
              /\ LoopsTyped' /\ RowsTyped' /\ BooksTyped' /\ WireTyped'
BY DEF TypeOK, EnvTyped, DraftsTyped, OutboxTyped, SessionTyped, PagesTyped, PageMemory,
       LoopsTyped, EngineRun, Reply, RowsTyped, BooksTyped, WireTyped

\* What a scenario may bring.
LEMMA ScenarioTyped ==
  ASSUME EnvTyped
  PROVE  /\ scenario.pages \subseteq Tabs /\ scenario.engines \subseteq Loops
         /\ scenario.ids \subseteq Ids /\ scenario.ops \subseteq Ops
         /\ scenario.disruptions \in Nat /\ domain \in {"attendance", "harvest"}
BY ScenariosAreSuch DEF EnvTyped, Scenario, domain

\* No request is the mark of a run that has sent none, and so on.
LEMMA MarksAreApart ==
  /\ NotSent \notin Request /\ NoWrite \notin Write /\ NoDraft \notin Draft
  /\ NoOp \notin Operation /\ NoRow \notin Row /\ Undecided \notin Receipt
<1>1. NotSent \notin Request
  <2> SUFFICES ASSUME NotSent \in Request PROVE FALSE
    OBVIOUS
  <2>1. "by" \in DOMAIN NotSent
    BY DEF Request
  <2>2. DOMAIN NotSent = {"op"}
    BY DEF NotSent
  <2> QED
    BY <2>1, <2>2
<1>2. NoWrite \notin Write /\ NoDraft \notin Draft
  BY DEF NoWrite, Write, NoDraft, Draft
<1>3. NoOp \notin Operation /\ NoRow \notin Row /\ Undecided \notin Receipt
  BY DEF NoOp, Operation, NoRow, Row, Undecided, Receipt, SyncResults
<1> QED
  BY <1>1, <1>2, <1>3

\* A set of operations that is not empty has a first one: UUIDs are well ordered.
LEMMA FirstIsIn == ASSUME NEW S, S \subseteq Nat, S # {} PROVE Min(S) \in S
<1>1. PICK x \in S : \A y \in S : <<y, x>> \notin OpToRel(<, Nat)
  BY NatLessThanWellFounded, WFMin, Zenon
<1>2. \A y \in S : y < x => <<y, x>> \in OpToRel(<, Nat)
  BY Zenon DEF OpToRel
<1>3. \A y \in S : ~(y < x)
  BY <1>1, <1>2, Zenon
<1>4. \A y \in S : x =< y
  BY <1>3
<1> QED
  BY <1>4 DEF Min

-----------------------------------------------------------------------------
(* The invariant.                                                          *)

\* Operation o was queued at some time.
Used(o) == outbox[o] # NoOp

\* What o says is in the server's books, or a failed commit lost it.
Arrived(o) == Recorded(outbox[o].target, outbox[o].content) \/ o \in vain

\* Draft i is not lost: it is in the books, or waits here, or a failed commit lost it.
Kept(i) == Submitted(i) \/ Outstanding(i) # {} \/ LostFor(i)

\* An operation belongs to a draft; only what was queued has been decided; what was
\* applied is in the books, and what has left the device has arrived.
OpSound(o) ==
  /\ Used(o) => drafts[outbox[o].target] # NoDraft
  /\ receipts[o] # Undecided \/ o \in vain => Used(o)
  /\ Confirms(receipts[o].result) => Recorded(outbox[o].target, outbox[o].content)
  /\ outbox[o].state = "deleted" => Arrived(o)

\* What a draft says of itself.
WaitingStates == {"pending_submission", "syncing", "needs_attention"}

DraftSound(i) ==
  /\ drafts[i].state = "synced" =>
       \/ Submitted(i) /\ (domain = "harvest" => Recorded(i, drafts[i].content))
       \/ LostFor(i)
  /\ drafts[i].state \in WaitingStates => Kept(i)

\* What a page is about to put: the draft it edits, or what the server had.
PageSound(t) ==
  LET w == tabs[t].write IN
  w # NoWrite =>
    /\ w.draft.state \in {"editing", "synced"}
    /\ w.draft.state = "synced" => Recorded(w.id, w.draft.content)

Working == {"mark", "markDraft", "send", "waiting", "settle", "settleDraft"}

\* A run at work has operations to do; the answer it waits for is about the first
\* of them, and when that is a confirmation the operation has arrived.
RunSound(r) ==
  /\ loops[r].pc \in Working => loops[r].todo # {} /\ \A o \in loops[r].todo : Used(o)
  /\ loops[r].request # NotSent =>
       loops[r].pc = "waiting" /\ loops[r].request.op = Current(r)
  /\ loops[r].pc = "settle" /\ Confirms(loops[r].reply.result) => Arrived(Current(r))

RequestSound(q) == Used(q.op)

DeviceInv ==
  /\ TypeOK
  /\ \A o \in Ops : OpSound(o)
  /\ \A i \in Ids : DraftSound(i)
  /\ \A t \in Tabs : PageSound(t)
  /\ \A r \in Loops : RunSound(r)
  /\ \A q \in wire : RequestSound(q)
  /\ OneSubmissionPerRecord

-----------------------------------------------------------------------------
(* What no step undoes.                                                    *)

\* A queued operation keeps what it says and whom it is about, and never comes back
\* once it has left; a draft of the device never disappears.
StoreForward ==
  /\ \A o \in Ops : Used(o) =>
       /\ Used(o)' /\ outbox'[o].owner = outbox[o].owner
       /\ outbox'[o].target = outbox[o].target /\ outbox'[o].content = outbox[o].content
       /\ outbox[o].state = "deleted" => outbox'[o].state = "deleted"
  /\ \A i \in Ids : drafts[i] # NoDraft => drafts'[i] # NoDraft

\* What is submitted stays submitted and says the same, explicit corrections aside;
\* a decision is never taken back.
ServerForward ==
  /\ \A i \in Ids : Submitted(i) => Submitted(i)'
  /\ \A i \in Ids, c \in Contents : Recorded(i, c) => Recorded(i, c)'
  /\ \A o \in Ops : receipts[o] # Undecided => receipts'[o] = receipts[o]
  /\ vain \subseteq vain'

Forward == StoreForward /\ ServerForward /\ scenario' = scenario

LEMMA OpTyped ==
  ASSUME OutboxTyped, NEW o \in Ops, Used(o)
  PROVE  /\ outbox[o] \in Operation /\ outbox[o].target \in Ids
         /\ outbox[o].content \in Contents /\ outbox[o].owner \in Users
         /\ outbox[o].base \in Nat /\ outbox[o].state # "unused"
BY DEF OutboxTyped, Used, Operation

LEMMA StoreStays ==
  ASSUME UNCHANGED store
  PROVE  StoreForward
BY DEF store, StoreForward, Used

LEMMA ServerStays ==
  ASSUME UNCHANGED server
  PROVE  ServerForward
BY DEF server, ServerForward, Submitted, Recorded

LEMMA ArrivedStays ==
  ASSUME OutboxTyped, Forward, NEW o \in Ops, Used(o), Arrived(o)
  PROVE  Arrived(o)'
BY OpTyped DEF Arrived, Forward, StoreForward, ServerForward

LEMMA UsedIsKept ==
  ASSUME OutboxTyped, NEW o \in Ops, Used(o), OpSound(o)
  PROVE  Kept(outbox[o].target)
<1>1. CASE outbox[o].state = "deleted"
  BY <1>1 DEF OpSound, Arrived, Recorded, Kept, LostFor
<1>2. CASE outbox[o].state # "deleted"
  BY <1>2, OpTyped DEF Kept, Outstanding
<1> QED
  BY <1>1, <1>2

\* Kept is stable: an operation that leaves the outbox has arrived.
LEMMA KeptStays ==
  ASSUME DeviceInv, OutboxTyped', Forward, \A o \in Ops : OpSound(o)', NEW i \in Ids, Kept(i)
  PROVE  Kept(i)'
<1> USE TypeParts DEF DeviceInv
<1>1. CASE Submitted(i)
  BY <1>1 DEF Forward, ServerForward, Kept
<1>2. CASE Outstanding(i) # {}
  <2>1. PICK o \in Ops : Used(o) /\ outbox[o].target = i
    BY <1>2 DEF Outstanding, Used, NoOp
  <2>2. Used(o)' /\ outbox'[o].target = i
    BY <2>1 DEF Forward, StoreForward
  <2>3. Kept(outbox[o].target)'
    <3>1. CASE outbox'[o].state = "deleted"
      BY <2>2, <3>1 DEF OpSound, Arrived, Recorded, Kept, LostFor
    <3>2. CASE outbox'[o].state # "deleted"
      BY <2>2, <3>2 DEF Kept, Outstanding, OutboxTyped, Operation, Used
    <3> QED
      BY <3>1, <3>2
  <2> QED
    BY <2>2, <2>3
<1>3. CASE LostFor(i)
  <2>1. PICK o \in vain : outbox[o].target = i
    BY <1>3 DEF LostFor
  <2>2. o \in Ops /\ Used(o)
    BY <2>1 DEF BooksTyped, OpSound
  <2> QED
    BY <2>1, <2>2 DEF Forward, StoreForward, ServerForward, Kept, LostFor
<1> QED
  BY <1>1, <1>2, <1>3 DEF Kept

-----------------------------------------------------------------------------
(* Each conjunct of the invariant survives a step that goes forward, where *)
(* the step leaves it alone.                                               *)

LEMMA OpsKeep ==
  ASSUME DeviceInv, Forward,
         \A o \in Ops :
           /\ Used(o)' => Used(o) \/ drafts'[outbox'[o].target] # NoDraft
           /\ receipts'[o] # Undecided \/ o \in vain' =>
                receipts[o] # Undecided \/ o \in vain \/ Used(o)
           /\ Confirms(receipts'[o].result) =>
                receipts'[o] = receipts[o] \/ Recorded(outbox[o].target, outbox[o].content)'
           /\ outbox'[o].state = "deleted" =>
                outbox[o].state = "deleted" \/ (Used(o) /\ Arrived(o))
  PROVE  \A o \in Ops : OpSound(o)'
<1> USE TypeParts DEF DeviceInv
<1> TAKE o \in Ops
<1>1. Used(o)' => drafts'[outbox'[o].target] # NoDraft
  BY OpTyped DEF OpSound, Forward, StoreForward
<1>2. receipts'[o] # Undecided \/ o \in vain' => Used(o) /\ Used(o)'
  BY DEF OpSound, Forward, StoreForward
<1>3. ASSUME Confirms(receipts'[o].result)
      PROVE  Recorded(outbox[o].target, outbox[o].content)'
  <2>1. Used(o)
    BY <1>2, <1>3 DEF Confirms, Undecided
  <2> QED
    BY <1>3, <2>1, OpTyped DEF OpSound, Forward, StoreForward, ServerForward
<1>4. outbox'[o].state = "deleted" => Arrived(o)'
  <2>1. outbox[o].state = "deleted" => Used(o)
    BY DEF Used, NoOp
  <2> QED
    BY <2>1, ArrivedStays DEF OpSound
<1> QED
  BY <1>1, <1>2, <1>3, <1>4 DEF OpSound

LEMMA DraftsKeep ==
  ASSUME DeviceInv, Forward, OutboxTyped', \A o \in Ops : OpSound(o)',
         \A i \in Ids : drafts'[i] = drafts[i] \/ DraftSound(i)'
  PROVE  \A i \in Ids : DraftSound(i)'
<1> USE TypeParts DEF DeviceInv
<1> SUFFICES ASSUME NEW i \in Ids, drafts'[i] = drafts[i] PROVE DraftSound(i)'
  OBVIOUS
<1>1. drafts[i].state \in WaitingStates => Kept(i)'
  BY KeptStays DEF DraftSound
<1>2. ASSUME drafts[i].state = "synced", ~LostFor(i)
      PROVE  Submitted(i)' /\ (domain' = "harvest" => Recorded(i, drafts[i].content)')
  <2>1. drafts[i].content \in Contents
    BY <1>2 DEF DraftsTyped, Draft, NoDraft
  <2> QED
    BY <1>2, <2>1 DEF DraftSound, Forward, ServerForward, domain
<1>3. LostFor(i) => LostFor(i)'
  BY DEF LostFor, OpSound, BooksTyped, Forward, StoreForward, ServerForward
<1> QED
  BY <1>1, <1>2, <1>3 DEF DraftSound

LEMMA PagesKeep ==
  ASSUME DeviceInv, Forward,
         \A t \in Tabs : tabs'[t].write \in {tabs[t].write, NoWrite} \/ PageSound(t)'
  PROVE  \A t \in Tabs : PageSound(t)'
<1> USE TypeParts DEF DeviceInv
<1> SUFFICES ASSUME NEW t \in Tabs, tabs'[t].write = tabs[t].write, tabs[t].write # NoWrite,
                    tabs[t].write.draft.state = "synced"
             PROVE  Recorded(tabs[t].write.id, tabs[t].write.draft.content)'
  BY DEF PageSound
<1>1. tabs[t].write \in Write
  BY DEF PagesTyped, PageMemory
<1>2. tabs[t].write.id \in Ids /\ tabs[t].write.draft.content \in Contents
  BY <1>1 DEF Write, Draft
<1> QED
  BY <1>2 DEF PageSound, Forward, ServerForward

LEMMA RunsKeep ==
  ASSUME DeviceInv, Forward,
         \A r \in Loops : loops'[r] \in {loops[r], IdleLoop} \/ RunSound(r)'
  PROVE  \A r \in Loops : RunSound(r)'
<1> USE TypeParts DEF DeviceInv
<1> TAKE r \in Loops
<1>1. CASE loops'[r] = loops[r]
  <2>1. loops[r].todo \subseteq Ops
    BY DEF LoopsTyped, EngineRun
  <2>2. Current(r)' = Current(r)
    BY <1>1 DEF Current
  <2>3. loops[r].pc \in Working => loops[r].todo # {} /\ \A o \in loops[r].todo : Used(o)'
    BY <2>1 DEF RunSound, Forward, StoreForward
  <2>4. ASSUME loops[r].pc = "settle", Confirms(loops[r].reply.result)
        PROVE  Arrived(Current(r))'
    <3>1. Current(r) \in loops[r].todo /\ Used(Current(r))
      BY <2>1, <2>4, FirstIsIn, OpsAreOrdered DEF RunSound, Working, Current
    <3>2. Arrived(Current(r))
      BY <2>4 DEF RunSound
    <3>3. \A o \in Ops : Used(o) /\ Arrived(o) => Arrived(o)'
      BY ArrivedStays
    <3> QED
      BY <2>1, <2>2, <3>1, <3>2, <3>3 DEF Arrived
  <2> QED
    BY <1>1, <2>2, <2>3, <2>4 DEF RunSound
<1>2. CASE loops'[r] = IdleLoop
  BY <1>2 DEF RunSound, IdleLoop, Working
<1> QED
  BY <1>1, <1>2

LEMMA RequestsKeep ==
  ASSUME DeviceInv, Forward, \A q \in wire' : q \in wire \/ (q.op \in Ops /\ Used(q.op))
  PROVE  \A q \in wire' : RequestSound(q)'
<1> USE TypeParts DEF DeviceInv
<1> TAKE q \in wire'
<1>1. q.op \in Ops /\ Used(q.op)
  BY DEF RequestSound, WireTyped, Request
<1> QED
  BY <1>1 DEF RequestSound, Used, Forward, StoreForward

\* At most one decision is taken, and it applies an operation only to a record that is
\* not submitted yet.
Decides ==
  /\ \A o, p \in Ops : receipts'[o] # receipts[o] /\ receipts'[p] # receipts[p] => o = p
  /\ \A o \in Ops : receipts'[o].result = "applied" =>
       receipts'[o] = receipts[o] \/ ~Submitted(outbox[o].target)

\* What an operation applied is submitted, so that nothing is applied to it again.
LEMMA AppliedOnceKeeps ==
  ASSUME DeviceInv, Forward, \A o \in Ops : OpSound(o)', Decides,
         \A o \in Ops : receipts'[o] # Undecided => Used(o)
  PROVE  OneSubmissionPerRecord'
<1> USE TypeParts DEF DeviceInv
<1>1. ASSUME NEW o \in Ops, receipts'[o].result = "applied"
      PROVE  /\ outbox'[o].target = outbox[o].target
             /\ receipts'[o] = receipts[o] => Submitted(outbox[o].target)
  <2>1. Used(o)
    BY <1>1 DEF Undecided
  <2>2. receipts'[o] = receipts[o] => Confirms(receipts[o].result)
    BY <1>1 DEF Confirms
  <2> QED
    BY <2>1, <2>2 DEF Forward, StoreForward, OpSound, Recorded
<1> SUFFICES ASSUME NEW o \in Ops, NEW p \in Ops, o # p,
                    receipts'[o].result = "applied", receipts'[p].result = "applied",
                    outbox'[o].target = outbox'[p].target
             PROVE  FALSE
  BY DEF OneSubmissionPerRecord
<1>2. outbox[o].target = outbox[p].target
  BY <1>1
<1>3. CASE receipts'[o] = receipts[o] /\ receipts'[p] = receipts[p]
  BY <1>2, <1>3 DEF OneSubmissionPerRecord
<1>4. CASE receipts'[o] # receipts[o] \/ receipts'[p] # receipts[p]
  BY <1>1, <1>2, <1>4 DEF Decides
<1> QED
  BY <1>3, <1>4

\* A step that changes neither the store nor the server.
LEMMA QuietKeeps ==
  ASSUME DeviceInv, TypeOK', scenario' = scenario, UNCHANGED store, UNCHANGED server,
         \A t \in Tabs : tabs'[t].write \in {tabs[t].write, NoWrite} \/ PageSound(t)',
         \A r \in Loops : loops'[r] \in {loops[r], IdleLoop} \/ RunSound(r)',
         \A q \in wire' : q \in wire \/ (q.op \in Ops /\ Used(q.op))
  PROVE  Forward /\ DeviceInv'
<1>1. Forward
  BY StoreStays, ServerStays DEF Forward
<1>2. \A o \in Ops : OpSound(o)'
  <2> USE DEF store, server
  <2>1. outbox' = outbox /\ drafts' = drafts /\ receipts' = receipts /\ vain' = vain
    OBVIOUS
  <2>2. \A o \in Ops : Used(o)' => Used(o)
    BY <2>1 DEF Used
  <2>3. \A o \in Ops : outbox'[o].state = "deleted" => outbox[o].state = "deleted"
    BY <2>1
  <2> QED
    BY <1>1, <2>1, <2>2, <2>3, OpsKeep DEF OpSound, DeviceInv
<1>3. \A i \in Ids : DraftSound(i)'
  BY <1>1, <1>2, DraftsKeep, TypePartsNext DEF store
<1>4. OneSubmissionPerRecord'
  <2>1. Decides /\ \A o \in Ops : receipts'[o] # Undecided => Used(o)
    BY DEF Decides, server, DeviceInv, OpSound
  <2> QED
    BY <1>1, <1>2, <2>1, AppliedOnceKeeps
<1> QED
  BY <1>1, <1>2, <1>3, <1>4, PagesKeep, RunsKeep, RequestsKeep DEF DeviceInv

\* A step that changes the store of the device, not the server.
LEMMA StoreStepKeeps ==
  ASSUME DeviceInv, TypeOK', scenario' = scenario, UNCHANGED server, wire' = wire, StoreForward,
         \A o \in Ops : Used(o)' => Used(o) \/ drafts'[outbox'[o].target] # NoDraft,
         \A o \in Ops : outbox'[o].state = "deleted" =>
           outbox[o].state = "deleted" \/ (Used(o) /\ Arrived(o)),
         (\A o \in Ops : OpSound(o)') =>
           \A i \in Ids : drafts'[i] = drafts[i] \/ DraftSound(i)',
         \A t \in Tabs : tabs'[t].write \in {tabs[t].write, NoWrite},
         \A r \in Loops : loops'[r] \in {loops[r], IdleLoop} \/ RunSound(r)'
  PROVE  Forward /\ DeviceInv'
<1>1. Forward
  BY ServerStays DEF Forward
<1>2. \A o \in Ops : OpSound(o)'
  <2>1. receipts' = receipts /\ vain' = vain
    BY DEF server
  <2> QED
    BY <1>1, <2>1, OpsKeep
<1>3. \A i \in Ids : DraftSound(i)'
  BY <1>1, <1>2, DraftsKeep, TypePartsNext
<1>4. \A t \in Tabs : PageSound(t)'
  BY <1>1, PagesKeep
<1>5. \A r \in Loops : RunSound(r)'
  BY <1>1, RunsKeep
<1>6. \A q \in wire' : RequestSound(q)'
  <2>1. \A q \in wire' : q \in wire
    OBVIOUS
  <2> QED
    BY <1>1, <2>1, RequestsKeep
<1>7. OneSubmissionPerRecord'
  <2>1. Decides /\ \A o \in Ops : receipts'[o] # Undecided => Used(o)
    BY DEF Decides, server, DeviceInv, OpSound
  <2> QED
    BY <1>1, <1>2, <2>1, AppliedOnceKeeps
<1> QED
  BY <1>1, <1>2, <1>3, <1>4, <1>5, <1>6, <1>7 DEF DeviceInv

\* A step that changes the server, not the store of the device.
LEMMA ServerStepKeeps ==
  ASSUME DeviceInv, TypeOK', scenario' = scenario, UNCHANGED store, ServerForward,
         tabs' = tabs, wire' \subseteq wire,
         \A o \in Ops : receipts'[o] # Undecided \/ o \in vain' =>
           receipts[o] # Undecided \/ o \in vain \/ Used(o),
         \A o \in Ops : Confirms(receipts'[o].result) =>
           receipts'[o] = receipts[o] \/ Recorded(outbox[o].target, outbox[o].content)',
         Decides,
         \A r \in Loops : loops'[r] \in {loops[r], IdleLoop} \/ RunSound(r)'
  PROVE  Forward /\ DeviceInv'
<1>1. Forward
  BY StoreStays DEF Forward
<1>2. \A o \in Ops : OpSound(o)'
  <2>1. \A o \in Ops : Used(o)' => Used(o)
    BY DEF Used, store
  <2>2. \A o \in Ops : outbox'[o].state = "deleted" => outbox[o].state = "deleted"
    BY DEF store
  <2> QED
    BY <1>1, <2>1, <2>2, OpsKeep
<1>3. \A i \in Ids : DraftSound(i)'
  BY <1>1, <1>2, DraftsKeep, TypePartsNext DEF store
<1>4. OneSubmissionPerRecord'
  <2>1. \A o \in Ops : receipts'[o] # Undecided => Used(o)
    BY DEF DeviceInv, OpSound
  <2> QED
    BY <1>1, <1>2, <2>1, AppliedOnceKeeps
<1>5. \A t \in Tabs : PageSound(t)'
  BY <1>1, PagesKeep
<1>6. \A q \in wire' : RequestSound(q)'
  <2>1. \A q \in wire' : q \in wire
    OBVIOUS
  <2> QED
    BY <1>1, <2>1, RequestsKeep
<1> QED
  BY <1>1, <1>2, <1>3, <1>4, <1>5, <1>6, RunsKeep DEF DeviceInv

-----------------------------------------------------------------------------
(* Leases and sessions.                                                    *)

\* The parts of the type invariant that quiet steps leave alone.
LEMMA QuietTyped ==
  ASSUME DeviceInv, scenario' = scenario, UNCHANGED store, UNCHANGED server, wire' = wire,
         disruptions' = disruptions \/ Disrupt,
         SessionTyped', PagesTyped', LoopsTyped'
  PROVE  TypeOK'
<1> USE TypeParts DEF DeviceInv
<1>1. EnvTyped'
  BY ScenarioTyped DEF EnvTyped, Disrupt
<1>2. DraftsTyped' /\ OutboxTyped'
  BY DEF DraftsTyped, OutboxTyped, store
<1>3. RowsTyped' /\ BooksTyped' /\ WireTyped'
  BY DEF RowsTyped, BooksTyped, WireTyped, server
<1> QED
  BY <1>1, <1>2, <1>3, TypePartsNext

\* Steps of a page that change its memory and the session, nothing else.
LEMMA SessionStepKeeps ==
  ASSUME DeviceInv, scenario' = scenario, UNCHANGED store, UNCHANGED server, wire' = wire,
         disruptions' = disruptions \/ Disrupt, SessionTyped', PagesTyped', loops' = loops,
         \A t \in Tabs : tabs'[t].write \in {tabs[t].write, NoWrite}
  PROVE  Forward /\ DeviceInv'
<1>1. LoopsTyped'
  BY TypeParts DEF DeviceInv, LoopsTyped
<1>2. TypeOK'
  BY <1>1, QuietTyped
<1>3. \A r \in Loops : loops'[r] \in {loops[r], IdleLoop}
  OBVIOUS
<1>4. \A q \in wire' : q \in wire
  OBVIOUS
<1> QED
  BY <1>2, <1>3, <1>4, QuietKeeps

LEMMA RecordLeaseTyped ==
  ASSUME SessionTyped, NEW u \in Users, RecordLease(u) \/ UNCHANGED <<leases, newest>>
  PROVE  leases' \in [Users -> Lease] /\ newest' \in Users \cup {NoUser}
<1>1. CASE UNCHANGED <<leases, newest>>
  BY <1>1 DEF SessionTyped
<1>2. CASE RecordLease(u)
  <2> DEFINE lease == [allowed |-> u \in permitted, expired |-> FALSE]
  <2>1. (u \in permitted) \in BOOLEAN
    OBVIOUS
  <2>2. lease \in Lease
    BY <2>1, Zenon DEF Lease
  <2>3. leases' = [leases EXCEPT ![u] = lease] /\ newest' = u
    BY <1>2 DEF RecordLease
  <2> HIDE DEF lease
  <2> QED
    BY <2>2, <2>3 DEF SessionTyped
<1> QED
  BY <1>1, <1>2

\* What updates the memory of a page leaves the write it is about to make.
LEMMA RefreshedTyped ==
  ASSUME PagesTyped, NEW t \in Tabs, NEW n \in Nat
  PROVE  /\ Refreshed(t, n) \in [Tabs -> PageMemory]
         /\ \A s \in Tabs : Refreshed(t, n)[s].write = tabs[s].write
<1> DEFINE one == [tabs EXCEPT ![t].csrf = n]
<1>1. one \in [Tabs -> PageMemory] /\ \A s \in Tabs : one[s].write = tabs[s].write
  BY DEF PagesTyped, PageMemory
<1>2. Refreshed(t, n) = [one EXCEPT ![t].signedOut = FALSE]
  BY DEF Refreshed, PagesTyped, PageMemory
<1> HIDE DEF one
<1> QED
  BY <1>1, <1>2 DEF PageMemory

LEMMA ClearedTyped ==
  ASSUME PagesTyped, NEW t \in Tabs
  PROVE  /\ Cleared(t) \in [Tabs -> PageMemory]
         /\ \A s \in Tabs : Cleared(t)[s].write = tabs[s].write
<1> DEFINE one == [tabs EXCEPT ![t].csrf = 0]
<1>1. one \in [Tabs -> PageMemory] /\ \A s \in Tabs : one[s].write = tabs[s].write
  BY DEF PagesTyped, PageMemory
<1>2. Cleared(t) = [one EXCEPT ![t].signedOut = TRUE]
  BY DEF Cleared, PagesTyped, PageMemory
<1> HIDE DEF one
<1> QED
  BY <1>1, <1>2 DEF PageMemory

LEMMA PageUserTyped ==
  ASSUME NEW pages \in [Tabs -> PageMemory], NEW t \in Tabs, NEW u \in Users \cup {NoUser},
         \A s \in Tabs : pages[s].write = tabs[s].write,
         tabs' = [pages EXCEPT ![t].user = u]
  PROVE  PagesTyped' /\ \A s \in Tabs : tabs'[s].write = tabs[s].write
BY DEF PageMemory, PagesTyped

LEMMA HolderTyped ==
  ASSUME SessionTyped, NEW n \in live
  PROVE  Holder(n) \in Users
BY DEF SessionTyped, Holder

WritesKept == \A t \in Tabs : tabs'[t].write = tabs[t].write

LEMMA LoginKeeps ==
  ASSUME DeviceInv, NEW t \in Tabs, NEW u \in Users, Login(t, u)
  PROVE  Forward /\ DeviceInv' /\ WritesKept
<1> USE TypeParts DEF DeviceInv, Login
<1>1. SessionTyped'
  <2>1. leases' \in [Users -> Lease] /\ newest' \in Users \cup {NoUser}
    BY RecordLeaseTyped DEF PreserveLease
  <2>2. logins \in Seq(Users) /\ Len(logins) \in Nat
    BY DEF SessionTyped
  <2>3. logins' \in Seq(Users) /\ Len(logins') = Len(logins) + 1
    BY <2>2
  <2>4. live' \subseteq 1..Len(logins') /\ cookie' \in 0..Len(logins')
    BY <2>2, <2>3 DEF SessionTyped
  <2> QED
    BY <2>1, <2>3, <2>4 DEF SessionTyped
<1>2. cookie' \in Nat
  BY <1>1 DEF SessionTyped
<1>3. PagesTyped' /\ \A s \in Tabs : tabs'[s].write = tabs[s].write
  <2>1. NoUser \in Users \cup {NoUser}
    OBVIOUS
  <2> DEFINE n == Len(logins) + 1
             page == Refreshed(t, n)
  <2>2. n \in Nat /\ tabs' = [page EXCEPT ![t].user = NoUser]
    BY <1>2
  <2>3. page \in [Tabs -> PageMemory] /\ \A s \in Tabs : page[s].write = tabs[s].write
    BY <2>2, RefreshedTyped
  <2> HIDE DEF page
  <2> QED
    BY <2>1, <2>2, <2>3, PageUserTyped
<1> QED
  BY <1>1, <1>3, SessionStepKeeps DEF env, WritesKept

LEMMA SignOutKeeps ==
  ASSUME DeviceInv, NEW t \in Tabs, NEW heard \in BOOLEAN, SignOut(t, heard)
  PROVE  Forward /\ DeviceInv' /\ WritesKept
<1> USE TypeParts DEF DeviceInv, SignOut
<1>1. SessionTyped'
  BY DEF SessionTyped
<1>2. Holder(cookie) \in Users
  BY HolderTyped
<1>3. PagesTyped' /\ \A s \in Tabs : tabs'[s].write = tabs[s].write
  <2>1. CASE ~heard
    BY <2>1 DEF PagesTyped
  <2>2. CASE heard
    <3> DEFINE page == [Cleared(t) EXCEPT ![t].suspend = Holder(cookie)]
    <3>1. page \in [Tabs -> PageMemory] /\ \A s \in Tabs : page[s].write = tabs[s].write
      BY <1>2, ClearedTyped DEF PageMemory
    <3>2. tabs' = [page EXCEPT ![t].user = NoUser]
      BY <2>2, <1>2, ClearedTyped DEF PageMemory
    <3>3. NoUser \in Users \cup {NoUser}
      OBVIOUS
    <3> HIDE DEF page
    <3> QED
      BY <3>1, <3>2, <3>3, PageUserTyped
  <2> QED
    BY <2>1, <2>2
<1> QED
  BY <1>1, <1>3, SessionStepKeeps DEF env, WritesKept

LEMMA SuspendLeaseKeeps ==
  ASSUME DeviceInv, NEW t \in Tabs, SuspendLease(t)
  PROVE  Forward /\ DeviceInv' /\ WritesKept
<1> USE TypeParts DEF DeviceInv, SuspendLease
<1>1. SessionTyped'
  BY DEF SessionTyped, Lease, PagesTyped, PageMemory
<1>2. PagesTyped' /\ \A s \in Tabs : tabs'[s].write = tabs[s].write
  BY DEF PagesTyped, PageMemory
<1> QED
  BY <1>1, <1>2, SessionStepKeeps DEF env, WritesKept

LEMMA OpenOnlineKeeps ==
  ASSUME DeviceInv, NEW t \in Tabs, OpenOnline(t)
  PROVE  Forward /\ DeviceInv' /\ WritesKept
<1> USE TypeParts DEF DeviceInv, OpenOnline
<1>1. Holder(cookie) \in Users /\ cookie \in Nat
  BY HolderTyped DEF SessionTyped
<1>2. SessionTyped'
  BY <1>1, RecordLeaseTyped DEF SessionTyped, PreserveLease
<1>3. PagesTyped' /\ \A s \in Tabs : tabs'[s].write = tabs[s].write
  <2>1. tabs' = [Refreshed(t, cookie) EXCEPT ![t].user = Holder(cookie)]
    OBVIOUS
  <2> QED
    BY <1>1, <2>1, RefreshedTyped, PageUserTyped
<1> QED
  BY <1>2, <1>3, SessionStepKeeps DEF env, WritesKept

LEMMA OpenOfflineKeeps ==
  ASSUME DeviceInv, NEW t \in Tabs, NEW unauthenticated \in BOOLEAN,
         OpenOffline(t, unauthenticated)
  PROVE  Forward /\ DeviceInv' /\ WritesKept
<1> USE TypeParts DEF DeviceInv, OpenOffline
<1>1. SessionTyped'
  BY DEF SessionTyped, session
<1>2. PagesTyped' /\ \A s \in Tabs : tabs'[s].write = tabs[s].write
  <2> DEFINE u == IF ValidLease(newest) THEN newest ELSE NoUser
  <2>1. u \in Users \cup {NoUser}
    BY DEF ValidLease
  <2>2. tabs' = [Cleared(t) EXCEPT ![t].user = u] \/ tabs' = [tabs EXCEPT ![t].user = u]
    OBVIOUS
  <2> HIDE DEF u
  <2>3. CASE tabs' = [Cleared(t) EXCEPT ![t].user = u]
    <3> DEFINE page == Cleared(t)
    <3>1. page \in [Tabs -> PageMemory] /\ \A s \in Tabs : page[s].write = tabs[s].write
      BY ClearedTyped
    <3> HIDE DEF page
    <3> QED
      BY <2>1, <2>3, <3>1, PageUserTyped DEF page
  <2>4. CASE tabs' = [tabs EXCEPT ![t].user = u]
    BY <2>1, <2>4, PageUserTyped DEF PagesTyped
  <2> QED
    BY <2>2, <2>3, <2>4
<1> QED
  BY <1>1, <1>2, SessionStepKeeps DEF WritesKept

LEMMA LeaseExpiresKeeps ==
  ASSUME DeviceInv, NEW u \in Users, LeaseExpires(u)
  PROVE  Forward /\ DeviceInv'
<1> USE TypeParts DEF DeviceInv, LeaseExpires
<1>1. SessionTyped' /\ PagesTyped'
  BY DEF SessionTyped, Lease, PagesTyped
<1> QED
  BY <1>1, SessionStepKeeps

LEMMA ChangePermissionKeeps ==
  ASSUME DeviceInv, NEW u \in Users, ChangePermission(u)
  PROVE  Forward /\ DeviceInv'
<1> USE TypeParts DEF DeviceInv, ChangePermission
<1>1. SessionTyped' /\ PagesTyped'
  BY DEF SessionTyped, PagesTyped
<1> QED
  BY <1>1, SessionStepKeeps

LEMMA SessionEndsKeeps ==
  ASSUME DeviceInv, NEW n \in live, SessionEnds(n)
  PROVE  Forward /\ DeviceInv'
<1> USE TypeParts DEF DeviceInv, SessionEnds
<1>1. SessionTyped' /\ PagesTyped'
  BY DEF SessionTyped, PagesTyped
<1> QED
  BY <1>1, SessionStepKeeps

LEMMA ClosePageKeeps ==
  ASSUME DeviceInv, NEW t \in Tabs, ClosePage(t)
  PROVE  Forward /\ DeviceInv'
<1> USE TypeParts DEF DeviceInv, ClosePage
<1>1. SessionTyped'
  BY DEF SessionTyped, session
<1>2. PagesTyped' /\ \A s \in Tabs : tabs'[s].write \in {tabs[s].write, NoWrite}
  BY Nobody DEF PagesTyped, PageMemory, NewTab
<1>3. IdleLoop \in EngineRun
  BY DEF IdleLoop, EngineRun, NotSent, Reply
<1>4. LoopsTyped' /\ \A r \in Loops : loops'[r] \in {loops[r], IdleLoop}
  BY <1>3 DEF LoopsTyped
<1>5. TypeOK'
  BY <1>1, <1>2, <1>4, QuietTyped
<1>6. \A q \in wire' : q \in wire
  OBVIOUS
<1> QED
  BY <1>2, <1>4, <1>5, <1>6, QuietKeeps

-----------------------------------------------------------------------------
(* The store.                                                              *)

\* The parts of the type invariant that a step of the store leaves alone.
LEMMA StoreStepTyped ==
  ASSUME DeviceInv, UNCHANGED env, UNCHANGED session, UNCHANGED server, wire' = wire,
         DraftsTyped', OutboxTyped', PagesTyped', LoopsTyped'
  PROVE  TypeOK'
<1> USE TypeParts DEF DeviceInv
<1>1. EnvTyped' /\ SessionTyped'
  BY DEF EnvTyped, SessionTyped, env, session
<1>2. RowsTyped' /\ BooksTyped' /\ WireTyped'
  BY DEF RowsTyped, BooksTyped, WireTyped, server
<1> QED
  BY <1>1, <1>2, TypePartsNext

\* A draft changes, or appears; the outbox stays.
LEMMA DraftChangeKeeps ==
  ASSUME DeviceInv, UNCHANGED env, UNCHANGED session, UNCHANGED server, wire' = wire,
         outbox' = outbox, NEW i \in Ids, NEW d \in Draft,
         drafts' = [drafts EXCEPT ![i] = d],
         (\A o \in Ops : OpSound(o)') => DraftSound(i)',
         PagesTyped', LoopsTyped',
         \A t \in Tabs : tabs'[t].write \in {tabs[t].write, NoWrite},
         \A r \in Loops : loops'[r] \in {loops[r], IdleLoop} \/ RunSound(r)'
  PROVE  Forward /\ DeviceInv'
<1> USE TypeParts DEF DeviceInv
<1>1. DraftsTyped' /\ \A j \in Ids : drafts'[j] = IF j = i THEN d ELSE drafts[j]
  BY DEF DraftsTyped
<1>2. TypeOK'
  BY <1>1, StoreStepTyped DEF OutboxTyped
<1>3. StoreForward
  BY <1>1, MarksAreApart DEF StoreForward, Used
<1>4. \A o \in Ops : Used(o)' => Used(o)
  BY DEF Used
<1>6. (\A o \in Ops : OpSound(o)') =>
        \A j \in Ids : drafts'[j] = drafts[j] \/ DraftSound(j)'
  BY <1>1
<1>7. \A o \in Ops : outbox'[o].state = "deleted" => outbox[o].state = "deleted"
  OBVIOUS
<1>8. scenario' = scenario
  BY DEF env
<1> QED
  BY <1>2, <1>3, <1>4, <1>6, <1>7, <1>8, StoreStepKeeps

LEMMA CreateDraftKeeps ==
  ASSUME DeviceInv, NEW t \in Tabs, NEW i \in Ids, CreateDraft(t, i)
  PROVE  Forward /\ DeviceInv'
<1> USE TypeParts DEF DeviceInv, CreateDraft
<1> DEFINE d == NewDraft(tabs[t].user)
<1>1. d \in Draft
  BY ContentKinds DEF NewDraft, Draft, ValidLease
<1>2. drafts' = [drafts EXCEPT ![i] = d] /\ drafts'[i].state = "editing"
  BY DEF NewDraft, DraftsTyped
<1>3. DraftSound(i)'
  BY <1>2 DEF DraftSound, WaitingStates
<1>4. PagesTyped' /\ LoopsTyped'
  BY DEF PagesTyped, LoopsTyped
<1> HIDE DEF d
<1> QED
  BY <1>1, <1>2, <1>3, <1>4, DraftChangeKeeps

LEMMA StartWriteKeeps ==
  ASSUME DeviceInv, NEW t \in Tabs, NEW write \in Write, StartWrite(t, write),
         write.draft.state \in {"editing", "synced"},
         write.draft.state = "synced" => Recorded(write.id, write.draft.content)
  PROVE  Forward /\ DeviceInv'
<1> USE TypeParts DEF DeviceInv, StartWrite
<1>1. PagesTyped'
  BY DEF PagesTyped, PageMemory
<1>2. SessionTyped' /\ LoopsTyped'
  BY DEF SessionTyped, session, LoopsTyped
<1>3. TypeOK'
  BY <1>1, <1>2, QuietTyped DEF env
<1>4. \A s \in Tabs : tabs'[s].write = IF s = t THEN write ELSE tabs[s].write
  BY DEF PagesTyped, PageMemory
<1>5. rows' = rows
  BY DEF server
<1>6. PageSound(t)'
  <2>1. tabs'[t].write = write
    BY <1>4
  <2>2. write.draft.state = "synced" => Recorded(write.id, write.draft.content)'
    BY <1>5 DEF Recorded, Submitted
  <2> QED
    BY <2>1, <2>2 DEF PageSound
<1>7. \A s \in Tabs : tabs'[s].write \in {tabs[s].write, NoWrite} \/ PageSound(s)'
  BY <1>4, <1>6
<1>8. scenario' = scenario /\ \A r \in Loops : loops'[r] = loops[r]
  BY DEF env
<1> QED
  BY <1>3, <1>7, <1>8, QuietKeeps

LEMMA SaveDraftKeeps ==
  ASSUME DeviceInv, NEW t \in Tabs, NEW i \in Ids, NEW c \in Contents, SaveDraft(t, i, c)
  PROVE  Forward /\ DeviceInv'
<1> USE TypeParts DEF DeviceInv, SaveDraft
<1> DEFINE d == [drafts[i] EXCEPT !.content = c]
           w == [kind |-> "save", id |-> i, draft |-> d]
<1>1. d \in Draft /\ d.state = "editing"
  BY DEF DraftsTyped, Draft, Savable, OwnDraft
<1>2. w \in Write /\ w.draft.state = "editing" /\ StartWrite(t, w)
  BY <1>1 DEF Write
<1> HIDE DEF w
<1> QED
  BY <1>2, StartWriteKeeps

LEMMA FetchServerDraftKeeps ==
  ASSUME DeviceInv, NEW t \in Tabs, NEW i \in Ids, FetchServerDraft(t, i)
  PROVE  Forward /\ DeviceInv'
<1> USE TypeParts DEF DeviceInv, FetchServerDraft
<1> DEFINE d == CachedDraft(tabs[t].user, rows[i])
           w == [kind |-> "fetched", id |-> i, draft |-> d]
<1>1. rows[i] \in Row /\ tabs[t].user \in Users
  BY DEF RowsTyped, PagesTyped, PageMemory
<1>2. d \in Draft /\ d.state \in {"editing", "synced"} /\ d.content = rows[i].content
  BY <1>1 DEF CachedDraft, Draft, Row
<1>3. d.state = "synced" => Recorded(i, d.content)
  BY <1>1, <1>2 DEF CachedDraft, Recorded, Submitted, Row
<1> HIDE DEF d
<1>4. w \in Write /\ w.draft = d /\ w.id = i /\ StartWrite(t, w)
  BY <1>2 DEF Write, d
<1> HIDE DEF w
<1> QED
  BY <1>2, <1>3, <1>4, StartWriteKeeps

LEMMA CheckOwnerKeeps ==
  ASSUME DeviceInv, NEW t \in Tabs, CheckOwner(t)
  PROVE  Forward /\ DeviceInv'
<1> USE TypeParts DEF DeviceInv, CheckOwner
<1> DEFINE w == tabs[t].write
           checked == [w EXCEPT !.kind = "cache"]
<1>1. w \in Write
  BY DEF PagesTyped, PageMemory
<1>2. checked \in Write /\ checked.id = w.id /\ checked.draft = w.draft
  BY <1>1 DEF Write
<1>3. PICK new \in {NoWrite, checked} : tabs' = [tabs EXCEPT ![t].write = new]
  OBVIOUS
<1> HIDE DEF checked
<1>4. PagesTyped' /\ tabs'[t].write = new
      /\ \A s \in Tabs \ {t} : tabs'[s].write = tabs[s].write
  BY <1>2, <1>3 DEF PagesTyped, PageMemory
<1>5. PageSound(t)'
  <2>1. rows' = rows
    BY DEF server
  <2> QED
    BY <1>2, <1>4, <2>1 DEF PageSound, Recorded, Submitted
<1>6. SessionTyped' /\ LoopsTyped'
  BY DEF SessionTyped, session, LoopsTyped
<1>7. TypeOK'
  BY <1>4, <1>6, QuietTyped DEF env
<1>8. scenario' = scenario /\ \A r \in Loops : loops'[r] = loops[r]
  BY DEF env
<1> QED
  BY <1>4, <1>5, <1>7, <1>8, QuietKeeps

LEMMA PutDraftKeeps ==
  ASSUME DeviceInv, NEW t \in Tabs, PutDraft(t)
  PROVE  Forward /\ DeviceInv'
<1> USE TypeParts DEF DeviceInv, PutDraft
<1> DEFINE w == tabs[t].write
<1>1. w \in Write /\ w.id \in Ids /\ w.draft \in Draft
  BY DEF PagesTyped, PageMemory, Write
<1>2. PagesTyped' /\ \A s \in Tabs : tabs'[s].write \in {tabs[s].write, NoWrite}
  BY DEF PagesTyped, PageMemory
<1>3. LoopsTyped' /\ \A r \in Loops : loops'[r] = loops[r]
  BY DEF LoopsTyped
<1>4. PICK i \in Ids, d \in Draft : i = w.id /\ d = w.draft
  BY <1>1
<1>5. d.state \in {"editing", "synced"} /\ (d.state = "synced" => Recorded(i, d.content))
  BY <1>4 DEF PageSound
<1> HIDE DEF w
<1>6. drafts' = [drafts EXCEPT ![i] = d] /\ drafts'[i] = d
  BY <1>4 DEF DraftsTyped, w
<1>7. DraftSound(i)'
  BY <1>5, <1>6 DEF DraftSound, WaitingStates, Submitted, Recorded, server
<1> QED
  BY <1>2, <1>3, <1>6, <1>7, DraftChangeKeeps

LEMMA EnqueueKeeps ==
  ASSUME DeviceInv, NEW u \in Users, NEW i \in Ids, NEW o \in Ops, OwnDraft(u, i),
         Enqueue(u, i, o)
  PROVE  Forward /\ DeviceInv' /\ Used(o)' /\ outbox'[o].target = i
<1> USE TypeParts DEF DeviceInv, Enqueue
<1> DEFINE op == [owner |-> u, target |-> i, base |-> drafts[i].base,
                  content |-> drafts[i].content, state |-> "pending"]
<1>1. drafts[i] \in Draft
  BY DEF OwnDraft, DraftsTyped
<1>2. op \in Operation /\ op.target = i /\ op.state = "pending"
  BY <1>1 DEF Draft, Operation
<1>3. outbox' = [outbox EXCEPT ![o] = op] /\ outbox[o] = NoOp
  OBVIOUS
<1> HIDE DEF op
<1>4. OutboxTyped' /\ \A p \in Ops : outbox'[p] = IF p = o THEN op ELSE outbox[p]
  BY <1>2, <1>3 DEF OutboxTyped
<1>5. DraftsTyped' /\ drafts'[i] \in Draft /\ drafts'[i].state = "pending_submission"
      /\ \A j \in Ids \ {i} : drafts'[j] = drafts[j]
  BY <1>1 DEF DraftsTyped, Draft
<1>6. PagesTyped' /\ LoopsTyped'
  BY DEF PagesTyped, LoopsTyped
<1>7. TypeOK'
  BY <1>4, <1>5, <1>6, StoreStepTyped
<1>8. StoreForward
  BY <1>3, <1>4, <1>5, MarksAreApart DEF StoreForward, Used
<1>9. \A p \in Ops : Used(p)' => Used(p) \/ drafts'[outbox'[p].target] # NoDraft
  BY <1>2, <1>4, <1>5, MarksAreApart DEF Used
<1>10. \A p \in Ops : outbox'[p].state = "deleted" => outbox[p].state = "deleted"
  BY <1>2, <1>4
<1>11. o \in Outstanding(i)'
  BY <1>2, <1>4 DEF Outstanding
<1>12. DraftSound(i)'
  BY <1>5, <1>11 DEF DraftSound, WaitingStates, Kept
<1>14. \A j \in Ids : drafts'[j] = drafts[j] \/ DraftSound(j)'
  BY <1>5, <1>12
<1>15. /\ scenario' = scenario
       /\ \A t \in Tabs : tabs'[t].write \in {tabs[t].write, NoWrite}
       /\ \A r \in Loops : loops'[r] \in {loops[r], IdleLoop}
  BY DEF env
<1>16. Used(o)' /\ outbox'[o].target = i
  BY <1>2, <1>4, MarksAreApart DEF Used
<1> QED
  BY <1>7, <1>8, <1>9, <1>10, <1>14, <1>15, <1>16, StoreStepKeeps

LEMMA QueueSubmissionKeeps ==
  ASSUME DeviceInv, NEW t \in Tabs, NEW i \in Ids, NEW o \in Ops,
         QueueSubmission(t, i, o) \/ QueueHarvestSubmission(t, i, o)
  PROVE  Forward /\ DeviceInv' /\ Used(o)' /\ outbox'[o].target = i
<1>1. PICK u \in Users : u = tabs[t].user
  BY DEF QueueSubmission, QueueHarvestSubmission, ValidLease
<1>2. OwnDraft(u, i) /\ Enqueue(u, i, o)
  BY <1>1 DEF QueueSubmission, QueueHarvestSubmission
<1> QED
  BY <1>2, EnqueueKeeps

-----------------------------------------------------------------------------
(* The engines.                                                            *)

\* The operation a run works on is one that was queued, of a draft there is.
LEMMA CurrentIsUsed ==
  ASSUME DeviceInv, NEW r \in Loops, loops[r].pc \in Working
  PROVE  /\ Current(r) \in loops[r].todo /\ Current(r) \in Ops /\ Used(Current(r))
         /\ Target(r) \in Ids /\ drafts[Target(r)] \in Draft
<1> USE TypeParts DEF DeviceInv
<1>1. loops[r].todo \subseteq Ops
  BY DEF LoopsTyped, EngineRun
<1>2. Current(r) \in loops[r].todo
  BY <1>1, FirstIsIn, OpsAreOrdered DEF RunSound, Current
<1>3. Current(r) \in Ops /\ Used(Current(r))
  BY <1>1, <1>2 DEF RunSound
<1>4. Target(r) \in Ids
  BY <1>3, OpTyped DEF Target
<1> QED
  BY <1>2, <1>3, <1>4 DEF OpSound, Target, DraftsTyped

\* What the other runs are at when one of them goes on.
LEMMA StepTyped ==
  ASSUME LoopsTyped, NEW r \in Loops, NEW run \in EngineRun, Step(r, run)
  PROVE  LoopsTyped' /\ loops'[r] = run /\ \A s \in Loops \ {r} : loops'[s] = loops[s]
BY DEF LoopsTyped, Step

LEMMA IdleTyped == IdleLoop \in EngineRun
BY DEF IdleLoop, EngineRun, NotSent, Reply

\* A step of a run that changes nothing but where the run is.
LEMMA RunStepKeeps ==
  ASSUME DeviceInv, scenario' = scenario, UNCHANGED store, UNCHANGED server,
         disruptions' = disruptions \/ Disrupt, SessionTyped', PagesTyped',
         \A t \in Tabs : tabs'[t].write = tabs[t].write,
         NEW r \in Loops, NEW run \in EngineRun, Step(r, run), RunSound(r)',
         wire' \subseteq Request, \A q \in wire' : q \in wire \/ (q.op \in Ops /\ Used(q.op))
  PROVE  Forward /\ DeviceInv'
<1> USE TypeParts DEF DeviceInv
<1>1. LoopsTyped' /\ \A s \in Loops \ {r} : loops'[s] = loops[s]
  BY StepTyped
<1>2. EnvTyped' /\ DraftsTyped' /\ OutboxTyped'
  BY ScenarioTyped DEF EnvTyped, Disrupt, DraftsTyped, OutboxTyped, store
<1>3. RowsTyped' /\ BooksTyped' /\ WireTyped'
  BY DEF RowsTyped, BooksTyped, WireTyped, server
<1>4. TypeOK'
  BY <1>1, <1>2, <1>3, TypePartsNext
<1>5. \A s \in Loops : loops'[s] \in {loops[s], IdleLoop} \/ RunSound(s)'
  BY <1>1
<1> QED
  BY <1>4, <1>5, QuietKeeps

\* One operation changes its state.
LEMMA OpChange ==
  ASSUME OutboxTyped, NEW o \in Ops, Used(o),
         NEW s \in {"pending", "syncing", "needs_attention", "deleted"},
         outbox' = [outbox EXCEPT ![o].state = s], outbox[o].state = "deleted" => s = "deleted"
  PROVE  /\ OutboxTyped'
         /\ \A p \in Ops : /\ Used(p)' <=> Used(p)
                           /\ Used(p) => /\ outbox'[p].target = outbox[p].target
                                         /\ outbox'[p].content = outbox[p].content
                                         /\ outbox'[p].owner = outbox[p].owner
                           /\ outbox'[p].state = IF p = o THEN s ELSE outbox[p].state
         /\ \A i \in Ids : Outstanding(i)' \subseteq Outstanding(i)
<1>1. outbox[o] \in Operation
  BY OpTyped
<1>2. /\ OutboxTyped' /\ outbox'[o] \in Operation /\ outbox'[o].state = s
      /\ outbox'[o].target = outbox[o].target /\ outbox'[o].content = outbox[o].content
      /\ outbox'[o].owner = outbox[o].owner
      /\ \A p \in Ops \ {o} : outbox'[p] = outbox[p]
  BY <1>1 DEF OutboxTyped, Operation
<1>3. \A p \in Ops : Used(p)' <=> Used(p)
  BY <1>1, <1>2, MarksAreApart DEF Used
<1>4. \A i \in Ids : Outstanding(i)' \subseteq Outstanding(i)
  BY <1>1, <1>2 DEF Outstanding, Operation
<1> QED
  BY <1>2, <1>3, <1>4

\* A step of a run that changes its operation, the operation's draft, or both.
LEMMA RunStoreStepKeeps ==
  ASSUME DeviceInv, UNCHANGED env, UNCHANGED session, UNCHANGED server,
         tabs' = tabs, wire' = wire,
         NEW r \in Loops, NEW run \in EngineRun, Step(r, run), RunSound(r)',
         NEW o \in Ops, Used(o), NEW i \in Ids, i = outbox[o].target,
         NEW s \in {"pending", "syncing", "needs_attention", "deleted"}, NEW d \in Draft,
         \/ outbox' = outbox
         \/ /\ outbox' = [outbox EXCEPT ![o].state = s]
            /\ outbox[o].state = "deleted" => s = "deleted"
            /\ s = "deleted" => Arrived(o),
         \/ drafts' = drafts
         \/ /\ drafts' = [drafts EXCEPT ![i] = d]
            /\ \/ d.state \in WaitingStates
               \/ /\ d.state = "synced" /\ Arrived(o)
                  /\ domain = "harvest" => d.content = outbox[o].content
  PROVE  Forward /\ DeviceInv'
<1> USE TypeParts DEF DeviceInv
<1>1. /\ OutboxTyped'
      /\ \A p \in Ops : /\ Used(p)' <=> Used(p)
                        /\ Used(p) => /\ outbox'[p].target = outbox[p].target
                                      /\ outbox'[p].content = outbox[p].content
                                      /\ outbox'[p].owner = outbox[p].owner
      /\ \A j \in Ids : Outstanding(j)' \subseteq Outstanding(j)
  <2>1. CASE outbox' = outbox
    BY <2>1 DEF OutboxTyped, Used, Outstanding
  <2>2. CASE outbox' # outbox
    BY <2>2, OpChange
  <2> QED
    BY <2>1, <2>2
<1>2. \A p \in Ops : \/ outbox'[p].state = outbox[p].state
                     \/ outbox'[p].state = s /\ p = o /\ (s = "deleted" => Arrived(o))
  <2>1. CASE outbox' = outbox
    BY <2>1
  <2>2. CASE outbox' # outbox
    BY <2>2, OpChange
  <2> QED
    BY <2>1, <2>2
<1>3. DraftsTyped' /\ \A j \in Ids : drafts'[j] = drafts[j] \/ (j = i /\ drafts'[j] = d)
  BY DEF DraftsTyped
<1>4. LoopsTyped' /\ \A q \in Loops \ {r} : loops'[q] = loops[q]
  BY StepTyped
<1>5. PagesTyped' /\ scenario' = scenario /\ domain' = domain
  BY DEF PagesTyped, env, domain
<1>6. TypeOK'
  BY <1>1, <1>3, <1>4, <1>5, StoreStepTyped
<1>7. StoreForward
  BY <1>1, <1>2, <1>3, MarksAreApart DEF StoreForward
<1>8. Forward
  BY <1>5, <1>7, ServerStays DEF Forward
<1>9. ASSUME \A p \in Ops : OpSound(p)', drafts'[i] # drafts[i]
      PROVE  DraftSound(i)'
  <2>1. drafts'[i] = d
    BY <1>3, <1>9
  <2>2. Kept(i)
    BY UsedIsKept
  <2>3. Kept(i)'
    BY <1>1, <1>8, <1>9, <2>2, KeptStays
  <2>4. ASSUME d.state = "synced"
        PROVE  \/ Submitted(i)' /\ (domain = "harvest" => Recorded(i, d.content)')
               \/ LostFor(i)'
    <3>1. Arrived(o) /\ (domain = "harvest" => d.content = outbox[o].content)
      BY <1>3, <1>9, <2>4 DEF WaitingStates
    <3>2. o \in vain => LostFor(i)'
      BY <1>1 DEF LostFor, server
    <3>3. Recorded(i, outbox[o].content) =>
            Submitted(i)' /\ (domain = "harvest" => Recorded(i, d.content)')
      BY <3>1 DEF Recorded, Submitted, server
    <3> QED
      BY <3>1, <3>2, <3>3 DEF Arrived
  <2> QED
    BY <1>5, <2>1, <2>3, <2>4 DEF DraftSound
<1>10. (\A p \in Ops : OpSound(p)') =>
         \A j \in Ids : drafts'[j] = drafts[j] \/ DraftSound(j)'
  BY <1>3, <1>9
<1>12. \A p \in Ops : outbox'[p].state = "deleted" =>
         outbox[p].state = "deleted" \/ (Used(p) /\ Arrived(p))
  BY <1>2
<1>13. \A q \in Loops : loops'[q] \in {loops[q], IdleLoop} \/ RunSound(q)'
  BY <1>4
<1>14. \A p \in Ops : Used(p)' => Used(p)
  BY <1>1
<1>15. \A t \in Tabs : tabs'[t].write \in {tabs[t].write, NoWrite}
  OBVIOUS
<1> QED
  BY <1>5, <1>6, <1>7, <1>10, <1>12, <1>13, <1>14, <1>15, StoreStepKeeps

LEMMA StartKeeps ==
  ASSUME DeviceInv, NEW r \in Loops, StartRegistrar(r) \/ StartSync(r)
  PROVE  Forward /\ DeviceInv'
<1> USE TypeParts DEF DeviceInv
<1>1. PICK run \in EngineRun :
        /\ Step(r, run) /\ run.pc \in {"checking", "start"} /\ run.request = NotSent
  <2>1. CASE StartRegistrar(r)
    <3>1. cookie \in Nat
      BY DEF SessionTyped
    <3>2. [IdleLoop EXCEPT !.pc = "checking", !.asked = cookie] \in EngineRun
      BY <3>1, IdleTyped DEF EngineRun
    <3> QED
      BY <2>1, <3>2, IdleTyped DEF StartRegistrar, EngineRun, IdleLoop
  <2>2. CASE StartSync(r)
    <3>1. Page(r) \in Tabs /\ tabs[Page(r)].user \in Users \cup {NoUser}
      BY LoopsOfTabs DEF Page, PagesTyped, PageMemory
    <3>2. [IdleLoop EXCEPT !.pc = "start", !.owner = tabs[Page(r)].user] \in EngineRun
      BY <3>1, IdleTyped DEF EngineRun
    <3> QED
      BY <2>2, <3>2, IdleTyped DEF StartSync, EngineRun, IdleLoop
  <2> QED
    BY <2>1, <2>2
<1>2. /\ UNCHANGED env /\ UNCHANGED store /\ UNCHANGED session /\ UNCHANGED server
      /\ tabs' = tabs /\ wire' = wire
  BY DEF StartRegistrar, StartSync
<1>3. RunSound(r)'
  BY <1>1, StepTyped DEF RunSound, Working
<1>4. /\ SessionTyped' /\ PagesTyped' /\ scenario' = scenario /\ disruptions' = disruptions
      /\ wire' \subseteq Request /\ \A q \in wire' : q \in wire
  BY <1>2 DEF SessionTyped, session, PagesTyped, env, WireTyped
<1> QED
  BY <1>1, <1>2, <1>3, <1>4, RunStepKeeps

LEMMA SessionAnsweredKeeps ==
  ASSUME DeviceInv, NEW r \in Loops, SessionAnswered(r)
  PROVE  Forward /\ DeviceInv' /\ WritesKept
<1> USE TypeParts DEF DeviceInv
<1> DEFINE n == loops[r].asked
<1>1. Page(r) \in Tabs /\ n \in Nat
  BY LoopsOfTabs DEF Page, LoopsTyped, EngineRun
<1>2. /\ scenario' = scenario /\ UNCHANGED store /\ UNCHANGED server /\ wire' = wire
      /\ logins' = logins /\ live' = live /\ cookie' = cookie /\ permitted' = permitted
      /\ disruptions' = disruptions \/ Disrupt
  BY DEF SessionAnswered
<1>3. /\ SessionTyped' /\ PagesTyped' /\ \A t \in Tabs : tabs'[t].write = tabs[t].write
      /\ \E run \in EngineRun :
           /\ Step(r, run) /\ run.pc \in {"idle", "start"} /\ run.request = NotSent
  <2>1. CASE n \in live /\ tabs' = Refreshed(Page(r), n) /\ PreserveLease(Holder(n))
             /\ Step(r, [IdleLoop EXCEPT !.pc = "start", !.owner = Holder(n)])
    <3>1. Holder(n) \in Users
      BY <2>1, HolderTyped
    <3>2. leases' \in [Users -> Lease] /\ newest' \in Users \cup {NoUser}
      BY <2>1, <3>1, RecordLeaseTyped DEF PreserveLease
    <3>3. SessionTyped'
      BY <1>2, <3>2 DEF SessionTyped
    <3>4. PagesTyped' /\ \A t \in Tabs : tabs'[t].write = tabs[t].write
      BY <1>1, <2>1, RefreshedTyped DEF PagesTyped
    <3>5. [IdleLoop EXCEPT !.pc = "start", !.owner = Holder(n)] \in EngineRun
      BY <3>1, IdleTyped DEF EngineRun
    <3> QED
      BY <2>1, <3>3, <3>4, <3>5, IdleTyped DEF EngineRun, IdleLoop
  <2>2. CASE tabs' = Cleared(Page(r)) /\ Return(r) /\ UNCHANGED <<leases, newest, disruptions>>
    <3>1. PagesTyped' /\ \A t \in Tabs : tabs'[t].write = tabs[t].write
      BY <1>1, <2>2, ClearedTyped DEF PagesTyped
    <3>2. SessionTyped'
      BY <1>2, <2>2 DEF SessionTyped
    <3> QED
      BY <2>2, <3>1, <3>2, IdleTyped DEF Return, IdleLoop
  <2>3. CASE Return(r) /\ UNCHANGED <<tabs, leases, newest>>
    BY <1>2, <2>3, IdleTyped DEF Return, IdleLoop, SessionTyped, PagesTyped
  <2> QED
    BY <2>1, <2>2, <2>3 DEF SessionAnswered
<1>4. PICK run \in EngineRun :
        /\ Step(r, run) /\ run.pc \in {"idle", "start"} /\ run.request = NotSent
  BY <1>3
<1>5. RunSound(r)'
  BY <1>4, StepTyped DEF RunSound, Working
<1>6. wire' \subseteq Request /\ \A q \in wire' : q \in wire
  BY <1>2 DEF WireTyped
<1> QED
  BY <1>2, <1>3, <1>4, <1>5, <1>6, RunStepKeeps DEF WritesKept

LEMMA ReadOutboxKeeps ==
  ASSUME DeviceInv, NEW r \in Loops, ReadOutbox(r)
  PROVE  Forward /\ DeviceInv'
<1> USE TypeParts DEF DeviceInv
<1> DEFINE todo == Sendable(loops[r].owner)
<1>1. loops[r] \in EngineRun /\ loops[r].request = NotSent /\ loops[r].pc = "start"
  BY DEF LoopsTyped, RunSound, ReadOutbox
<1>2. todo \subseteq Ops /\ \A o \in todo : Used(o)
  BY DEF Sendable, Used, NoOp
<1>3. PICK run \in EngineRun :
        /\ Step(r, run) /\ run.request = NotSent /\ run.pc \in {"idle", "mark"}
        /\ run.pc = "mark" => run.todo # {} /\ \A o \in run.todo : o \in Ops /\ Used(o)
  <2>1. CASE Return(r)
    BY <2>1, IdleTyped DEF Return, IdleLoop
  <2>2. CASE todo # {} /\ Step(r, [loops[r] EXCEPT !.pc = "mark", !.todo = todo])
    <3> HIDE DEF todo
    <3>1. [loops[r] EXCEPT !.pc = "mark", !.todo = todo] \in EngineRun
      BY <1>1, <1>2 DEF EngineRun
    <3> QED
      BY <1>1, <1>2, <2>2, <3>1 DEF EngineRun
  <2> QED
    BY <2>1, <2>2 DEF ReadOutbox
<1>4. /\ UNCHANGED env /\ UNCHANGED store /\ UNCHANGED session /\ UNCHANGED server
      /\ tabs' = tabs /\ wire' = wire
  BY DEF ReadOutbox
<1>5. RunSound(r)'
  BY <1>3, <1>4, StepTyped DEF RunSound, Working, Used, store
<1>6. /\ SessionTyped' /\ PagesTyped' /\ scenario' = scenario /\ disruptions' = disruptions
      /\ wire' \subseteq Request /\ \A q \in wire' : q \in wire
  BY <1>4 DEF SessionTyped, session, PagesTyped, env, WireTyped
<1> QED
  BY <1>3, <1>4, <1>5, <1>6, RunStepKeeps

\* A run at work stays sound when it goes on to another step of the same operation,
\* and the answer it then holds is no confirmation.
LEMMA SoundRunGoesOn ==
  ASSUME LoopsTyped, NEW r \in Loops, loops[r].pc \in Working, RunSound(r),
         NEW run \in EngineRun, Step(r, run), run.todo = loops[r].todo, run.request = NotSent,
         run.pc = "settle" => ~Confirms(run.reply.result),
         \A o \in loops[r].todo : Used(o) => Used(o)'
  PROVE  RunSound(r)'
BY StepTyped DEF RunSound

LEMMA MarkOperationKeeps ==
  ASSUME DeviceInv, NEW r \in Loops, MarkOperation(r)
  PROVE  Forward /\ DeviceInv'
<1> USE TypeParts DEF DeviceInv, MarkOperation
<1>1. PICK o \in Ops, i \in Ids : o = Current(r) /\ Used(o) /\ i = outbox[o].target
                                 /\ drafts[i] \in Draft
  BY CurrentIsUsed DEF Working, Target
<1>2. loops[r] \in EngineRun /\ loops[r].request = NotSent
  BY DEF LoopsTyped, RunSound
<1>3. PICK run \in EngineRun : /\ Step(r, run) /\ run.pc = "markDraft"
                               /\ run.todo = loops[r].todo /\ run.request = NotSent
  <2>1. [loops[r] EXCEPT !.pc = "markDraft"] \in EngineRun
    BY <1>2 DEF EngineRun
  <2> QED
    BY <1>2, <2>1 DEF EngineRun
<1>4. \/ outbox' = outbox
      \/ outbox' = [outbox EXCEPT ![o].state = "syncing"] /\ outbox[o].state # "deleted"
  BY <1>1 DEF OpBecomes
<1>5. \A p \in Ops : Used(p) => Used(p)'
  BY <1>1, <1>4, OpChange DEF Used
<1>6. RunSound(r)'
  BY <1>2, <1>3, <1>5, SoundRunGoesOn DEF Working, EngineRun
<1> QED
  BY <1>1, <1>3, <1>4, <1>6, RunStoreStepKeeps

LEMMA MarkDraftKeeps ==
  ASSUME DeviceInv, NEW r \in Loops, MarkDraft(r)
  PROVE  Forward /\ DeviceInv'
<1> USE TypeParts DEF DeviceInv, MarkDraft
<1>1. PICK o \in Ops, i \in Ids : o = Current(r) /\ Used(o) /\ i = outbox[o].target
                                 /\ i = Target(r) /\ drafts[i] \in Draft
  BY CurrentIsUsed DEF Working, Target
<1>2. loops[r] \in EngineRun /\ loops[r].request = NotSent
  BY DEF LoopsTyped, RunSound
<1>3. PICK run \in EngineRun : /\ Step(r, run) /\ run.pc = "send"
                               /\ run.todo = loops[r].todo /\ run.request = NotSent
  <2>1. [loops[r] EXCEPT !.pc = "send"] \in EngineRun
    BY <1>2 DEF EngineRun
  <2> QED
    BY <1>2, <2>1 DEF EngineRun
<1>4. PICK d \in Draft : drafts' = [drafts EXCEPT ![i] = d] /\ d.state \in WaitingStates
  <2>1. [drafts[i] EXCEPT !.state = "syncing"] \in Draft
    BY <1>1 DEF Draft
  <2> QED
    BY <1>1, <2>1 DEF Draft, WaitingStates
<1>5. RunSound(r)'
  BY <1>2, <1>3, SoundRunGoesOn DEF Working, EngineRun, Used
<1> QED
  BY <1>1, <1>3, <1>4, <1>5, RunStoreStepKeeps

\* The request a run sends is about its operation.
LEMMA SendKeeps ==
  ASSUME DeviceInv, NEW r \in Loops, Send(r)
  PROVE  Forward /\ DeviceInv'
<1> USE TypeParts DEF DeviceInv, Send
<1> DEFINE q == [op |-> Current(r), by |-> r, session |-> cookie, csrf |-> tabs[Page(r)].csrf]
<1>1. Current(r) \in Ops /\ Used(Current(r))
  BY CurrentIsUsed DEF Working
<1>2. loops[r] \in EngineRun /\ loops[r].request = NotSent
  BY DEF LoopsTyped, RunSound
<1>3. q \in Request /\ q.op = Current(r)
  <2>1. cookie \in Nat /\ Page(r) \in Tabs
    BY LoopsOfTabs DEF SessionTyped, Page
  <2> QED
    BY <1>1, <2>1 DEF Request, PagesTyped, PageMemory
<1> HIDE DEF q
<1>4. /\ UNCHANGED env /\ UNCHANGED store /\ UNCHANGED session /\ UNCHANGED server /\ tabs' = tabs
      /\ \A o \in Ops : Used(o) => Used(o)'
  BY DEF store, Used
<1>5. /\ wire' \subseteq Request /\ \A x \in wire' : x \in wire \/ (x.op \in Ops /\ Used(x.op))
  BY <1>1, <1>3 DEF WireTyped, q
<1>6. \E run \in EngineRun : Step(r, run) /\ RunSound(r)'
  <2>1. CASE Step(r, [loops[r] EXCEPT !.pc = "settle", !.reply = Failure("unreachable")])
    <3>1. Failure("unreachable") \in Reply /\ ~Confirms(Failure("unreachable").result)
      BY DEF Failure, Reply, Confirms
    <3>2. PICK run \in EngineRun :
            /\ run = [loops[r] EXCEPT !.pc = "settle", !.reply = Failure("unreachable")]
            /\ run.todo = loops[r].todo /\ run.request = NotSent
            /\ run.reply = Failure("unreachable")
      <4> DEFINE run == [loops[r] EXCEPT !.pc = "settle", !.reply = Failure("unreachable")]
      <4>1. /\ run \in EngineRun /\ run.todo = loops[r].todo /\ run.request = NotSent
            /\ run.reply = Failure("unreachable")
        BY <1>2, <3>1 DEF EngineRun
      <4> QED
        BY <4>1
    <3>3. Step(r, run)
      BY <2>1, <3>2
    <3>4. loops[r].pc \in Working /\ RunSound(r) /\ loops[r].todo \subseteq Ops
      BY <1>2 DEF Working, EngineRun
    <3> QED
      BY <1>4, <3>1, <3>2, <3>3, <3>4, SoundRunGoesOn
  <2>2. CASE Step(r, [loops[r] EXCEPT !.pc = "waiting", !.request = q])
    <3>1. PICK run \in EngineRun :
            /\ run = [loops[r] EXCEPT !.pc = "waiting", !.request = q]
            /\ run.todo = loops[r].todo /\ run.request = q /\ run.pc = "waiting"
      <4> DEFINE run == [loops[r] EXCEPT !.pc = "waiting", !.request = q]
      <4>1. /\ run \in EngineRun /\ run.todo = loops[r].todo
            /\ run.request = q /\ run.pc = "waiting"
        BY <1>2, <1>3 DEF EngineRun
      <4> QED
        BY <4>1
    <3>2. Step(r, run)
      BY <2>2, <3>1
    <3>3. loops'[r] = run
      BY <3>2, StepTyped
    <3>4. Current(r)' = Current(r)
      BY <3>1, <3>3 DEF Current
    <3>5. loops'[r].todo # {} /\ \A o \in loops'[r].todo : Used(o)'
      BY <1>2, <1>4, <3>1, <3>3 DEF RunSound, Working, EngineRun
    <3>6. loops'[r].request.op = Current(r)' /\ loops'[r].pc = "waiting"
      BY <1>3, <3>1, <3>3, <3>4
    <3> QED
      BY <3>2, <3>5, <3>6 DEF RunSound
  <2> QED
    BY <2>1, <2>2 DEF q
<1>7. PICK run \in EngineRun : Step(r, run)
  BY <1>6
<1>8. /\ SessionTyped' /\ PagesTyped' /\ scenario' = scenario /\ disruptions' = disruptions
  BY <1>4 DEF SessionTyped, session, PagesTyped, env
<1> QED
  BY <1>4, <1>5, <1>6, <1>7, <1>8, RunStepKeeps

LEMMA GiveUpKeeps ==
  ASSUME DeviceInv, NEW r \in Loops, GiveUp(r)
  PROVE  Forward /\ DeviceInv'
<1> USE TypeParts DEF DeviceInv, GiveUp
<1>1. loops[r] \in EngineRun
  BY DEF LoopsTyped
<1>2. Failure("unreachable") \in Reply /\ ~Confirms(Failure("unreachable").result)
  BY DEF Failure, Reply, Confirms
<1>3. PICK run \in EngineRun :
        /\ Step(r, run) /\ run.pc = "settle" /\ run.todo = loops[r].todo
        /\ run.request = NotSent /\ run.reply = Failure("unreachable")
  <2> DEFINE run == [loops[r] EXCEPT !.pc = "settle", !.request = NotSent,
                                     !.reply = Failure("unreachable")]
  <2>1. /\ run \in EngineRun /\ run.pc = "settle" /\ run.todo = loops[r].todo
        /\ run.request = NotSent /\ run.reply = Failure("unreachable")
    BY <1>1, <1>2 DEF EngineRun
  <2> QED
    BY <2>1
<1>4. /\ scenario' = scenario /\ UNCHANGED store /\ UNCHANGED session /\ UNCHANGED server
      /\ tabs' = tabs /\ wire' = wire
  OBVIOUS
<1>5. RunSound(r)'
  BY <1>1, <1>2, <1>3, <1>4, SoundRunGoesOn DEF Working, EngineRun, Used, store
<1>6. /\ SessionTyped' /\ PagesTyped' /\ wire' \subseteq Request /\ \A q \in wire' : q \in wire
  BY <1>4 DEF SessionTyped, session, PagesTyped, WireTyped
<1> QED
  BY <1>3, <1>4, <1>5, <1>6, RunStepKeeps

\* A run that returns is sound whatever else the step does.
LEMMA IdleRunIsSound ==
  ASSUME LoopsTyped, NEW r \in Loops, Step(r, IdleLoop)
  PROVE  RunSound(r)'
BY StepTyped, IdleTyped DEF RunSound, IdleLoop, Working

LEMMA SettleConfirmedKeeps ==
  ASSUME DeviceInv, NEW r \in Loops, SettleConfirmed(r)
  PROVE  Forward /\ DeviceInv'
<1> USE TypeParts DEF DeviceInv, SettleConfirmed
<1>1. PICK o \in Ops, i \in Ids : /\ o = Current(r) /\ Used(o) /\ o \in loops[r].todo
                                 /\ i = outbox[o].target /\ i = Target(r) /\ drafts[i] \in Draft
  BY CurrentIsUsed DEF Working, Target
<1>2. loops[r] \in EngineRun
  BY DEF LoopsTyped
<1>3. Arrived(o)
  BY <1>1 DEF RunSound
<1>4. outbox' = [outbox EXCEPT ![o].state = "deleted"]
  BY <1>1
<1>5. PICK d \in Draft :
        /\ drafts' = [drafts EXCEPT ![i] = d] /\ d.state = "synced"
        /\ domain = "harvest" => d.content = outbox[o].content
  <2> DEFINE d == ConfirmedDraft(o, loops[r].reply.version)
  <2>1. loops[r].reply.version \in Nat
    BY <1>2 DEF EngineRun, Reply, Undecided, Confirms
  <2>2. outbox[o].content \in Contents /\ drafts[i].content \in Contents
    BY <1>1, OpTyped DEF Draft
  <2>3. /\ d \in Draft /\ d.state = "synced"
        /\ domain = "harvest" => d.content = outbox[o].content
    BY <1>1, <2>1, <2>2 DEF ConfirmedDraft, Draft
  <2>4. drafts' = [drafts EXCEPT ![i] = d]
    BY <1>1
  <2> QED
    BY <2>3, <2>4
<1>6. \A p \in Ops : Used(p) => Used(p)'
  BY <1>1, <1>4, OpChange
<1>7. PICK run \in EngineRun :
        /\ Step(r, run)
        /\ \/ run = IdleLoop
           \/ /\ run.pc = "mark" /\ run.request = NotSent
              /\ run.todo # {} /\ run.todo \subseteq loops[r].todo
  <2> DEFINE rest == loops[r].todo \ {Current(r)}
  <2>1. CASE rest = {}
    BY <2>1, IdleTyped DEF Continue, Return
  <2>2. CASE rest # {}
    <3> DEFINE run == [loops[r] EXCEPT !.pc = "mark", !.todo = rest, !.request = NotSent,
                                       !.reply = Undecided]
    <3>1. /\ run \in EngineRun /\ run.pc = "mark" /\ run.request = NotSent
          /\ run.todo = rest
      BY <1>2 DEF EngineRun, Reply
    <3>2. Step(r, run)
      BY <2>2 DEF Continue
    <3> QED
      BY <2>2, <3>1, <3>2
  <2> QED
    BY <2>1, <2>2
<1>8. RunSound(r)'
  <2>1. CASE run = IdleLoop
    BY <1>7, <2>1, IdleRunIsSound
  <2>2. CASE run # IdleLoop
    <3>1. loops'[r] = run
      BY <1>7, StepTyped
    <3>2. \A p \in loops[r].todo : p \in Ops /\ Used(p)
      BY <1>2 DEF RunSound, Working, EngineRun
    <3> QED
      BY <1>6, <1>7, <2>2, <3>1, <3>2 DEF RunSound
  <2> QED
    BY <2>1, <2>2
<1>9. UNCHANGED env /\ UNCHANGED session /\ UNCHANGED server /\ tabs' = tabs /\ wire' = wire
  OBVIOUS
<1>10. PICK s \in {"pending", "syncing", "needs_attention", "deleted"} : s = "deleted"
  OBVIOUS
<1> HIDE DEF SettleConfirmed
<1> QED
  BY <1>1, <1>3, <1>4, <1>5, <1>7, <1>8, <1>9, <1>10, RunStoreStepKeeps

LEMMA SettleOperationKeeps ==
  ASSUME DeviceInv, NEW r \in Loops, SettleOperation(r)
  PROVE  Forward /\ DeviceInv'
<1> USE TypeParts DEF DeviceInv, SettleOperation
<1>1. PICK o \in Ops, i \in Ids : o = Current(r) /\ Used(o) /\ i = outbox[o].target
                                 /\ drafts[i] \in Draft
  BY CurrentIsUsed DEF Working, Target
<1>2. loops[r] \in EngineRun /\ loops[r].request = NotSent
  BY DEF LoopsTyped, RunSound
<1>3. PICK run \in EngineRun : /\ Step(r, run) /\ run.pc = "settleDraft"
                               /\ run.todo = loops[r].todo /\ run.request = NotSent
  <2>1. [loops[r] EXCEPT !.pc = "settleDraft"] \in EngineRun
    BY <1>2 DEF EngineRun
  <2> QED
    BY <1>2, <2>1 DEF EngineRun
<1>4. PICK s \in {"pending", "needs_attention"} :
        \/ outbox' = outbox
        \/ outbox' = [outbox EXCEPT ![o].state = s] /\ outbox[o].state # "deleted"
  <2> DEFINE s == OpAfter(loops[r].reply.result)
  <2>1. s \in {"pending", "needs_attention"}
    BY DEF OpAfter
  <2>2. OpBecomes(o, s)
    BY <1>1
  <2> HIDE DEF s
  <2> QED
    BY <2>1, <2>2 DEF OpBecomes
<1>5. \A p \in Ops : Used(p) => Used(p)'
  BY <1>1, <1>4, OpChange DEF Used
<1>6. RunSound(r)'
  BY <1>2, <1>3, <1>5, SoundRunGoesOn DEF Working, EngineRun
<1> QED
  BY <1>1, <1>3, <1>4, <1>6, RunStoreStepKeeps

LEMMA SettleDraftKeeps ==
  ASSUME DeviceInv, NEW r \in Loops, SettleDraft(r)
  PROVE  Forward /\ DeviceInv'
<1> USE TypeParts DEF DeviceInv, SettleDraft
<1>1. PICK o \in Ops, i \in Ids : o = Current(r) /\ Used(o) /\ i = outbox[o].target
                                 /\ i = Target(r) /\ drafts[i] \in Draft
  BY CurrentIsUsed DEF Working, Target
<1>2. PICK d \in Draft : drafts' = [drafts EXCEPT ![i] = d] /\ d.state \in WaitingStates
  <2> DEFINE s == DraftAfter(loops[r].reply.result)
  <2>1. s \in {"needs_attention", "pending_submission"}
    BY DEF DraftAfter
  <2> HIDE DEF s
  <2>2. [drafts[i] EXCEPT !.state = s] \in Draft /\ [drafts[i] EXCEPT !.state = s].state = s
    BY <1>1, <2>1 DEF Draft
  <2>3. drafts' = [drafts EXCEPT ![i] = [drafts[i] EXCEPT !.state = s]]
    BY <1>1 DEF s
  <2> QED
    BY <2>1, <2>2, <2>3 DEF WaitingStates
<1>3. Step(r, IdleLoop) /\ RunSound(r)'
  BY IdleRunIsSound DEF Return
<1> QED
  BY <1>1, <1>2, <1>3, IdleTyped, RunStoreStepKeeps

LEMMA PreserveForAttentionKeeps ==
  ASSUME DeviceInv, NEW r \in Loops, PreserveForAttention(r)
  PROVE  Forward /\ DeviceInv'
<1> USE TypeParts DEF DeviceInv, PreserveForAttention
<1>1. PICK o \in Ops, i \in Ids : o = Current(r) /\ Used(o) /\ i = outbox[o].target
                                 /\ i = Target(r) /\ drafts[i] \in Draft
  BY CurrentIsUsed DEF Working, Target
<1>2. PICK d \in Draft : drafts' = [drafts EXCEPT ![i] = d] /\ d.state \in WaitingStates
  <2>1. [drafts[i] EXCEPT !.state = "needs_attention"] \in Draft
    BY <1>1 DEF Draft
  <2> QED
    BY <1>1, <2>1 DEF Draft, WaitingStates
<1>3. \/ outbox' = outbox
      \/ outbox' = [outbox EXCEPT ![o].state = "needs_attention"] /\ outbox[o].state # "deleted"
  BY <1>1 DEF OpBecomes
<1>4. Step(r, IdleLoop) /\ RunSound(r)'
  BY IdleRunIsSound DEF Return
<1> QED
  BY <1>1, <1>2, <1>3, <1>4, IdleTyped, RunStoreStepKeeps

LEMMA EngineStepKeeps ==
  ASSUME DeviceInv, NEW r \in Loops, EngineStep(r)
  PROVE  Forward /\ DeviceInv'
BY SessionAnsweredKeeps, ReadOutboxKeeps, MarkOperationKeeps, MarkDraftKeeps, SendKeeps,
   SettleConfirmedKeeps, SettleOperationKeeps, SettleDraftKeeps, PreserveForAttentionKeeps
   DEF EngineStep

-----------------------------------------------------------------------------
(* The server.                                                             *)

\* A submitted record keeps what it says, an explicit correction aside.
LEMMA ServerMovesForward ==
  ASSUME RowsTyped, BooksTyped, vain \subseteq vain',
         \A o \in Ops : receipts[o] # Undecided => receipts'[o] = receipts[o],
         \A i \in Ids : Submitted(i) =>
           /\ rows'[i] # NoRow /\ rows'[i].status = "submitted"
           /\ rows'[i].corrected \/ (rows'[i].content = rows[i].content
                                     /\ rows'[i].corrected = rows[i].corrected)
  PROVE  ServerForward
BY DEF ServerForward, Submitted, Recorded

\* The parts of the type invariant that a step of the server leaves alone.
LEMMA ServerStepTyped ==
  ASSUME DeviceInv, scenario' = scenario, disruptions' = disruptions \/ Disrupt,
         UNCHANGED store, UNCHANGED session, tabs' = tabs,
         LoopsTyped', RowsTyped', BooksTyped', wire' \subseteq wire
  PROVE  TypeOK'
<1> USE TypeParts DEF DeviceInv
<1>1. EnvTyped'
  BY ScenarioTyped DEF EnvTyped, Disrupt
<1>2. DraftsTyped' /\ OutboxTyped' /\ SessionTyped' /\ PagesTyped'
  BY DEF DraftsTyped, OutboxTyped, SessionTyped, PagesTyped, store, session
<1>3. WireTyped'
  BY DEF WireTyped
<1> QED
  BY <1>1, <1>2, <1>3, TypePartsNext

\* An answer reaches the run that waits for it; when it is a confirmation, what the
\* run's operation says must have arrived.
LEMMA AnswerKeeps ==
  ASSUME DeviceInv, UNCHANGED store, NEW q \in wire, NEW reply \in Reply, Answer(q, reply),
         ServerForward, scenario' = scenario, Confirms(reply.result) => Arrived(q.op)'
  PROVE  /\ LoopsTyped' /\ wire' \subseteq wire
         /\ \A r \in Loops : loops'[r] = loops[r] \/ RunSound(r)'
<1> USE TypeParts DEF DeviceInv
<1>1. q \in Request /\ q.by \in Loops /\ q # NotSent
  BY MarksAreApart DEF WireTyped, Request
<1>2. wire' \subseteq wire
  BY DEF Answer
<1>3. CASE loops' = loops
  BY <1>2, <1>3 DEF LoopsTyped
<1>4. CASE loops[q.by].request = q /\
           loops' = [loops EXCEPT ![q.by].pc = "settle", ![q.by].request = NotSent,
                                  ![q.by].reply = reply]
  <2>1. PICK r \in Loops : r = q.by
    BY <1>1
  <2>2. loops[r] \in EngineRun /\ loops[r].pc = "waiting" /\ q.op = Current(r)
    BY <1>1, <1>4, <2>1 DEF LoopsTyped, RunSound
  <2> DEFINE run == [loops[r] EXCEPT !.pc = "settle", !.request = NotSent, !.reply = reply]
  <2>3. /\ run \in EngineRun /\ run.pc = "settle" /\ run.request = NotSent
        /\ run.reply = reply /\ run.todo = loops[r].todo
    BY <2>2 DEF EngineRun
  <2>4. loops' = [loops EXCEPT ![r] = run]
    BY <1>4, <2>1, <2>2 DEF LoopsTyped, EngineRun
  <2> HIDE DEF run
  <2>5. /\ LoopsTyped' /\ loops'[r] = run
        /\ \A s \in Loops \ {r} : loops'[s] = loops[s]
    BY <2>3, <2>4 DEF LoopsTyped
  <2>6. PICK o \in Ops : o = q.op
    BY <1>1 DEF Request
  <2>7. Current(r)' = Current(r) /\ Current(r) = o
    BY <2>2, <2>3, <2>5, <2>6 DEF Current
  <2>8. Confirms(reply.result) => Arrived(o)'
    BY <2>6 DEF Arrived
  <2>9. loops[r].todo # {} /\ \A p \in loops[r].todo : Used(p)'
    BY <2>2 DEF RunSound, Working, Used, store
  <2>10. RunSound(r)'
    BY <2>3, <2>5, <2>7, <2>8, <2>9 DEF RunSound, Arrived
  <2> QED
    BY <1>2, <2>5, <2>10
<1> QED
  BY <1>3, <1>4 DEF Answer

\* A request that changes nothing on the server is answered.
LEMMA AnsweredKeeps ==
  ASSUME DeviceInv, NEW q \in wire, NEW reply \in Reply, Answer(q, reply),
         UNCHANGED <<env, store, session, tabs, server>>,
         Confirms(reply.result) => Arrived(q.op)
  PROVE  Forward /\ DeviceInv'
<1> USE TypeParts DEF DeviceInv
<1>1. ServerForward /\ scenario' = scenario
  BY ServerStays DEF env
<1>2. Confirms(reply.result) => Arrived(q.op)'
  BY DEF Arrived, Recorded, Submitted, server, store
<1>3. /\ LoopsTyped' /\ wire' \subseteq wire
      /\ \A r \in Loops : loops'[r] = loops[r] \/ RunSound(r)'
  BY <1>1, <1>2, AnswerKeeps
<1>4. RowsTyped' /\ BooksTyped' /\ disruptions' = disruptions
      /\ receipts' = receipts /\ vain' = vain /\ Decides
  BY DEF RowsTyped, BooksTyped, server, env, Decides
<1>5. TypeOK'
  BY <1>1, <1>3, <1>4, ServerStepTyped
<1> QED
  BY <1>1, <1>3, <1>4, <1>5, ServerStepKeeps

LEMMA RefuseKeeps ==
  ASSUME DeviceInv, NEW q \in wire, Refuse(q)
  PROVE  Forward /\ DeviceInv'
<1> DEFINE reply == Failure(IF Authority(q) # "ok" THEN Authority(q) ELSE "invalid")
<1>1. reply \in Reply /\ ~Confirms(reply.result)
  BY DEF Failure, Reply, Confirms, Authority
<1> HIDE DEF reply
<1>2. Answer(q, reply) /\ UNCHANGED <<env, store, session, tabs, server>>
  BY DEF Refuse, reply
<1> QED
  BY <1>1, <1>2, AnsweredKeeps

LEMMA ReplayKeeps ==
  ASSUME DeviceInv, NEW q \in wire, Replay(q)
  PROVE  Forward /\ DeviceInv'
<1> USE TypeParts DEF DeviceInv
<1> DEFINE u == Holder(q.session)
           receipt == receipts[q.op]
           reply == [result |-> ReplayReceipt(receipt, u), version |-> receipt.version]
<1>1. q.op \in Ops /\ receipt \in Receipt
  BY DEF WireTyped, Request, BooksTyped, Replay
<1>2. reply \in Reply /\ (Confirms(reply.result) => Confirms(receipt.result))
  BY <1>1 DEF Reply, Receipt, ReplayReceipt, SyncResults, Confirms
<1>3. Confirms(reply.result) => Arrived(q.op)
  BY <1>1, <1>2 DEF OpSound, Arrived
<1>4. Answer(q, reply) /\ UNCHANGED <<env, store, session, tabs, server>>
  BY DEF Replay
<1> HIDE DEF reply
<1> QED
  BY <1>2, <1>3, <1>4, AnsweredKeeps

\* What the ingestion concludes from the row it finds.
LEMMA VerdictReadsTheRow ==
  ASSUME NEW o, NEW u
  PROVE  /\ Verdict(o, u) \in {"applied", "already_applied", "conflict"}
         /\ Verdict(o, u) = "applied" => ~Submitted(outbox[o].target)
         /\ Verdict(o, u) = "already_applied" => Recorded(outbox[o].target, outbox[o].content)
BY DEF Verdict, Submitted, Recorded

LEMMA AppliedRowTyped ==
  ASSUME OutboxTyped, RowsTyped, NEW o \in Ops, Used(o), NEW u \in Users
  PROVE  /\ AppliedRow(o, u) \in Row /\ AppliedRow(o, u).status = "submitted"
         /\ AppliedRow(o, u).content = outbox[o].content /\ AppliedRow(o, u).version \in Nat
<1>1. outbox[o].target \in Ids /\ outbox[o].content \in Contents
  BY OpTyped
<1> DEFINE version == IF rows[outbox[o].target] # NoRow THEN rows[outbox[o].target].version + 2
                      ELSE IF domain = "harvest" THEN 2 ELSE 3
<1>2. version \in Nat
  BY <1>1 DEF RowsTyped, Row
<1> HIDE DEF version
<1>3. AppliedRow(o, u) = [status |-> "submitted", creator |-> u, content |-> outbox[o].content,
                          corrected |-> FALSE, version |-> version]
  BY DEF AppliedRow, version
<1> QED
  BY <1>1, <1>2, <1>3 DEF Row

LEMMA DecideKeeps ==
  ASSUME DeviceInv, NEW q \in wire, NEW result \in SyncResults, Decide(q, result)
  PROVE  Forward /\ DeviceInv'
<1> USE TypeParts DEF DeviceInv
<1>1. PICK o \in Ops : o = q.op /\ Used(o)
  BY DEF WireTyped, Request, RequestSound
<1>2. PICK u \in Users : u = Holder(q.session)
  BY HolderTyped DEF Decide, Authority
<1>3. PICK i \in Ids : i = outbox[o].target
  BY <1>1, OpTyped
<1>4. PICK version \in Nat : version = IF result = "applied" THEN AppliedRow(o, u).version
                                       ELSE IF rows[i] = NoRow THEN 0 ELSE rows[i].version
  BY <1>1, AppliedRowTyped DEF RowsTyped, Row
<1> DEFINE reply == [result |-> result, version |-> version]
           receipt == [actor |-> u, version |-> version, result |-> result]
<1>5. /\ receipts[o] = Undecided
      /\ result = Verdict(o, u) \/ (Verdict(o, u) = "applied" /\ result \in {"conflict", "rejected"})
      /\ Answer(q, reply)
      /\ \/ /\ receipts' = [receipts EXCEPT ![o] = receipt]
            /\ rows' = IF result = "applied" THEN [rows EXCEPT ![i] = AppliedRow(o, u)] ELSE rows
            /\ vain' = vain /\ disruptions' = disruptions
         \/ /\ Disrupt /\ rows' = rows /\ receipts' = receipts
            /\ vain' = IF result = "applied" THEN vain \cup {o} ELSE vain
      /\ scenario' = scenario /\ UNCHANGED store /\ UNCHANGED session /\ tabs' = tabs
  BY <1>1, <1>2, <1>3, <1>4 DEF Decide
<1>6. reply \in Reply /\ reply.result = result /\ receipt \in Receipt /\ receipt.result = result
  BY DEF Reply, Receipt
<1> HIDE DEF reply, receipt
<1>7. /\ result = "applied" => ~Submitted(i)
      /\ result = "already_applied" => Recorded(i, outbox[o].content)
  BY <1>3, <1>5, VerdictReadsTheRow
<1>8. RowsTyped' /\ BooksTyped'
  BY <1>1, <1>5, <1>6, AppliedRowTyped DEF RowsTyped, BooksTyped
<1>9. \A j \in Ids : Submitted(j) => rows'[j] = rows[j]
  BY <1>5, <1>7 DEF RowsTyped
<1>10. ServerForward
  <2>1. vain \subseteq vain' /\ \A p \in Ops : receipts[p] # Undecided => receipts'[p] = receipts[p]
    BY <1>5 DEF BooksTyped
  <2> QED
    BY <1>9, <2>1, ServerMovesForward DEF Submitted
<1>11. outbox' = outbox /\ (result = "already_applied" => Recorded(i, outbox[o].content)')
  BY <1>5, <1>7, <1>9 DEF Recorded, Submitted, store
<1>12. ASSUME result = "applied", rows' = [rows EXCEPT ![i] = AppliedRow(o, u)]
       PROVE  Recorded(i, outbox[o].content)'
  <2>1. /\ AppliedRow(o, u) \in Row /\ AppliedRow(o, u).status = "submitted"
        /\ AppliedRow(o, u).content = outbox[o].content
    BY <1>1, AppliedRowTyped
  <2>2. rows'[i] = AppliedRow(o, u) /\ rows'[i] # NoRow
    BY <1>12, <2>1, MarksAreApart DEF RowsTyped
  <2> QED
    BY <1>11, <2>1, <2>2 DEF Recorded, Submitted
<1>13. Confirms(result) =>
         Recorded(i, outbox[o].content)' \/ (o \in vain' /\ receipts' = receipts)
  BY <1>5, <1>11, <1>12 DEF Confirms
<1>14. Confirms(reply.result) => Arrived(q.op)'
  <2>1. Arrived(o)' <=> Recorded(i, outbox[o].content)' \/ o \in vain'
    BY <1>3, <1>11 DEF Arrived
  <2>2. Arrived(q.op)' <=> Arrived(o)'
    BY <1>1 DEF Arrived
  <2> QED
    BY <1>6, <1>13, <2>1, <2>2
<1>15. \A p \in Ops : receipts'[p] # Undecided \/ p \in vain' =>
         receipts[p] # Undecided \/ p \in vain \/ Used(p)
  BY <1>1, <1>5 DEF BooksTyped
<1>16. \A p \in Ops : Confirms(receipts'[p].result) =>
         receipts'[p] = receipts[p] \/ Recorded(outbox[p].target, outbox[p].content)'
  <2> SUFFICES ASSUME NEW p \in Ops, Confirms(receipts'[p].result), receipts'[p] # receipts[p]
               PROVE  Recorded(outbox[p].target, outbox[p].content)'
    OBVIOUS
  <2>1. p = o /\ receipts'[o] = receipt /\ receipts' # receipts
    BY <1>5 DEF BooksTyped
  <2>2. Recorded(i, outbox[o].content)'
    BY <1>6, <1>13, <2>1
  <2> QED
    BY <1>3, <1>11, <2>1, <2>2 DEF Recorded, Submitted
<1>17. /\ LoopsTyped' /\ wire' \subseteq wire
       /\ \A r \in Loops : loops'[r] = loops[r] \/ RunSound(r)'
  BY <1>5, <1>6, <1>10, <1>14, AnswerKeeps
<1>18. TypeOK'
  BY <1>5, <1>8, <1>17, ServerStepTyped
<1>19. Decides
  <2>1. \A p \in Ops : receipts'[p] # receipts[p] => p = o /\ receipts'[o] = receipt
    BY <1>5 DEF BooksTyped
  <2> QED
    BY <1>3, <1>6, <1>7, <2>1 DEF Decides
<1> QED
  BY <1>5, <1>10, <1>15, <1>16, <1>17, <1>18, <1>19, ServerStepKeeps

LEMMA ServeKeeps ==
  ASSUME DeviceInv, NEW q \in wire, Serve(q)
  PROVE  Forward /\ DeviceInv'
BY RefuseKeeps, ReplayKeeps, DecideKeeps DEF Serve

\* A step that changes the server's rows, nothing else.
LEMMA RowChangeKeeps ==
  ASSUME DeviceInv, scenario' = scenario, disruptions' = disruptions \/ Disrupt, RowsTyped',
         UNCHANGED <<store, session, tabs, loops, receipts, vain, wire>>,
         \A i \in Ids : Submitted(i) =>
           /\ rows'[i] # NoRow /\ rows'[i].status = "submitted"
           /\ rows'[i].corrected \/ (rows'[i].content = rows[i].content
                                     /\ rows'[i].corrected = rows[i].corrected)
  PROVE  Forward /\ DeviceInv'
<1> USE TypeParts DEF DeviceInv
<1>1. ServerForward
  BY ServerMovesForward
<1>2. LoopsTyped' /\ BooksTyped' /\ wire' = wire /\ Decides
  BY DEF LoopsTyped, BooksTyped, Decides
<1>3. TypeOK'
  BY <1>2, ServerStepTyped
<1> QED
  BY <1>1, <1>2, <1>3, ServerStepKeeps

LEMMA EditElsewhereKeeps ==
  ASSUME DeviceInv, NEW i \in Ids, EditElsewhere(i)
  PROVE  Forward /\ DeviceInv'
<1> USE TypeParts DEF DeviceInv
<1>1. /\ scenario' = scenario /\ Disrupt /\ ~Submitted(i)
      /\ UNCHANGED <<store, session, tabs, loops, receipts, vain, wire>>
  BY DEF EditElsewhere, Submitted
<1>2. rows[i] \in Row
  BY DEF EditElsewhere, RowsTyped
<1>3. \E row \in Row \cup {NoRow} : rows' = [rows EXCEPT ![i] = row]
  <2>1. CASE rows' = [rows EXCEPT ![i] = NoRow]
    BY <2>1
  <2>2. ASSUME NEW c \in Contents, rows' = [rows EXCEPT ![i].content = c, ![i].version = @ + 1]
        PROVE  \E row \in Row \cup {NoRow} : rows' = [rows EXCEPT ![i] = row]
    <3> DEFINE row == [rows[i] EXCEPT !.content = c, !.version = @ + 1]
    <3>1. row \in Row /\ rows' = [rows EXCEPT ![i] = row]
      BY <1>2, <2>2 DEF RowsTyped, Row
    <3> QED
      BY <3>1
  <2>3. ASSUME rows' = [rows EXCEPT ![i].status = "submitted", ![i].version = @ + 1]
        PROVE  \E row \in Row \cup {NoRow} : rows' = [rows EXCEPT ![i] = row]
    <3> DEFINE row == [rows[i] EXCEPT !.status = "submitted", !.version = @ + 1]
    <3>1. row \in Row /\ rows' = [rows EXCEPT ![i] = row]
      BY <1>2, <2>3 DEF RowsTyped, Row
    <3> QED
      BY <3>1
  <2> QED
    BY <2>1, <2>2, <2>3 DEF EditElsewhere
<1>4. PICK row \in Row \cup {NoRow} : rows' = [rows EXCEPT ![i] = row]
  BY <1>3
<1>5. RowsTyped' /\ \A j \in Ids : Submitted(j) => rows'[j] = rows[j]
  BY <1>1, <1>4 DEF RowsTyped
<1> QED
  BY <1>1, <1>5, RowChangeKeeps DEF Submitted

LEMMA CorrectRowKeeps ==
  ASSUME DeviceInv, NEW i \in Ids, CorrectRow(i),
         UNCHANGED <<scenario, store, session, tabs, loops, receipts, vain, wire>>
  PROVE  Forward /\ DeviceInv'
<1> USE TypeParts DEF DeviceInv
<1>1. scenario' = scenario /\ Disrupt
      /\ UNCHANGED <<store, session, tabs, loops, receipts, vain, wire>>
  BY DEF CorrectRow
<1>2. PICK c \in Contents :
        rows' = [rows EXCEPT ![i].content = c, ![i].corrected = TRUE,
                             ![i].version = IF domain = "harvest" THEN @ + 1 ELSE @]
  BY DEF CorrectRow
<1>3. rows[i] \in Row /\ rows[i].status = "submitted"
  BY DEF CorrectRow, RowsTyped
<1>4. PICK version \in Nat :
        version = IF domain = "harvest" THEN rows[i].version + 1 ELSE rows[i].version
  BY <1>3 DEF Row
<1> DEFINE row == [rows[i] EXCEPT !.content = c, !.corrected = TRUE, !.version = version]
<1>5. row \in Row /\ row.status = "submitted" /\ row.corrected
  BY <1>3 DEF Row
<1>6. rows' = [rows EXCEPT ![i] = row]
  BY <1>2, <1>3, <1>4 DEF RowsTyped, Row
<1> HIDE DEF row
<1>7. RowsTyped' /\ rows'[i] = row /\ rows'[i] # NoRow /\ \A j \in Ids \ {i} : rows'[j] = rows[j]
  BY <1>5, <1>6, MarksAreApart DEF RowsTyped
<1> QED
  BY <1>1, <1>5, <1>7, RowChangeKeeps DEF Submitted

LEMMA ElsewhereKeeps ==
  ASSUME DeviceInv, Elsewhere
  PROVE  Forward /\ DeviceInv'
<1>1. ASSUME NEW u \in Users, LeaseExpires(u) \/ ChangePermission(u)
      PROVE  Forward /\ DeviceInv'
  BY <1>1, LeaseExpiresKeeps, ChangePermissionKeeps
<1>2. ASSUME NEW n \in live, SessionEnds(n)
      PROVE  Forward /\ DeviceInv'
  BY <1>2, SessionEndsKeeps
<1>3. ASSUME NEW i \in Ids, EditElsewhere(i) \/ CorrectElsewhere(i)
      PROVE  Forward /\ DeviceInv'
  BY <1>3, EditElsewhereKeeps, CorrectRowKeeps DEF CorrectElsewhere
<1> QED
  BY <1>1, <1>2, <1>3 DEF Elsewhere

LEMMA UserStepKeeps ==
  ASSUME DeviceInv, UserStep
  PROVE  Forward /\ DeviceInv'
<1>1. PICK t \in scenario.pages :
        \/ \E u \in Users : Login(t, u)
        \/ \E heard \in BOOLEAN : SignOut(t, heard)
        \/ SuspendLease(t) \/ OpenOnline(t)
        \/ \E unauthenticated \in BOOLEAN : OpenOffline(t, unauthenticated)
        \/ ClosePage(t) \/ CheckOwner(t) \/ PutDraft(t)
        \/ \E i \in scenario.ids :
             \/ CreateDraft(t, i) \/ FetchServerDraft(t, i)
             \/ \E c \in Contents : SaveDraft(t, i, c)
             \/ \E o \in scenario.ops : QueueSubmission(t, i, o) \/ QueueHarvestSubmission(t, i, o)
  BY DEF UserStep, CreateLocalDraft, CreateLocalHarvestDraft, SaveLocalDraft, SaveLocalHarvestDraft
<1>2. t \in Tabs /\ scenario.ids \subseteq Ids /\ scenario.ops \subseteq Ops
  BY ScenarioTyped, TypeParts DEF DeviceInv
<1>3. CASE \/ \E u \in Users : Login(t, u)
           \/ \E heard \in BOOLEAN : SignOut(t, heard)
           \/ SuspendLease(t) \/ OpenOnline(t)
  BY <1>2, <1>3, LoginKeeps, SignOutKeeps, SuspendLeaseKeeps, OpenOnlineKeeps
<1>4. CASE \/ \E unauthenticated \in BOOLEAN : OpenOffline(t, unauthenticated)
           \/ ClosePage(t) \/ CheckOwner(t) \/ PutDraft(t)
  BY <1>2, <1>4, OpenOfflineKeeps, ClosePageKeeps, CheckOwnerKeeps, PutDraftKeeps
<1>5. ASSUME NEW i \in Ids, CreateDraft(t, i) \/ FetchServerDraft(t, i)
      PROVE  Forward /\ DeviceInv'
  BY <1>2, <1>5, CreateDraftKeeps, FetchServerDraftKeeps
<1>6. ASSUME NEW i \in Ids, NEW c \in Contents, SaveDraft(t, i, c)
      PROVE  Forward /\ DeviceInv'
  BY <1>2, <1>6, SaveDraftKeeps
<1>7. ASSUME NEW i \in Ids, NEW o \in Ops,
             QueueSubmission(t, i, o) \/ QueueHarvestSubmission(t, i, o)
      PROVE  Forward /\ DeviceInv'
  BY <1>2, <1>7, QueueSubmissionKeeps
<1> QED
  BY <1>1, <1>2, <1>3, <1>4, <1>5, <1>6, <1>7

LEMMA DeviceInit == ASSUME Init PROVE DeviceInv
<1> USE DEF Init
<1>1. /\ \A o \in Ops : outbox[o] = NoOp /\ receipts[o] = Undecided
      /\ \A i \in Ids : drafts[i] = NoDraft
      /\ \A t \in Tabs : tabs[t] = NewTab
      /\ \A r \in Loops : loops[r] = IdleLoop
      /\ vain = {} /\ wire = {}
  OBVIOUS
<1>2. EnvTyped
  BY ScenariosAreSuch DEF EnvTyped, Scenario
<1>3. DraftsTyped /\ OutboxTyped /\ BooksTyped /\ WireTyped
  BY DEF DraftsTyped, OutboxTyped, BooksTyped, WireTyped
<1>4. SessionTyped
  BY DEF SessionTyped, NoLease, Lease
<1>5. PagesTyped /\ LoopsTyped
  <2>1. NewTab \in PageMemory
    BY DEF NewTab, PageMemory
  <2> QED
    BY <2>1, IdleTyped DEF PagesTyped, LoopsTyped
<1>6. RowsTyped
  <2>1. PICK u \in Users, c \in Contents :
          rows = [i \in Ids |-> IF i \notin born THEN NoRow ELSE
                   [status |-> "draft", version |-> 1, creator |-> u, content |-> c,
                    corrected |-> FALSE]]
    OBVIOUS
  <2> DEFINE row == [status |-> "draft", version |-> 1, creator |-> u, content |-> c,
                     corrected |-> FALSE]
  <2>2. row \in Row
    BY DEF Row
  <2> HIDE DEF row
  <2>3. rows = [i \in Ids |-> IF i \notin born THEN NoRow ELSE row]
    BY <2>1 DEF row
  <2> QED
    BY <2>2, <2>3 DEF RowsTyped
<1>7. TypeOK
  BY <1>2, <1>3, <1>4, <1>5, <1>6, TypeParts
<1>8. /\ \A o \in Ops : OpSound(o)
      /\ \A i \in Ids : DraftSound(i)
      /\ \A t \in Tabs : PageSound(t)
      /\ \A r \in Loops : RunSound(r)
      /\ \A q \in wire : RequestSound(q)
  <2>1. \A o \in Ops : OpSound(o)
    BY <1>1 DEF OpSound, Used, Confirms, NoOp, Undecided
  <2>2. \A i \in Ids : DraftSound(i)
    BY <1>1 DEF DraftSound, WaitingStates, NoDraft
  <2>3. \A t \in Tabs : PageSound(t)
    BY <1>1 DEF PageSound, NewTab
  <2>4. \A r \in Loops : RunSound(r)
    BY <1>1 DEF RunSound, IdleLoop, Working
  <2> QED
    BY <1>1, <2>1, <2>2, <2>3, <2>4
<1>9. OneSubmissionPerRecord
  BY <1>1 DEF OneSubmissionPerRecord, Undecided
<1> QED
  BY <1>7, <1>8, <1>9 DEF DeviceInv

LEMMA NextKeeps == ASSUME DeviceInv, Next PROVE Forward /\ DeviceInv'
<1>1. ASSUME NEW r \in scenario.engines,
             StartRegistrar(r) \/ StartSync(r) \/ EngineStep(r) \/ GiveUp(r)
      PROVE  Forward /\ DeviceInv'
  <2>1. r \in Loops
    BY ScenarioTyped, TypeParts DEF DeviceInv
  <2> QED
    BY <1>1, <2>1, StartKeeps, EngineStepKeeps, GiveUpKeeps
<1> QED
  BY <1>1, UserStepKeeps, ElsewhereKeeps, ServeKeeps DEF Next

LEMMA StutterKeeps == ASSUME DeviceInv, UNCHANGED vars PROVE Forward /\ DeviceInv'
<1> USE DEF vars
<1>1. Forward
  BY StoreStays, ServerStays DEF Forward, env
<1>2. /\ outbox' = outbox /\ drafts' = drafts /\ receipts' = receipts /\ vain' = vain
      /\ rows' = rows /\ scenario' = scenario /\ tabs' = tabs /\ loops' = loops /\ wire' = wire
  BY DEF store, server, env
<1>3. TypeOK'
  BY DEF DeviceInv, TypeOK, env, session, store, server
<1> QED
  BY <1>1, <1>2, <1>3, QuietKeeps

LEMMA DeviceInvariant == Spec => []DeviceInv
<1>1. DeviceInv /\ [Next]_vars => DeviceInv'
  BY NextKeeps, StutterKeeps
<1> QED
  BY <1>1, DeviceInit, PTL DEF Spec

-----------------------------------------------------------------------------
(* What it implies.                                                        *)

LEMMA DeviceInvImplies ==
  DeviceInv => /\ TypeOK /\ ConfirmedIsRecorded /\ SyncedIsRecorded /\ WaitingIsAccounted
               /\ OneSubmissionPerRecord
<1> SUFFICES ASSUME DeviceInv
             PROVE  /\ TypeOK /\ ConfirmedIsRecorded /\ SyncedIsRecorded /\ WaitingIsAccounted
                    /\ OneSubmissionPerRecord
  OBVIOUS
<1>1. ConfirmedIsRecorded
  BY DEF DeviceInv, ConfirmedIsRecorded, OpSound, Arrived
<1>2. SyncedIsRecorded
  BY DEF DeviceInv, SyncedIsRecorded, DraftSound
<1>3. WaitingIsAccounted
  BY DEF DeviceInv, WaitingIsAccounted, DraftSound, Kept, WaitingStates
<1>4. TypeOK /\ OneSubmissionPerRecord
  BY DEF DeviceInv
<1> QED
  BY <1>1, <1>2, <1>3, <1>4

\* The state of a device, of its sessions and of the server stays well-formed, and no
\* more disruptions happen than the scenario brings.
THEOREM DeviceTypes == Spec => []TypeOK
BY DeviceInvImplies, DeviceInvariant, PTL

\* Work leaves a device only into the server's books, whatever fails on the way.
THEOREM OnlyConfirmedWorkLeaves == Spec => []ConfirmedIsRecorded
BY DeviceInvImplies, DeviceInvariant, PTL

\* A draft shown as synced is submitted, and in the harvest screens says what the
\* server recorded.
THEOREM SyncedDraftsAreRecorded == Spec => []SyncedIsRecorded
BY DeviceInvImplies, DeviceInvariant, PTL

\* A draft that says it waits, or needs attention, still has its operation, or is on
\* the server already.
THEOREM WaitingDraftsAreKept == Spec => []WaitingIsAccounted
BY DeviceInvImplies, DeviceInvariant, PTL

\* However often a draft is queued, by whom, and however late or often its operations
\* are sent, at most one of them is applied to the record.
THEOREM RecordsAreSubmittedOnce == Spec => []OneSubmissionPerRecord
BY DeviceInvImplies, DeviceInvariant, PTL

\* Nothing is undone: an operation never changes what it says and never returns to
\* the outbox, a draft of the device never disappears, a submitted record stays
\* submitted with the same facts unless it is explicitly corrected, and the server
\* never takes a decision back.
THEOREM NothingIsUndone == Spec => [][Forward]_vars
<1>1. DeviceInv /\ [Next]_vars => [Forward]_vars
  BY NextKeeps
<1> QED
  BY <1>1, DeviceInvariant, PTL DEF Spec
=============================================================================
