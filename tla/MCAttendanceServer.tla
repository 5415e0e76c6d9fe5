------------------------- MODULE MCAttendanceServer -------------------------
(* Small instances of AttendanceServer for TLC. *)
EXTENDS AttendanceServer, TLC

CONSTANTS w1, w2, present, absent, u1, s1, s2, o1, o2, d1, r1, r2

Only(w, entry) == [v \in Workers |-> IF v = w THEN entry ELSE Unlisted]

\* One Worker: present or not yet marked; or marked either way, too.
PresentOrUnmarked == {Only(w1, entry) : entry \in {present, Unmarked}}
OneWorkerRosters == {Only(w1, entry) : entry \in {present, absent, Unmarked}}

Past(action, s, fp) ==
  [action |-> action, session |-> s, user |-> u1, op |-> NoOp, request |-> NoRequest,
   fingerprint |-> fp]

Undisturbed == receipts = [op \in Ops |-> NoReceipt] /\ active = Workers

\* Nothing yet, but for s2, a session of the past that was discarded.
Fresh ==
  /\ Undisturbed
  /\ sessions = [s \in SessionIds |-> Absent]
  /\ audit = {Past(action, s2, {}) : action \in {"created", "discarded"}}
  /\ queued = [op \in Ops |-> NotQueued]
  /\ pc = [r \in Requests |-> "new"] /\ job = [r \in Requests |-> IdleJob]

\* The draft in which only w is present, and its submission.
Draft(w) == UpdatedDraft(NewDraft(u1, d1), 2, Only(w, present))
Sent(w)  == Submitted(Draft(w), u1)

\* Two drafts were taken by devices, s1 with only w1 on it and s2 with only w2; each
\* device made the other's roster of its draft, and its submission has been read
\* against the draft (r1, r2) when both drafts are submitted as they are, online.
Crossed ==
  LET mine  == (s1 :> w1) @@ (s2 :> w2)
      sync  == (r1 :> [op |-> o1, s |-> s1, w |-> w2]) @@ (r2 :> [op |-> o2, s |-> s2, w |-> w1])
      slot(op) == CHOOSE r \in {r1, r2} : sync[r].op = op
      online == DOMAIN mine
  IN
  /\ Undisturbed
  /\ sessions = [s \in SessionIds |-> IF s \in online THEN Sent(mine[s]) ELSE Absent]
  /\ audit = UNION {{Past("created", s, {}), Past("submitted", s, {mine[s]})} : s \in online}
  /\ queued = [op \in Ops |->
       [target |-> sync[slot(op)].s, base |-> 2, date |-> d1,
        roster |-> Only(sync[slot(op)].w, present), payloadVersion |-> 1]]
  /\ pc = [r \in Requests |-> IF r \in {r1, r2} THEN "apply" ELSE "new"]
  /\ job = [r \in Requests |-> IF r \notin {r1, r2} THEN IdleJob ELSE
       [NewJob(u1, sync[r].op, sync[r].s) EXCEPT !.seen = Draft(mine[sync[r].s])]]

FreshOrCrossed == (Fresh \/ Crossed) /\ [][Next]_vars

Symmetry == Permutations(Requests) \cup Permutations(Users) \cup Permutations(Ops)
=============================================================================
