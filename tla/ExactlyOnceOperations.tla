----------------------- MODULE ExactlyOnceOperations -----------------------
(***************************************************************************)
(* What the server promises a device about its queued operations, with no  *)
(* transactions and no locks: the first request about an operation to take *)
(* effect decides its outcome for good, an applied operation is one        *)
(* business fact, and every later answer is a replay of that decision, to  *)
(* the user it was decided for and to nobody else.                         *)
(***************************************************************************)
CONSTANTS Users, Ops

VARIABLES
  outcome,   \* the decision on each operation, with the user it binds
  facts,     \* the operations that became a business fact
  answers    \* what users have been told, with effect

Undecided == [result |-> "none"]

Replayed(decision, u) ==
  IF decision.actor # u THEN "rejected"
  ELSE IF decision.result = "applied" THEN "already_applied" ELSE decision.result

Init ==
  /\ outcome = [op \in Ops |-> Undecided]
  /\ facts = {}
  /\ answers = {}

Decide(op, u, result) ==
  /\ outcome[op] = Undecided
  /\ outcome' = [outcome EXCEPT ![op] = [actor |-> u, result |-> result]]
  /\ facts' = IF result = "applied" THEN facts \cup {op} ELSE facts
  /\ answers' = answers \cup {<<op, u, result>>}

Answer(op, u) ==
  /\ outcome[op] # Undecided
  /\ answers' = answers \cup {<<op, u, Replayed(outcome[op], u)>>}
  /\ UNCHANGED <<outcome, facts>>

Next ==
  \E op \in Ops, u \in Users :
    \/ \E result \in {"applied", "already_applied", "conflict", "rejected"} :
         Decide(op, u, result)
    \/ Answer(op, u)

Spec == Init /\ [][Next]_<<outcome, facts, answers>>
=============================================================================
