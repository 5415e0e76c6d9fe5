--------------------------- MODULE MCFarmRegister ---------------------------
(* A small instance of FarmRegister for TLC. *)
EXTENDS FarmRegister

CONSTANTS a, b, r1, r2

\* a was created beneath b.
BeneathB == [u \in Founders |-> IF u = a THEN b ELSE NoUnit]

\* Requests of all kinds, three at a time; and one Manager's screen with another
\* Manager's request.
ServerOrScreen ==
  {[clicks |-> 0, colleagues |-> Requests, own |-> {}],
   [clicks |-> 3, colleagues |-> {r1}, own |-> {r2}]}
=============================================================================
