--------------------------- MODULE MCRunnerRegistry ---------------------------
(* A small instance of RunnerRegistry for TLC: two runners that share one  *)
(* compiler; calls of the first one can overlap.                           *)
EXTENDS RunnerRegistry

CONSTANTS r1, r2, c1, c2

TwoAndOne == {<<r1, 1>>, <<r1, 2>>, <<r2, 1>>}
Owner == [c \in Connections |-> c[1]]
SharedOffers == [r \in Runners |-> IF r = r1 THEN {c1} ELSE {c1, c2}]
=============================================================================
