--------------------------- MODULE MCNpcActivity ---------------------------
(***************************************************************************)
(* TLC instances of NpcActivity: places on a line, next to each other is   *)
(* near enough to see, to step and to strike.                              *)
(***************************************************************************)
EXTENDS NpcActivity, Integers, TLC

CONSTANT Length
ASSUME LengthAssumption == Length \in Nat \ {0}

Line == 1 .. Length
Within(d) == {<<a, b>> \in Line \X Line : a - b \in -d .. d}
Near == Within(1)
Beside == Within(1) \ Within(0)
=============================================================================
