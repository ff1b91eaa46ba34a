---------------------------- MODULE MCTestClock -----------------------------
(* Instances of TestClock for TLC. *)
EXTENDS TestClock

AnyAmount == {-1, 0, 1, 2, 3, 5}
FewAmounts == {-1, 1, 3}
=============================================================================
