---------------------------- MODULE MCLoggerMock ----------------------------
(* Instances of LoggerMock for TLC. *)
EXTENDS LoggerMock, TLC

Symmetry == Permutations(Threads)
=============================================================================
