--------------------------- MODULE MCMockRegistry ---------------------------
(* Instances of MockRegistry for TLC. *)
EXTENDS MockRegistry, TLC

OneOfEach == {"publisher", "service", "action_server", "timer"}
AllKinds == NamedKinds \cup {"timer"}

Symmetry == Permutations(Nodes) \cup Permutations(Addrs) \cup Permutations(Types)
=============================================================================
