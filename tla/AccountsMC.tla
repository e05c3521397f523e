----------------------------- MODULE AccountsMC -----------------------------
(* Instances of Accounts for model checking. *)
EXTENDS Accounts, TLC

Symmetry == Permutations(Users) \cup Permutations(Names) \cup Permutations(Workers)
=============================================================================
