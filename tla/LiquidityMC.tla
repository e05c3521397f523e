----------------------------- MODULE LiquidityMC -----------------------------
(***************************************************************************)
(* Liquidity on a few expenses, cheques and card transactions.  The keys   *)
(* of the tables and the workers are interchangeable.                      *)
(***************************************************************************)
EXTENDS Liquidity, TLC

\* Amounts of expenses and cheques may be negative: clients enter one such amount.
SignedAmounts == {-1, 2}

Symmetry == Permutations(Expenses) \cup Permutations(Checks)
              \cup Permutations(Transactions) \cup Permutations(Workers)
=============================================================================
