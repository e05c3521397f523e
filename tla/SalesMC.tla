------------------------------ MODULE SalesMC ------------------------------
(***************************************************************************)
(* Sales on a few rows; keys and workers are interchangeable.              *)
(***************************************************************************)
EXTENDS Sales, TLC

\* A configuration file cannot hold a negative number.
SignedParts == {-1, 1}

\* Bound: deposit orders and the sales they become do not meet the sales that are made
\* at the till, with their cheques and edits, nor the expenses.
Ordered == {o \in Orders : order[o] # Absent} # {}
           \/ \E s \in SaleIds : sale[s] # Absent /\ sale[s].of_order # None
Apart ==
  Ordered =>
    /\ expense = {}
    /\ \A c \in ChequeNumbers : cheque[c] = Absent
    /\ \A s \in SaleIds : sale[s] # Absent => sale[s].of_order # None
    /\ \A w \in Workers :
         job[w] # Idle => job[w].next \in {"settle", "save_order", "save_customer"}

Symmetry == Permutations(SaleIds) \cup Permutations(ExpenseIds) \cup Permutations(Workers)
=============================================================================
