----------------------------- MODULE ApprovalsMC -----------------------------
(***************************************************************************)
(* Approvals in a small shop: a supervisor, a manager who holds the roles  *)
(* of every stage but the admin's, an admin and a cashier.                 *)
(***************************************************************************)
EXTENDS Approvals, TLC

CONSTANTS supervisor, manager, admin, cashier

MCHoldersOf ==
  [code \in {"SALES_MANAGER", "WAREHOUSE", "STATISTICIAN", "EXECUTIVE_MANAGER"} |-> {manager}]
    @@ [code \in {"SUPERVISOR"} |-> {supervisor}]
    @@ [code \in {"CASHIER", "ACCOUNTANT"} |-> {cashier} \cap Users]

MCSuperiorsOf ==
  [u \in Users |-> CASE u = cashier    -> {supervisor}
                     [] u = supervisor -> {manager, admin}
                     [] OTHER          -> {}]

Symmetry == Permutations(Workers) \cup Permutations(Goods)
=============================================================================
