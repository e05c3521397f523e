-------------------------- MODULE EmployeeRequestMC --------------------------
(***************************************************************************)
(* EmployeeRequest on a small company: an employee whose superiors are a   *)
(* department head and an administrator, and a financial manager.          *)
(***************************************************************************)
EXTENDS EmployeeRequest, TLC

CONSTANTS employee, head, admin, finance

MCSuperiorsOf ==
  [u \in Users |-> CASE u = employee -> {head, admin}
                    [] u = head     -> {admin}
                    [] OTHER        -> {}]

Symmetry == Permutations(Workers)
=============================================================================
