------------------------------ MODULE Hierarchy ------------------------------
(***************************************************************************)
(* The users of the company, the roles that decide about requests, and the *)
(* graph of superiors (CustomUser), which may contain cycles.              *)
(***************************************************************************)

CONSTANTS
  Users, NoUser,
  Admins,           \* superusers and holders of the role ADMIN
  FinanceManagers,  \* holders of the role FINANCIAL_MANAGER
  SuperiorsOf       \* CustomUser.superiors: user -> set of direct superiors

ASSUME UsersAssumption ==
  /\ NoUser \notin Users
  /\ Admins \subseteq Users
  /\ FinanceManagers \subseteq Users
  /\ SuperiorsOf \in [Users -> SUBSET Users]

\* Everyone above u: the breadth-first walk over superiors, cycles included.
Above(u) ==
  LET closed == {S \in SUBSET Users :
                   SuperiorsOf[u] \subseteq S /\ \A s \in S : SuperiorsOf[s] \subseteq S}
  IN {s \in Users : \A S \in closed : s \in S}

IsSuperiorTo(u, v) == u # v /\ (u \in Admins \/ u \in Above(v))

\* "is_admin" of the request handlers: FINANCIAL_MANAGER counts.
IsAdmin(u) == u \in Admins \cup FinanceManagers

\* What validate() leaves in target_superior: one of the CALLER's superiors;
\* a caller without superiors may name anybody or nobody.
TargetChoices(u) ==
  IF SuperiorsOf[u] = {} THEN Users \cup {NoUser} ELSE SuperiorsOf[u]
=============================================================================
