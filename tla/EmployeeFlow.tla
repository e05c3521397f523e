---------------------------- MODULE EmployeeFlow ----------------------------
(***************************************************************************)
(* What the approval workflow of employee requests promises, one atomic    *)
(* step per decision: every request walks down one path of the diagram in  *)
(* API/EMPLOYEE_REQUESTS_API_DOCS.md, decides each stage at most once,     *)
(* stops in a final status and records every step in its trail.            *)
(***************************************************************************)
EXTENDS Naturals, Sequences

CONSTANTS Ids, NoStatus

VARIABLES
  status,  \* status[i]: where request i stands, or NoStatus
  trail    \* trail[i]: the stages decided and what each decided, in order

flowVars == <<status, trail>>

Init == /\ status = [i \in Ids |-> NoStatus]
        /\ trail = [i \in Ids |-> <<>>]

\* A decision of one stage, for a request that stands at from.
Decide(i, from, stage, outcomes) ==
  /\ status[i] = from
  /\ \E next \in outcomes :
       /\ status' = [status EXCEPT ![i] = next]
       /\ trail' = [trail EXCEPT ![i] = Append(@, <<stage, next>>)]

Submit(i) == Decide(i, NoStatus, "SUBMIT", {"PENDING_SUPERIOR", "PENDING_ADMIN"})

CancelRequest(i) == Decide(i, "PENDING_SUPERIOR", "CANCEL", {"CANCELLED"})

SuperiorDecides(i) ==
  Decide(i, "PENDING_SUPERIOR", "SUPERIOR",
         {"PENDING_ADMIN", "PENDING_FINANCE", "REJECTED_BY_SUPERIOR"})

AdminDecides(i) ==
  Decide(i, "PENDING_ADMIN", "ADMIN", {"PENDING_FINANCE", "REJECTED_BY_ADMIN"})

FinanceDecides(i) ==
  Decide(i, "PENDING_FINANCE", "FINANCE", {"PAID", "APPROVED", "REJECTED_BY_FINANCE"})

\* A deleted request takes its trail with it.
Remove(i) ==
  /\ status' = [status EXCEPT ![i] = NoStatus]
  /\ trail' = [trail EXCEPT ![i] = <<>>]

Next ==
  \E i \in Ids :
    \/ Submit(i) \/ CancelRequest(i)
    \/ SuperiorDecides(i) \/ AdminDecides(i) \/ FinanceDecides(i)
    \/ Remove(i)

FlowSpec == Init /\ [][Next]_flowVars
=============================================================================
