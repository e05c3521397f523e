--------------------------- MODULE EmployeeRequest ---------------------------
(***************************************************************************)
(* The approval workflow of employee requests (leave, advance, overtime,   *)
(* miscellaneous): EmployeeRequestViewSet, its serializer and the history  *)
(* table EmployeeRequestLog.  Several workers may handle the same request  *)
(* at once; RowStore says what each of them reads and writes.              *)
(***************************************************************************)
EXTENDS RowStore, Hierarchy

CONSTANTS
  RequestTypes,     \* the request types in use
  Endpoints,        \* the endpoints clients call
  MaxLog            \* bound: no handler starts on a request with MaxLog entries

AllEndpoints ==
  {"create", "cancel", "superior", "admin", "finance", "update", "destroy"}

ASSUME InputsAssumption ==
  /\ "ADVANCE" \in RequestTypes
  /\ Endpoints \subseteq AllEndpoints
  /\ MaxLog \in Nat

vars == storeVars

Statuses ==
  {"PENDING_SUPERIOR", "REJECTED_BY_SUPERIOR", "PENDING_ADMIN",
   "REJECTED_BY_ADMIN", "PENDING_FINANCE", "REJECTED_BY_FINANCE",
   "APPROVED", "PAID", "CANCELLED"}

Row == [requester : Users, request_type : RequestTypes, status : Statuses,
        target_superior : Users \cup {NoUser},
        superior_reviewer : Users \cup {NoUser},
        admin_reviewer : Users \cup {NoUser},
        finance_reviewer : Users \cup {NoUser},
        payment_date : BOOLEAN]   \* whether a date is recorded

\* outcome abstracts the text of the entry: what the stage decided.
Entry == [stage : {"SUBMIT", "SUPERIOR", "ADMIN", "FINANCE", "CANCEL"},
          actor : Users, outcome : Statuses]

ASSUME AbsentAssumption == Absent \notin Row
ASSUME NoEntryAssumption == NoEntry \notin Entry

-----------------------------------------------------------------------------
Visible(u, r) ==
  \/ IsAdmin(u)
  \/ u \in {r.requester, r.target_superior}
  \/ r.target_superior = NoUser /\ u \in Above(r.requester)

\* get_object() of an existing request by a free worker, for one endpoint.
Loads(w, u, i, endpoint) ==
  /\ endpoint \in Endpoints
  /\ job[w] = Idle /\ row[i] # Absent
  /\ Visible(u, row[i])
  /\ Len(log[i]) < MaxLog

\* Slip: the entry names the chosen superior instead of the caller.
MovesActorTarget(w, u, i, stage, changed) ==
  Prepare(w, i, changed,
          [stage |-> stage, actor |-> row[i].target_superior, outcome |-> changed.status])

\* Slip: the entry is composed before the status changes.
MovesLogFirst(w, u, i, stage, changed) ==
  Prepare(w, i, changed, [stage |-> stage, actor |-> u, outcome |-> row[i].status])

\* The save and the entry by which user u moves request i to a new status.
Moves(w, u, i, stage, changed) ==
  Prepare(w, i, changed, [stage |-> stage, actor |-> u, outcome |-> changed.status])

-----------------------------------------------------------------------------
Create(u, i) ==
  /\ "create" \in Endpoints
  /\ \E type \in RequestTypes, target \in TargetChoices(u) :
       LET status == IF SuperiorsOf[u] # {} THEN "PENDING_SUPERIOR"
                                            ELSE "PENDING_ADMIN"
       IN Insert(i, [requester |-> u, request_type |-> type, status |-> status,
                     target_superior |-> target, superior_reviewer |-> NoUser,
                     admin_reviewer |-> NoUser, finance_reviewer |-> NoUser,
                     payment_date |-> FALSE],
                 [stage |-> "SUBMIT", actor |-> u, outcome |-> status])

\* Slip: every request that is still pending can be cancelled.
CancelAnyPending(w, u, i) ==
  /\ Loads(w, u, i, "cancel")
  /\ row[i].requester = u
  /\ row[i].status \in {"PENDING_SUPERIOR", "PENDING_ADMIN", "PENDING_FINANCE"}
  /\ Moves(w, u, i, "CANCEL", [row[i] EXCEPT !.status = "CANCELLED"])

Cancel(w, u, i) ==
  /\ Loads(w, u, i, "cancel")
  /\ row[i].requester = u
  /\ row[i].status = "PENDING_SUPERIOR"
  /\ Moves(w, u, i, "CANCEL", [row[i] EXCEPT !.status = "CANCELLED"])

\* The admin stage is merged when the approver is an admin; the approver is the
\* chosen superior when there is one, whoever is calling.
SuperiorReview(w, u, i) ==
  LET r        == row[i]
      approver == IF r.target_superior # NoUser THEN r.target_superior ELSE u
      approved == IF approver \in Admins THEN "PENDING_FINANCE" ELSE "PENDING_ADMIN"
  IN
  /\ Loads(w, u, i, "superior")
  /\ r.status = "PENDING_SUPERIOR"
  /\ \/ IsAdmin(u)
     \/ r.target_superior = u
     \/ r.target_superior = NoUser /\ IsSuperiorTo(u, r.requester)
  /\ \E next \in {approved, "REJECTED_BY_SUPERIOR"} :
       Moves(w, u, i, "SUPERIOR",
             [r EXCEPT !.superior_reviewer = u, !.status = next])

\* Slip: the status is not tested, so an admin may overtake the superior.
AdminReviewAnyStatus(w, u, i) ==
  /\ Loads(w, u, i, "admin")
  /\ IsAdmin(u)
  /\ \E next \in {"PENDING_FINANCE", "REJECTED_BY_ADMIN"} :
       Moves(w, u, i, "ADMIN",
             [row[i] EXCEPT !.admin_reviewer = u, !.status = next])

AdminReview(w, u, i) ==
  /\ Loads(w, u, i, "admin")
  /\ row[i].status = "PENDING_ADMIN"
  /\ IsAdmin(u)
  /\ \E next \in {"PENDING_FINANCE", "REJECTED_BY_ADMIN"} :
       Moves(w, u, i, "ADMIN",
             [row[i] EXCEPT !.admin_reviewer = u, !.status = next])

\* Slip: the payment date is stored before the decision is looked at.
FinanceReviewDated(w, u, i) ==
  LET approved == IF row[i].request_type = "ADVANCE" THEN "PAID" ELSE "APPROVED" IN
  /\ Loads(w, u, i, "finance")
  /\ row[i].status = "PENDING_FINANCE"
  /\ IsAdmin(u)
  /\ \E next \in {approved, "REJECTED_BY_FINANCE"} :
       Moves(w, u, i, "FINANCE",
             [row[i] EXCEPT !.finance_reviewer = u, !.status = next, !.payment_date = TRUE])

\* Slip: a paid advance may be decided once more.
FinanceReviewAgain(w, u, i) ==
  LET approved == IF row[i].request_type = "ADVANCE" THEN "PAID" ELSE "APPROVED" IN
  /\ Loads(w, u, i, "finance")
  /\ row[i].status \in {"PENDING_FINANCE", "PAID"}
  /\ IsAdmin(u)
  /\ \E next \in {approved, "REJECTED_BY_FINANCE"} :
       Moves(w, u, i, "FINANCE",
             [row[i] EXCEPT !.finance_reviewer = u, !.status = next,
                            !.payment_date = (@ \/ next = "PAID")])

\* Approving an advance pays it: the payment date is required and recorded.
FinanceReview(w, u, i) ==
  LET approved == IF row[i].request_type = "ADVANCE" THEN "PAID" ELSE "APPROVED" IN
  /\ Loads(w, u, i, "finance")
  /\ row[i].status = "PENDING_FINANCE"
  /\ IsAdmin(u)
  /\ \E next \in {approved, "REJECTED_BY_FINANCE"} :
       Moves(w, u, i, "FINANCE",
             [row[i] EXCEPT !.finance_reviewer = u, !.status = next,
                            !.payment_date = (@ \/ next = "PAID")])

\* PUT and PATCH: open to everyone who sees the request, at any status; no entry.
Update(w, u, i) ==
  /\ Loads(w, u, i, "update")
  /\ \E type \in RequestTypes, target \in TargetChoices(u) :
       Prepare(w, i, [row[i] EXCEPT !.request_type = type,
                                    !.target_superior = target], NoEntry)

Destroy(w, u, i) ==
  /\ Loads(w, u, i, "destroy")
  /\ Prepare(w, i, Absent, NoEntry)

-----------------------------------------------------------------------------
Init == StoreInit

Next ==
  \/ \E u \in Users, i \in Ids : Create(u, i)
  \/ \E w \in Workers, u \in Users, i \in Ids :
       \/ Cancel(w, u, i)
       \/ SuperiorReview(w, u, i)
       \/ AdminReview(w, u, i)
       \/ FinanceReview(w, u, i)
       \/ Update(w, u, i)
       \/ Destroy(w, u, i)
  \/ \E w \in Workers : Commit(w) \/ Rollback(w)

Spec == Init /\ [][Next]_vars

-----------------------------------------------------------------------------
TypeOK == StoreTypeOK(Row, Entry)

\* The history H shows that r reached the admin stage ...
ReachedAdmin(r, H) ==
  \/ [stage |-> "SUBMIT", actor |-> r.requester, outcome |-> "PENDING_ADMIN"] \in H
  \/ [stage |-> "SUPERIOR", actor |-> r.superior_reviewer, outcome |-> "PENDING_ADMIN"] \in H

\* ... and the finance stage: merged by the superior, or sent on by the admin.
ReachedFinance(r, H) ==
  \/ [stage |-> "SUPERIOR", actor |-> r.superior_reviewer, outcome |-> "PENDING_FINANCE"] \in H
  \/ /\ [stage |-> "ADMIN", actor |-> r.admin_reviewer, outcome |-> "PENDING_FINANCE"] \in H
     /\ ReachedAdmin(r, H)

\* The reviewers that row r names brought it, according to H, to its status.
Backed(r, H) ==
  /\ r.status = "PENDING_ADMIN" => ReachedAdmin(r, H)
  /\ r.status \in {"PENDING_FINANCE", "APPROVED", "PAID"} => ReachedFinance(r, H)
  /\ r.status \in {"APPROVED", "PAID"} =>
       [stage |-> "FINANCE", actor |-> r.finance_reviewer, outcome |-> r.status] \in H

\* Whatever saves of stale snapshots the workers interleave, no request is paid
\* or approved, or waits for finance or the admin, without the complete chain of
\* recorded decisions, taken by the very reviewers its row names (docs line 51).
ApprovalChain ==
  \A i \in Ids : row[i] # Absent => Backed(row[i], History(i))

\* A payment date is recorded exactly on the requests that are PAID: a stale
\* save that takes a request back from PAID takes its payment date back too.
PaymentDateIffPaid ==
  \A i \in Ids : row[i] # Absent => (row[i].payment_date <=> row[i].status = "PAID")

\* The status is the one the last entry of the history announces: the record and
\* its history never contradict each other (docs line 409).
StatusIsLastEntry ==
  \A i \in Ids : row[i] # Absent => /\ log[i] # <<>>
                                    /\ row[i].status = LastEntry(i).outcome

\* No request is paid twice: one entry at most records a payment (docs line 19:
\* PAID is the final status of an advance).
PaidOnce ==
  \A i \in Ids : \A j, k \in 1..Len(log[i]) :
    log[i][j].outcome = "PAID" /\ log[i][k].outcome = "PAID" => j = k

\* Docs line 52: once the superior has reviewed a request it cannot be cancelled.
NoCancelAfterReview ==
  \A i \in Ids : row[i] # Absent /\ row[i].status = "CANCELLED" =>
    \A k \in 1..Len(log[i]) : log[i][k].stage # "SUPERIOR"

-----------------------------------------------------------------------------
StatusOf == [i \in Ids |-> IF row[i] = Absent THEN Absent ELSE row[i].status]
TrailOf  == [i \in Ids |-> [k \in 1..Len(log[i]) |-> <<log[i][k].stage, log[i][k].outcome>>]]

Flow == INSTANCE EmployeeFlow WITH NoStatus <- Absent, status <- StatusOf, trail <- TrailOf

\* A single worker, whatever it runs, walks every request down the diagram of the
\* docs (lines 24-46): one decision per stage, final statuses are final, and the
\* history is the path taken.
FollowsTheFlow == Flow!FlowSpec
=============================================================================
