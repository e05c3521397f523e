------------------------- MODULE DamageRegistration -------------------------
(***************************************************************************)
(* Damage registrations: four stages of approval, each by another role     *)
(* (DamageRegistrationViewSet and its serializer).                         *)
(***************************************************************************)
EXTENDS Documents

DamageStages == {"SALES_MANAGER", "WAREHOUSE", "MANAGEMENT", "FINANCIAL", "SUPERVISOR"}
DamageStatuses ==
  {"PENDING_SALES_MANAGER", "PENDING_WAREHOUSE", "PENDING_MANAGEMENT",
   "PENDING_FINANCIAL", "APPROVED", "REJECTED", "CANCELLED", "PENDING_SUPERVISOR"}

DamageRow ==
  [kind : {"damage"}, created_by : Users, supervisor : Users \cup {NoUser},
   status : DamageStatuses, reviewer : [DamageStages -> Users \cup {NoUser}]]
DamageEntry ==
  [stage : DamageStages \cup {"SUBMIT", "CANCEL"}, actor : Users,
   outcome : DamageStatuses, listed : {None}]

DamageVisible(u, r) ==
  \/ HoldsFinance(u)
  \/ Holds(u, {"WAREHOUSE", "STATISTICIAN", "SALES_MANAGER"})
  \/ u \in {r.created_by, r.supervisor}

DamageHandles(w, u, i, endpoint) ==
  Handles(w, i, "damage", endpoint) /\ DamageVisible(u, row[i])

\* Rows of the time before the stages existed wait for their supervisor and have
\* no history (migration 0028 gave them this status).
LegacyDamage ==
  {[kind |-> "damage", created_by |-> u, supervisor |-> s, status |-> "PENDING_SUPERVISOR",
    reviewer |-> [stage \in DamageStages |-> NoUser]] :
     u \in HoldersOf["SUPERVISOR"], s \in HoldersOf["SUPERVISOR"] \cup {NoUser}}

CreateDamage(u, i) ==
  /\ Holds(u, {"SUPERVISOR"})
  /\ \E supervisor \in {u} \cup {s \in Named : Holds(s, {"SUPERVISOR"})}, goods \in Goods :
       CreateDocument(i, [kind |-> "damage", created_by |-> u, supervisor |-> supervisor,
                          status |-> "PENDING_SALES_MANAGER",
                          reviewer |-> [stage \in DamageStages |-> NoUser]],
                      EntryOf("SUBMIT", u, "PENDING_SALES_MANAGER"), goods, {})

\* After the sales manager's review only an admin may edit; an edit leaves no entry.
UpdateDamage(w, u, i) ==
  /\ DamageHandles(w, u, i, "update")
  /\ row[i].status = "PENDING_SALES_MANAGER" \/ u \in Admins
  /\ \E supervisor \in {row[i].supervisor, NoUser} \cup {s \in Named : Holds(s, {"SUPERVISOR"})},
        goods \in Goods \cup {Keep} :
       SavesEdit(w, i, [row[i] EXCEPT !.supervisor = supervisor], NoEntry,
                 [goods |-> goods, involved |-> Keep])

SalesManagerReview(w, u, i) ==
  /\ DamageHandles(w, u, i, "review")
  /\ row[i].status = "PENDING_SALES_MANAGER"
  /\ Holds(u, {"SALES_MANAGER"})
  /\ Decides(w, u, i, "SALES_MANAGER", {"PENDING_WAREHOUSE", "REJECTED"}, TRUE)

\* Slip: the status is not tested.
WarehouseReviewAnyStatus(w, u, i) ==
  /\ DamageHandles(w, u, i, "review")
  /\ Holds(u, {"WAREHOUSE", "STATISTICIAN"})
  /\ Decides(w, u, i, "WAREHOUSE", {"PENDING_MANAGEMENT", "REJECTED"}, TRUE)

WarehouseReview(w, u, i) ==
  /\ DamageHandles(w, u, i, "review")
  /\ row[i].status = "PENDING_WAREHOUSE"
  /\ Holds(u, {"WAREHOUSE", "STATISTICIAN"})
  /\ Decides(w, u, i, "WAREHOUSE", {"PENDING_MANAGEMENT", "REJECTED"}, TRUE)

ManagementReview(w, u, i) ==
  /\ DamageHandles(w, u, i, "review")
  /\ row[i].status = "PENDING_MANAGEMENT"
  /\ Holds(u, {"EXECUTIVE_MANAGER"})
  /\ Decides(w, u, i, "MANAGEMENT", {"PENDING_FINANCIAL", "REJECTED"}, TRUE)

FinancialReview(w, u, i) ==
  /\ DamageHandles(w, u, i, "review")
  /\ row[i].status = "PENDING_FINANCIAL"
  /\ HoldsFinance(u)
  /\ Decides(w, u, i, "FINANCIAL", {"APPROVED", "REJECTED"}, TRUE)

SupervisorReview(w, u, i) ==
  /\ DamageHandles(w, u, i, "review")
  /\ row[i].status = "PENDING_SUPERVISOR"
  /\ u \in Admins \cup {row[i].supervisor}
  /\ Decides(w, u, i, "SUPERVISOR", {"APPROVED", "REJECTED"}, TRUE)

\* Slip: the list of cancellable statuses is one stage too long.
CancelDamageLate(w, u, i) ==
  /\ DamageHandles(w, u, i, "cancel")
  /\ u \in Admins \cup {row[i].created_by}
  /\ row[i].status \in {"PENDING_SALES_MANAGER", "PENDING_WAREHOUSE", "PENDING_SUPERVISOR",
                        "PENDING_MANAGEMENT"}
  /\ Saves(w, i, [row[i] EXCEPT !.status = "CANCELLED"], EntryOf("CANCEL", u, "CANCELLED"))

CancelDamage(w, u, i) ==
  /\ DamageHandles(w, u, i, "cancel")
  /\ u \in Admins \cup {row[i].created_by}
  /\ row[i].status \in {"PENDING_SALES_MANAGER", "PENDING_WAREHOUSE", "PENDING_SUPERVISOR"}
  /\ Saves(w, i, [row[i] EXCEPT !.status = "CANCELLED"], EntryOf("CANCEL", u, "CANCELLED"))

DestroyDamage(w, u, i) == DamageHandles(w, u, i, "destroy") /\ DestroyDocument(w, i)

DamageNext ==
  \/ \E u \in Users, i \in Ids : CreateDamage(u, i)
  \/ \E w \in Workers, u \in Users, i \in Ids :
       \/ UpdateDamage(w, u, i) \/ DestroyDamage(w, u, i) \/ CancelDamage(w, u, i)
       \/ SalesManagerReview(w, u, i) \/ WarehouseReview(w, u, i)
       \/ ManagementReview(w, u, i) \/ FinancialReview(w, u, i)
       \/ SupervisorReview(w, u, i)

\* The history H shows that the reviewer whom r names for a stage decided it so.
DamageDecided(r, H, stage, outcome) ==
  [stage |-> stage, actor |-> r.reviewer[stage], outcome |-> outcome, listed |-> None] \in H

\* The recorded decisions that brought r to its status.
DamageBacked(r, H) ==
  \/ r.status = "APPROVED" /\ DamageDecided(r, H, "SUPERVISOR", "APPROVED")
  \/ /\ r.status \in {"PENDING_WAREHOUSE", "PENDING_MANAGEMENT", "PENDING_FINANCIAL", "APPROVED"} =>
          DamageDecided(r, H, "SALES_MANAGER", "PENDING_WAREHOUSE")
     /\ r.status \in {"PENDING_MANAGEMENT", "PENDING_FINANCIAL", "APPROVED"} =>
          DamageDecided(r, H, "WAREHOUSE", "PENDING_MANAGEMENT")
     /\ r.status \in {"PENDING_FINANCIAL", "APPROVED"} =>
          DamageDecided(r, H, "MANAGEMENT", "PENDING_FINANCIAL")
     /\ r.status = "APPROVED" => DamageDecided(r, H, "FINANCIAL", "APPROVED")
=============================================================================
