----------------------------- MODULE WasteReport -----------------------------
(***************************************************************************)
(* Waste reports: reviewed by the warehouse, closed by an admin's          *)
(* instruction (WasteReportViewSet and its serializer).  There is no       *)
(* history table; the row names its reviewers.                             *)
(***************************************************************************)
EXTENDS Documents

WasteStatuses ==
  {"PENDING", "APPROVED_BY_WAREHOUSE", "REJECTED_BY_WAREHOUSE", "CLOSED"}

WasteRow ==
  [kind : {"waste"}, reporter : Users, status : WasteStatuses,
   reviewer : [{"WAREHOUSE", "ADMIN"} -> Users \cup {NoUser}]]

WasteVisible(u, r, p) ==
  Holds(u, {"WAREHOUSE"}) \/ u = r.reporter \/ u \in p.involved

WasteHandles(w, u, i, endpoint) ==
  Handles(w, i, "waste", endpoint) /\ WasteVisible(u, row[i], parts[i])

CreateWaste(u, i) ==
  \E goods \in Goods, involved \in InvolvedSets \cup {{}} :
    CreateDocument(i, [kind |-> "waste", reporter |-> u, status |-> "PENDING",
                       reviewer |-> [stage \in {"WAREHOUSE", "ADMIN"} |-> NoUser]],
                   NoEntry, goods, involved)

UpdateWaste(w, u, i) ==
  /\ WasteHandles(w, u, i, "update")
  /\ u \in Admins \/ row[i].status \in {"PENDING", "REJECTED_BY_WAREHOUSE"}
  /\ PassesTest(w, u, i)

\* The second load.  A rejected report stays rejected when it is corrected.
EditWaste(w) ==
  /\ again[w] # None /\ again[w].kind = "waste"
  /\ LET u == again[w].user
         i == again[w].id
     IN IF row[i] # Absent => ~WasteVisible(u, row[i], parts[i])
        THEN NotFoundAgain(w)
        ELSE \E goods \in Goods \cup {Keep}, involved \in InvolvedSets \cup {Keep} :
               SavesEdit(w, i, row[i], NoEntry, [goods |-> goods, involved |-> involved])

ReviewWaste(w, u, i) ==
  /\ WasteHandles(w, u, i, "review")
  /\ Holds(u, {"WAREHOUSE"})
  /\ row[i].status = "PENDING"
  /\ Decides(w, u, i, "WAREHOUSE", {"APPROVED_BY_WAREHOUSE", "REJECTED_BY_WAREHOUSE"}, FALSE)

\* Slip: every report that is not closed yet can be closed.
DecideWasteEarly(w, u, i) ==
  /\ WasteHandles(w, u, i, "review")
  /\ u \in Admins
  /\ row[i].status # "CLOSED"
  /\ Decides(w, u, i, "ADMIN", {"CLOSED"}, FALSE)

DecideWaste(w, u, i) ==
  /\ WasteHandles(w, u, i, "review")
  /\ u \in Admins
  /\ row[i].status = "APPROVED_BY_WAREHOUSE"
  /\ Decides(w, u, i, "ADMIN", {"CLOSED"}, FALSE)

DestroyWaste(w, u, i) == WasteHandles(w, u, i, "destroy") /\ DestroyDocument(w, i)

WasteNext ==
  \/ \E u \in Users, i \in Ids : CreateWaste(u, i)
  \/ \E w \in Workers : EditWaste(w)
  \/ \E w \in Workers, u \in Users, i \in Ids :
       \/ UpdateWaste(w, u, i) \/ DestroyWaste(w, u, i)
       \/ ReviewWaste(w, u, i) \/ DecideWaste(w, u, i)

\* The row names the reviewers of the stages its status says are behind it, no more.
WasteBacked(r) ==
  /\ r.reviewer["WAREHOUSE"] # NoUser <=> r.status # "PENDING"
  /\ r.reviewer["ADMIN"] # NoUser <=> r.status = "CLOSED"
=============================================================================
