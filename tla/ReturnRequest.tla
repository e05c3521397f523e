---------------------------- MODULE ReturnRequest ----------------------------
(***************************************************************************)
(* Returns of goods and money: approved by an admin or the financial       *)
(* manager, then refunded (ReturnRequestViewSet and its serializer).       *)
(* Everybody sees and edits every return.  approve and finalize_refund     *)
(* open no transaction, but each is a single save.                         *)
(***************************************************************************)
EXTENDS Documents

\* REJECTED is a choice of the column that no handler assigns.
ReturnStatuses == {"PENDING", "APPROVED", "COMPLETED", "REJECTED"}

ReturnRow ==
  [kind : {"return"}, created_by : Users, status : ReturnStatuses, is_approved : BOOLEAN]

ReturnHandles(w, i, endpoint) == Handles(w, i, "return", endpoint)

CreateReturn(u, i) ==
  \E goods \in Goods :
    CreateDocument(i, [kind |-> "return", created_by |-> u, status |-> "PENDING",
                       is_approved |-> FALSE], NoEntry, goods, {})

UpdateReturn(w, i) ==
  /\ ReturnHandles(w, i, "update")
  /\ \E goods \in Goods \cup {Keep} :
       SavesEdit(w, i, row[i], NoEntry, [goods |-> goods, involved |-> Keep])

ApproveReturn(w, u, i) ==
  /\ ReturnHandles(w, i, "review")
  /\ HoldsFinance(u)
  /\ row[i].status = "PENDING"
  /\ Saves(w, i, [row[i] EXCEPT !.is_approved = TRUE, !.status = "APPROVED"], NoEntry)

FinalizeRefund(w, u, i) ==
  /\ ReturnHandles(w, i, "review")
  /\ HoldsFinance(u) \/ Holds(u, {"CASHIER", "ACCOUNTANT"})
  /\ row[i].status = "APPROVED"
  /\ Saves(w, i, [row[i] EXCEPT !.status = "COMPLETED"], NoEntry)

DestroyReturn(w, i) == ReturnHandles(w, i, "destroy") /\ DestroyDocument(w, i)

ReturnNext ==
  \/ \E u \in Users, i \in Ids : CreateReturn(u, i)
  \/ \E w \in Workers, i \in Ids : UpdateReturn(w, i) \/ DestroyReturn(w, i)
  \/ \E w \in Workers, u \in Users, i \in Ids :
       ApproveReturn(w, u, i) \/ FinalizeRefund(w, u, i)

\* Money goes back only on a return that was approved.
ReturnBacked(r) == r.is_approved <=> r.status \in {"APPROVED", "COMPLETED"}
=============================================================================
