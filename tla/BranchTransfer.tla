--------------------------- MODULE BranchTransfer ---------------------------
(***************************************************************************)
(* Transfers of goods between branches: approved by the supervisor of the  *)
(* sending branch, then by the supervisor of the receiving one; a rejected *)
(* transfer is corrected and sent again (BranchTransferViewSet and its     *)
(* serializer).                                                            *)
(***************************************************************************)
EXTENDS Documents

TransferStatuses == {"PENDING_SENDER", "PENDING_RECEIVER", "APPROVED", "REJECTED"}

TransferRow ==
  [kind : {"transfer"}, source_cashier : Users, sender_supervisor : Users,
   receiver_supervisor : Users, status : TransferStatuses]

\* TransferLog has no stage: this is what the text of its message says.
TransferEntry ==
  [stage : {"SUBMIT", "EDIT", "SENDER", "RECEIVER"}, actor : Users,
   outcome : TransferStatuses, listed : Goods \cup {None}]

TransferVisible(u, r) ==
  \/ Holds(u, {"WAREHOUSE"})
  \/ u \in {r.source_cashier, r.sender_supervisor, r.receiver_supervisor}

TransferHandles(w, u, i, endpoint) ==
  Handles(w, i, "transfer", endpoint) /\ TransferVisible(u, row[i])

CreateTransfer(u, i) ==
  \E sender, receiver \in Named, goods \in Goods :
    CreateDocument(i, [kind |-> "transfer", source_cashier |-> u, sender_supervisor |-> sender,
                       receiver_supervisor |-> receiver, status |-> "PENDING_SENDER"],
                   EntryOf("SUBMIT", u, "PENDING_SENDER"), goods, {})

\* Slip: the status is not tested.
TransferEditableAlways(r) == TRUE

TransferEditable(r) == r.status \in {"PENDING_SENDER", "REJECTED"}

UpdateTransfer(w, u, i) ==
  /\ TransferHandles(w, u, i, "update")
  /\ TransferEditable(row[i])
  /\ PassesTest(w, u, i)

\* Slip: a rejected transfer stays rejected.
ResubmittedNever(r) == r

\* An edit sends a rejected transfer back to the sender's supervisor.
Resubmitted(r) ==
  [r EXCEPT !.status = IF r.status = "REJECTED" THEN "PENDING_SENDER" ELSE @]

\* The second load, by super().update(), is not tested again; the entry says that
\* the transfer waits for the sender's supervisor, whatever its status is.
EditTransfer(w) ==
  /\ again[w] # None /\ again[w].kind = "transfer"
  /\ LET u == again[w].user
         i == again[w].id
     IN IF row[i] # Absent => ~TransferVisible(u, row[i])
        THEN NotFoundAgain(w)
        ELSE \E sender, receiver \in Named, goods \in Goods \cup {Keep} :
               SavesEdit(w, i, [Resubmitted(row[i]) EXCEPT !.sender_supervisor = sender,
                                                           !.receiver_supervisor = receiver],
                         EntryOf("EDIT", u, "PENDING_SENDER"),
                         [goods |-> goods, involved |-> Keep])

MovesTransfer(w, u, i, stage, next, listed) ==
  Saves(w, i, [row[i] EXCEPT !.status = next],
        [EntryOf(stage, u, next) EXCEPT !.listed = listed])

ApproveSender(w, u, i) ==
  /\ TransferHandles(w, u, i, "review")
  /\ row[i].status = "PENDING_SENDER"
  /\ u \in Admins \cup {row[i].sender_supervisor}
  /\ MovesTransfer(w, u, i, "SENDER", "PENDING_RECEIVER", None)

RejectSender(w, u, i) ==
  /\ TransferHandles(w, u, i, "review")
  /\ row[i].status = "PENDING_SENDER"
  /\ u \in Admins \cup {row[i].sender_supervisor}
  /\ MovesTransfer(w, u, i, "SENDER", "REJECTED", None)

\* Slip: an approved transfer may be approved once more.
ApproveReceiverAgain(w, u, i) ==
  /\ TransferHandles(w, u, i, "review")
  /\ row[i].status \in {"PENDING_RECEIVER", "APPROVED"}
  /\ u \in Admins \cup {row[i].receiver_supervisor}
  /\ MovesTransfer(w, u, i, "RECEIVER", "APPROVED", parts[i].goods)

\* The final entry lists the items that were loaded with the transfer.
ApproveReceiver(w, u, i) ==
  /\ TransferHandles(w, u, i, "review")
  /\ row[i].status = "PENDING_RECEIVER"
  /\ u \in Admins \cup {row[i].receiver_supervisor}
  /\ MovesTransfer(w, u, i, "RECEIVER", "APPROVED", parts[i].goods)

RejectReceiver(w, u, i) ==
  /\ TransferHandles(w, u, i, "review")
  /\ row[i].status = "PENDING_RECEIVER"
  /\ u \in Admins \cup {row[i].receiver_supervisor}
  /\ MovesTransfer(w, u, i, "RECEIVER", "REJECTED", None)

DestroyTransfer(w, u, i) == TransferHandles(w, u, i, "destroy") /\ DestroyDocument(w, i)

TransferNext ==
  \/ \E u \in Users, i \in Ids : CreateTransfer(u, i)
  \/ \E w \in Workers : EditTransfer(w)
  \/ \E w \in Workers, u \in Users, i \in Ids :
       \/ UpdateTransfer(w, u, i) \/ DestroyTransfer(w, u, i)
       \/ ApproveSender(w, u, i) \/ RejectSender(w, u, i)
       \/ ApproveReceiver(w, u, i) \/ RejectReceiver(w, u, i)

\* Somebody sent the transfer off, and somebody received it.
TransferBacked(r, H) ==
  /\ r.status \in {"PENDING_RECEIVER", "APPROVED"} =>
       \E e \in H : e.stage = "SENDER" /\ e.outcome = "PENDING_RECEIVER"
  /\ r.status = "APPROVED" => \E e \in H : e.stage = "RECEIVER" /\ e.outcome = "APPROVED"
  /\ r.status = "REJECTED" => \E e \in H : e.outcome = "REJECTED"
=============================================================================
