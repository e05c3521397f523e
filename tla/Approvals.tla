------------------------------ MODULE Approvals ------------------------------
(***************************************************************************)
(* The approval workflows of damage registrations, branch transfers, waste *)
(* reports, return requests and advance requests, served by the same       *)
(* workers.                                                                *)
(***************************************************************************)
EXTENDS DamageRegistration, BranchTransfer, WasteReport, ReturnRequest, AdvanceRequest

vars == documentVars

Row == DamageRow \cup TransferRow \cup WasteRow \cup ReturnRow \cup AdvanceRow
Entry == DamageEntry \cup TransferEntry \cup AdvanceEntry

ASSUME AbsentAssumption == Absent \notin Row
ASSUME NoEntryAssumption == NoEntry \notin Entry
ASSUME IdleAssumption == Idle \notin JobsOver(Row, Entry)

Init ==
  /\ row \in [Ids -> {Absent} \cup (IF "damage" \in Kinds THEN LegacyDamage ELSE {})]
  /\ log = [i \in Ids |-> <<>>]
  /\ job = [w \in Workers |-> Idle]
  /\ \E goods \in Goods :
       parts = [i \in Ids |-> IF row[i] = Absent THEN Absent
                              ELSE [goods |-> goods, involved |-> {}]]
  /\ edit = [w \in Workers |-> NoEdit]
  /\ again = [w \in Workers |-> None]

Next ==
  \/ DamageNext \/ TransferNext \/ WasteNext \/ ReturnNext \/ AdvanceNext
  \/ \E w \in Workers : CommitDocument(w) \/ RollbackDocument(w)

Spec == Init /\ [][Next]_vars

-----------------------------------------------------------------------------
TypeOK ==
  /\ StoreTypeOK(Row, Entry)
  /\ parts \in [Ids -> Parts \cup {Absent}]
  /\ edit \in [Workers -> Edits]
  /\ again \in [Workers -> Retries \cup {None}]

Backed(r, H) ==
  /\ r.kind = "damage" => DamageBacked(r, H)
  /\ r.kind = "transfer" => TransferBacked(r, H)
  /\ r.kind = "waste" => WasteBacked(r)
  /\ r.kind = "return" => ReturnBacked(r)
  /\ r.kind = "advance" => AdvanceBacked(r, H)

\* However the saves of stale snapshots interleave, edits included: no document has
\* passed a stage without the decision of that stage being recorded, in its history
\* by the reviewer the row names, or in the row itself where there is no history.
DecisionsBacked ==
  \A i \in Ids : row[i] # Absent => Backed(row[i], History(i))

\* A document with a history has the status its last entry announces: what the
\* frontend shows of a document and of its history agree.
StatusAnnounced ==
  \A i \in Ids : row[i] # Absent /\ log[i] # <<>> => row[i].status = LastEntry(i).outcome

\* The final entry of a transfer, "with all information" (views.py:2802), lists the
\* goods the transfer has: nobody changes them while it is approved or afterwards.
FinalEntryListsGoods ==
  \A i \in Ids : row[i] # Absent /\ row[i].kind = "transfer" /\ row[i].status = "APPROVED" =>
    LastEntry(i).listed = parts[i].goods

\* Each approval or payment happens once: a document is finally approved or paid by
\* one recorded decision only.
FinalOnce ==
  \A i \in Ids : \A j, k \in 1..Len(log[i]) :
    log[i][j].outcome \in {"APPROVED", "PAID"} /\ log[i][k].outcome \in {"APPROVED", "PAID"} => j = k

\* Docs line 23: a damage registration is cancelled only before the warehouse has
\* reviewed it.
NoCancelAfterWarehouse ==
  \A i \in Ids : row[i] # Absent /\ row[i].status = "CANCELLED" =>
    \A e \in History(i) : e.stage # "WAREHOUSE"
=============================================================================
