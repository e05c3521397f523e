-------------------------- MODULE Approvals_proofs --------------------------
(***************************************************************************)
(* What holds of the five approval workflows for any documents, workers,   *)
(* users and roles.  Every step is brought to one of a few forms first     *)
(* (StepForms): a document is created, a handler has computed what it will *)
(* save from ONE committed version, a job commits or is given up.  Each    *)
(* invariant is then shown for these forms, with one lemma per workflow.   *)
(***************************************************************************)
EXTENDS Approvals, TLAPS

-----------------------------------------------------------------------------
(* The steps of RowStore, for any set R of rows and any set E of history entries *)

\* Loading a row and computing a row of R from it keeps the types.
LEMMA PrepareType ==
  ASSUME NEW R, NEW E, StoreTypeOK(R, E),
         NEW w \in Workers, NEW i \in Ids,
         NEW new \in R \cup {Absent}, NEW entry \in E \cup {NoEntry},
         Prepare(w, i, new, entry)
  PROVE  StoreTypeOK(R, E)'
  <1>1. row[i] \in R
    BY DEF StoreTypeOK, Prepare
  <1>2. [id |-> i, seen |-> row[i], new |-> new, entry |-> entry] \in JobsOver(R, E)
    BY <1>1 DEF JobsOver
  <1>3. QED
    BY <1>2 DEF StoreTypeOK, Prepare

\* What a commit writes: the job's row, and its entry unless it has none.
LEMMA CommitType ==
  ASSUME NEW R, NEW E, StoreTypeOK(R, E), NEW w \in Workers, Commit(w)
  PROVE  StoreTypeOK(R, E)'
  <1> DEFINE j == job[w]
  <1>1. j \in JobsOver(R, E)
    BY DEF StoreTypeOK, Commit
  <1>2. /\ j.id \in Ids
        /\ j.new \in R \cup {Absent}
        /\ j.entry \in E \cup {NoEntry}
    BY <1>1 DEF JobsOver
  <1>3. row' \in [Ids -> R \cup {Absent}]
    BY <1>2 DEF StoreTypeOK, Commit
  <1>4. log' \in [Ids -> Seq(E)]
    BY <1>2 DEF StoreTypeOK, Commit
  <1>5. job' \in [Workers -> JobsOver(R, E) \cup {Idle}]
    BY DEF StoreTypeOK, Commit
  <1>6. QED
    BY <1>3, <1>4, <1>5 DEF StoreTypeOK

\* Giving up a job keeps the types.
LEMMA RollbackType ==
  ASSUME NEW R, NEW E, StoreTypeOK(R, E), NEW w \in Workers, Rollback(w)
  PROVE  StoreTypeOK(R, E)'
  BY DEF StoreTypeOK, Rollback

\* Saving a row adds the job's entry to the history of that row, and nothing else.
LEMMA CommitHistory ==
  ASSUME NEW R, NEW E, StoreTypeOK(R, E), NEW w \in Workers, Commit(w),
         job[w].new # Absent, NEW i \in Ids
  PROVE  History(i)' = History(i) \cup (IF i = job[w].id THEN Added(job[w].entry) ELSE {})
  <1> DEFINE j == job[w]
  <1>1. /\ j.id \in Ids
        /\ j.entry \in E \cup {NoEntry}
        /\ log[i] \in Seq(E)
        /\ log \in [Ids -> Seq(E)]
    BY DEF StoreTypeOK, Commit, JobsOver
  <1>2. CASE i # j.id \/ j.entry = NoEntry
    <2>1. log'[i] = log[i]
      BY <1>1, <1>2 DEF Commit
    <2>2. QED
      BY <1>2, <2>1 DEF History, Added
  <1>3. CASE i = j.id /\ j.entry # NoEntry
    <2>1. log'[i] = Append(log[i], j.entry)
      BY <1>1, <1>3 DEF Commit
    <2>2. /\ Len(log'[i]) = Len(log[i]) + 1
          /\ \A k \in 1..Len(log[i]) : log'[i][k] = log[i][k]
          /\ log'[i][Len(log[i]) + 1] = j.entry
      BY <1>1, <1>3, <2>1
    <2>3. 1..Len(log'[i]) = (1..Len(log[i])) \cup {Len(log[i]) + 1}
      BY <1>1, <2>2
    <2>4. History(i)' = {log'[i][k] : k \in 1..Len(log'[i])}
      BY DEF History
    <2>5. {log'[i][k] : k \in 1..Len(log'[i])} = History(i) \cup {j.entry}
      BY <2>2, <2>3, Zenon DEF History
    <2>6. QED
      BY <1>3, <2>4, <2>5 DEF Added
  <1>4. QED
    BY <1>2, <1>3

-----------------------------------------------------------------------------
\* How a decision moves each workflow on.
DamageArrow(from, stage, to) ==
  \/ from = "PENDING_SALES_MANAGER" /\ stage = "SALES_MANAGER" /\ to \in {"PENDING_WAREHOUSE", "REJECTED"}
  \/ from = "PENDING_WAREHOUSE" /\ stage = "WAREHOUSE" /\ to \in {"PENDING_MANAGEMENT", "REJECTED"}
  \/ from = "PENDING_MANAGEMENT" /\ stage = "MANAGEMENT" /\ to \in {"PENDING_FINANCIAL", "REJECTED"}
  \/ from = "PENDING_FINANCIAL" /\ stage = "FINANCIAL" /\ to \in {"APPROVED", "REJECTED"}
  \/ from = "PENDING_SUPERVISOR" /\ stage = "SUPERVISOR" /\ to \in {"APPROVED", "REJECTED"}
DamageCancellable == {"PENDING_SALES_MANAGER", "PENDING_WAREHOUSE", "PENDING_SUPERVISOR"}

\* What a handler makes of a damage registration r, with which entry.
DamageEdited(r, new, entry) ==
  new.status = r.status /\ new.reviewer = r.reviewer /\ entry = NoEntry
DamageCancelled(r, new, entry) ==
  /\ r.status \in DamageCancellable /\ new.status = "CANCELLED" /\ new.reviewer = r.reviewer
  /\ \E u \in Users : entry = EntryOf("CANCEL", u, "CANCELLED")
DamageReviewed(r, new, entry) ==
  \E u \in Users, stage \in DamageStages :
    /\ DamageArrow(r.status, stage, new.status)
    /\ new.reviewer = [r.reviewer EXCEPT ![stage] = u]
    /\ entry = EntryOf(stage, u, new.status)
DamageMove(r, new, entry) ==
  /\ r \in DamageRow /\ new \in DamageRow
  /\ DamageEdited(r, new, entry) \/ DamageCancelled(r, new, entry)
       \/ DamageReviewed(r, new, entry)

\* The same for a transfer with goods g; Resent is what EditTransfer does.
TransferArrow(from, stage, to) ==
  \/ from = "PENDING_SENDER" /\ stage = "SENDER" /\ to \in {"PENDING_RECEIVER", "REJECTED"}
  \/ from = "PENDING_RECEIVER" /\ stage = "RECEIVER" /\ to \in {"APPROVED", "REJECTED"}
TransferReviewed(r, new, entry, g) ==
  \E u \in Users, stage \in {"SENDER", "RECEIVER"} :
    /\ TransferArrow(r.status, stage, new.status)
    /\ entry = [stage |-> stage, actor |-> u, outcome |-> new.status,
                listed |-> IF new.status = "APPROVED" THEN g ELSE None]
TransferResent(r, new, entry) ==
  /\ new.status = Resubmitted(r).status
  /\ \E u \in Users : entry = EntryOf("EDIT", u, "PENDING_SENDER")

\* A waste report has no history: an edit, the warehouse's decision, the admin's.
WasteMove(r, new, entry) ==
  /\ r \in WasteRow /\ new \in WasteRow /\ entry = NoEntry
  /\ \/ new = r
     \/ \E u \in Users :
          \/ /\ r.status = "PENDING"
             /\ new.status \in {"APPROVED_BY_WAREHOUSE", "REJECTED_BY_WAREHOUSE"}
             /\ new.reviewer = [r.reviewer EXCEPT !["WAREHOUSE"] = u]
          \/ /\ r.status = "APPROVED_BY_WAREHOUSE" /\ new.status = "CLOSED"
             /\ new.reviewer = [r.reviewer EXCEPT !["ADMIN"] = u]

ReturnMove(r, new, entry) ==
  /\ r \in ReturnRow /\ new \in ReturnRow /\ entry = NoEntry
  /\ \/ new = r
     \/ r.status = "PENDING" /\ new.status = "APPROVED" /\ new.is_approved = TRUE
     \/ r.status = "APPROVED" /\ new.status = "COMPLETED" /\ new.is_approved = r.is_approved

AdvanceArrow(from, stage, to) ==
  \/ from = "PENDING_SUPERIOR" /\ stage = "SUPERIOR" /\ to \in {"PENDING_ADMIN", "REJECTED_BY_SUPERIOR"}
  \/ from = "PENDING_ADMIN" /\ stage = "ADMIN" /\ to \in {"PENDING_FINANCE", "REJECTED_BY_ADMIN"}
  \/ from = "PENDING_FINANCE" /\ stage = "FINANCE" /\ to = "PAID"
AdvanceEdited(r, new, entry) ==
  new.status = r.status /\ new.reviewer = r.reviewer /\ entry = NoEntry
AdvanceReviewed(r, new, entry) ==
  \E u \in Users, stage \in AdvanceStages :
    /\ AdvanceArrow(r.status, stage, new.status)
    /\ new.reviewer = [r.reviewer EXCEPT ![stage] = u]
    /\ entry = EntryOf(stage, u, new.status)
AdvanceMove(r, new, entry) ==
  /\ r \in AdvanceRow /\ new \in AdvanceRow /\ new.requester = r.requester
  /\ AdvanceEdited(r, new, entry) \/ AdvanceReviewed(r, new, entry)

\* What worker w, having loaded document i, will save of it.
TransferMove(w, i, new, entry, e) ==
  /\ row[i] \in TransferRow /\ new \in TransferRow /\ entry \in TransferEntry
  /\ \/ TransferReviewed(row[i], new, entry, parts[i].goods) /\ e = NoEdit
     \/ /\ TransferResent(row[i], new, entry)
        /\ again[w] # None /\ again[w].id = i /\ again[w].kind = "transfer"
Move(w, i, new, entry, e) ==
  \/ DamageMove(row[i], new, entry)
  \/ TransferMove(w, i, new, entry, e)
  \/ WasteMove(row[i], new, entry)
  \/ ReturnMove(row[i], new, entry)
  \/ AdvanceMove(row[i], new, entry)

\* A document as it is created, with its first entry.
Started(new, entry) ==
  \/ /\ new \in DamageRow /\ new.status = "PENDING_SALES_MANAGER"
     /\ \E u \in Users : entry = EntryOf("SUBMIT", u, "PENDING_SALES_MANAGER")
  \/ /\ new \in TransferRow /\ new.status = "PENDING_SENDER"
     /\ \E u \in Users : entry = EntryOf("SUBMIT", u, "PENDING_SENDER")
  \/ /\ new \in WasteRow /\ new.status = "PENDING" /\ entry = NoEntry
     /\ new.reviewer["WAREHOUSE"] = NoUser /\ new.reviewer["ADMIN"] = NoUser
  \/ new \in ReturnRow /\ new.status = "PENDING" /\ ~new.is_approved /\ entry = NoEntry
  \/ /\ new \in AdvanceRow /\ new.status \in {"PENDING_SUPERIOR", "PENDING_ADMIN"}
     /\ entry = EntryOf("SUBMIT", new.requester, new.status)

-----------------------------------------------------------------------------
\* A free worker has loaded document i, and will save new, add entry, replace children e.
Runs(w, i, new, entry, e) ==
  /\ Prepare(w, i, new, entry)
  /\ edit' = [edit EXCEPT ![w] = e]
  /\ again' = [again EXCEPT ![w] = None]
  /\ UNCHANGED parts

\* The forms of a step.
Creates ==
  \E i \in Ids, new \in Row, entry \in Entry \cup {NoEntry},
     goods \in Goods \cup {None}, involved \in SUBSET Users :
    CreateDocument(i, new, entry, goods, involved) /\ Started(new, entry)
Begins ==
  \E w \in Workers, i \in Ids : \E new, entry : \E e \in Edits :
    Runs(w, i, new, entry, e) /\ Move(w, i, new, entry, e)
Deletes ==
  \E w \in Workers, i \in Ids :
    "destroy" \in Endpoints /\ Runs(w, i, Absent, NoEntry, NoEdit)
Tests ==
  \E w \in Workers, u \in Users, i \in Ids :
    /\ job[w] = Idle /\ row[i] # Absent /\ PassesTest(w, u, i)
    /\ row[i].kind = "transfer" => TransferEditable(row[i])
Drops ==
  \E w \in Workers :
    \/ again[w] # None /\ NotFoundAgain(w)
    \/ Rollback(w) /\ edit' = [edit EXCEPT ![w] = NoEdit] /\ UNCHANGED <<parts, again>>
Commits == \E w \in Workers : CommitDocument(w)

\* Everything that refers to document i, stored or running, is of the same workflow:
\* otherwise an edit that loads a document again could meet one of another table.
KindsAgree(K) ==
  /\ \A i \in Ids : row[i] # Absent => row[i].kind = K[i]
  /\ \A w \in Workers :
       job[w] # Idle /\ job[w].new # Absent => job[w].new.kind = K[job[w].id]
  /\ \A w \in Workers : again[w] # None => again[w].kind = K[again[w].id]

\* The types, and: a worker at rest has no edit, one with a job has none to begin again.
TypeInv ==
  /\ TypeOK
  /\ \A w \in Workers : IF job[w] = Idle THEN edit[w] = NoEdit ELSE again[w] = None
  /\ \A i \in Ids : row[i] # Absent => parts[i] \in Parts
  /\ \E K \in [Ids -> AllKinds] : KindsAgree(K)


-----------------------------------------------------------------------------
(* The handlers, brought to their form *)

\* A stored document is a row of the table its kind names.
LEMMA RowOfKind ==
  ASSUME TypeInv, NEW i \in Ids, row[i] # Absent
  PROVE  /\ row[i] \in Row
         /\ row[i].kind = "damage" => row[i] \in DamageRow
         /\ row[i].kind = "transfer" => row[i] \in TransferRow
         /\ row[i].kind = "waste" => row[i] \in WasteRow
         /\ row[i].kind = "return" => row[i] \in ReturnRow
         /\ row[i].kind = "advance" => row[i] \in AdvanceRow
         /\ row[i].kind \in AllKinds
<1>1. row[i] \in Row  BY DEF TypeInv, TypeOK, StoreTypeOK
<1>2. /\ \A r \in DamageRow : r.kind = "damage"
      /\ \A r \in TransferRow : r.kind = "transfer"
      /\ \A r \in WasteRow : r.kind = "waste"
      /\ \A r \in ReturnRow : r.kind = "return"
      /\ \A r \in AdvanceRow : r.kind = "advance"
  BY DEF DamageRow, TransferRow, WasteRow, ReturnRow, AdvanceRow
<1> QED  BY <1>1, <1>2 DEF Row, AllKinds

\* A handler of a free worker that saves the row alone.
LEMMA SavesRuns ==
  ASSUME TypeInv, NEW w \in Workers, NEW i, NEW new, NEW entry,
         again[w] = None, Saves(w, i, new, entry)
  PROVE  Runs(w, i, new, entry, NoEdit)
<1>1. job[w] = Idle  BY DEF Saves, Prepare
<1>2. edit[w] = NoEdit /\ edit = [v \in Workers |-> edit[v]] /\ again = [v \in Workers |-> again[v]]
  BY <1>1 DEF TypeInv, TypeOK
<1>3. edit' = [edit EXCEPT ![w] = NoEdit] /\ again' = [again EXCEPT ![w] = None]
  BY <1>2 DEF Saves
<1> QED  BY <1>3 DEF Saves, Runs

\* A decision notes the reviewer of the stage and moves the status, nothing else.
LEMMA DecidesRuns ==
  ASSUME TypeInv, NEW w \in Workers, NEW u, NEW i, NEW stage, NEW outcomes, NEW logged \in BOOLEAN,
         again[w] = None, Decides(w, u, i, stage, outcomes, logged)
  PROVE  \E next \in outcomes :
           Runs(w, i, [row[i] EXCEPT !.reviewer = [@ EXCEPT ![stage] = u], !.status = next],
                IF logged THEN EntryOf(stage, u, next) ELSE NoEntry, NoEdit)
BY SavesRuns DEF Decides

LEMMA DamageForm ==
  ASSUME TypeInv, NEW w \in Workers, NEW u \in Users, NEW i \in Ids,
         \/ UpdateDamage(w, u, i) \/ CancelDamage(w, u, i)
         \/ SalesManagerReview(w, u, i) \/ WarehouseReview(w, u, i)
         \/ ManagementReview(w, u, i) \/ FinancialReview(w, u, i)
         \/ SupervisorReview(w, u, i)
  PROVE  \E new, entry : \E e \in Edits :
           Runs(w, i, new, entry, e) /\ DamageMove(row[i], new, entry)
<1>1. again[w] = None /\ row[i] \in DamageRow
  BY RowOfKind DEF UpdateDamage, CancelDamage, SalesManagerReview, WarehouseReview,
     ManagementReview, FinancialReview, SupervisorReview, DamageHandles, Handles
<1>2. NoEdit \in Edits  BY DEF NoEdit, Edits
<1>3. CASE UpdateDamage(w, u, i)
  <2>1. PICK supervisor \in {row[i].supervisor, NoUser} \cup {s \in Named : Holds(s, {"SUPERVISOR"})},
             goods \in Goods \cup {Keep} :
          SavesEdit(w, i, [row[i] EXCEPT !.supervisor = supervisor], NoEntry,
                    [goods |-> goods, involved |-> Keep])
    BY <1>3 DEF UpdateDamage
  <2> DEFINE new == [row[i] EXCEPT !.supervisor = supervisor]
             e == [goods |-> goods, involved |-> Keep]
  <2>2. supervisor \in Users \cup {NoUser}
    BY <1>1, DocumentInputsAssumption DEF DamageRow
  <2>3. new \in DamageRow /\ new.status = row[i].status /\ new.reviewer = row[i].reviewer
    BY <1>1, <2>2 DEF DamageRow
  <2>4. e \in Edits  BY DEF Edits
  <2>5. Runs(w, i, new, NoEntry, e)  BY <2>1 DEF SavesEdit, Runs
  <2> HIDE DEF new, e
  <2> QED  BY <1>1, <2>3, <2>4, <2>5 DEF DamageMove, DamageEdited
<1>4. CASE CancelDamage(w, u, i)
  <2> DEFINE new == [row[i] EXCEPT !.status = "CANCELLED"]
  <2>1. new \in DamageRow /\ new.status = "CANCELLED" /\ new.reviewer = row[i].reviewer
    BY <1>1 DEF DamageRow, DamageStatuses
  <2>2. Runs(w, i, new, EntryOf("CANCEL", u, "CANCELLED"), NoEdit)
    BY <1>1, <1>4, SavesRuns DEF CancelDamage
  <2>3. row[i].status \in DamageCancellable  BY <1>4 DEF CancelDamage, DamageCancellable
  <2> HIDE DEF new
  <2> QED  BY <1>1, <1>2, <2>1, <2>2, <2>3 DEF DamageMove, DamageCancelled
<1>5. ASSUME NEW stage \in DamageStages, NEW outcomes \in SUBSET DamageStatuses,
             Decides(w, u, i, stage, outcomes, TRUE),
             \A next \in outcomes : DamageArrow(row[i].status, stage, next)
      PROVE  \E new, entry : \E e \in Edits :
               Runs(w, i, new, entry, e) /\ DamageMove(row[i], new, entry)
  <2>1. PICK next \in outcomes :
          Runs(w, i, [row[i] EXCEPT !.reviewer = [@ EXCEPT ![stage] = u], !.status = next],
               EntryOf(stage, u, next), NoEdit)
    BY <1>1, <1>5, DecidesRuns
  <2> DEFINE new == [row[i] EXCEPT !.reviewer = [@ EXCEPT ![stage] = u], !.status = next]
  <2>2. /\ new \in DamageRow /\ new.status = next
        /\ new.reviewer = [row[i].reviewer EXCEPT ![stage] = u]
    BY <1>1, <1>5 DEF DamageRow
  <2>3. Runs(w, i, new, EntryOf(stage, u, new.status), NoEdit)  BY <2>1, <2>2
  <2>4. DamageArrow(row[i].status, stage, new.status)  BY <1>5, <2>2
  <2> HIDE DEF new
  <2>5. DamageReviewed(row[i], new, EntryOf(stage, u, new.status))
    BY <1>5, <2>2, <2>4 DEF DamageReviewed
  <2> QED  BY <1>1, <1>2, <2>2, <2>3, <2>5 DEF DamageMove
<1> USE DEF DamageArrow, DamageStages, DamageStatuses
<1>6. CASE SalesManagerReview(w, u, i)  BY <1>6, <1>5 DEF SalesManagerReview
<1>7. CASE WarehouseReview(w, u, i)  BY <1>7, <1>5 DEF WarehouseReview
<1>8. CASE ManagementReview(w, u, i)  BY <1>8, <1>5 DEF ManagementReview
<1>9. CASE FinancialReview(w, u, i)  BY <1>9, <1>5 DEF FinancialReview
<1>10. CASE SupervisorReview(w, u, i)  BY <1>10, <1>5 DEF SupervisorReview
<1> QED  BY <1>3, <1>4, <1>6, <1>7, <1>8, <1>9, <1>10


\* What an update that passed the view's test remembers.
LEMMA RetryFacts ==
  ASSUME TypeInv, NEW w \in Workers, again[w] # None
  PROVE  /\ again[w].id \in Ids /\ again[w].user \in Users
         /\ row[again[w].id] # Absent => row[again[w].id].kind = again[w].kind
<1>1. again[w] \in Retries  BY DEF TypeInv, TypeOK
<1>2. again[w].id \in Ids /\ again[w].user \in Users  BY <1>1 DEF Retries
<1>3. PICK K \in [Ids -> AllKinds] : KindsAgree(K)  BY DEF TypeInv
<1> QED  BY <1>2, <1>3 DEF KindsAgree

LEMMA TransferForm ==
  ASSUME TypeInv, NEW w \in Workers, NEW u \in Users, NEW i \in Ids,
         ApproveSender(w, u, i) \/ RejectSender(w, u, i)
           \/ ApproveReceiver(w, u, i) \/ RejectReceiver(w, u, i)
  PROVE  \E new, entry : \E e \in Edits :
           Runs(w, i, new, entry, e) /\ TransferMove(w, i, new, entry, e)
<1>1. again[w] = None /\ row[i] \in TransferRow /\ parts[i] \in Parts
  BY RowOfKind DEF ApproveSender, RejectSender, ApproveReceiver, RejectReceiver,
     TransferHandles, Handles, TypeInv
<1>2. NoEdit \in Edits  BY DEF NoEdit, Edits
<1>3. parts[i].goods \in Goods \cup {None}  BY <1>1 DEF Parts
<1>4. ASSUME NEW stage \in {"SENDER", "RECEIVER"}, NEW next \in TransferStatuses,
             TransferArrow(row[i].status, stage, next),
             MovesTransfer(w, u, i, stage, next, IF next = "APPROVED" THEN parts[i].goods ELSE None)
      PROVE  \E new, entry : \E e \in Edits :
               Runs(w, i, new, entry, e) /\ TransferMove(w, i, new, entry, e)
  <2> DEFINE new == [row[i] EXCEPT !.status = next]
             g == IF next = "APPROVED" THEN parts[i].goods ELSE None
             entry == [EntryOf(stage, u, next) EXCEPT !.listed = g]
  <2>1. new \in TransferRow /\ new.status = next  BY <1>1, <1>4 DEF TransferRow
  <2>2. entry = [stage |-> stage, actor |-> u, outcome |-> next, listed |-> g]
    BY DEF EntryOf
  <2>3. entry \in TransferEntry  BY <2>2, <1>3, <1>4 DEF TransferEntry
  <2>4. Runs(w, i, new, entry, NoEdit)  BY <1>1, <1>4, SavesRuns DEF MovesTransfer
  <2>5. TransferReviewed(row[i], new, entry, parts[i].goods)
    BY <1>4, <2>1, <2>2 DEF TransferReviewed
  <2> HIDE DEF new, entry
  <2> QED  BY <1>1, <1>2, <2>1, <2>3, <2>4, <2>5 DEF TransferMove
<1> USE DEF TransferArrow, TransferStatuses
<1>5. CASE ApproveSender(w, u, i)  BY <1>5, <1>4 DEF ApproveSender
<1>6. CASE RejectSender(w, u, i)  BY <1>6, <1>4 DEF RejectSender
<1>7. CASE ApproveReceiver(w, u, i)  BY <1>7, <1>4 DEF ApproveReceiver
<1>8. CASE RejectReceiver(w, u, i)  BY <1>8, <1>4 DEF RejectReceiver
<1> QED  BY <1>5, <1>6, <1>7, <1>8

\* The second load of a transfer that is being edited, whatever has become of it.
LEMMA EditTransferForm ==
  ASSUME TypeInv, NEW w \in Workers, EditTransfer(w)
  PROVE  \/ again[w] # None /\ NotFoundAgain(w)
         \/ \E i \in Ids : \E new, entry : \E e \in Edits :
              Runs(w, i, new, entry, e) /\ TransferMove(w, i, new, entry, e)
<1> PICK u, i : u = again[w].user /\ i = again[w].id  OBVIOUS
<1>1. u \in Users /\ i \in Ids /\ again[w] # None /\ again[w].kind = "transfer"
      /\ (row[i] # Absent => row[i].kind = "transfer")
  BY RetryFacts DEF EditTransfer
<1>2. CASE row[i] # Absent => ~TransferVisible(u, row[i])
  BY <1>2, <1>1 DEF EditTransfer
<1>3. CASE row[i] # Absent /\ TransferVisible(u, row[i])
  <2>1. row[i] \in TransferRow  BY <1>1, <1>3, RowOfKind
  <2>2. PICK sender \in Named, receiver \in Named, goods \in Goods \cup {Keep} :
          SavesEdit(w, i, [Resubmitted(row[i]) EXCEPT !.sender_supervisor = sender,
                                                      !.receiver_supervisor = receiver],
                    EntryOf("EDIT", u, "PENDING_SENDER"),
                    [goods |-> goods, involved |-> Keep])
    BY <1>3 DEF EditTransfer
  <2> DEFINE r == Resubmitted(row[i])
             new == [r EXCEPT !.sender_supervisor = sender, !.receiver_supervisor = receiver]
             e == [goods |-> goods, involved |-> Keep]
             entry == EntryOf("EDIT", u, "PENDING_SENDER")
  <2>3. r \in TransferRow  BY <2>1 DEF Resubmitted, TransferRow, TransferStatuses
  <2>4. new \in TransferRow /\ new.status = r.status
    <3> HIDE DEF r
    <3> QED  BY <2>3, DocumentInputsAssumption DEF TransferRow
  <2>5. e \in Edits  BY DEF Edits
  <2>6. entry \in TransferEntry
    BY <1>1 DEF EntryOf, TransferEntry, TransferStatuses
  <2>7. Runs(w, i, new, entry, e)  BY <2>2 DEF SavesEdit, Runs
  <2>8. TransferResent(row[i], new, entry)  BY <1>1, <2>4 DEF TransferResent
  <2> HIDE DEF r, new, entry, e
  <2> QED  BY <1>1, <2>1, <2>4, <2>5, <2>6, <2>7, <2>8 DEF TransferMove
<1> QED  BY <1>2, <1>3

LEMMA WasteForm ==
  ASSUME TypeInv, NEW w \in Workers, NEW u \in Users, NEW i \in Ids,
         ReviewWaste(w, u, i) \/ DecideWaste(w, u, i)
  PROVE  \E new, entry : \E e \in Edits :
           Runs(w, i, new, entry, e) /\ WasteMove(row[i], new, entry)
<1>1. again[w] = None /\ row[i] \in WasteRow
  BY RowOfKind DEF ReviewWaste, DecideWaste, WasteHandles, Handles
<1>2. NoEdit \in Edits  BY DEF NoEdit, Edits
<1>3. ASSUME NEW stage \in {"WAREHOUSE", "ADMIN"}, NEW outcomes \in SUBSET WasteStatuses,
             Decides(w, u, i, stage, outcomes, FALSE)
      PROVE  \E new \in WasteRow, next \in outcomes :
               /\ Runs(w, i, new, NoEntry, NoEdit) /\ new.status = next
               /\ new.reviewer = [row[i].reviewer EXCEPT ![stage] = u]
  <2>1. PICK next \in outcomes :
          Runs(w, i, [row[i] EXCEPT !.reviewer = [@ EXCEPT ![stage] = u], !.status = next],
               NoEntry, NoEdit)
    BY <1>1, <1>3, DecidesRuns
  <2> DEFINE new == [row[i] EXCEPT !.reviewer = [@ EXCEPT ![stage] = u], !.status = next]
  <2>2. /\ new \in WasteRow /\ new.status = next
        /\ new.reviewer = [row[i].reviewer EXCEPT ![stage] = u]
    BY <1>1, <1>3 DEF WasteRow
  <2>3. Runs(w, i, new, NoEntry, NoEdit)  BY <2>1
  <2> HIDE DEF new
  <2> QED  BY <2>2, <2>3
<1>4. CASE ReviewWaste(w, u, i)
  <2>1. PICK new \in WasteRow, next \in {"APPROVED_BY_WAREHOUSE", "REJECTED_BY_WAREHOUSE"} :
               /\ Runs(w, i, new, NoEntry, NoEdit) /\ new.status = next
               /\ new.reviewer = [row[i].reviewer EXCEPT !["WAREHOUSE"] = u]
    <3>1. PICK outcomes : outcomes = {"APPROVED_BY_WAREHOUSE", "REJECTED_BY_WAREHOUSE"}  OBVIOUS
    <3>2. outcomes \in SUBSET WasteStatuses  BY <3>1 DEF WasteStatuses
    <3>3. Decides(w, u, i, "WAREHOUSE", outcomes, FALSE)  BY <1>4, <3>1 DEF ReviewWaste
    <3> QED  BY <1>3, <3>1, <3>2, <3>3
  <2>2. row[i].status = "PENDING"  BY <1>4 DEF ReviewWaste
  <2> QED  BY <1>1, <1>2, <2>1, <2>2 DEF WasteMove
<1>5. CASE DecideWaste(w, u, i)
  <2>1. PICK new \in WasteRow, next \in {"CLOSED"} :
               /\ Runs(w, i, new, NoEntry, NoEdit) /\ new.status = next
               /\ new.reviewer = [row[i].reviewer EXCEPT !["ADMIN"] = u]
    <3>1. PICK outcomes : outcomes = {"CLOSED"}  OBVIOUS
    <3>2. outcomes \in SUBSET WasteStatuses  BY <3>1 DEF WasteStatuses
    <3>3. Decides(w, u, i, "ADMIN", outcomes, FALSE)  BY <1>5, <3>1 DEF DecideWaste
    <3> QED  BY <1>3, <3>1, <3>2, <3>3
  <2>2. row[i].status = "APPROVED_BY_WAREHOUSE"  BY <1>5 DEF DecideWaste
  <2> QED  BY <1>1, <1>2, <2>1, <2>2 DEF WasteMove
<1> QED  BY <1>4, <1>5

LEMMA EditWasteForm ==
  ASSUME TypeInv, NEW w \in Workers, EditWaste(w)
  PROVE  \/ again[w] # None /\ NotFoundAgain(w)
         \/ \E i \in Ids : \E new, entry : \E e \in Edits :
              Runs(w, i, new, entry, e) /\ WasteMove(row[i], new, entry)
<1> PICK u, i : u = again[w].user /\ i = again[w].id  OBVIOUS
<1>1. i \in Ids /\ again[w] # None /\ (row[i] # Absent => row[i].kind = "waste")
  BY RetryFacts DEF EditWaste
<1>2. CASE row[i] # Absent => ~WasteVisible(u, row[i], parts[i])
  BY <1>2, <1>1 DEF EditWaste
<1>3. CASE row[i] # Absent /\ WasteVisible(u, row[i], parts[i])
  <2>1. row[i] \in WasteRow  BY <1>1, <1>3, RowOfKind
  <2>2. PICK goods \in Goods \cup {Keep}, involved \in InvolvedSets \cup {Keep} :
          SavesEdit(w, i, row[i], NoEntry, [goods |-> goods, involved |-> involved])
    BY <1>3 DEF EditWaste
  <2>3. [goods |-> goods, involved |-> involved] \in Edits  BY DEF Edits
  <2>4. Runs(w, i, row[i], NoEntry, [goods |-> goods, involved |-> involved])
    BY <2>2 DEF SavesEdit, Runs
  <2> QED  BY <1>1, <2>1, <2>3, <2>4 DEF WasteMove
<1> QED  BY <1>2, <1>3

LEMMA ReturnForm ==
  ASSUME TypeInv, NEW w \in Workers, NEW u, NEW i \in Ids,
         UpdateReturn(w, i) \/ ApproveReturn(w, u, i) \/ FinalizeRefund(w, u, i)
  PROVE  \E new, entry : \E e \in Edits :
           Runs(w, i, new, entry, e) /\ ReturnMove(row[i], new, entry)
<1>1. again[w] = None /\ row[i] \in ReturnRow
  BY RowOfKind DEF UpdateReturn, ApproveReturn, FinalizeRefund, ReturnHandles, Handles
<1>2. NoEdit \in Edits  BY DEF NoEdit, Edits
<1>3. CASE UpdateReturn(w, i)
  <2>1. PICK goods \in Goods \cup {Keep} :
          SavesEdit(w, i, row[i], NoEntry, [goods |-> goods, involved |-> Keep])
    BY <1>3 DEF UpdateReturn
  <2>2. [goods |-> goods, involved |-> Keep] \in Edits  BY DEF Edits
  <2> QED  BY <1>1, <2>1, <2>2 DEF SavesEdit, Runs, ReturnMove
<1>4. CASE ApproveReturn(w, u, i)
  <2> DEFINE new == [row[i] EXCEPT !.is_approved = TRUE, !.status = "APPROVED"]
  <2>1. new \in ReturnRow /\ new.status = "APPROVED" /\ new.is_approved = TRUE
    BY <1>1 DEF ReturnRow, ReturnStatuses
  <2>2. Runs(w, i, new, NoEntry, NoEdit) /\ row[i].status = "PENDING"
    BY <1>1, <1>4, SavesRuns DEF ApproveReturn
  <2> HIDE DEF new
  <2> QED  BY <1>1, <1>2, <2>1, <2>2 DEF ReturnMove
<1>5. CASE FinalizeRefund(w, u, i)
  <2> DEFINE new == [row[i] EXCEPT !.status = "COMPLETED"]
  <2>1. new \in ReturnRow /\ new.status = "COMPLETED" /\ new.is_approved = row[i].is_approved
    BY <1>1 DEF ReturnRow, ReturnStatuses
  <2>2. Runs(w, i, new, NoEntry, NoEdit) /\ row[i].status = "APPROVED"
    BY <1>1, <1>5, SavesRuns DEF FinalizeRefund
  <2> HIDE DEF new
  <2> QED  BY <1>1, <1>2, <2>1, <2>2 DEF ReturnMove
<1> QED  BY <1>3, <1>4, <1>5

LEMMA AdvanceForm ==
  ASSUME TypeInv, NEW w \in Workers, NEW u \in Users, NEW i \in Ids,
         \/ UpdateAdvance(w, u, i) \/ SuperiorReviewAdvance(w, u, i)
         \/ AdminReviewAdvance(w, u, i) \/ PayAdvance(w, u, i)
  PROVE  \E new, entry : \E e \in Edits :
           Runs(w, i, new, entry, e) /\ AdvanceMove(row[i], new, entry)
<1>1. again[w] = None /\ row[i] \in AdvanceRow
  BY RowOfKind DEF UpdateAdvance, SuperiorReviewAdvance, AdminReviewAdvance, PayAdvance,
     AdvanceHandles, Handles
<1>2. NoEdit \in Edits  BY DEF NoEdit, Edits
<1>3. CASE UpdateAdvance(w, u, i)
  <2>1. PICK target \in TargetChoices(u) :
          SavesEdit(w, i, [row[i] EXCEPT !.target_superior = target], NoEntry, NoEdit)
    BY <1>3 DEF UpdateAdvance
  <2> DEFINE new == [row[i] EXCEPT !.target_superior = target]
  <2>2. target \in Users \cup {NoUser}  BY UsersAssumption DEF TargetChoices
  <2>3. /\ new \in AdvanceRow /\ new.status = row[i].status
        /\ new.reviewer = row[i].reviewer /\ new.requester = row[i].requester
    BY <1>1, <2>2 DEF AdvanceRow
  <2>4. Runs(w, i, new, NoEntry, NoEdit)  BY <2>1 DEF SavesEdit, Runs
  <2> HIDE DEF new
  <2> QED  BY <1>1, <1>2, <2>3, <2>4 DEF AdvanceMove, AdvanceEdited
<1>4. ASSUME NEW stage \in AdvanceStages, NEW outcomes \in SUBSET AdvanceStatuses,
             Decides(w, u, i, stage, outcomes, TRUE),
             \A next \in outcomes : AdvanceArrow(row[i].status, stage, next)
      PROVE  \E new, entry : \E e \in Edits :
               Runs(w, i, new, entry, e) /\ AdvanceMove(row[i], new, entry)
  <2>1. PICK next \in outcomes :
          Runs(w, i, [row[i] EXCEPT !.reviewer = [@ EXCEPT ![stage] = u], !.status = next],
               EntryOf(stage, u, next), NoEdit)
    BY <1>1, <1>4, DecidesRuns
  <2> DEFINE new == [row[i] EXCEPT !.reviewer = [@ EXCEPT ![stage] = u], !.status = next]
  <2>2. /\ new \in AdvanceRow /\ new.status = next /\ new.requester = row[i].requester
        /\ new.reviewer = [row[i].reviewer EXCEPT ![stage] = u]
    BY <1>1, <1>4 DEF AdvanceRow
  <2>3. Runs(w, i, new, EntryOf(stage, u, new.status), NoEdit)  BY <2>1, <2>2
  <2>4. AdvanceArrow(row[i].status, stage, new.status)  BY <1>4, <2>2
  <2> HIDE DEF new
  <2>5. AdvanceReviewed(row[i], new, EntryOf(stage, u, new.status))
    BY <1>4, <2>2, <2>4 DEF AdvanceReviewed
  <2> QED  BY <1>1, <1>2, <2>2, <2>3, <2>5 DEF AdvanceMove
<1> USE DEF AdvanceArrow, AdvanceStages, AdvanceStatuses
<1>5. CASE SuperiorReviewAdvance(w, u, i)  BY <1>5, <1>4 DEF SuperiorReviewAdvance
<1>6. CASE AdminReviewAdvance(w, u, i)  BY <1>6, <1>4 DEF AdminReviewAdvance
<1>7. CASE PayAdvance(w, u, i)
  <2>1. Decides(w, u, i, "FINANCE", {"PAID"}, TRUE) /\ row[i].status = "PENDING_FINANCE"
    BY <1>7 DEF PayAdvance
  <2>2. \A next \in {"PAID"} : AdvanceArrow(row[i].status, "FINANCE", next)  BY <2>1
  <2>3. {"PAID"} \in SUBSET AdvanceStatuses /\ "FINANCE" \in AdvanceStages  OBVIOUS
  <2> HIDE DEF AdvanceArrow, AdvanceStages, AdvanceStatuses
  <2> QED  BY <1>4, <2>1, <2>2, <2>3
<1> QED  BY <1>3, <1>5, <1>6, <1>7


\* What a client creates, in any workflow.
LEMMA CreateForm ==
  ASSUME NEW u \in Users, NEW i \in Ids,
         \/ CreateDamage(u, i) \/ CreateTransfer(u, i) \/ CreateWaste(u, i)
         \/ CreateReturn(u, i) \/ CreateAdvance(u, i)
  PROVE  Creates
<1> USE DEF Creates, Started, Row, Entry, EntryOf
<1>1. CASE CreateDamage(u, i)
  <2>1. PICK supervisor \in {u} \cup {s \in Named : Holds(s, {"SUPERVISOR"})}, goods \in Goods :
          CreateDocument(i, [kind |-> "damage", created_by |-> u, supervisor |-> supervisor,
                             status |-> "PENDING_SALES_MANAGER",
                             reviewer |-> [stage \in DamageStages |-> NoUser]],
                         EntryOf("SUBMIT", u, "PENDING_SALES_MANAGER"), goods, {})
    BY <1>1 DEF CreateDamage
  <2> DEFINE new == [kind |-> "damage", created_by |-> u, supervisor |-> supervisor,
                     status |-> "PENDING_SALES_MANAGER",
                     reviewer |-> [stage \in DamageStages |-> NoUser]]
             entry == EntryOf("SUBMIT", u, "PENDING_SALES_MANAGER")
  <2>2. new \in DamageRow /\ new.status = "PENDING_SALES_MANAGER"
    BY DocumentInputsAssumption DEF DamageRow, DamageStatuses
  <2>3. entry \in DamageEntry  BY DEF DamageEntry, DamageStatuses
  <2>4. CreateDocument(i, new, entry, goods, {}) /\ goods \in Goods \cup {None} /\ {} \in SUBSET Users
    BY <2>1
  <2>5. entry = EntryOf("SUBMIT", u, "PENDING_SALES_MANAGER")  OBVIOUS
  <2> HIDE DEF new, entry
  <2>6. Started(new, entry)  BY <2>2, <2>5
  <2> QED  BY <2>2, <2>3, <2>4, <2>6 DEF Creates
<1>2. CASE CreateTransfer(u, i)
  <2>1. PICK sender \in Named, receiver \in Named, goods \in Goods :
          CreateDocument(i, [kind |-> "transfer", source_cashier |-> u, sender_supervisor |-> sender,
                             receiver_supervisor |-> receiver, status |-> "PENDING_SENDER"],
                         EntryOf("SUBMIT", u, "PENDING_SENDER"), goods, {})
    BY <1>2 DEF CreateTransfer
  <2> DEFINE new == [kind |-> "transfer", source_cashier |-> u, sender_supervisor |-> sender,
                     receiver_supervisor |-> receiver, status |-> "PENDING_SENDER"]
             entry == EntryOf("SUBMIT", u, "PENDING_SENDER")
  <2>2. new \in TransferRow /\ new.status = "PENDING_SENDER"
    BY DocumentInputsAssumption DEF TransferRow, TransferStatuses
  <2>3. entry \in TransferEntry  BY DEF TransferEntry, TransferStatuses
  <2>4. CreateDocument(i, new, entry, goods, {}) /\ goods \in Goods \cup {None} /\ {} \in SUBSET Users
    BY <2>1
  <2>5. entry = EntryOf("SUBMIT", u, "PENDING_SENDER")  OBVIOUS
  <2> HIDE DEF new, entry
  <2>6. Started(new, entry)  BY <2>2, <2>5
  <2> QED  BY <2>2, <2>3, <2>4, <2>6 DEF Creates
<1>3. CASE CreateWaste(u, i)
  <2>1. PICK goods \in Goods, involved \in InvolvedSets \cup {{}} :
          CreateDocument(i, [kind |-> "waste", reporter |-> u, status |-> "PENDING",
                             reviewer |-> [stage \in {"WAREHOUSE", "ADMIN"} |-> NoUser]],
                         NoEntry, goods, involved)
    BY <1>3 DEF CreateWaste
  <2> DEFINE new == [kind |-> "waste", reporter |-> u, status |-> "PENDING",
                     reviewer |-> [stage \in {"WAREHOUSE", "ADMIN"} |-> NoUser]]
  <2>2. /\ new \in WasteRow /\ new.status = "PENDING"
        /\ new.reviewer["WAREHOUSE"] = NoUser /\ new.reviewer["ADMIN"] = NoUser
    BY DEF WasteRow, WasteStatuses
  <2>3. CreateDocument(i, new, NoEntry, goods, involved) /\ goods \in Goods \cup {None}
        /\ involved \in SUBSET Users
    BY <2>1, DocumentInputsAssumption
  <2> HIDE DEF new
  <2> QED  BY <2>2, <2>3 DEF Creates
<1>4. CASE CreateReturn(u, i)
  <2>1. PICK goods \in Goods :
          CreateDocument(i, [kind |-> "return", created_by |-> u, status |-> "PENDING",
                             is_approved |-> FALSE], NoEntry, goods, {})
    BY <1>4 DEF CreateReturn
  <2> DEFINE new == [kind |-> "return", created_by |-> u, status |-> "PENDING",
                     is_approved |-> FALSE]
  <2>2. new \in ReturnRow /\ new.status = "PENDING" /\ ~new.is_approved
    BY DEF ReturnRow, ReturnStatuses
  <2>3. CreateDocument(i, new, NoEntry, goods, {}) /\ goods \in Goods \cup {None}
        /\ {} \in SUBSET Users
    BY <2>1
  <2> HIDE DEF new
  <2> QED  BY <2>2, <2>3 DEF Creates
<1>5. CASE CreateAdvance(u, i)
  <2> DEFINE status == IF SuperiorsOf[u] # {} THEN "PENDING_SUPERIOR" ELSE "PENDING_ADMIN"
  <2>1. PICK target \in TargetChoices(u) :
          CreateDocument(i, [kind |-> "advance", requester |-> u, target_superior |-> target,
                             status |-> status,
                             reviewer |-> [stage \in AdvanceStages |-> NoUser]],
                         EntryOf("SUBMIT", u, status), None, {})
    BY <1>5, Zenon DEF CreateAdvance
  <2> DEFINE new == [kind |-> "advance", requester |-> u, target_superior |-> target,
                     status |-> status, reviewer |-> [stage \in AdvanceStages |-> NoUser]]
             entry == EntryOf("SUBMIT", u, status)
  <2>2. status \in {"PENDING_SUPERIOR", "PENDING_ADMIN"}  OBVIOUS
  <2>3. target \in Users \cup {NoUser}  BY UsersAssumption DEF TargetChoices
  <2>4. CreateDocument(i, new, entry, None, {})  BY <2>1
  <2> HIDE DEF status
  <2>5. new \in AdvanceRow /\ new.status = status /\ new.requester = u
    BY <2>2, <2>3 DEF AdvanceRow, AdvanceStatuses
  <2>6. entry \in AdvanceEntry  BY <2>2 DEF AdvanceEntry, AdvanceStatuses
  <2>7. entry = EntryOf("SUBMIT", new.requester, new.status)  BY <2>5
  <2>8. None \in Goods \cup {None} /\ {} \in SUBSET Users  OBVIOUS
  <2> HIDE DEF new, entry
  <2>9. Started(new, entry)  BY <2>2, <2>5, <2>7
  <2> QED  BY <2>4, <2>5, <2>6, <2>8, <2>9 DEF Creates
<1> QED  BY <1>1, <1>2, <1>3, <1>4, <1>5

\* A handler that deletes a document prepares a save of nothing.
LEMMA DestroyForm ==
  ASSUME TypeInv, NEW w \in Workers, NEW u, NEW i \in Ids,
         \/ DestroyDamage(w, u, i) \/ DestroyTransfer(w, u, i) \/ DestroyWaste(w, u, i)
         \/ DestroyReturn(w, i) \/ DestroyAdvance(w, u, i)
  PROVE  Deletes
<1>1. PICK kind : Handles(w, i, kind, "destroy") /\ DestroyDocument(w, i)
  BY DEF DestroyDamage, DestroyTransfer, DestroyWaste, DestroyReturn, DestroyAdvance,
     DamageHandles, TransferHandles, WasteHandles, ReturnHandles, AdvanceHandles
<1>2. Runs(w, i, Absent, NoEntry, NoEdit)
  BY <1>1, SavesRuns DEF DestroyDocument, Handles
<1> QED  BY <1>1, <1>2 DEF Deletes, Handles

\* Every step of the five workflows is of one of the forms.
LEMMA StepForms ==
  ASSUME TypeInv, [Next]_vars
  PROVE  \/ Creates \/ Begins \/ Deletes \/ Tests \/ Drops \/ Commits \/ UNCHANGED vars
<1>1. CASE DamageNext
  BY <1>1, CreateForm, DamageForm, DestroyForm DEF DamageNext, Begins, Move
<1>2. CASE TransferNext
  <2>1. ASSUME NEW w \in Workers, NEW u \in Users, NEW i \in Ids, UpdateTransfer(w, u, i)
        PROVE  Tests
    BY <2>1 DEF UpdateTransfer, TransferHandles, Handles, Tests
  <2>2. ASSUME NEW w \in Workers, EditTransfer(w) PROVE Begins \/ Drops
    BY <2>2, EditTransferForm DEF Begins, Move, Drops
  <2> QED  BY <1>2, <2>1, <2>2, CreateForm, TransferForm, DestroyForm DEF TransferNext, Begins, Move
<1>3. CASE WasteNext
  <2>1. ASSUME NEW w \in Workers, NEW u \in Users, NEW i \in Ids, UpdateWaste(w, u, i)
        PROVE  Tests
    BY <2>1 DEF UpdateWaste, WasteHandles, Handles, Tests
  <2>2. ASSUME NEW w \in Workers, EditWaste(w) PROVE Begins \/ Drops
    BY <2>2, EditWasteForm DEF Begins, Move, Drops
  <2> QED  BY <1>3, <2>1, <2>2, CreateForm, WasteForm, DestroyForm DEF WasteNext, Begins, Move
<1>4. CASE ReturnNext
  <2>1. ASSUME NEW w \in Workers, NEW i \in Ids, UpdateReturn(w, i) \/ DestroyReturn(w, i)
        PROVE  Begins \/ Deletes
    BY <2>1, ReturnForm, DestroyForm DEF Begins, Move
  <2>2. ASSUME NEW w \in Workers, NEW u \in Users, NEW i \in Ids,
               ApproveReturn(w, u, i) \/ FinalizeRefund(w, u, i)
        PROVE  Begins
    BY <2>2, ReturnForm DEF Begins, Move
  <2> QED  BY <1>4, <2>1, <2>2, CreateForm DEF ReturnNext
<1>5. CASE AdvanceNext
  BY <1>5, CreateForm, AdvanceForm, DestroyForm DEF AdvanceNext, Begins, Move
<1>6. ASSUME NEW w \in Workers, CommitDocument(w) \/ RollbackDocument(w)
      PROVE  Commits \/ Drops
  BY <1>6 DEF Commits, Drops, RollbackDocument
<1> QED  BY <1>1, <1>2, <1>3, <1>4, <1>5, <1>6 DEF Next


-----------------------------------------------------------------------------
(* The types *)

\* What a handler makes of a document is a document of the same table.
LEMMA MoveTypes ==
  ASSUME NEW w, NEW i, NEW new, NEW entry, NEW e, Move(w, i, new, entry, e)
  PROVE  new \in Row /\ entry \in Entry \cup {NoEntry} /\ new.kind = row[i].kind
<1> USE DEF EntryOf, Row, Entry
<1>1. CASE DamageMove(row[i], new, entry)
  <2>1. entry \in DamageEntry \cup {NoEntry}
    BY <1>1 DEF DamageMove, DamageEdited, DamageCancelled, DamageReviewed, DamageEntry,
       DamageRow, DamageStatuses
  <2>2. new \in DamageRow /\ row[i] \in DamageRow  BY <1>1 DEF DamageMove
  <2>3. new.kind = row[i].kind  BY <2>2 DEF DamageRow
  <2> QED  BY <2>1, <2>2, <2>3
<1>2. CASE TransferMove(w, i, new, entry, e)
  <2>1. new \in TransferRow /\ row[i] \in TransferRow /\ entry \in TransferEntry
    BY <1>2 DEF TransferMove
  <2>2. new.kind = row[i].kind  BY <2>1 DEF TransferRow
  <2> QED  BY <2>1, <2>2
<1>3. CASE WasteMove(row[i], new, entry)  BY <1>3 DEF WasteMove, WasteRow
<1>4. CASE ReturnMove(row[i], new, entry)  BY <1>4 DEF ReturnMove, ReturnRow
<1>5. CASE AdvanceMove(row[i], new, entry)
  <2>1. entry \in AdvanceEntry \cup {NoEntry}
    BY <1>5 DEF AdvanceMove, AdvanceEdited, AdvanceReviewed, AdvanceEntry, AdvanceRow
  <2>2. new \in AdvanceRow /\ row[i] \in AdvanceRow  BY <1>5 DEF AdvanceMove
  <2>3. new.kind = row[i].kind  BY <2>2 DEF AdvanceRow
  <2> QED  BY <2>1, <2>2, <2>3
<1> QED  BY <1>1, <1>2, <1>3, <1>4, <1>5 DEF Move

\* An edit replaces children by children of the same table.
LEMMA MergedType ==
  ASSUME NEW p \in Parts, NEW e \in Edits
  PROVE  Merged(p, e) \in Parts
BY DocumentInputsAssumption DEF Merged, Parts, Edits

LEMMA InitType == Init => TypeInv
<1> SUFFICES ASSUME Init PROVE TypeInv  OBVIOUS
<1>1. PICK goods \in Goods :
        parts = [i \in Ids |-> IF row[i] = Absent THEN Absent
                               ELSE [goods |-> goods, involved |-> {}]]
  BY DEF Init
<1>2. LegacyDamage \subseteq DamageRow
  <2>1. HoldersOf["SUPERVISOR"] \in SUBSET Users  BY RolesAssumption
  <2> QED  BY <2>1 DEF LegacyDamage, DamageRow, DamageStatuses
<1>3. row \in [Ids -> Row \cup {Absent}]  BY <1>2 DEF Init, Row
<1>4. StoreTypeOK(Row, Entry)  BY <1>3 DEF Init, StoreTypeOK
<1>5. [goods |-> goods, involved |-> {}] \in Parts  BY DEF Parts
<1>6. /\ parts \in [Ids -> Parts \cup {Absent}]
      /\ \A i \in Ids : row[i] # Absent => parts[i] \in Parts
  BY <1>1, <1>5
<1>7. edit = [w \in Workers |-> NoEdit] /\ NoEdit \in Edits /\ edit \in [Workers -> Edits]
  BY DEF Init, NoEdit, Edits
<1>8. again \in [Workers -> Retries \cup {None}]  BY DEF Init
<1>9. \E K \in [Ids -> AllKinds] : KindsAgree(K)
  <2> DEFINE K == [i \in Ids |-> "damage"]
  <2>1. K \in [Ids -> AllKinds]  BY DEF AllKinds
  <2>2. \A i \in Ids : row[i] # Absent => row[i] \in DamageRow  BY <1>2 DEF Init
  <2>3. \A i \in Ids : row[i] # Absent => row[i].kind = K[i]  BY <2>2 DEF DamageRow
  <2>4. \A w \in Workers : job[w] = Idle /\ again[w] = None  BY DEF Init
  <2>5. KindsAgree(K)  BY <2>3, <2>4 DEF KindsAgree
  <2> HIDE DEF K
  <2> QED  BY <2>1, <2>5
<1> QED  BY <1>4, <1>6, <1>7, <1>8, <1>9 DEF Init, TypeInv, TypeOK

LEMMA CreatesType ==
  ASSUME TypeInv, Creates
  PROVE  TypeInv'
<1>1. PICK i \in Ids, new \in Row, entry \in Entry \cup {NoEntry},
           goods \in Goods \cup {None}, involved \in SUBSET Users :
        CreateDocument(i, new, entry, goods, involved)
  BY DEF Creates
<1> USE DEF TypeInv, TypeOK, StoreTypeOK
<1>2. StoreTypeOK(Row, Entry)'  BY <1>1 DEF CreateDocument
<1>3. [goods |-> goods, involved |-> involved] \in Parts  BY DEF Parts
<1>4. /\ parts' \in [Ids -> Parts \cup {Absent}]
      /\ \A k \in Ids : row'[k] # Absent => parts'[k] \in Parts
  BY <1>1, <1>3 DEF CreateDocument
<1>5. edit' = edit /\ again' = again /\ job' = job  BY <1>1 DEF CreateDocument
<1>6. (\E K \in [Ids -> AllKinds] : KindsAgree(K))'
  <2>1. PICK K \in [Ids -> AllKinds] : KindsAgree(K)  OBVIOUS
  <2> DEFINE L == [K EXCEPT ![i] = new.kind]
  <2>2. L \in [Ids -> AllKinds]  BY <1>1, DocumentInputsAssumption DEF CreateDocument
  <2>3. \A k \in Ids : L[k] = IF k = i THEN new.kind ELSE K[k]  OBVIOUS
  <2>4. \A k \in Ids : row'[k] = IF k = i THEN new ELSE row[k]  BY <1>1 DEF CreateDocument
  <2>5. \A w \in Workers : job[w] # Idle => job[w].id \in Ids /\ job[w].id # i
    BY <1>1 DEF CreateDocument, Fresh, JobsOver
  <2>6. \A w \in Workers : again[w] # None => again[w].id \in Ids /\ again[w].id # i
    BY <1>1 DEF CreateDocument, Retries
  <2> HIDE DEF L
  <2>7. \A k \in Ids : row'[k] # Absent => row'[k].kind = L[k]
    BY <2>1, <2>3, <2>4 DEF KindsAgree
  <2>8. \A w \in Workers :
          job'[w] # Idle /\ job'[w].new # Absent => job'[w].new.kind = L[job'[w].id]
    BY <2>1, <2>3, <2>5, <1>5 DEF KindsAgree
  <2>9. \A w \in Workers : again'[w] # None => again'[w].kind = L[again'[w].id]
    BY <2>1, <2>3, <2>6, <1>5 DEF KindsAgree
  <2>10. KindsAgree(L)'  BY <2>7, <2>8, <2>9 DEF KindsAgree
  <2> QED  BY <2>2, <2>10
<1> QED  BY <1>2, <1>4, <1>5, <1>6

\* A handler begins: it holds a row of the same workflow, and an edit.
LEMMA RunsType ==
  ASSUME TypeInv, NEW w \in Workers, NEW i \in Ids, NEW new \in Row \cup {Absent},
         NEW entry \in Entry \cup {NoEntry}, NEW e \in Edits,
         new # Absent => new.kind = row[i].kind, Runs(w, i, new, entry, e)
  PROVE  TypeInv'
<1>1. StoreTypeOK(Row, Entry)'
  BY PrepareType DEF Runs, TypeInv, TypeOK
<1>2. parts' = parts /\ row' = row  BY DEF Runs, Prepare
<1>3. edit' \in [Workers -> Edits] /\ again' \in [Workers -> Retries \cup {None}]
  BY DEF Runs, TypeInv, TypeOK
<1>4. /\ \A v \in Workers \ {w} : job'[v] = job[v] /\ edit'[v] = edit[v] /\ again'[v] = again[v]
      /\ again'[w] = None
      /\ job'[w] = [id |-> i, seen |-> row[i], new |-> new, entry |-> entry]
  BY DEF Runs, Prepare, TypeInv, TypeOK, StoreTypeOK
<1>5. job'[w] # Idle
  BY <1>1, <1>4, IdleAssumption DEF StoreTypeOK, JobsOver, TypeInv, TypeOK, Runs, Prepare
<1>6. \A v \in Workers : IF job'[v] = Idle THEN edit'[v] = NoEdit ELSE again'[v] = None
  BY <1>4, <1>5 DEF TypeInv
<1>7. (\E K \in [Ids -> AllKinds] : KindsAgree(K))'
  <2>1. PICK K \in [Ids -> AllKinds] : KindsAgree(K)  BY DEF TypeInv
  <2>2. row[i] # Absent  BY DEF Runs, Prepare
  <2>3. \A k \in Ids : row'[k] # Absent => row'[k].kind = K[k]
    BY <2>1, <1>2 DEF KindsAgree
  <2>4. \A v \in Workers :
          job'[v] # Idle /\ job'[v].new # Absent => job'[v].new.kind = K[job'[v].id]
    BY <2>1, <2>2, <1>4 DEF KindsAgree
  <2>5. \A v \in Workers : again'[v] # None => again'[v].kind = K[again'[v].id]
    BY <2>1, <1>4 DEF KindsAgree
  <2> QED  BY <2>3, <2>4, <2>5 DEF KindsAgree
<1> QED  BY <1>1, <1>2, <1>3, <1>6, <1>7 DEF TypeInv, TypeOK

\* An update that passed the view's test remembers a document of its workflow.
LEMMA TestsType ==
  ASSUME TypeInv, Tests
  PROVE  TypeInv'
<1>1. PICK w \in Workers, u \in Users, i \in Ids :
        job[w] = Idle /\ row[i] # Absent /\ PassesTest(w, u, i)
  BY DEF Tests
<1>2. /\ row' = row /\ log' = log /\ job' = job /\ parts' = parts /\ edit' = edit
      /\ again' = [again EXCEPT ![w] = [user |-> u, id |-> i, kind |-> row[i].kind]]
  BY <1>1 DEF PassesTest, storeVars
<1>3. row[i].kind \in AllKinds  BY <1>1, RowOfKind
<1>4. PICK a : a = [user |-> u, id |-> i, kind |-> row[i].kind]  OBVIOUS
<1>5. a \in Retries /\ a.id = i /\ a.kind = row[i].kind  BY <1>3, <1>4 DEF Retries
<1>6. again' = [again EXCEPT ![w] = a]  BY <1>2, <1>4
<1>7. again' \in [Workers -> Retries \cup {None}]
  BY <1>5, <1>6 DEF TypeInv, TypeOK
<1>8. \A v \in Workers : again'[v] = IF v = w THEN a ELSE again[v]
  BY <1>6 DEF TypeInv, TypeOK
<1>9. (\E K \in [Ids -> AllKinds] : KindsAgree(K))'
  BY <1>1, <1>2, <1>5, <1>8 DEF TypeInv, KindsAgree
<1>10. StoreTypeOK(Row, Entry)'  BY <1>2 DEF TypeInv, TypeOK, StoreTypeOK
<1> QED  BY <1>1, <1>2, <1>7, <1>8, <1>9, <1>10 DEF TypeInv, TypeOK

LEMMA DropsType ==
  ASSUME TypeInv, Drops
  PROVE  TypeInv'
<1>1. ASSUME NEW w \in Workers, again[w] # None, NotFoundAgain(w)
      PROVE  TypeInv'
  <2>1. /\ row' = row /\ log' = log /\ job' = job /\ parts' = parts /\ edit' = edit
        /\ again' = [again EXCEPT ![w] = None]
    BY <1>1 DEF NotFoundAgain, storeVars
  <2>2. /\ again' \in [Workers -> Retries \cup {None}]
        /\ \A v \in Workers : again'[v] = IF v = w THEN None ELSE again[v]
    BY <2>1 DEF TypeInv, TypeOK
  <2>3. (\E K \in [Ids -> AllKinds] : KindsAgree(K))'
    BY <2>1, <2>2 DEF TypeInv, KindsAgree
  <2> QED  BY <2>1, <2>2, <2>3 DEF TypeInv, TypeOK, StoreTypeOK
<1>2. ASSUME NEW w \in Workers, Rollback(w), edit' = [edit EXCEPT ![w] = NoEdit],
             parts' = parts, again' = again
      PROVE  TypeInv'
  <2>1. StoreTypeOK(Row, Entry)'  BY <1>2, RollbackType DEF TypeInv, TypeOK
  <2>2. row' = row /\ \A v \in Workers : job'[v] = IF v = w THEN Idle ELSE job[v]
    BY <1>2 DEF Rollback, TypeInv, TypeOK, StoreTypeOK
  <2>3. /\ edit' \in [Workers -> Edits]
        /\ \A v \in Workers : edit'[v] = IF v = w THEN NoEdit ELSE edit[v]
    BY <1>2 DEF TypeInv, TypeOK, NoEdit, Edits
  <2>4. (\E K \in [Ids -> AllKinds] : KindsAgree(K))'
    BY <1>2, <2>2 DEF TypeInv, KindsAgree
  <2> QED  BY <1>2, <2>1, <2>2, <2>3, <2>4 DEF TypeInv, TypeOK
<1> QED  BY <1>1, <1>2 DEF Drops

\* What a commit makes of the rows, the children and the jobs.
LEMMA CommitsFacts ==
  ASSUME TypeInv, NEW w \in Workers, CommitDocument(w)
  PROVE  /\ job[w] \in JobsOver(Row, Entry) /\ job[w].id \in Ids
         /\ StoreTypeOK(Row, Entry)'
         /\ \A k \in Ids : row'[k] = IF k = job[w].id THEN job[w].new ELSE row[k]
         /\ \A v \in Workers : job'[v] = IF v = w THEN Idle ELSE job[v]
         /\ edit' \in [Workers -> Edits] /\ again' = again
         /\ \A v \in Workers : edit'[v] = IF v = w THEN NoEdit ELSE edit[v]
         /\ parts' \in [Ids -> Parts \cup {Absent}]
         /\ \A k \in Ids : parts'[k] =
              IF k # job[w].id THEN parts[k]
              ELSE IF job[w].new = Absent THEN Absent
              ELSE Merged(IF row[k] = Absent THEN NoParts ELSE parts[k], edit[w])
         /\ \A k \in Ids : row'[k] # Absent => parts'[k] \in Parts
<1>1. job[w] \in JobsOver(Row, Entry) /\ Commit(w)
  BY DEF TypeInv, TypeOK, StoreTypeOK, CommitDocument, Commit
<1>2. PICK i : i = job[w].id  OBVIOUS
<1>3. i \in Ids  BY <1>1, <1>2 DEF JobsOver
<1>4. StoreTypeOK(Row, Entry)'  BY <1>1, CommitType DEF TypeInv, TypeOK
<1>5. /\ \A k \in Ids : row'[k] = IF k = i THEN job[w].new ELSE row[k]
      /\ \A v \in Workers : job'[v] = IF v = w THEN Idle ELSE job[v]
  BY <1>1, <1>2 DEF Commit, TypeInv, TypeOK, StoreTypeOK
<1>6. /\ edit' \in [Workers -> Edits] /\ again' = again
      /\ \A v \in Workers : edit'[v] = IF v = w THEN NoEdit ELSE edit[v]
  BY DEF CommitDocument, TypeInv, TypeOK, NoEdit, Edits
<1>7. PICK p : p = IF job[w].new = Absent THEN Absent
                   ELSE Merged(IF row[i] = Absent THEN NoParts ELSE parts[i], edit[w])
  OBVIOUS
<1>8. parts' = [parts EXCEPT ![i] = p]  BY <1>2, <1>3, <1>7 DEF CommitDocument
<1>9. job[w].new # Absent => p \in Parts
  <2>1. NoParts \in Parts  BY DEF NoParts, Parts
  <2>2. row[i] # Absent => parts[i] \in Parts  BY <1>3 DEF TypeInv
  <2>3. edit[w] \in Edits  BY DEF TypeInv, TypeOK
  <2> QED  BY <1>7, <2>1, <2>2, <2>3, MergedType
<1>10. /\ parts' \in [Ids -> Parts \cup {Absent}]
       /\ \A k \in Ids : parts'[k] = IF k = i THEN p ELSE parts[k]
  BY <1>3, <1>7, <1>8, <1>9 DEF TypeInv, TypeOK
<1>11. \A k \in Ids : row'[k] # Absent => parts'[k] \in Parts
  BY <1>5, <1>9, <1>10 DEF TypeInv
<1> QED  BY <1>1, <1>2, <1>3, <1>4, <1>5, <1>6, <1>7, <1>10, <1>11

LEMMA CommitsType ==
  ASSUME TypeInv, Commits
  PROVE  TypeInv'
<1>1. PICK w \in Workers : CommitDocument(w)  BY DEF Commits
<1>2. (\E K \in [Ids -> AllKinds] : KindsAgree(K))'
  <2>1. PICK K \in [Ids -> AllKinds] : KindsAgree(K)  BY DEF TypeInv
  <2>2. job[w] # Idle  BY <1>1 DEF CommitDocument, Commit
  <2>3. PICK j : j = job[w]  OBVIOUS
  <2>4. \A k \in Ids : row'[k] # Absent => row'[k].kind = K[k]
    BY <1>1, <2>1, <2>2, <2>3, CommitsFacts DEF KindsAgree
  <2>5. \A v \in Workers :
          job'[v] # Idle /\ job'[v].new # Absent => job'[v].new.kind = K[job'[v].id]
    BY <1>1, <2>1, CommitsFacts DEF KindsAgree
  <2>6. \A v \in Workers : again'[v] # None => again'[v].kind = K[again'[v].id]
    BY <1>1, <2>1, CommitsFacts DEF KindsAgree
  <2> QED  BY <2>4, <2>5, <2>6 DEF KindsAgree
<1>3. \A v \in Workers : IF job'[v] = Idle THEN edit'[v] = NoEdit ELSE again'[v] = None
  BY <1>1, CommitsFacts DEF TypeInv
<1> QED  BY <1>1, <1>2, <1>3, CommitsFacts DEF TypeInv, TypeOK

\* The types are kept by every step.
LEMMA TypeStep == TypeInv /\ [Next]_vars => TypeInv'
<1> SUFFICES ASSUME TypeInv, [Next]_vars PROVE TypeInv'  OBVIOUS
<1>1. CASE Begins
  <2>1. PICK w \in Workers, i \in Ids : \E new, entry : \E e \in Edits :
          Runs(w, i, new, entry, e) /\ Move(w, i, new, entry, e)
    BY <1>1 DEF Begins
  <2>2. PICK new, entry : \E e \in Edits :
          Runs(w, i, new, entry, e) /\ Move(w, i, new, entry, e)
    BY <2>1
  <2> QED  BY <2>2, MoveTypes, RunsType
<1>2. CASE Deletes
  <2>1. NoEdit \in Edits  BY DEF NoEdit, Edits
  <2> QED  BY <1>2, <2>1, RunsType DEF Deletes
<1>3. CASE UNCHANGED vars
  BY <1>3 DEF vars, documentVars, storeVars, TypeInv, TypeOK, StoreTypeOK, KindsAgree
<1> QED  BY <1>1, <1>2, <1>3, StepForms, CreatesType, TestsType, DropsType, CommitsType

\* Every document, entry, job and edit is of the shape the models declare, for any
\* workers, users and roles and however the saves interleave.
THEOREM TypesHold == Spec => []TypeOK
<1>1. Init => TypeInv  BY InitType
<1>2. TypeInv /\ [Next]_vars => TypeInv'  BY TypeStep
<1>3. TypeInv => TypeOK  BY DEF TypeInv
<1> QED  BY <1>1, <1>2, <1>3, PTL DEF Spec


-----------------------------------------------------------------------------
(* Decisions are recorded *)

LEMMA BackedGrows ==
  ASSUME NEW r, NEW H, NEW G, H \subseteq G, Backed(r, H)
  PROVE  Backed(r, G)
<1>1. DamageBacked(r, H) => DamageBacked(r, G)  BY DEF DamageBacked, DamageDecided
<1>2. TransferBacked(r, H) => TransferBacked(r, G)  BY DEF TransferBacked
<1>3. AdvanceBacked(r, H) => AdvanceBacked(r, G)  BY DEF AdvanceBacked, AdvanceDecided
<1> QED  BY <1>1, <1>2, <1>3 DEF Backed

\* Each decision adds the entry that backs the status it moves to, and the reviewer of
\* no earlier stage changes.
LEMMA DamageStaysBacked ==
  ASSUME NEW r, NEW new, NEW entry, NEW H, DamageMove(r, new, entry), DamageBacked(r, H)
  PROVE  DamageBacked(new, H \cup Added(entry))
<1>1. r \in DamageRow /\ new \in DamageRow  BY DEF DamageMove
<1>2. CASE DamageEdited(r, new, entry)
  BY <1>2 DEF DamageEdited, DamageBacked, DamageDecided
<1>3. CASE DamageCancelled(r, new, entry)
  BY <1>3 DEF DamageCancelled, DamageBacked
<1>4. CASE DamageReviewed(r, new, entry)
  <2>1. PICK u \in Users, stage \in DamageStages :
          /\ DamageArrow(r.status, stage, new.status)
          /\ new.reviewer = [r.reviewer EXCEPT ![stage] = u]
          /\ entry = EntryOf(stage, u, new.status)
    BY <1>4 DEF DamageReviewed
  <2>2. r.reviewer \in [DamageStages -> Users \cup {NoUser}]  BY <1>1 DEF DamageRow
  <2>3. /\ new.reviewer[stage] = u
        /\ \A s \in DamageStages \ {stage} : new.reviewer[s] = r.reviewer[s]
    BY <2>1, <2>2
  <2>4. entry # NoEntry
    BY <1>1, <2>1, NoEntryAssumption DEF Entry, DamageEntry, EntryOf, DamageRow
  <2>5. DamageDecided(new, H \cup Added(entry), stage, new.status)
    BY <2>1, <2>3, <2>4 DEF DamageDecided, EntryOf, Added
  <2>6. \A s \in DamageStages \ {stage} : \A out :
          DamageDecided(r, H, s, out) => DamageDecided(new, H \cup Added(entry), s, out)
    BY <2>3 DEF DamageDecided
  <2> QED  BY <2>1, <2>5, <2>6 DEF DamageBacked, DamageArrow, DamageStages
<1> QED  BY <1>2, <1>3, <1>4 DEF DamageMove

LEMMA TransferStaysBacked ==
  ASSUME NEW w, NEW i, NEW new, NEW entry, NEW e, NEW H,
         TransferMove(w, i, new, entry, e), TransferBacked(row[i], H)
  PROVE  TransferBacked(new, H \cup Added(entry))
<1> PICK r : r = row[i]  OBVIOUS
<1>1. r \in TransferRow /\ new \in TransferRow /\ entry \in TransferEntry
  BY DEF TransferMove
<1>2. entry # NoEntry  BY <1>1, NoEntryAssumption DEF Entry
<1>3. entry \in Added(entry)  BY <1>2 DEF Added
<1>4. CASE TransferReviewed(r, new, entry, parts[i].goods)
  <2>1. PICK u \in Users, stage \in {"SENDER", "RECEIVER"} :
          TransferArrow(r.status, stage, new.status)
            /\ entry.stage = stage /\ entry.outcome = new.status
    BY <1>4 DEF TransferReviewed
  <2> QED  BY <2>1, <1>3 DEF TransferBacked, TransferArrow
<1>5. CASE TransferResent(r, new, entry)
  <2>1. new.status = IF r.status = "REJECTED" THEN "PENDING_SENDER" ELSE r.status
    BY <1>1, <1>5 DEF TransferResent, Resubmitted, TransferRow
  <2> QED  BY <2>1 DEF TransferBacked
<1> QED  BY <1>4, <1>5 DEF TransferMove

LEMMA WasteStaysBacked ==
  ASSUME NEW r, NEW new, NEW entry, WasteMove(r, new, entry), WasteBacked(r)
  PROVE  WasteBacked(new)
<1>1. r \in WasteRow /\ new \in WasteRow  BY DEF WasteMove
<1>2. r.reviewer \in [{"WAREHOUSE", "ADMIN"} -> Users \cup {NoUser}]  BY <1>1 DEF WasteRow
<1>3. CASE new = r  BY <1>3
<1>4. ASSUME NEW u \in Users, r.status = "PENDING",
             new.status \in {"APPROVED_BY_WAREHOUSE", "REJECTED_BY_WAREHOUSE"},
             new.reviewer = [r.reviewer EXCEPT !["WAREHOUSE"] = u]
      PROVE  WasteBacked(new)
  BY <1>2, <1>4, UsersAssumption DEF WasteBacked
<1>5. ASSUME NEW u \in Users, r.status = "APPROVED_BY_WAREHOUSE", new.status = "CLOSED",
             new.reviewer = [r.reviewer EXCEPT !["ADMIN"] = u]
      PROVE  WasteBacked(new)
  BY <1>2, <1>5, UsersAssumption DEF WasteBacked
<1> QED  BY <1>3, <1>4, <1>5 DEF WasteMove

LEMMA ReturnStaysBacked ==
  ASSUME NEW r, NEW new, NEW entry, ReturnMove(r, new, entry), ReturnBacked(r)
  PROVE  ReturnBacked(new)
<1>1. CASE new = r  BY <1>1
<1>2. CASE r.status = "PENDING" /\ new.status = "APPROVED" /\ new.is_approved = TRUE
  BY <1>2 DEF ReturnBacked
<1>3. CASE r.status = "APPROVED" /\ new.status = "COMPLETED" /\ new.is_approved = r.is_approved
  BY <1>3 DEF ReturnBacked
<1> QED  BY <1>1, <1>2, <1>3 DEF ReturnMove

LEMMA AdvanceStaysBacked ==
  ASSUME NEW r, NEW new, NEW entry, NEW H, AdvanceMove(r, new, entry), AdvanceBacked(r, H)
  PROVE  AdvanceBacked(new, H \cup Added(entry))
<1>1. r \in AdvanceRow /\ new \in AdvanceRow /\ new.requester = r.requester  BY DEF AdvanceMove
<1>2. CASE AdvanceEdited(r, new, entry)
  BY <1>1, <1>2 DEF AdvanceEdited, AdvanceBacked, AdvanceDecided
<1>3. CASE AdvanceReviewed(r, new, entry)
  <2>1. PICK u \in Users, stage \in AdvanceStages :
          /\ AdvanceArrow(r.status, stage, new.status)
          /\ new.reviewer = [r.reviewer EXCEPT ![stage] = u]
          /\ entry = EntryOf(stage, u, new.status)
    BY <1>3 DEF AdvanceReviewed
  <2>2. r.reviewer \in [AdvanceStages -> Users \cup {NoUser}]  BY <1>1 DEF AdvanceRow
  <2>3. /\ new.reviewer[stage] = u
        /\ \A s \in AdvanceStages \ {stage} : new.reviewer[s] = r.reviewer[s]
    BY <2>1, <2>2
  <2>4. entry # NoEntry
    BY <1>1, <2>1, NoEntryAssumption DEF Entry, AdvanceEntry, EntryOf, AdvanceRow
  <2>5. AdvanceDecided(new, H \cup Added(entry), stage, new.status)
    BY <2>1, <2>3, <2>4 DEF AdvanceDecided, EntryOf, Added
  <2>6. \A s \in AdvanceStages \ {stage} : \A out :
          AdvanceDecided(r, H, s, out) => AdvanceDecided(new, H \cup Added(entry), s, out)
    BY <2>3 DEF AdvanceDecided
  <2>7. EntryOf("SUBMIT", r.requester, "PENDING_ADMIN") \in H
          => EntryOf("SUBMIT", new.requester, "PENDING_ADMIN") \in H \cup Added(entry)
    BY <1>1
  <2> QED  BY <2>1, <2>5, <2>6, <2>7 DEF AdvanceBacked, AdvanceArrow, AdvanceStages
<1> QED  BY <1>2, <1>3 DEF AdvanceMove

LEMMA MoveStaysBacked ==
  ASSUME NEW w, NEW i, NEW new, NEW entry, NEW e, NEW H,
         Move(w, i, new, entry, e), Backed(row[i], H)
  PROVE  Backed(new, H \cup Added(entry))
<1> PICK r, G : r = row[i] /\ G = H \cup Added(entry)  OBVIOUS
<1>1. /\ \A d \in DamageRow : d.kind = "damage"
      /\ \A d \in TransferRow : d.kind = "transfer"
      /\ \A d \in WasteRow : d.kind = "waste"
      /\ \A d \in ReturnRow : d.kind = "return"
      /\ \A d \in AdvanceRow : d.kind = "advance"
  BY DEF DamageRow, TransferRow, WasteRow, ReturnRow, AdvanceRow
<1>2. CASE DamageMove(r, new, entry)
  <2>1. r.kind = "damage" /\ new.kind = "damage"  BY <1>1, <1>2 DEF DamageMove
  <2>2. DamageBacked(new, G)  BY <1>2, <2>1, DamageStaysBacked DEF Backed
  <2> QED  BY <2>1, <2>2 DEF Backed
<1>3. CASE TransferMove(w, i, new, entry, e)
  <2>1. r.kind = "transfer" /\ new.kind = "transfer"  BY <1>1, <1>3 DEF TransferMove
  <2>2. TransferBacked(new, G)  BY <1>3, <2>1, TransferStaysBacked DEF Backed
  <2> QED  BY <2>1, <2>2 DEF Backed
<1>4. CASE WasteMove(r, new, entry)
  <2>1. r.kind = "waste" /\ new.kind = "waste"  BY <1>1, <1>4 DEF WasteMove
  <2>2. WasteBacked(new)  BY <1>4, <2>1, WasteStaysBacked DEF Backed
  <2> QED  BY <2>1, <2>2 DEF Backed
<1>5. CASE ReturnMove(r, new, entry)
  <2>1. r.kind = "return" /\ new.kind = "return"  BY <1>1, <1>5 DEF ReturnMove
  <2>2. ReturnBacked(new)  BY <1>5, <2>1, ReturnStaysBacked DEF Backed
  <2> QED  BY <2>1, <2>2 DEF Backed
<1>6. CASE AdvanceMove(r, new, entry)
  <2>1. r.kind = "advance" /\ new.kind = "advance"  BY <1>1, <1>6 DEF AdvanceMove
  <2>2. AdvanceBacked(new, G)  BY <1>6, <2>1, AdvanceStaysBacked DEF Backed
  <2> QED  BY <2>1, <2>2 DEF Backed
<1> QED  BY <1>2, <1>3, <1>4, <1>5, <1>6 DEF Move

\* A new document needs no decision; an advance that waits for the admin at once has
\* the entry of its creation.
LEMMA StartedBacked ==
  ASSUME NEW new, NEW entry, Started(new, entry)
  PROVE  Backed(new, Added(entry))
<1>1. CASE new \in DamageRow /\ new.status = "PENDING_SALES_MANAGER"
  BY <1>1 DEF DamageRow, Backed, DamageBacked
<1>2. CASE new \in TransferRow /\ new.status = "PENDING_SENDER"
  BY <1>2 DEF TransferRow, Backed, TransferBacked
<1>3. CASE new \in WasteRow /\ new.status = "PENDING"
           /\ new.reviewer["WAREHOUSE"] = NoUser /\ new.reviewer["ADMIN"] = NoUser
  BY <1>3 DEF WasteRow, Backed, WasteBacked
<1>4. CASE new \in ReturnRow /\ new.status = "PENDING" /\ ~new.is_approved
  <2>1. ReturnBacked(new)  BY <1>4 DEF ReturnBacked
  <2>2. new.kind = "return"  BY <1>4 DEF ReturnRow
  <2> QED  BY <2>1, <2>2 DEF Backed
<1>5. CASE new \in AdvanceRow /\ new.status \in {"PENDING_SUPERIOR", "PENDING_ADMIN"}
           /\ entry = EntryOf("SUBMIT", new.requester, new.status)
  <2>1. entry \in AdvanceEntry
    BY <1>5 DEF EntryOf, AdvanceEntry, AdvanceRow
  <2>2. entry \in Added(entry)  BY <2>1, NoEntryAssumption DEF Entry, Added
  <2> QED  BY <1>5, <2>2 DEF AdvanceRow, Backed, AdvanceBacked
<1> QED  BY <1>1, <1>2, <1>3, <1>4, <1>5 DEF Started


\* Nothing is deleted, or one worker serves: no save brings a deleted document back
\* without its history.
NothingComesBack == "destroy" \notin Endpoints \/ \A v, w \in Workers : v = w

\* What worker w will save is backed by the history it will leave.
JobBacked(w) ==
  job[w] # Idle =>
    /\ row[job[w].id] # Absent
    /\ job[w].new = Absent => "destroy" \in Endpoints
    /\ job[w].new # Absent => Backed(job[w].new, History(job[w].id) \cup Added(job[w].entry))

BackedInv == TypeInv /\ DecisionsBacked /\ \A w \in Workers : JobBacked(w)

LEMMA InitBacked == Init => BackedInv
<1> SUFFICES ASSUME Init PROVE BackedInv  OBVIOUS
<1>1. ASSUME NEW i \in Ids, row[i] # Absent PROVE Backed(row[i], History(i))
  <2>1. row[i] \in LegacyDamage  BY <1>1 DEF Init
  <2>2. row[i].kind = "damage" /\ row[i].status = "PENDING_SUPERVISOR"
    BY <2>1 DEF LegacyDamage
  <2> QED  BY <2>2 DEF Backed, DamageBacked
<1>2. \A w \in Workers : JobBacked(w)  BY DEF Init, JobBacked
<1> QED  BY <1>1, <1>2, InitType DEF BackedInv, DecisionsBacked

LEMMA CreatesBacked ==
  ASSUME BackedInv, Creates
  PROVE  BackedInv'
<1>1. PICK i \in Ids, new \in Row, entry \in Entry \cup {NoEntry},
           goods \in Goods \cup {None}, involved \in SUBSET Users :
        CreateDocument(i, new, entry, goods, involved) /\ Started(new, entry)
  BY DEF Creates
<1>2. /\ \A k \in Ids : row'[k] = IF k = i THEN new ELSE row[k]
      /\ \A k \in Ids \ {i} : log'[k] = log[k]
      /\ log'[i] = IF entry = NoEntry THEN <<>> ELSE <<entry>>
      /\ job' = job
  BY <1>1 DEF CreateDocument, BackedInv, TypeInv, TypeOK, StoreTypeOK
<1>3. \A k \in Ids \ {i} : History(k)' = History(k)  BY <1>2 DEF History
<1>4. History(i)' = Added(entry)
  <2>1. CASE entry = NoEntry  BY <1>2, <2>1 DEF History, Added
  <2>2. CASE entry # NoEntry
    <3>1. Len(log'[i]) = 1 /\ log'[i][1] = entry  BY <1>2, <2>2
    <3>2. 1..Len(log'[i]) = {1}  BY <3>1
    <3> QED  BY <2>2, <3>1, <3>2 DEF History, Added
  <2> QED  BY <2>1, <2>2
<1>5. ASSUME NEW k \in Ids, row'[k] # Absent PROVE Backed(row'[k], History(k)')
  <2>1. CASE k = i  BY <1>1, <1>2, <1>4, <2>1, StartedBacked
  <2>2. CASE k # i  BY <1>2, <1>3, <1>5, <2>2 DEF BackedInv, DecisionsBacked
  <2> QED  BY <2>1, <2>2
<1>6. ASSUME NEW w \in Workers PROVE JobBacked(w)'
  <2> SUFFICES ASSUME job[w] # Idle PROVE JobBacked(w)'  BY <1>2 DEF JobBacked
  <2> PICK k : k = job[w].id  OBVIOUS
  <2>1. k \in Ids /\ k # i
    BY <1>1 DEF CreateDocument, Fresh, BackedInv, TypeInv, TypeOK, StoreTypeOK, JobsOver
  <2>2. JobBacked(w) /\ row'[k] = row[k] /\ History(k)' = History(k)
    BY <1>2, <1>3, <2>1 DEF BackedInv
  <2> QED  BY <1>2, <2>2 DEF JobBacked
<1> QED  BY <1>5, <1>6, CreatesType DEF BackedInv, DecisionsBacked

\* A handler that has loaded document i.
LEMMA RunsBacked ==
  ASSUME BackedInv, TypeInv', NEW w \in Workers, NEW i \in Ids, NEW new, NEW entry, NEW e,
         Runs(w, i, new, entry, e),
         new = Absent => "destroy" \in Endpoints,
         new # Absent => Backed(new, History(i) \cup Added(entry))
  PROVE  BackedInv'
<1>1. /\ row' = row /\ log' = log /\ row[i] # Absent
      /\ \A v \in Workers : job'[v] =
           IF v = w THEN [id |-> i, seen |-> row[i], new |-> new, entry |-> entry] ELSE job[v]
  BY DEF Runs, Prepare, BackedInv, TypeInv, TypeOK, StoreTypeOK
<1>2. \A k : History(k)' = History(k)  BY <1>1 DEF History
<1>3. DecisionsBacked'  BY <1>1, <1>2 DEF BackedInv, DecisionsBacked
<1>4. ASSUME NEW v \in Workers PROVE JobBacked(v)'
  <2>1. CASE v = w  BY <1>1, <1>2, <2>1 DEF JobBacked
  <2>2. CASE v # w  BY <1>1, <1>2, <2>2 DEF JobBacked, BackedInv
  <2> QED  BY <2>1, <2>2
<1> QED  BY <1>3, <1>4 DEF BackedInv

LEMMA CommitsBacked ==
  ASSUME NothingComesBack, BackedInv, Commits
  PROVE  BackedInv'
<1>1. PICK w \in Workers : CommitDocument(w)  BY DEF Commits
<1>2. PICK i, new, entry : i = job[w].id /\ new = job[w].new /\ entry = job[w].entry  OBVIOUS
<1>3. TypeInv /\ job[w] # Idle /\ Commit(w) /\ StoreTypeOK(Row, Entry)
  BY <1>1 DEF CommitDocument, Commit, BackedInv, TypeInv, TypeOK
<1>4. /\ i \in Ids
      /\ \A k \in Ids : row'[k] = IF k = i THEN new ELSE row[k]
      /\ \A v \in Workers : job'[v] = IF v = w THEN Idle ELSE job[v]
  BY <1>1, <1>2, <1>3, CommitsFacts
<1>5. new # Absent =>
        \A k \in Ids : History(k)' = History(k) \cup (IF k = i THEN Added(entry) ELSE {})
  BY <1>2, <1>3, CommitHistory
<1>6. \A k \in Ids \ {i} : History(k)' = History(k)
  BY <1>2, <1>3, <1>4 DEF Commit, History, StoreTypeOK
<1>7. JobBacked(w)  BY DEF BackedInv
<1>8. ASSUME NEW k \in Ids, row'[k] # Absent PROVE Backed(row'[k], History(k)')
  <2>1. CASE k = i
    <3>1. new # Absent  BY <1>4, <1>8, <2>1
    <3>2. History(i)' = History(i) \cup Added(entry)  BY <1>4, <1>5, <3>1
    <3> QED  BY <1>2, <1>3, <1>4, <1>7, <2>1, <3>1, <3>2 DEF JobBacked
  <2>2. CASE k # i  BY <1>4, <1>6, <1>8, <2>2 DEF BackedInv, DecisionsBacked
  <2> QED  BY <2>1, <2>2
<1>9. ASSUME NEW v \in Workers PROVE JobBacked(v)'
  <2> SUFFICES ASSUME v # w, job[v] # Idle PROVE JobBacked(v)'
    BY <1>4 DEF JobBacked
  <2> PICK k : k = job[v].id  OBVIOUS
  <2>1. k \in Ids /\ job'[v] = job[v] /\ JobBacked(v)
    BY <1>4 DEF BackedInv, TypeInv, TypeOK, StoreTypeOK, JobsOver
  <2>2. "destroy" \notin Endpoints  BY DEF NothingComesBack
  <2>3. new # Absent  BY <1>2, <1>3, <1>7, <2>2 DEF JobBacked
  <2>4. row'[k] # Absent  BY <1>4, <2>1, <2>3 DEF JobBacked
  <2>5. History(k) \subseteq History(k)'  BY <1>5, <2>1, <2>3
  <2>6. PICK H, G : /\ H = History(k) \cup Added(job[v].entry)
                    /\ G = History(k)' \cup Added(job[v].entry)
    OBVIOUS
  <2>7. H \subseteq G  BY <2>5, <2>6
  <2>8. job[v].new # Absent => Backed(job[v].new, G)
    BY <2>1, <2>6, <2>7, BackedGrows DEF JobBacked
  <2> QED  BY <2>1, <2>2, <2>4, <2>6, <2>8 DEF JobBacked
<1> QED  BY <1>8, <1>9, CommitsType DEF BackedInv, DecisionsBacked

LEMMA BackedStep ==
  ASSUME NothingComesBack
  PROVE  BackedInv /\ [Next]_vars => BackedInv'
<1> SUFFICES ASSUME BackedInv, [Next]_vars PROVE BackedInv'  OBVIOUS
<1> USE DEF BackedInv
<1>1. TypeInv'  BY TypeStep
<1>2. CASE Begins
  <2>1. PICK w \in Workers, i \in Ids : \E new, entry : \E e \in Edits :
          Runs(w, i, new, entry, e) /\ Move(w, i, new, entry, e)
    BY <1>2 DEF Begins
  <2>2. PICK new, entry : \E e \in Edits :
          Runs(w, i, new, entry, e) /\ Move(w, i, new, entry, e)
    BY <2>1
  <2>3. PICK e \in Edits : Runs(w, i, new, entry, e) /\ Move(w, i, new, entry, e)
    BY <2>2
  <2>4. row[i] # Absent  BY <2>3 DEF Runs, Prepare
  <2>5. Backed(row[i], History(i))  BY <2>4 DEF DecisionsBacked
  <2>6. Backed(new, History(i) \cup Added(entry))  BY <2>3, <2>5, MoveStaysBacked
  <2>7. new # Absent  BY <2>3, MoveTypes, AbsentAssumption
  <2> QED  BY <1>1, <2>3, <2>6, <2>7, RunsBacked
<1>3. CASE Deletes  BY <1>1, <1>3, RunsBacked DEF Deletes
<1>4. CASE Tests \/ Drops \/ UNCHANGED vars
  <2>1. row' = row /\ log' = log /\ \A v \in Workers : job'[v] \in {job[v], Idle}
    BY <1>4 DEF Tests, PassesTest, Drops, NotFoundAgain, Rollback, storeVars, vars,
       documentVars, TypeInv, TypeOK, StoreTypeOK
  <2>2. \A k : History(k)' = History(k)  BY <2>1 DEF History
  <2>3. DecisionsBacked'  BY <2>1, <2>2 DEF DecisionsBacked
  <2>4. ASSUME NEW v \in Workers PROVE JobBacked(v)'
    BY <2>1, <2>2 DEF JobBacked
  <2> QED  BY <1>1, <2>3, <2>4
<1> QED  BY <1>2, <1>3, <1>4, StepForms, CreatesBacked, CommitsBacked

\* However many workers save stale snapshots of the documents, edits included, no
\* document has passed a stage without the decision of that stage being recorded; what
\* must not happen at once is that documents are deleted and that workers overlap.
THEOREM DecisionsBackedHolds ==
  ASSUME "destroy" \notin Endpoints \/ \A v, w \in Workers : v = w
  PROVE  Spec => []DecisionsBacked
<1>1. Init => BackedInv  BY InitBacked
<1>2. BackedInv /\ [Next]_vars => BackedInv'  BY BackedStep DEF NothingComesBack
<1>3. BackedInv => DecisionsBacked  BY DEF BackedInv
<1> QED  BY <1>1, <1>2, <1>3, PTL DEF Spec


-----------------------------------------------------------------------------
(* One worker *)

\* The history after a save.
After(L, entry) == IF entry = NoEntry THEN L ELSE Append(L, entry)

Final(entry) == entry.outcome \in {"APPROVED", "PAID"}
BeforeWarehouse(r) == r.kind = "damage" /\ r.status \in DamageCancellable \cup {"CANCELLED"}

\* What document r, its history L and its children p have to do with each other.
Consistent(r, L, p) ==
  /\ r.kind \in {"waste", "return"} => L = <<>>
  /\ L # <<>> => r.status = L[Len(L)].outcome
  /\ \A j, k \in 1..Len(L) : Final(L[j]) /\ Final(L[k]) => j = k
  /\ \A k \in 1..Len(L) : Final(L[k]) => r.status \in {"APPROVED", "PAID"}
  /\ BeforeWarehouse(r) => \A k \in 1..Len(L) : L[k].stage # "WAREHOUSE"
  /\ r.kind = "transfer" /\ r.status = "APPROVED" => L # <<>> /\ L[Len(L)].listed = p.goods

DocumentsConsistent ==
  \A i \in Ids : IF row[i] = Absent THEN log[i] = <<>>
                 ELSE Consistent(row[i], log[i], parts[i])

\* What worker w has loaded is what is stored, and what it will save is consistent.
JobConsistent(w) ==
  job[w] # Idle =>
    LET j == job[w] IN
      /\ row[j.id] # Absent
      /\ j.new # Absent =>
           Consistent(j.new, After(log[j.id], j.entry), Merged(parts[j.id], edit[w]))

\* A transfer that passed the view's test still passes it when it is loaded again.
RetryEditable(w) ==
  again[w] # None /\ again[w].kind = "transfer" /\ row[again[w].id] # Absent =>
    TransferEditable(row[again[w].id])

SerialInv ==
  /\ TypeInv /\ DocumentsConsistent
  /\ \A w \in Workers : JobConsistent(w) /\ RetryEditable(w)


\* A decision, a cancellation or a correction that starts where nothing is final yet.
LEMMA AppendConsistent ==
  ASSUME NEW r, NEW L \in Seq(Entry), NEW p, Consistent(r, L, p),
         NEW new, NEW entry \in Entry, NEW q,
         r.status \notin {"APPROVED", "PAID"}, new.status = entry.outcome,
         new.kind \notin {"waste", "return"},
         BeforeWarehouse(new) => BeforeWarehouse(r) /\ entry.stage # "WAREHOUSE",
         new.kind = "transfer" /\ new.status = "APPROVED" => entry.listed = q.goods
  PROVE  Consistent(new, After(L, entry), q)
<1> PICK M : M = Append(L, entry)  OBVIOUS
<1>1. After(L, entry) = M  BY NoEntryAssumption DEF After
<1>2. /\ M # <<>> /\ Len(M) = Len(L) + 1 /\ M[Len(M)] = entry
      /\ \A k \in 1..Len(M) : (k \in 1..Len(L) /\ M[k] = L[k]) \/ k = Len(M)
  OBVIOUS
<1>3. \A k \in 1..Len(L) : ~Final(L[k])  BY DEF Consistent
<1>4. \A k \in 1..Len(M) : Final(M[k]) => k = Len(M)  BY <1>2, <1>3
<1>5. Final(entry) => new.status \in {"APPROVED", "PAID"}  BY DEF Final
<1>6. BeforeWarehouse(new) => \A k \in 1..Len(M) : M[k].stage # "WAREHOUSE"
  BY <1>2 DEF Consistent
<1> QED  BY <1>1, <1>2, <1>4, <1>5, <1>6 DEF Consistent

\* An edit that leaves the status and writes no entry.
LEMMA KeepConsistent ==
  ASSUME NEW r, NEW L, NEW p, Consistent(r, L, p), NEW new, NEW q,
         new.kind = r.kind, new.status = r.status, r.kind # "transfer"
  PROVE  Consistent(new, After(L, NoEntry), q)
BY DEF Consistent, After, BeforeWarehouse

LEMMA DamageStaysConsistent ==
  ASSUME NEW r, NEW L \in Seq(Entry), NEW p, NEW q, NEW new, NEW entry,
         DamageMove(r, new, entry), Consistent(r, L, p)
  PROVE  Consistent(new, After(L, entry), q)
<1>1. r \in DamageRow /\ new \in DamageRow  BY DEF DamageMove
<1>2. r.kind = "damage" /\ new.kind = "damage"  BY <1>1 DEF DamageRow
<1>3. CASE DamageEdited(r, new, entry)
  BY <1>2, <1>3, KeepConsistent DEF DamageEdited
<1>4. CASE DamageCancelled(r, new, entry)
  <2>1. PICK u \in Users : entry = EntryOf("CANCEL", u, "CANCELLED")
    BY <1>4 DEF DamageCancelled
  <2>2. entry \in Entry /\ entry.outcome = "CANCELLED" /\ entry.stage = "CANCEL"
    BY <2>1 DEF EntryOf, Entry, DamageEntry, DamageStatuses
  <2>3. BeforeWarehouse(r) /\ r.status \notin {"APPROVED", "PAID"}
    BY <1>2, <1>4 DEF DamageCancelled, BeforeWarehouse, DamageCancellable
  <2>4. new.status = entry.outcome  BY <1>4, <2>2 DEF DamageCancelled
  <2> QED  BY <1>2, <2>2, <2>3, <2>4, AppendConsistent
<1>5. CASE DamageReviewed(r, new, entry)
  <2>1. PICK u \in Users, stage \in DamageStages :
          DamageArrow(r.status, stage, new.status) /\ entry = EntryOf(stage, u, new.status)
    BY <1>5 DEF DamageReviewed
  <2>2. entry \in Entry /\ entry.outcome = new.status /\ entry.stage = stage
    BY <1>1, <2>1 DEF EntryOf, Entry, DamageEntry, DamageRow
  <2>3. r.status \notin {"APPROVED", "PAID"}  BY <2>1 DEF DamageArrow
  <2>4. BeforeWarehouse(new) => BeforeWarehouse(r) /\ stage # "WAREHOUSE"
    BY <1>2, <2>1 DEF DamageArrow, BeforeWarehouse, DamageCancellable
  <2> QED  BY <1>2, <2>2, <2>3, <2>4, AppendConsistent
<1> QED  BY <1>3, <1>4, <1>5 DEF DamageMove

LEMMA TransferStaysConsistent ==
  ASSUME NEW w \in Workers, NEW i, NEW L \in Seq(Entry), NEW new, NEW entry, NEW e,
         TransferMove(w, i, new, entry, e), RetryEditable(w),
         Consistent(row[i], L, parts[i])
  PROVE  Consistent(new, After(L, entry), Merged(parts[i], e))
<1> PICK r, q : r = row[i] /\ q = Merged(parts[i], e)  OBVIOUS
<1>1. r \in TransferRow /\ new \in TransferRow /\ entry \in TransferEntry
  BY DEF TransferMove
<1>2. r.kind = "transfer" /\ new.kind = "transfer" /\ entry \in Entry
  BY <1>1 DEF TransferRow, Entry
<1>3. ~BeforeWarehouse(new)  BY <1>2 DEF BeforeWarehouse
<1>4. CASE TransferReviewed(r, new, entry, parts[i].goods) /\ e = NoEdit
  <2>1. PICK u \in Users, stage \in {"SENDER", "RECEIVER"} :
          /\ TransferArrow(r.status, stage, new.status)
          /\ entry = [stage |-> stage, actor |-> u, outcome |-> new.status,
                      listed |-> IF new.status = "APPROVED" THEN parts[i].goods ELSE None]
    BY <1>4 DEF TransferReviewed
  <2>2. q.goods = parts[i].goods  BY <1>4 DEF Merged, NoEdit
  <2>3. new.status = "APPROVED" => entry.listed = q.goods  BY <2>1, <2>2
  <2>4. entry.outcome = new.status /\ r.status \notin {"APPROVED", "PAID"}
    BY <2>1 DEF TransferArrow
  <2> QED  BY <1>2, <1>3, <2>3, <2>4, AppendConsistent
<1>5. CASE TransferResent(r, new, entry) /\ again[w] # None /\ again[w].id = i
           /\ again[w].kind = "transfer"
  <2>1. r # Absent  BY <1>1, AbsentAssumption DEF Row
  <2>2. r.status \in {"PENDING_SENDER", "REJECTED"}
    BY <1>5, <2>1 DEF RetryEditable, TransferEditable
  <2>3. new.status = "PENDING_SENDER"
    BY <1>1, <1>5, <2>2 DEF TransferResent, Resubmitted, TransferRow
  <2>4. entry.outcome = "PENDING_SENDER"  BY <1>5 DEF TransferResent, EntryOf
  <2> QED  BY <1>2, <1>3, <2>2, <2>3, <2>4, AppendConsistent
<1> QED  BY <1>4, <1>5 DEF TransferMove

LEMMA AdvanceStaysConsistent ==
  ASSUME NEW r, NEW L \in Seq(Entry), NEW p, NEW q, NEW new, NEW entry,
         AdvanceMove(r, new, entry), Consistent(r, L, p)
  PROVE  Consistent(new, After(L, entry), q)
<1>1. r \in AdvanceRow /\ new \in AdvanceRow  BY DEF AdvanceMove
<1>2. r.kind = "advance" /\ new.kind = "advance"  BY <1>1 DEF AdvanceRow
<1>3. CASE AdvanceEdited(r, new, entry)
  BY <1>2, <1>3, KeepConsistent DEF AdvanceEdited
<1>4. CASE AdvanceReviewed(r, new, entry)
  <2>1. PICK u \in Users, stage \in AdvanceStages :
          AdvanceArrow(r.status, stage, new.status) /\ entry = EntryOf(stage, u, new.status)
    BY <1>4 DEF AdvanceReviewed
  <2>2. entry \in Entry /\ entry.outcome = new.status
    BY <1>1, <2>1 DEF EntryOf, Entry, AdvanceEntry, AdvanceRow
  <2>3. r.status \notin {"APPROVED", "PAID"}  BY <2>1 DEF AdvanceArrow
  <2>4. ~BeforeWarehouse(new)  BY <1>2 DEF BeforeWarehouse
  <2> QED  BY <1>2, <2>2, <2>3, <2>4, AppendConsistent
<1> QED  BY <1>3, <1>4 DEF AdvanceMove

\* A waste report or a return request has no history that could disagree with it.
LEMMA NoHistoryConsistent ==
  ASSUME NEW r, NEW L, NEW p, NEW new, NEW entry, NEW q, Consistent(r, L, p),
         WasteMove(r, new, entry) \/ ReturnMove(r, new, entry)
  PROVE  Consistent(new, After(L, entry), q)
<1>1. r.kind \in {"waste", "return"} /\ new.kind \in {"waste", "return"} /\ entry = NoEntry
  BY DEF WasteMove, ReturnMove, WasteRow, ReturnRow
<1>2. L = <<>> /\ After(L, entry) = <<>>  BY <1>1 DEF Consistent, After
<1> QED  BY <1>1, <1>2 DEF Consistent

LEMMA MoveStaysConsistent ==
  ASSUME NEW w \in Workers, NEW i, NEW L \in Seq(Entry), NEW new, NEW entry, NEW e,
         Move(w, i, new, entry, e), RetryEditable(w), Consistent(row[i], L, parts[i])
  PROVE  Consistent(new, After(L, entry), Merged(parts[i], e))
BY DamageStaysConsistent, TransferStaysConsistent, AdvanceStaysConsistent,
   NoHistoryConsistent DEF Move

LEMMA StartedConsistent ==
  ASSUME NEW new, NEW entry, Started(new, entry), NEW p
  PROVE  Consistent(new, After(<<>>, entry), p)
<1>1. CASE entry = NoEntry
  <2>1. new.status # "APPROVED"
    BY <1>1 DEF Started
  <2> QED  BY <1>1, <2>1 DEF After, Consistent
<1>2. CASE entry # NoEntry
  <2>1. /\ new.kind \notin {"waste", "return"} /\ entry.outcome = new.status
        /\ entry.stage = "SUBMIT" /\ new.status # "APPROVED"
    <3> USE DEF EntryOf
    <3>1. CASE new \in DamageRow /\ new.status = "PENDING_SALES_MANAGER"
               /\ \E u \in Users : entry = EntryOf("SUBMIT", u, "PENDING_SALES_MANAGER")
      BY <3>1 DEF DamageRow
    <3>2. CASE new \in TransferRow /\ new.status = "PENDING_SENDER"
               /\ \E u \in Users : entry = EntryOf("SUBMIT", u, "PENDING_SENDER")
      BY <3>2 DEF TransferRow
    <3>3. CASE new \in AdvanceRow /\ new.status \in {"PENDING_SUPERIOR", "PENDING_ADMIN"}
               /\ entry = EntryOf("SUBMIT", new.requester, new.status)
      BY <3>3 DEF AdvanceRow
    <3> QED  BY <1>2, <3>1, <3>2, <3>3 DEF Started
  <2>2. PICK M : M = <<entry>>  OBVIOUS
  <2>3. After(<<>>, entry) = M  BY <1>2, <2>2 DEF After
  <2>4. Len(M) = 1 /\ M[1] = entry /\ M # <<>>  BY <2>2
  <2>5. \A k \in 1..Len(M) : k = 1  BY <2>4
  <2>6. Consistent(new, M, p)
    BY <2>1, <2>4, <2>5 DEF Consistent, Final
  <2> QED  BY <2>3, <2>6
<1> QED  BY <1>1, <1>2


LEMMA InitConsistent == Init => SerialInv
<1> SUFFICES ASSUME Init PROVE SerialInv  OBVIOUS
<1>1. ASSUME NEW i \in Ids, row[i] # Absent PROVE Consistent(row[i], log[i], parts[i])
  <2>1. row[i] \in LegacyDamage /\ log[i] = <<>>  BY <1>1 DEF Init
  <2>2. row[i].kind = "damage"  BY <2>1 DEF LegacyDamage
  <2> QED  BY <2>1, <2>2 DEF Consistent
<1>2. \A i \in Ids : log[i] = <<>>  BY DEF Init
<1>3. \A w \in Workers : JobConsistent(w) /\ RetryEditable(w)
  BY DEF Init, JobConsistent, RetryEditable
<1> QED  BY <1>1, <1>2, <1>3, InitType DEF SerialInv, DocumentsConsistent

\* A step that leaves row, history and children of document k alone leaves what a
\* worker holds of k alone.
LEMMA UntouchedJob ==
  ASSUME NEW w, NEW k, JobConsistent(w), job[w].id = k, job'[w] = job[w], edit'[w] = edit[w],
         row'[k] = row[k], log'[k] = log[k], parts'[k] = parts[k]
  PROVE  JobConsistent(w)'
BY DEF JobConsistent

LEMMA CreatesConsistent ==
  ASSUME SerialInv, Creates
  PROVE  SerialInv'
<1>1. PICK i \in Ids, new \in Row, entry \in Entry \cup {NoEntry},
           goods \in Goods \cup {None}, involved \in SUBSET Users :
        CreateDocument(i, new, entry, goods, involved) /\ Started(new, entry)
  BY DEF Creates
<1>2. TypeInv  BY DEF SerialInv
<1>3. /\ row'[i] = new /\ log'[i] = After(<<>>, entry) /\ row[i] = Absent
      /\ \A k \in Ids \ {i} : row'[k] = row[k] /\ log'[k] = log[k] /\ parts'[k] = parts[k]
      /\ job' = job /\ edit' = edit /\ again' = again
  <2>1. After(<<>>, entry) = IF entry = NoEntry THEN <<>> ELSE <<entry>>  BY DEF After
  <2> QED  BY <1>1, <1>2, <2>1 DEF CreateDocument, Fresh, TypeInv, TypeOK, StoreTypeOK
<1>4. DocumentsConsistent'
  <2>1. ASSUME NEW k \in Ids
        PROVE  IF row'[k] = Absent THEN log'[k] = <<>>
               ELSE Consistent(row'[k], log'[k], parts'[k])
    <3>1. CASE k = i
      <4>1. Consistent(row'[i], log'[i], parts'[i])  BY <1>1, <1>3, StartedConsistent
      <4> QED  BY <1>1, <1>3, <3>1, <4>1, AbsentAssumption
    <3>2. CASE k # i  BY <1>3, <3>2 DEF SerialInv, DocumentsConsistent
    <3> QED  BY <3>1, <3>2
  <2> QED  BY <2>1 DEF DocumentsConsistent
<1>5. ASSUME NEW w \in Workers PROVE JobConsistent(w)'
  <2>1. CASE job[w] = Idle  BY <1>3, <2>1 DEF JobConsistent
  <2>2. CASE job[w] # Idle
    <3>1. job[w].id \in Ids \ {i}
      BY <1>1, <1>2, <2>2 DEF CreateDocument, Fresh, TypeInv, TypeOK, StoreTypeOK, JobsOver
    <3>2. JobConsistent(w)  BY DEF SerialInv
    <3> QED  BY <1>3, <3>1, <3>2, UntouchedJob
  <2> QED  BY <2>1, <2>2
<1>6. ASSUME NEW w \in Workers PROVE RetryEditable(w)'
  <2>1. again[w] # None => again[w].id \in Ids \ {i}
    BY <1>1, <1>2, RetryFacts DEF CreateDocument
  <2> QED  BY <1>3, <2>1 DEF SerialInv, RetryEditable
<1> QED  BY <1>2, <1>4, <1>5, <1>6, CreatesType DEF SerialInv

\* A handler that has loaded document i.
LEMMA RunsConsistent ==
  ASSUME SerialInv, TypeInv', NEW w \in Workers, NEW i \in Ids, NEW new, NEW entry, NEW e,
         Runs(w, i, new, entry, e),
         new # Absent => Consistent(new, After(log[i], entry), Merged(parts[i], e))
  PROVE  SerialInv'
<1>1. /\ row' = row /\ log' = log /\ parts' = parts /\ row[i] # Absent
      /\ job'[w] = [id |-> i, seen |-> row[i], new |-> new, entry |-> entry]
      /\ edit'[w] = e /\ again'[w] = None
      /\ \A v \in Workers \ {w} : job'[v] = job[v] /\ edit'[v] = edit[v] /\ again'[v] = again[v]
  BY DEF Runs, Prepare, SerialInv, TypeInv, TypeOK, StoreTypeOK
<1>2. DocumentsConsistent'  BY <1>1 DEF SerialInv, DocumentsConsistent
<1>3. ASSUME NEW v \in Workers PROVE JobConsistent(v)' /\ RetryEditable(v)'
  <2>1. CASE v = w
    <3>1. PICK j : j = job'[w]  OBVIOUS
    <3>2. j.id = i /\ j.new = new /\ j.entry = entry  BY <1>1, <3>1
    <3> QED  BY <1>1, <2>1, <3>1, <3>2 DEF JobConsistent, RetryEditable
  <2>2. CASE v # w
    <3>1. PICK k : k = job[v].id  OBVIOUS
    <3> QED  BY <1>1, <2>2, <3>1, UntouchedJob DEF SerialInv, RetryEditable
  <2> QED  BY <2>1, <2>2
<1> QED  BY <1>2, <1>3 DEF SerialInv

LEMMA CommitsConsistent ==
  ASSUME \A v, w \in Workers : v = w, SerialInv, Commits
  PROVE  SerialInv'
<1>1. PICK w \in Workers : CommitDocument(w)  BY DEF Commits
<1>2. PICK i, new, entry : i = job[w].id /\ new = job[w].new /\ entry = job[w].entry  OBVIOUS
<1>3. TypeInv /\ job[w] # Idle /\ JobConsistent(w)
  BY <1>1 DEF CommitDocument, Commit, SerialInv
<1>4. /\ i \in Ids
      /\ \A k \in Ids : row'[k] = IF k = i THEN new ELSE row[k]
      /\ job'[w] = Idle /\ again' = again
      /\ \A k \in Ids \ {i} : parts'[k] = parts[k]
      /\ new # Absent =>
           parts'[i] = Merged(IF row[i] = Absent THEN NoParts ELSE parts[i], edit[w])
  BY <1>1, <1>2, <1>3, CommitsFacts
<1>5. /\ log' = [log EXCEPT ![i] = IF new = Absent THEN <<>>
                                   ELSE IF entry = NoEntry THEN @ ELSE Append(@, entry)]
      /\ DOMAIN log = Ids
  BY <1>1, <1>2, <1>3 DEF CommitDocument, Commit, TypeInv, TypeOK, StoreTypeOK
<1>6. /\ \A k \in Ids \ {i} : log'[k] = log[k]
      /\ log'[i] = IF new = Absent THEN <<>> ELSE After(log[i], entry)
  BY <1>4, <1>5 DEF After
<1>7. /\ row[i] # Absent
      /\ new # Absent => Consistent(new, After(log[i], entry), Merged(parts[i], edit[w]))
  BY <1>2, <1>3 DEF JobConsistent
<1>8. ASSUME NEW k \in Ids
      PROVE  IF row'[k] = Absent THEN log'[k] = <<>>
             ELSE Consistent(row'[k], log'[k], parts'[k])
  <2>1. CASE k = i  BY <1>4, <1>6, <1>7, <2>1
  <2>2. CASE k # i  BY <1>4, <1>6, <2>2 DEF SerialInv, DocumentsConsistent
  <2> QED  BY <2>1, <2>2
<1>9. ASSUME NEW v \in Workers PROVE JobConsistent(v)' /\ RetryEditable(v)'
  <2>1. v = w /\ again[w] = None  BY <1>3 DEF TypeInv
  <2> QED  BY <1>4, <2>1 DEF JobConsistent, RetryEditable
<1> QED  BY <1>3, <1>8, <1>9, CommitsType DEF SerialInv, DocumentsConsistent

\* The view has tested a document; its row does not change.
LEMMA TestsConsistent ==
  ASSUME SerialInv, TypeInv', Tests
  PROVE  SerialInv'
<1>1. PICK w \in Workers, u \in Users, i \in Ids :
        /\ job[w] = Idle /\ row[i] # Absent /\ PassesTest(w, u, i)
        /\ row[i].kind = "transfer" => TransferEditable(row[i])
  BY DEF Tests
<1>2. PICK a : a = [user |-> u, id |-> i, kind |-> row[i].kind]  OBVIOUS
<1>3. a.id = i /\ a.kind = row[i].kind  BY <1>2
<1>4. /\ row' = row /\ log' = log /\ job' = job /\ parts' = parts /\ edit' = edit
      /\ again'[w] = a /\ \A v \in Workers \ {w} : again'[v] = again[v]
  BY <1>1, <1>2 DEF PassesTest, storeVars, SerialInv, TypeInv, TypeOK
<1>5. DocumentsConsistent' /\ \A v \in Workers : JobConsistent(v)'
  BY <1>4 DEF SerialInv, DocumentsConsistent, JobConsistent
<1>6. ASSUME NEW v \in Workers PROVE RetryEditable(v)'
  BY <1>1, <1>3, <1>4 DEF SerialInv, RetryEditable
<1> QED  BY <1>5, <1>6 DEF SerialInv

LEMMA DropsConsistent ==
  ASSUME SerialInv, TypeInv', Drops
  PROVE  SerialInv'
<1>1. PICK w \in Workers :
        \/ again[w] # None /\ NotFoundAgain(w)
        \/ Rollback(w) /\ edit' = [edit EXCEPT ![w] = NoEdit] /\ UNCHANGED <<parts, again>>
  BY DEF Drops
<1>2. /\ row' = row /\ log' = log /\ parts' = parts
      /\ \A v \in Workers : /\ (job'[v] = job[v] /\ edit'[v] = edit[v]) \/ job'[v] = Idle
                            /\ again'[v] \in {again[v], None}
  BY <1>1 DEF NotFoundAgain, Rollback, storeVars, SerialInv, TypeInv, TypeOK, StoreTypeOK
<1>3. DocumentsConsistent'  BY <1>2 DEF SerialInv, DocumentsConsistent
<1>4. \A v \in Workers : JobConsistent(v)' /\ RetryEditable(v)'
  BY <1>2 DEF SerialInv, JobConsistent, RetryEditable
<1> QED  BY <1>3, <1>4 DEF SerialInv

LEMMA SerialStep ==
  ASSUME \A v, w \in Workers : v = w
  PROVE  SerialInv /\ [Next]_vars => SerialInv'
<1> SUFFICES ASSUME SerialInv, [Next]_vars PROVE SerialInv'  OBVIOUS
<1>1. TypeInv /\ TypeInv'  BY TypeStep DEF SerialInv
<1>2. CASE Begins
  <2>1. PICK w \in Workers, i \in Ids : \E new, entry : \E e \in Edits :
          Runs(w, i, new, entry, e) /\ Move(w, i, new, entry, e)
    BY <1>2 DEF Begins
  <2>2. PICK new, entry : \E e \in Edits :
          Runs(w, i, new, entry, e) /\ Move(w, i, new, entry, e)
    BY <2>1
  <2>3. PICK e \in Edits : Runs(w, i, new, entry, e) /\ Move(w, i, new, entry, e)
    BY <2>2
  <2>4. row[i] # Absent /\ log[i] \in Seq(Entry)
    BY <1>1, <2>3 DEF Runs, Prepare, TypeInv, TypeOK, StoreTypeOK
  <2>5. Consistent(row[i], log[i], parts[i]) /\ RetryEditable(w)
    BY <2>4 DEF SerialInv, DocumentsConsistent
  <2> QED  BY <1>1, <2>3, <2>4, <2>5, MoveStaysConsistent, RunsConsistent
<1>3. CASE Deletes  BY <1>1, <1>3, RunsConsistent DEF Deletes
<1>4. CASE UNCHANGED vars
  BY <1>1, <1>4 DEF vars, documentVars, storeVars, SerialInv, DocumentsConsistent,
     JobConsistent, RetryEditable
<1> QED
  BY <1>1, <1>2, <1>3, <1>4, StepForms, CreatesConsistent, TestsConsistent,
     DropsConsistent, CommitsConsistent

\* What the histories of consistent documents say.
LEMMA SerialFacts ==
  ASSUME SerialInv
  PROVE  StatusAnnounced /\ FinalEntryListsGoods /\ FinalOnce /\ NoCancelAfterWarehouse
<1>1. \A i \in Ids : (row[i] = Absent /\ log[i] = <<>>) \/ Consistent(row[i], log[i], parts[i])
  BY DEF SerialInv, DocumentsConsistent
<1>2. ASSUME NEW i \in Ids, row[i] # Absent
      PROVE  Consistent(row[i], log[i], parts[i])
  BY <1>1, <1>2
<1>3. StatusAnnounced  BY <1>2 DEF StatusAnnounced, Consistent, LastEntry
<1>4. FinalEntryListsGoods  BY <1>2 DEF FinalEntryListsGoods, Consistent, LastEntry
<1>5. FinalOnce
  <2>1. ASSUME NEW i \in Ids, NEW j \in 1..Len(log[i]), NEW k \in 1..Len(log[i]),
               Final(log[i][j]), Final(log[i][k])
        PROVE  j = k
    <3>1. CASE row[i] = Absent
      <4>1. log[i] = <<>>  BY <3>1 DEF SerialInv, DocumentsConsistent
      <4>2. FALSE  BY <2>1, <4>1
      <4> QED  BY <4>2
    <3>2. CASE row[i] # Absent  BY <1>2, <2>1, <3>2 DEF Consistent
    <3> QED  BY <3>1, <3>2
  <2> QED  BY <2>1 DEF FinalOnce, Final
<1>6. NoCancelAfterWarehouse
  <2>1. ASSUME NEW i \in Ids, row[i] # Absent, row[i].status = "CANCELLED"
        PROVE  \A e \in History(i) : e.stage # "WAREHOUSE"
    <3>1. row[i] \in Row  BY <2>1, RowOfKind DEF SerialInv
    <3>2. row[i] \in DamageRow
      BY <2>1, <3>1 DEF Row, TransferRow, TransferStatuses, WasteRow, WasteStatuses,
         ReturnRow, ReturnStatuses, AdvanceRow, AdvanceStatuses
    <3>3. BeforeWarehouse(row[i])  BY <2>1, <3>2 DEF DamageRow, BeforeWarehouse
    <3>4. \A k \in 1..Len(log[i]) : log[i][k].stage # "WAREHOUSE"
      BY <1>2, <2>1, <3>3 DEF Consistent
    <3> QED  BY <3>4 DEF History
  <2> QED  BY <2>1 DEF NoCancelAfterWarehouse
<1> QED  BY <1>3, <1>4, <1>5, <1>6

\* With one worker, and deletions, every document has the status its last entry announces.
THEOREM StatusIsAnnounced ==
  ASSUME \A v, w \in Workers : v = w
  PROVE  Spec => []StatusAnnounced
<1>1. SerialInv /\ [Next]_vars => SerialInv'  BY SerialStep
<1>2. SerialInv => StatusAnnounced  BY SerialFacts
<1> QED  BY <1>1, <1>2, InitConsistent, PTL DEF Spec

\* With one worker the final entry of an approved transfer lists the goods it has,
\* whatever edits passed their test before.
THEOREM FinalEntryListsTheGoods ==
  ASSUME \A v, w \in Workers : v = w
  PROVE  Spec => []FinalEntryListsGoods
<1>1. SerialInv /\ [Next]_vars => SerialInv'  BY SerialStep
<1>2. SerialInv => FinalEntryListsGoods  BY SerialFacts
<1> QED  BY <1>1, <1>2, InitConsistent, PTL DEF Spec

\* With one worker a document is finally approved or paid by one decision.
THEOREM DecidedFinallyOnce ==
  ASSUME \A v, w \in Workers : v = w
  PROVE  Spec => []FinalOnce
<1>1. SerialInv /\ [Next]_vars => SerialInv'  BY SerialStep
<1>2. SerialInv => FinalOnce  BY SerialFacts
<1> QED  BY <1>1, <1>2, InitConsistent, PTL DEF Spec

\* With one worker a cancelled damage registration was never reviewed by the warehouse.
THEOREM CancelledBeforeWarehouse ==
  ASSUME \A v, w \in Workers : v = w
  PROVE  Spec => []NoCancelAfterWarehouse
<1>1. SerialInv /\ [Next]_vars => SerialInv'  BY SerialStep
<1>2. SerialInv => NoCancelAfterWarehouse  BY SerialFacts
<1> QED  BY <1>1, <1>2, InitConsistent, PTL DEF Spec
=============================================================================
