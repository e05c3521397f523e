----------------------- MODULE EmployeeRequest_proofs -----------------------
(***************************************************************************)
(* What holds of the employee-request workflow for any number of requests, *)
(* workers and users, any hierarchy and any interleaving of the handlers.  *)
(*                                                                         *)
(* The argument is the same each time: an instance.save() writes a row     *)
(* computed from ONE committed version of the row by ONE handler, so a     *)
(* fact about a row and the history that leads to it survives any overlap  *)
(* if every handler keeps it.  The invariants therefore speak of the       *)
(* committed rows and of the rows that running handlers are about to save. *)
(***************************************************************************)
EXTENDS EmployeeRequest, TLAPS

USE UsersAssumption, InputsAssumption

-----------------------------------------------------------------------------
(* The steps of RowStore, for any set R of rows and any set E of history entries *)

\* No row and no history exist at the start, and no handler runs.
LEMMA StoreInitType ==
  ASSUME NEW R, NEW E, StoreInit
  PROVE  StoreTypeOK(R, E)
  BY DEF StoreInit, StoreTypeOK

\* Inserting a row of R with an entry of E keeps the types.
LEMMA InsertType ==
  ASSUME NEW R, NEW E, StoreTypeOK(R, E),
         NEW i \in Ids, NEW new \in R, NEW entry \in E, Insert(i, new, entry)
  PROVE  StoreTypeOK(R, E)'
  BY DEF StoreTypeOK, Insert

\* Loading a row and computing a row of R from it keeps the types.
LEMMA PrepareType ==
  ASSUME NEW R, NEW E, StoreTypeOK(R, E),
         NEW w \in Workers, NEW i \in Ids,
         NEW new \in R \cup {Absent}, NEW entry \in E \cup {NoEntry},
         Prepare(w, i, new, entry)
  PROVE  StoreTypeOK(R, E)'
  <1>1. row[i] \in R
    BY DEF StoreTypeOK, Prepare
  <1>2. [id |-> i, seen |-> row[i], new |-> new, entry |-> entry] \in JobsOver(R, E)
    BY <1>1 DEF JobsOver
  <1>3. QED
    BY <1>2 DEF StoreTypeOK, Prepare

\* What a commit writes: the job's row, and its entry unless it has none.
LEMMA CommitType ==
  ASSUME NEW R, NEW E, StoreTypeOK(R, E), NEW w \in Workers, Commit(w)
  PROVE  StoreTypeOK(R, E)'
  <1> DEFINE j == job[w]
  <1>1. j \in JobsOver(R, E)
    BY DEF StoreTypeOK, Commit
  <1>2. /\ j.id \in Ids
        /\ j.new \in R \cup {Absent}
        /\ j.entry \in E \cup {NoEntry}
    BY <1>1 DEF JobsOver
  <1>3. row' \in [Ids -> R \cup {Absent}]
    BY <1>2 DEF StoreTypeOK, Commit
  <1>4. log' \in [Ids -> Seq(E)]
    BY <1>2 DEF StoreTypeOK, Commit
  <1>5. job' \in [Workers -> JobsOver(R, E) \cup {Idle}]
    BY DEF StoreTypeOK, Commit
  <1>6. QED
    BY <1>3, <1>4, <1>5 DEF StoreTypeOK

\* Giving up a job keeps the types.
LEMMA RollbackType ==
  ASSUME NEW R, NEW E, StoreTypeOK(R, E), NEW w \in Workers, Rollback(w)
  PROVE  StoreTypeOK(R, E)'
  BY DEF StoreTypeOK, Rollback

\* A new row's history is its first entry; no other history changes.
LEMMA InsertHistory ==
  ASSUME NEW R, NEW E, StoreTypeOK(R, E), NEW i \in Ids,
         NEW new \in R, NEW entry \in E, Insert(i, new, entry), NEW k \in Ids
  PROVE  History(k)' = IF k = i THEN {entry} ELSE History(k)
  <1>1. CASE k # i
    BY <1>1 DEF StoreTypeOK, Insert, History
  <1>2. CASE k = i
    <2>1. log'[k] = <<entry>>
      BY <1>2 DEF StoreTypeOK, Insert
    <2>2. 1..Len(log'[k]) = {1} /\ log'[k][1] = entry
      BY <2>1
    <2>3. QED
      BY <1>2, <2>2 DEF History
  <1>3. QED
    BY <1>1, <1>2

\* Saving a row adds the job's entry to the history of that row, and nothing else.
LEMMA CommitHistory ==
  ASSUME NEW R, NEW E, StoreTypeOK(R, E), NEW w \in Workers, Commit(w),
         job[w].new # Absent, NEW i \in Ids
  PROVE  History(i)' = History(i) \cup (IF i = job[w].id THEN Added(job[w].entry) ELSE {})
  <1> DEFINE j == job[w]
  <1>1. /\ j.id \in Ids
        /\ j.entry \in E \cup {NoEntry}
        /\ log[i] \in Seq(E)
        /\ log \in [Ids -> Seq(E)]
    BY DEF StoreTypeOK, Commit, JobsOver
  <1>2. CASE i # j.id \/ j.entry = NoEntry
    <2>1. log'[i] = log[i]
      BY <1>1, <1>2 DEF Commit
    <2>2. QED
      BY <1>2, <2>1 DEF History, Added
  <1>3. CASE i = j.id /\ j.entry # NoEntry
    <2>1. log'[i] = Append(log[i], j.entry)
      BY <1>1, <1>3 DEF Commit
    <2>2. /\ Len(log'[i]) = Len(log[i]) + 1
          /\ \A k \in 1..Len(log[i]) : log'[i][k] = log[i][k]
          /\ log'[i][Len(log[i]) + 1] = j.entry
      BY <1>1, <1>3, <2>1
    <2>3. 1..Len(log'[i]) = (1..Len(log[i])) \cup {Len(log[i]) + 1}
      BY <1>1, <2>2
    <2>4. History(i)' = {log'[i][k] : k \in 1..Len(log'[i])}
      BY DEF History
    <2>5. {log'[i][k] : k \in 1..Len(log'[i])} = History(i) \cup {j.entry}
      BY <2>2, <2>3, ZenonT(30) DEF History
    <2>6. QED
      BY <1>3, <2>4, <2>5 DEF Added
  <1>4. QED
    BY <1>2, <1>3

-----------------------------------------------------------------------------
\* What a handler that moves request i to a new status leaves in its job.
LEMMA MovesType ==
  ASSUME TypeOK, NEW w \in Workers, NEW u \in Users, NEW i \in Ids,
         NEW stage \in {"SUPERIOR", "ADMIN", "FINANCE", "CANCEL"},
         NEW new \in Row, Moves(w, u, i, stage, new)
  PROVE  TypeOK'
  <1>1. [stage |-> stage, actor |-> u, outcome |-> new.status] \in Entry
    BY DEF Entry, Row
  <1>2. QED
    BY <1>1, PrepareType DEF TypeOK, Moves

\* A handler works on an existing request.
LEMMA LoadedRow ==
  ASSUME TypeOK, NEW i \in Ids, row[i] # Absent
  PROVE  row[i] \in Row
  BY DEF TypeOK, StoreTypeOK

LEMMA CreateFacts ==
  ASSUME NEW u \in Users, NEW i \in Ids, Create(u, i)
  PROVE  \E new \in Row, entry \in Entry :
           /\ Insert(i, new, entry)
           /\ entry = [stage |-> "SUBMIT", actor |-> u, outcome |-> new.status]
           /\ new.requester = u
           /\ new.status \in {"PENDING_SUPERIOR", "PENDING_ADMIN"}
           /\ new.payment_date = FALSE
  <1>1. PICK type \in RequestTypes, target \in TargetChoices(u) :
          LET status == IF SuperiorsOf[u] # {} THEN "PENDING_SUPERIOR"
                                               ELSE "PENDING_ADMIN"
          IN Insert(i, [requester |-> u, request_type |-> type, status |-> status,
                        target_superior |-> target, superior_reviewer |-> NoUser,
                        admin_reviewer |-> NoUser, finance_reviewer |-> NoUser,
                        payment_date |-> FALSE],
                    [stage |-> "SUBMIT", actor |-> u, outcome |-> status])
    BY Zenon DEF Create
  <1> DEFINE status == IF SuperiorsOf[u] # {} THEN "PENDING_SUPERIOR" ELSE "PENDING_ADMIN"
             new    == [requester |-> u, request_type |-> type, status |-> status,
                        target_superior |-> target, superior_reviewer |-> NoUser,
                        admin_reviewer |-> NoUser, finance_reviewer |-> NoUser,
                        payment_date |-> FALSE]
             entry  == [stage |-> "SUBMIT", actor |-> u, outcome |-> status]
  <1>2. target \in Users \cup {NoUser}
    BY DEF TargetChoices
  <1>3. status \in {"PENDING_SUPERIOR", "PENDING_ADMIN"}
    OBVIOUS
  <1>4. new \in Row
    BY <1>2, <1>3 DEF Row, Statuses
  <1>5. entry \in Entry
    BY <1>3 DEF Entry, Statuses
  <1>6. Insert(i, new, entry)
    BY <1>1
  <1>7. /\ entry = [stage |-> "SUBMIT", actor |-> u, outcome |-> new.status]
        /\ new.requester = u /\ new.status = status /\ new.payment_date = FALSE
    OBVIOUS
  <1> HIDE DEF status, new, entry
  <1>8. QED
    BY <1>3, <1>4, <1>5, <1>6, <1>7

\* What each reviewing handler computes from the row it has loaded.
LEMMA CancelFacts ==
  ASSUME TypeOK, NEW w \in Workers, NEW u \in Users, NEW i \in Ids, Cancel(w, u, i)
  PROVE  \E new \in Row :
           /\ Moves(w, u, i, "CANCEL", new)
           /\ row[i] # Absent /\ row[i] \in Row
           /\ row[i].status = "PENDING_SUPERIOR"
           /\ new.status = "CANCELLED"
           /\ new.requester = row[i].requester
           /\ new.superior_reviewer = row[i].superior_reviewer
           /\ new.admin_reviewer = row[i].admin_reviewer
           /\ new.finance_reviewer = row[i].finance_reviewer
           /\ new.payment_date = row[i].payment_date
  <1>1. row[i] \in Row /\ row[i] # Absent /\ row[i].status = "PENDING_SUPERIOR"
    BY LoadedRow DEF Cancel, Loads
  <1> DEFINE new == [row[i] EXCEPT !.status = "CANCELLED"]
  <1>2. new \in Row
    BY <1>1 DEF Row, Statuses
  <1>3. /\ new.status = "CANCELLED"
        /\ new.requester = row[i].requester
        /\ new.superior_reviewer = row[i].superior_reviewer
        /\ new.admin_reviewer = row[i].admin_reviewer
        /\ new.finance_reviewer = row[i].finance_reviewer
        /\ new.payment_date = row[i].payment_date
    BY <1>1 DEF Row
  <1>4. Moves(w, u, i, "CANCEL", new)
    BY DEF Cancel
  <1> HIDE DEF new
  <1>5. QED
    BY <1>1, <1>2, <1>3, <1>4

LEMMA SuperiorFacts ==
  ASSUME TypeOK, NEW w \in Workers, NEW u \in Users, NEW i \in Ids,
         SuperiorReview(w, u, i)
  PROVE  \E new \in Row, next \in {"PENDING_FINANCE", "PENDING_ADMIN", "REJECTED_BY_SUPERIOR"} :
           /\ Moves(w, u, i, "SUPERIOR", new)
           /\ row[i] # Absent /\ row[i] \in Row
           /\ row[i].status = "PENDING_SUPERIOR"
           /\ new.status = next /\ new.superior_reviewer = u
           /\ new.requester = row[i].requester
           /\ new.admin_reviewer = row[i].admin_reviewer
           /\ new.finance_reviewer = row[i].finance_reviewer
           /\ new.payment_date = row[i].payment_date
  <1>1. row[i] \in Row /\ row[i] # Absent /\ row[i].status = "PENDING_SUPERIOR"
    BY LoadedRow DEF SuperiorReview, Loads
  <1>2. PICK next \in {"PENDING_FINANCE", "PENDING_ADMIN", "REJECTED_BY_SUPERIOR"} :
          Moves(w, u, i, "SUPERIOR",
                [row[i] EXCEPT !.superior_reviewer = u, !.status = next])
    BY DEF SuperiorReview
  <1> DEFINE new == [row[i] EXCEPT !.superior_reviewer = u, !.status = next]
  <1>3. new \in Row
    BY <1>1 DEF Row, Statuses
  <1>4. /\ new.status = next /\ new.superior_reviewer = u
        /\ new.requester = row[i].requester
        /\ new.admin_reviewer = row[i].admin_reviewer
        /\ new.finance_reviewer = row[i].finance_reviewer
        /\ new.payment_date = row[i].payment_date
    BY <1>1 DEF Row
  <1>5. Moves(w, u, i, "SUPERIOR", new)
    BY <1>2
  <1> HIDE DEF new
  <1>6. QED
    BY <1>1, <1>3, <1>4, <1>5

LEMMA AdminFacts ==
  ASSUME TypeOK, NEW w \in Workers, NEW u \in Users, NEW i \in Ids, AdminReview(w, u, i)
  PROVE  \E new \in Row, next \in {"PENDING_FINANCE", "REJECTED_BY_ADMIN"} :
           /\ Moves(w, u, i, "ADMIN", new)
           /\ row[i] # Absent /\ row[i] \in Row
           /\ row[i].status = "PENDING_ADMIN"
           /\ new.status = next /\ new.admin_reviewer = u
           /\ new.requester = row[i].requester
           /\ new.superior_reviewer = row[i].superior_reviewer
           /\ new.finance_reviewer = row[i].finance_reviewer
           /\ new.payment_date = row[i].payment_date
  <1>1. row[i] \in Row /\ row[i] # Absent /\ row[i].status = "PENDING_ADMIN"
    BY LoadedRow DEF AdminReview, Loads
  <1>2. PICK next \in {"PENDING_FINANCE", "REJECTED_BY_ADMIN"} :
          Moves(w, u, i, "ADMIN", [row[i] EXCEPT !.admin_reviewer = u, !.status = next])
    BY DEF AdminReview
  <1> DEFINE new == [row[i] EXCEPT !.admin_reviewer = u, !.status = next]
  <1>3. new \in Row
    BY <1>1 DEF Row, Statuses
  <1>4. /\ new.status = next /\ new.admin_reviewer = u
        /\ new.requester = row[i].requester
        /\ new.superior_reviewer = row[i].superior_reviewer
        /\ new.finance_reviewer = row[i].finance_reviewer
        /\ new.payment_date = row[i].payment_date
    BY <1>1 DEF Row
  <1>5. Moves(w, u, i, "ADMIN", new)
    BY <1>2
  <1> HIDE DEF new
  <1>6. QED
    BY <1>1, <1>3, <1>4, <1>5

LEMMA FinanceFacts ==
  ASSUME TypeOK, NEW w \in Workers, NEW u \in Users, NEW i \in Ids, FinanceReview(w, u, i)
  PROVE  \E new \in Row, next \in {"PAID", "APPROVED", "REJECTED_BY_FINANCE"} :
           /\ Moves(w, u, i, "FINANCE", new)
           /\ row[i] # Absent /\ row[i] \in Row
           /\ row[i].status = "PENDING_FINANCE"
           /\ new.status = next /\ new.finance_reviewer = u
           /\ new.payment_date = (row[i].payment_date \/ next = "PAID")
           /\ new.requester = row[i].requester
           /\ new.superior_reviewer = row[i].superior_reviewer
           /\ new.admin_reviewer = row[i].admin_reviewer
  <1>1. row[i] \in Row /\ row[i] # Absent /\ row[i].status = "PENDING_FINANCE"
    BY LoadedRow DEF FinanceReview, Loads
  <1>2. PICK next \in {"PAID", "APPROVED", "REJECTED_BY_FINANCE"} :
          Moves(w, u, i, "FINANCE",
                [row[i] EXCEPT !.finance_reviewer = u, !.status = next,
                               !.payment_date = (@ \/ next = "PAID")])
    BY DEF FinanceReview
  <1> DEFINE new == [row[i] EXCEPT !.finance_reviewer = u, !.status = next,
                                 !.payment_date = (@ \/ next = "PAID")]
  <1>3. new \in Row
    BY <1>1 DEF Row, Statuses
  <1>4. /\ new.status = next /\ new.finance_reviewer = u
        /\ new.payment_date = (row[i].payment_date \/ next = "PAID")
        /\ new.requester = row[i].requester
        /\ new.superior_reviewer = row[i].superior_reviewer
        /\ new.admin_reviewer = row[i].admin_reviewer
    BY <1>1 DEF Row
  <1>5. Moves(w, u, i, "FINANCE", new)
    BY <1>2
  <1> HIDE DEF new
  <1>6. QED
    BY <1>1, <1>3, <1>4, <1>5

LEMMA UpdateFacts ==
  ASSUME TypeOK, NEW w \in Workers, NEW u \in Users, NEW i \in Ids, Update(w, u, i)
  PROVE  \E new \in Row :
           /\ Prepare(w, i, new, NoEntry)
           /\ row[i] # Absent /\ row[i] \in Row
           /\ new.status = row[i].status
           /\ new.requester = row[i].requester
           /\ new.superior_reviewer = row[i].superior_reviewer
           /\ new.admin_reviewer = row[i].admin_reviewer
           /\ new.finance_reviewer = row[i].finance_reviewer
           /\ new.payment_date = row[i].payment_date
  <1>1. row[i] \in Row /\ row[i] # Absent
    BY LoadedRow DEF Update, Loads
  <1>2. PICK type \in RequestTypes, target \in TargetChoices(u) :
          Prepare(w, i, [row[i] EXCEPT !.request_type = type,
                                       !.target_superior = target], NoEntry)
    BY DEF Update
  <1>3. target \in Users \cup {NoUser}
    BY DEF TargetChoices
  <1> DEFINE new == [row[i] EXCEPT !.request_type = type, !.target_superior = target]
  <1>4. new \in Row
    BY <1>1, <1>3 DEF Row
  <1>5. /\ new.status = row[i].status
        /\ new.requester = row[i].requester
        /\ new.superior_reviewer = row[i].superior_reviewer
        /\ new.admin_reviewer = row[i].admin_reviewer
        /\ new.finance_reviewer = row[i].finance_reviewer
        /\ new.payment_date = row[i].payment_date
    BY <1>1 DEF Row
  <1>6. Prepare(w, i, new, NoEntry)
    BY <1>2
  <1> HIDE DEF new
  <1>7. QED
    BY <1>1, <1>4, <1>5, <1>6

-----------------------------------------------------------------------------
LEMMA NextType == TypeOK /\ [Next]_vars => TypeOK'
  <1> SUFFICES ASSUME TypeOK, [Next]_vars PROVE TypeOK'
    OBVIOUS
  <1>1. ASSUME NEW u \in Users, NEW i \in Ids, Create(u, i) PROVE TypeOK'
    BY <1>1, CreateFacts, InsertType DEF TypeOK
  <1>2. ASSUME NEW w \in Workers, NEW u \in Users, NEW i \in Ids, Cancel(w, u, i)
        PROVE  TypeOK'
    BY <1>2, CancelFacts, MovesType
  <1>3. ASSUME NEW w \in Workers, NEW u \in Users, NEW i \in Ids, SuperiorReview(w, u, i)
        PROVE  TypeOK'
    BY <1>3, SuperiorFacts, MovesType
  <1>4. ASSUME NEW w \in Workers, NEW u \in Users, NEW i \in Ids, AdminReview(w, u, i)
        PROVE  TypeOK'
    BY <1>4, AdminFacts, MovesType
  <1>5. ASSUME NEW w \in Workers, NEW u \in Users, NEW i \in Ids, FinanceReview(w, u, i)
        PROVE  TypeOK'
    BY <1>5, FinanceFacts, MovesType
  <1>6. ASSUME NEW w \in Workers, NEW u \in Users, NEW i \in Ids, Update(w, u, i)
        PROVE  TypeOK'
    BY <1>6, UpdateFacts, PrepareType DEF TypeOK
  <1>7. ASSUME NEW w \in Workers, NEW u \in Users, NEW i \in Ids, Destroy(w, u, i)
        PROVE  TypeOK'
    BY <1>7, PrepareType DEF TypeOK, Destroy
  <1>8. ASSUME NEW w \in Workers, Commit(w) PROVE TypeOK'
    BY <1>8, CommitType DEF TypeOK
  <1>9. ASSUME NEW w \in Workers, Rollback(w) PROVE TypeOK'
    BY <1>9, RollbackType DEF TypeOK
  <1>10. CASE UNCHANGED vars
    BY <1>10 DEF TypeOK, StoreTypeOK, vars, storeVars
  <1>11. QED
    BY <1>1, <1>2, <1>3, <1>4, <1>5, <1>6, <1>7, <1>8, <1>9, <1>10 DEF Next

\* Rows, histories and jobs keep their types under every interleaving.
THEOREM TypeCorrect == Spec => []TypeOK
  <1>1. Init => TypeOK
    BY StoreInitType DEF Init, TypeOK
  <1>2. QED
    BY <1>1, NextType, PTL DEF Spec

-----------------------------------------------------------------------------
\* The reviewers of every row, and of every row about to be saved once its entry
\* is added, are backed by the history; no handler is deleting a request.
JobBacked(w) ==
  job[w] # Idle =>
    /\ job[w].new # Absent
    /\ Backed(job[w].new, History(job[w].id) \cup Added(job[w].entry))

ChainInv == TypeOK /\ ApprovalChain /\ \A w \in Workers : JobBacked(w)

\* A longer history backs whatever a shorter one backs.
LEMMA BackedMonotone ==
  ASSUME NEW r, NEW H, NEW H2, H \subseteq H2, Backed(r, H)
  PROVE  Backed(r, H2)
  BY DEF Backed, ReachedAdmin, ReachedFinance

\* Loading a row and preparing a save that its history will back keeps ChainInv.
LEMMA PrepareKeepsChain ==
  ASSUME ChainInv, NEW w \in Workers, NEW i \in Ids, NEW new \in Row,
         NEW entry \in Entry \cup {NoEntry},
         Prepare(w, i, new, entry),
         Backed(new, History(i) \cup Added(entry))
  PROVE  ChainInv'
  <1>1. TypeOK'
    BY PrepareType DEF ChainInv, TypeOK
  <1>2. /\ row' = row /\ log' = log
        /\ job' = [job EXCEPT ![w] =
                      [id |-> i, seen |-> row[i], new |-> new, entry |-> entry]]
        /\ job \in [Workers -> JobsOver(Row, Entry) \cup {Idle}]
    BY DEF Prepare, ChainInv, TypeOK, StoreTypeOK
  <1>3. ApprovalChain'
    <2>1. \A k \in Ids : History(k)' = History(k)
      BY <1>2 DEF History
    <2>2. QED
      BY <1>2, <2>1 DEF ChainInv, ApprovalChain, Backed, ReachedAdmin, ReachedFinance
  <1>4. ASSUME NEW v \in Workers PROVE JobBacked(v)'
    <2>1. CASE v = w
      <3>1. /\ job'[v].id = i /\ job'[v].new = new /\ job'[v].entry = entry
        BY <1>2, <2>1
      <3>2. new # Absent
        BY AbsentAssumption
      <3>3. QED
        BY <1>2, <3>1, <3>2, ZenonT(30) DEF JobBacked, History, Added
    <2>2. CASE v # w
      <3>1. job'[v] = job[v] /\ JobBacked(v)
        BY <1>2, <2>2 DEF ChainInv
      <3>2. QED
        BY <1>2, <3>1, ZenonT(30) DEF JobBacked, History, Added
    <2>3. QED
      BY <2>1, <2>2
  <1>5. QED
    BY <1>1, <1>3, <1>4 DEF ChainInv

\* The same for a handler that records the move in the history.
LEMMA MovesKeepsChain ==
  ASSUME ChainInv, NEW w \in Workers, NEW u \in Users, NEW i \in Ids,
         NEW stage \in {"SUPERIOR", "ADMIN", "FINANCE", "CANCEL"},
         NEW new \in Row, Moves(w, u, i, stage, new),
         Backed(new, History(i) \cup {[stage |-> stage, actor |-> u, outcome |-> new.status]})
  PROVE  ChainInv'
  <1> DEFINE entry == [stage |-> stage, actor |-> u, outcome |-> new.status]
  <1>1. entry \in Entry
    BY DEF Entry, Row
  <1>2. Added(entry) = {entry}
    BY <1>1, NoEntryAssumption DEF Added
  <1>3. Prepare(w, i, new, entry)
    BY DEF Moves
  <1>4. Backed(new, History(i) \cup Added(entry))
    BY <1>2
  <1> HIDE DEF entry
  <1>5. QED
    BY <1>1, <1>3, <1>4, PrepareKeepsChain

\* A commit writes what the job is backed for; the other jobs stay backed, since
\* histories only grow.
LEMMA CommitKeepsChain ==
  ASSUME ChainInv, NEW w \in Workers, Commit(w)
  PROVE  ChainInv'
  <1> DEFINE j == job[w]
  <1>1. TypeOK'
    BY CommitType DEF ChainInv, TypeOK
  <1>2. /\ j.id \in Ids /\ j.new # Absent
        /\ Backed(j.new, History(j.id) \cup Added(j.entry))
        /\ row' = [row EXCEPT ![j.id] = j.new] /\ DOMAIN row = Ids
        /\ job' = [job EXCEPT ![w] = Idle] /\ DOMAIN job = Workers
    BY DEF ChainInv, JobBacked, Commit, TypeOK, StoreTypeOK, JobsOver
  <1>3. ASSUME NEW k \in Ids
        PROVE  History(k)' = History(k) \cup (IF k = j.id THEN Added(j.entry) ELSE {})
    BY <1>2, CommitHistory DEF ChainInv, TypeOK
  <1>4. ASSUME NEW k \in Ids, row'[k] # Absent PROVE Backed(row'[k], History(k)')
    <2>1. CASE k = j.id
      BY <1>2, <1>3, <2>1
    <2>2. CASE k # j.id
      BY <1>2, <1>3, <1>4, <2>2 DEF ChainInv, ApprovalChain
    <2>3. QED
      BY <2>1, <2>2
  <1>5. ApprovalChain'
    BY <1>4 DEF ApprovalChain, Backed, ReachedAdmin, ReachedFinance
  <1>6. ASSUME NEW v \in Workers PROVE JobBacked(v)'
    <2>1. CASE job'[v] = Idle
      BY <2>1 DEF JobBacked
    <2>2. CASE job'[v] # Idle
      <3>1. v # w /\ job'[v] = job[v] /\ job[v] # Idle
        BY <1>2, <2>2
      <3>2. PICK k \in Ids : k = job[v].id
        BY <3>1 DEF ChainInv, TypeOK, StoreTypeOK, JobsOver
      <3>3. /\ job[v].new # Absent
            /\ Backed(job[v].new, History(k) \cup Added(job[v].entry))
        BY <3>1, <3>2 DEF ChainInv, JobBacked
      <3>4. History(k) \subseteq History(k)'
        BY <1>3
      <3>5. Backed(job[v].new, History(k)' \cup Added(job[v].entry))
        BY <3>3, <3>4, BackedMonotone
      <3>6. History(job[v].id)' = History(k)'
        BY <3>1, <3>2 DEF History
      <3>7. QED
        BY <3>1, <3>3, <3>5, <3>6 DEF JobBacked, Backed, ReachedAdmin, ReachedFinance, Added
    <2>3. QED
      BY <2>1, <2>2
  <1>7. QED
    BY <1>1, <1>5, <1>6 DEF ChainInv

\* A step that writes nothing and starts no job keeps ChainInv.
LEMMA QuietKeepsChain ==
  ASSUME ChainInv, TypeOK', row' = row, log' = log,
         \A v \in Workers : job'[v] \in {job[v], Idle}
  PROVE  ChainInv'
  <1>1. \A k \in Ids : History(k)' = History(k)
    BY DEF History
  <1>2. ApprovalChain'
    BY <1>1 DEF ChainInv, ApprovalChain, Backed, ReachedAdmin, ReachedFinance
  <1>3. ASSUME NEW v \in Workers PROVE JobBacked(v)'
    BY DEF ChainInv, JobBacked, History, Added
  <1>4. QED
    BY <1>2, <1>3 DEF ChainInv

LEMMA ChainInductive ==
  ASSUME "destroy" \notin Endpoints, ChainInv, [Next]_vars
  PROVE  ChainInv'
  <1> USE DEF Backed, ReachedAdmin, ReachedFinance
  <1>1. ASSUME NEW u \in Users, NEW i \in Ids, Create(u, i) PROVE ChainInv'
    <2>1. PICK new \in Row, entry \in Entry :
            /\ Insert(i, new, entry)
            /\ entry = [stage |-> "SUBMIT", actor |-> u, outcome |-> new.status]
            /\ new.requester = u
            /\ new.status \in {"PENDING_SUPERIOR", "PENDING_ADMIN"}
      BY <1>1, CreateFacts
    <2>2. TypeOK'
      BY <1>1, NextType DEF ChainInv, Next
    <2>3. \A k \in Ids : History(k)' = IF k = i THEN {entry} ELSE History(k)
      BY <2>1, InsertHistory DEF ChainInv, TypeOK
    <2>4. row' = [row EXCEPT ![i] = new] /\ DOMAIN row = Ids /\ job' = job
      BY <2>1 DEF Insert, ChainInv, TypeOK, StoreTypeOK
    <2>5. ApprovalChain'
      BY <2>1, <2>3, <2>4 DEF ChainInv, ApprovalChain
    <2>6. ASSUME NEW v \in Workers, job[v] # Idle PROVE History(job[v].id)' = History(job[v].id)
      <3>1. job[v].id \in Ids /\ job[v].id # i
        BY <2>1, <2>6 DEF Insert, Fresh, ChainInv, TypeOK, StoreTypeOK, JobsOver
      <3>2. log'[job[v].id] = log[job[v].id]
        BY <2>1, <3>1 DEF Insert, ChainInv, TypeOK, StoreTypeOK
      <3>3. QED
        BY <2>4, <3>2 DEF History
    <2>7. \A v \in Workers : JobBacked(v)'
      BY <2>4, <2>6 DEF ChainInv, JobBacked, Added
    <2>8. QED
      BY <2>2, <2>5, <2>7 DEF ChainInv
  <1>2. ASSUME NEW w \in Workers, NEW u \in Users, NEW i \in Ids, Cancel(w, u, i)
        PROVE  ChainInv'
    <2>1. PICK new \in Row : Moves(w, u, i, "CANCEL", new) /\ new.status = "CANCELLED"
      BY <1>2, CancelFacts DEF ChainInv
    <2>2. QED
      BY <2>1, MovesKeepsChain
  <1>3. ASSUME NEW w \in Workers, NEW u \in Users, NEW i \in Ids, SuperiorReview(w, u, i)
        PROVE  ChainInv'
    <2>1. PICK new \in Row, next \in {"PENDING_FINANCE", "PENDING_ADMIN", "REJECTED_BY_SUPERIOR"} :
            /\ Moves(w, u, i, "SUPERIOR", new)
            /\ new.status = next /\ new.superior_reviewer = u
      BY <1>3, SuperiorFacts DEF ChainInv
    <2>2. QED
      BY <2>1, MovesKeepsChain
  <1>4. ASSUME NEW w \in Workers, NEW u \in Users, NEW i \in Ids, AdminReview(w, u, i)
        PROVE  ChainInv'
    <2>1. PICK new \in Row, next \in {"PENDING_FINANCE", "REJECTED_BY_ADMIN"} :
            /\ Moves(w, u, i, "ADMIN", new)
            /\ row[i] \in Row /\ row[i] # Absent /\ row[i].status = "PENDING_ADMIN"
            /\ new.status = next /\ new.admin_reviewer = u
            /\ new.requester = row[i].requester
            /\ new.superior_reviewer = row[i].superior_reviewer
      BY <1>4, AdminFacts DEF ChainInv
    <2>2. ReachedAdmin(row[i], History(i))
      BY <2>1 DEF ChainInv, ApprovalChain
    <2>3. QED
      BY <2>1, <2>2, MovesKeepsChain
  <1>5. ASSUME NEW w \in Workers, NEW u \in Users, NEW i \in Ids, FinanceReview(w, u, i)
        PROVE  ChainInv'
    <2>1. PICK new \in Row, next \in {"PAID", "APPROVED", "REJECTED_BY_FINANCE"} :
            /\ Moves(w, u, i, "FINANCE", new)
            /\ row[i] \in Row /\ row[i] # Absent /\ row[i].status = "PENDING_FINANCE"
            /\ new.status = next /\ new.finance_reviewer = u
            /\ new.requester = row[i].requester
            /\ new.superior_reviewer = row[i].superior_reviewer
            /\ new.admin_reviewer = row[i].admin_reviewer
      BY <1>5, FinanceFacts DEF ChainInv
    <2>2. ReachedFinance(row[i], History(i))
      BY <2>1 DEF ChainInv, ApprovalChain
    <2>3. QED
      BY <2>1, <2>2, MovesKeepsChain
  <1>6. ASSUME NEW w \in Workers, NEW u \in Users, NEW i \in Ids, Update(w, u, i)
        PROVE  ChainInv'
    <2>1. PICK new \in Row :
            /\ Prepare(w, i, new, NoEntry)
            /\ row[i] \in Row /\ row[i] # Absent
            /\ new.status = row[i].status /\ new.requester = row[i].requester
            /\ new.superior_reviewer = row[i].superior_reviewer
            /\ new.admin_reviewer = row[i].admin_reviewer
            /\ new.finance_reviewer = row[i].finance_reviewer
      BY <1>6, UpdateFacts DEF ChainInv
    <2>2. Backed(row[i], History(i))
      BY <2>1 DEF ChainInv, ApprovalChain
    <2>3. Backed(new, History(i) \cup Added(NoEntry))
      BY <2>1, <2>2
    <2>4. QED
      BY <2>1, <2>3, PrepareKeepsChain
  <1>7. ASSUME NEW w \in Workers, NEW u \in Users, NEW i \in Ids, Destroy(w, u, i)
        PROVE  ChainInv'
    BY <1>7 DEF Destroy, Loads
  <1>8. ASSUME NEW w \in Workers, Commit(w) PROVE ChainInv'
    BY <1>8, CommitKeepsChain
  <1>9. ASSUME NEW w \in Workers, Rollback(w) PROVE ChainInv'
    <2>1. TypeOK'
      BY <1>9, NextType DEF ChainInv, Next
    <2>2. /\ row' = row /\ log' = log
          /\ \A v \in Workers : job'[v] \in {job[v], Idle}
      BY <1>9 DEF Rollback, ChainInv, TypeOK, StoreTypeOK
    <2>3. QED
      BY <2>1, <2>2, QuietKeepsChain
  <1>10. CASE UNCHANGED vars
    <2>1. TypeOK'
      BY <1>10, NextType DEF ChainInv
    <2>2. QED
      BY <1>10, <2>1, QuietKeepsChain DEF vars, storeVars
  <1>11. QED
    BY <1>1, <1>2, <1>3, <1>4, <1>5, <1>6, <1>7, <1>8, <1>9, <1>10 DEF Next

\* Where nobody deletes requests, no interleaving of reviews, cancellations and
\* PATCHes lets a request stand at a stage that the recorded decisions of the
\* reviewers it names have not brought it to.
THEOREM ApprovalChainHolds ==
  ASSUME "destroy" \notin Endpoints
  PROVE  Spec => []ApprovalChain
  <1>1. Init => ChainInv
    BY StoreInitType DEF Init, StoreInit, ChainInv, TypeOK, ApprovalChain, JobBacked
  <1>2. ChainInv /\ [Next]_vars => ChainInv'
    BY ChainInductive
  <1>3. ChainInv => ApprovalChain
    BY DEF ChainInv
  <1>4. QED
    BY <1>1, <1>2, <1>3, PTL DEF Spec

-----------------------------------------------------------------------------
\* The same for rows alone: a row, committed or about to be saved, has a payment
\* date exactly when it is PAID.
RowPaid(r) == r # Absent => (r.payment_date <=> r.status = "PAID")

PaidInv ==
  /\ TypeOK
  /\ \A i \in Ids : RowPaid(row[i])
  /\ \A w \in Workers : job[w] # Idle => RowPaid(job[w].new)

LEMMA PrepareKeepsPaid ==
  ASSUME PaidInv, NEW w \in Workers, NEW i \in Ids, NEW new, NEW entry,
         Prepare(w, i, new, entry), RowPaid(new), TypeOK'
  PROVE  PaidInv'
  BY DEF PaidInv, Prepare, TypeOK, StoreTypeOK, RowPaid

LEMMA PaidInductive ==
  ASSUME PaidInv, [Next]_vars
  PROVE  PaidInv'
  <1>0. TypeOK /\ TypeOK'
    BY NextType DEF PaidInv
  <1>1. ASSUME NEW u \in Users, NEW i \in Ids, Create(u, i) PROVE PaidInv'
    <2>1. PICK new \in Row, entry \in Entry :
            /\ Insert(i, new, entry)
            /\ new.status \in {"PENDING_SUPERIOR", "PENDING_ADMIN"}
            /\ new.payment_date = FALSE
      BY <1>1, CreateFacts
    <2>2. QED
      BY <1>0, <2>1 DEF PaidInv, Insert, TypeOK, StoreTypeOK, RowPaid
  <1>2. ASSUME NEW w \in Workers, NEW u \in Users, NEW i \in Ids, Cancel(w, u, i)
        PROVE  PaidInv'
    <2>1. PICK new \in Row :
            /\ Moves(w, u, i, "CANCEL", new)
            /\ row[i] # Absent /\ row[i].status = "PENDING_SUPERIOR"
            /\ new.status = "CANCELLED" /\ new.payment_date = row[i].payment_date
      BY <1>0, <1>2, CancelFacts
    <2>2. RowPaid(new)
      BY <2>1 DEF PaidInv, RowPaid
    <2>3. QED
      BY <1>0, <2>1, <2>2, PrepareKeepsPaid DEF Moves
  <1>3. ASSUME NEW w \in Workers, NEW u \in Users, NEW i \in Ids, SuperiorReview(w, u, i)
        PROVE  PaidInv'
    <2>1. PICK new \in Row, next \in {"PENDING_FINANCE", "PENDING_ADMIN", "REJECTED_BY_SUPERIOR"} :
            /\ Moves(w, u, i, "SUPERIOR", new)
            /\ row[i] # Absent /\ row[i].status = "PENDING_SUPERIOR"
            /\ new.status = next /\ new.payment_date = row[i].payment_date
      BY <1>0, <1>3, SuperiorFacts
    <2>2. RowPaid(new)
      BY <2>1 DEF PaidInv, RowPaid
    <2>3. QED
      BY <1>0, <2>1, <2>2, PrepareKeepsPaid DEF Moves
  <1>4. ASSUME NEW w \in Workers, NEW u \in Users, NEW i \in Ids, AdminReview(w, u, i)
        PROVE  PaidInv'
    <2>1. PICK new \in Row, next \in {"PENDING_FINANCE", "REJECTED_BY_ADMIN"} :
            /\ Moves(w, u, i, "ADMIN", new)
            /\ row[i] # Absent /\ row[i].status = "PENDING_ADMIN"
            /\ new.status = next /\ new.payment_date = row[i].payment_date
      BY <1>0, <1>4, AdminFacts
    <2>2. RowPaid(new)
      BY <2>1 DEF PaidInv, RowPaid
    <2>3. QED
      BY <1>0, <2>1, <2>2, PrepareKeepsPaid DEF Moves
  <1>5. ASSUME NEW w \in Workers, NEW u \in Users, NEW i \in Ids, FinanceReview(w, u, i)
        PROVE  PaidInv'
    <2>1. PICK new \in Row, next \in {"PAID", "APPROVED", "REJECTED_BY_FINANCE"} :
            /\ Moves(w, u, i, "FINANCE", new)
            /\ row[i] # Absent /\ row[i].status = "PENDING_FINANCE"
            /\ new.status = next
            /\ new.payment_date = (row[i].payment_date \/ next = "PAID")
      BY <1>0, <1>5, FinanceFacts
    <2>2. RowPaid(new)
      BY <2>1 DEF PaidInv, RowPaid
    <2>3. QED
      BY <1>0, <2>1, <2>2, PrepareKeepsPaid DEF Moves
  <1>6. ASSUME NEW w \in Workers, NEW u \in Users, NEW i \in Ids, Update(w, u, i)
        PROVE  PaidInv'
    <2>1. PICK new \in Row :
            /\ Prepare(w, i, new, NoEntry)
            /\ row[i] # Absent /\ new.status = row[i].status
            /\ new.payment_date = row[i].payment_date
      BY <1>0, <1>6, UpdateFacts
    <2>2. RowPaid(new)
      BY <2>1 DEF PaidInv, RowPaid
    <2>3. QED
      BY <1>0, <2>1, <2>2, PrepareKeepsPaid
  <1>7. ASSUME NEW w \in Workers, NEW u \in Users, NEW i \in Ids, Destroy(w, u, i)
        PROVE  PaidInv'
    BY <1>0, <1>7, PrepareKeepsPaid DEF Destroy, RowPaid
  <1>8. ASSUME NEW w \in Workers, Commit(w) PROVE PaidInv'
    BY <1>0, <1>8 DEF Commit, PaidInv, TypeOK, StoreTypeOK, JobsOver
  <1>9. ASSUME NEW w \in Workers, Rollback(w) PROVE PaidInv'
    BY <1>0, <1>9 DEF Rollback, PaidInv, TypeOK, StoreTypeOK
  <1>10. CASE UNCHANGED vars
    BY <1>0, <1>10 DEF PaidInv, vars, storeVars
  <1>11. QED
    BY <1>1, <1>2, <1>3, <1>4, <1>5, <1>6, <1>7, <1>8, <1>9, <1>10 DEF Next

\* No lost update, PATCH, deletion or revival of a row separates the payment date
\* of a request from its status PAID.
THEOREM PaymentDateHolds == Spec => []PaymentDateIffPaid
  <1>1. Init => PaidInv
    BY StoreInitType DEF Init, StoreInit, PaidInv, TypeOK, RowPaid
  <1>2. PaidInv => PaymentDateIffPaid
    BY DEF PaidInv, PaymentDateIffPaid, RowPaid
  <1>3. QED
    BY <1>1, <1>2, PaidInductive, PTL DEF Spec

-----------------------------------------------------------------------------
\* Every running handler is about to record the status that it is about to save.
Announced(j) == j.new \in Row /\ j.entry \in Entry /\ j.new.status = j.entry.outcome

StatusInv ==
  /\ TypeOK
  /\ StatusIsLastEntry
  /\ \A w \in Workers : job[w] # Idle => Announced(job[w])

LEMMA MovesKeepsStatus ==
  ASSUME StatusInv, NEW w \in Workers, NEW u \in Users, NEW i \in Ids,
         NEW stage \in {"SUPERIOR", "ADMIN", "FINANCE", "CANCEL"},
         NEW new \in Row, Moves(w, u, i, stage, new)
  PROVE  StatusInv'
  <1> DEFINE entry == [stage |-> stage, actor |-> u, outcome |-> new.status]
  <1>1. TypeOK'
    BY MovesType DEF StatusInv
  <1>2. entry \in Entry /\ entry.outcome = new.status
    BY DEF Entry, Row
  <1>3. Prepare(w, i, new, entry)
    BY DEF Moves
  <1> HIDE DEF entry
  <1>4. StatusIsLastEntry'
    BY <1>3 DEF Prepare, StatusInv, StatusIsLastEntry, LastEntry
  <1>5. ASSUME NEW v \in Workers, job'[v] # Idle PROVE Announced(job'[v])
    BY <1>2, <1>3, <1>5 DEF Prepare, StatusInv, TypeOK, StoreTypeOK, Announced
  <1>6. QED
    BY <1>1, <1>4, <1>5 DEF StatusInv, Announced

LEMMA CommitKeepsStatus ==
  ASSUME StatusInv, NEW w \in Workers, Commit(w)
  PROVE  StatusInv'
  <1> DEFINE j == job[w]
  <1>1. TypeOK'
    BY CommitType DEF StatusInv, TypeOK
  <1>2. /\ j.id \in Ids /\ Announced(j) /\ j.new # Absent /\ j.entry # NoEntry
        /\ row' = [row EXCEPT ![j.id] = j.new] /\ row \in [Ids -> Row \cup {Absent}]
        /\ job' = [job EXCEPT ![w] = Idle] /\ DOMAIN job = Workers
    BY AbsentAssumption, NoEntryAssumption
       DEF StatusInv, Announced, Commit, TypeOK, StoreTypeOK, JobsOver
  <1>3. /\ log' = [log EXCEPT ![j.id] = Append(@, j.entry)]
        /\ log \in [Ids -> Seq(Entry)]
    BY <1>2 DEF Commit, StatusInv, TypeOK, StoreTypeOK
  <1>4. ASSUME NEW k \in Ids, row'[k] # Absent
        PROVE  log'[k] # <<>> /\ row'[k].status = log'[k][Len(log'[k])].outcome
    <2>1. CASE k = j.id
      <3>1. row'[k] = j.new /\ log'[k] = Append(log[k], j.entry) /\ log[k] \in Seq(Entry)
        BY <1>2, <1>3, <2>1
      <3>2. Len(log'[k]) = Len(log[k]) + 1 /\ log'[k][Len(log[k]) + 1] = j.entry
        BY <1>2, <3>1 DEF Announced
      <3>3. QED
        BY <1>2, <3>1, <3>2 DEF Announced
    <2>2. CASE k # j.id
      BY <1>2, <1>3, <1>4, <2>2 DEF StatusInv, StatusIsLastEntry, LastEntry
    <2>3. QED
      BY <2>1, <2>2
  <1>5. \A v \in Workers : job'[v] # Idle => Announced(job'[v])
    BY <1>2 DEF StatusInv
  <1>6. QED
    BY <1>1, <1>4, <1>5 DEF StatusInv, StatusIsLastEntry, LastEntry, Announced

LEMMA StatusInductive ==
  ASSUME {"update", "destroy"} \cap Endpoints = {}, StatusInv, [Next]_vars
  PROVE  StatusInv'
  <1>0. TypeOK /\ TypeOK'
    BY NextType DEF StatusInv
  <1>1. ASSUME NEW u \in Users, NEW i \in Ids, Create(u, i) PROVE StatusInv'
    <2>1. PICK new \in Row, entry \in Entry :
            /\ Insert(i, new, entry)
            /\ entry = [stage |-> "SUBMIT", actor |-> u, outcome |-> new.status]
            /\ new.requester = u
            /\ new.status \in {"PENDING_SUPERIOR", "PENDING_ADMIN"}
            /\ new.payment_date = FALSE
      BY <1>1, CreateFacts
    <2>2. /\ row' = [row EXCEPT ![i] = new] /\ DOMAIN row = Ids
          /\ log' = [log EXCEPT ![i] = <<entry>>] /\ DOMAIN log = Ids
          /\ job' = job
      BY <1>0, <2>1 DEF Insert, TypeOK, StoreTypeOK
    <2>3. <<entry>> # <<>> /\ <<entry>>[Len(<<entry>>)] = entry /\ entry.outcome = new.status
      BY <2>1
    <2>4. StatusIsLastEntry'
      BY <2>2, <2>3 DEF StatusInv, StatusIsLastEntry, LastEntry
    <2>5. QED
      BY <1>0, <2>2, <2>4 DEF StatusInv, Announced
  <1>2. ASSUME NEW w \in Workers, NEW u \in Users, NEW i \in Ids,
               Cancel(w, u, i) \/ SuperiorReview(w, u, i)
                 \/ AdminReview(w, u, i) \/ FinanceReview(w, u, i)
        PROVE  StatusInv'
    BY <1>0, <1>2, CancelFacts, SuperiorFacts, AdminFacts, FinanceFacts, MovesKeepsStatus
  <1>3. ASSUME NEW w \in Workers, NEW u \in Users, NEW i \in Ids,
               Update(w, u, i) \/ Destroy(w, u, i)
        PROVE  StatusInv'
    BY <1>3 DEF Update, Destroy, Loads
  <1>4. ASSUME NEW w \in Workers, Commit(w) PROVE StatusInv'
    BY <1>4, CommitKeepsStatus
  <1>5. ASSUME NEW w \in Workers, Rollback(w) PROVE StatusInv'
    <2>1. row' = row /\ log' = log /\ \A v \in Workers : job'[v] \in {job[v], Idle}
      BY <1>0, <1>5 DEF Rollback, TypeOK, StoreTypeOK
    <2>2. QED
      BY <1>0, <2>1 DEF StatusInv, StatusIsLastEntry, LastEntry, Announced
  <1>6. CASE UNCHANGED vars
    BY <1>0, <1>6 DEF StatusInv, StatusIsLastEntry, LastEntry, Announced, vars, storeVars
  <1>7. QED
    BY <1>1, <1>2, <1>3, <1>4, <1>5, <1>6 DEF Next

\* While nobody edits or deletes requests, the last entry of the history tells the
\* status of the record, however the reviews overlap.
THEOREM StatusIsLastEntryHolds ==
  ASSUME {"update", "destroy"} \cap Endpoints = {}
  PROVE  Spec => []StatusIsLastEntry
  <1>1. Init => StatusInv
    BY StoreInitType DEF Init, StoreInit, StatusInv, TypeOK, StatusIsLastEntry
  <1>2. StatusInv /\ [Next]_vars => StatusInv'
    BY StatusInductive
  <1>3. StatusInv => StatusIsLastEntry
    BY DEF StatusInv
  <1>4. QED
    BY <1>1, <1>2, <1>3, PTL DEF Spec

-----------------------------------------------------------------------------
\* With one worker, nothing changes between a load and the commit that follows it,
\* and the commit makes one of the moves of the documented diagram.
Arrow(j) ==
  \/ j.new = Absent
  \/ j.new \in Row /\ j.entry = NoEntry /\ j.new.status = j.seen.status
  \/ /\ j.new \in Row /\ j.entry \in Entry /\ j.entry.outcome = j.new.status
     /\ \/ /\ j.seen.status = "PENDING_SUPERIOR" /\ j.entry.stage = "CANCEL"
           /\ j.new.status = "CANCELLED"
        \/ /\ j.seen.status = "PENDING_SUPERIOR" /\ j.entry.stage = "SUPERIOR"
           /\ j.new.status \in {"PENDING_ADMIN", "PENDING_FINANCE", "REJECTED_BY_SUPERIOR"}
        \/ /\ j.seen.status = "PENDING_ADMIN" /\ j.entry.stage = "ADMIN"
           /\ j.new.status \in {"PENDING_FINANCE", "REJECTED_BY_ADMIN"}
        \/ /\ j.seen.status = "PENDING_FINANCE" /\ j.entry.stage = "FINANCE"
           /\ j.new.status \in {"PAID", "APPROVED", "REJECTED_BY_FINANCE"}

SerialInv ==
  /\ TypeOK
  /\ \A i \in Ids : row[i] = Absent => log[i] = <<>>
  /\ \A w \in Workers : job[w] # Idle => row[job[w].id] = job[w].seen /\ Arrow(job[w])

\* A load by a handler whose save is an arrow of the diagram.
LEMMA PrepareKeepsSerial ==
  ASSUME SerialInv, TypeOK', NEW w \in Workers, NEW i \in Ids, NEW new, NEW entry,
         Prepare(w, i, new, entry),
         Arrow([id |-> i, seen |-> row[i], new |-> new, entry |-> entry])
  PROVE  SerialInv'
  <1> DEFINE j == [id |-> i, seen |-> row[i], new |-> new, entry |-> entry]
  <1>1. /\ row' = row /\ log' = log /\ job' = [job EXCEPT ![w] = j]
        /\ DOMAIN job = Workers /\ j.id = i /\ j.seen = row[i]
    BY DEF Prepare, SerialInv, TypeOK, StoreTypeOK
  <1>2. Arrow(j)
    OBVIOUS
  <1> HIDE DEF j
  <1>3. ASSUME NEW v \in Workers, job'[v] # Idle
        PROVE  row'[job'[v].id] = job'[v].seen /\ Arrow(job'[v])
    BY <1>1, <1>2, <1>3 DEF SerialInv
  <1>4. QED
    BY <1>1, <1>3 DEF SerialInv, Arrow

LEMMA SerialInductive ==
  ASSUME NEW w0, Workers = {w0}, SerialInv, [Next]_vars
  PROVE  SerialInv'
  <1>0. TypeOK /\ TypeOK'
    BY NextType DEF SerialInv
  <1>1. ASSUME NEW u \in Users, NEW i \in Ids, Create(u, i) PROVE SerialInv'
    <2>1. PICK new \in Row, entry \in Entry :
            /\ Insert(i, new, entry)
            /\ entry = [stage |-> "SUBMIT", actor |-> u, outcome |-> new.status]
            /\ new.requester = u
            /\ new.status \in {"PENDING_SUPERIOR", "PENDING_ADMIN"}
            /\ new.payment_date = FALSE
      BY <1>1, CreateFacts
    <2>2. /\ row' = [row EXCEPT ![i] = new] /\ DOMAIN row = Ids /\ new # Absent
          /\ log' = [log EXCEPT ![i] = <<entry>>] /\ DOMAIN log = Ids
          /\ job' = job /\ \A v \in Workers : job[v] # Idle => job[v].id # i
      BY <1>0, <2>1, AbsentAssumption DEF Insert, Fresh, TypeOK, StoreTypeOK
    <2>3. \A v \in Workers : job[v] # Idle => job[v].id \in Ids
      BY <1>0 DEF TypeOK, StoreTypeOK, JobsOver
    <2>4. \A k \in Ids : row'[k] = Absent => log'[k] = <<>>
      BY <2>2 DEF SerialInv
    <2>5. \A v \in Workers : job'[v] # Idle => row'[job'[v].id] = job'[v].seen /\ Arrow(job'[v])
      BY <2>2, <2>3 DEF SerialInv
    <2>6. QED
      BY <1>0, <2>4, <2>5 DEF SerialInv, Arrow
  <1>2. ASSUME NEW w \in Workers, NEW u \in Users, NEW i \in Ids,
               Cancel(w, u, i) \/ SuperiorReview(w, u, i)
                 \/ AdminReview(w, u, i) \/ FinanceReview(w, u, i)
        PROVE  SerialInv'
    <2>1. PICK new \in Row, stage \in {"SUPERIOR", "ADMIN", "FINANCE", "CANCEL"} :
            /\ Moves(w, u, i, stage, new)
            /\ \/ /\ row[i].status = "PENDING_SUPERIOR" /\ stage = "CANCEL"
                  /\ new.status = "CANCELLED"
               \/ /\ row[i].status = "PENDING_SUPERIOR" /\ stage = "SUPERIOR"
                  /\ new.status \in {"PENDING_ADMIN", "PENDING_FINANCE", "REJECTED_BY_SUPERIOR"}
               \/ /\ row[i].status = "PENDING_ADMIN" /\ stage = "ADMIN"
                  /\ new.status \in {"PENDING_FINANCE", "REJECTED_BY_ADMIN"}
               \/ /\ row[i].status = "PENDING_FINANCE" /\ stage = "FINANCE"
                  /\ new.status \in {"PAID", "APPROVED", "REJECTED_BY_FINANCE"}
      <3>1. CASE Cancel(w, u, i)
        BY <1>0, <3>1, CancelFacts
      <3>2. CASE SuperiorReview(w, u, i)
        BY <1>0, <3>2, SuperiorFacts
      <3>3. CASE AdminReview(w, u, i)
        BY <1>0, <3>3, AdminFacts
      <3>4. CASE FinanceReview(w, u, i)
        BY <1>0, <3>4, FinanceFacts
      <3>5. QED
        BY <1>2, <3>1, <3>2, <3>3, <3>4
    <2> DEFINE entry == [stage |-> stage, actor |-> u, outcome |-> new.status]
    <2>2. entry \in Entry /\ entry.outcome = new.status /\ entry.stage = stage
      BY DEF Entry, Row
    <2>3. Prepare(w, i, new, entry)
      BY <2>1 DEF Moves
    <2> HIDE DEF entry
    <2>4. Arrow([id |-> i, seen |-> row[i], new |-> new, entry |-> entry])
      BY <2>1, <2>2 DEF Arrow
    <2>5. QED
      BY <1>0, <2>3, <2>4, PrepareKeepsSerial
  <1>3. ASSUME NEW w \in Workers, NEW u \in Users, NEW i \in Ids, Update(w, u, i)
        PROVE  SerialInv'
    <2>1. PICK new \in Row : Prepare(w, i, new, NoEntry) /\ new.status = row[i].status
      BY <1>0, <1>3, UpdateFacts
    <2>2. Arrow([id |-> i, seen |-> row[i], new |-> new, entry |-> NoEntry])
      BY <2>1 DEF Arrow
    <2>3. QED
      BY <1>0, <2>1, <2>2, PrepareKeepsSerial
  <1>4. ASSUME NEW w \in Workers, NEW u \in Users, NEW i \in Ids, Destroy(w, u, i)
        PROVE  SerialInv'
    <2>1. Arrow([id |-> i, seen |-> row[i], new |-> Absent, entry |-> NoEntry])
      BY DEF Arrow
    <2>2. QED
      BY <1>0, <1>4, <2>1, PrepareKeepsSerial DEF Destroy
  <1>5. ASSUME NEW w \in Workers, Commit(w) PROVE SerialInv'
    <2>1. \A v \in Workers : job'[v] = Idle
      BY <1>0, <1>5 DEF Commit, TypeOK, StoreTypeOK
    <2>2. \A k \in Ids : row'[k] = Absent => log'[k] = <<>>
      BY <1>0, <1>5 DEF Commit, SerialInv, TypeOK, StoreTypeOK, JobsOver
    <2>3. QED
      BY <1>0, <2>1, <2>2 DEF SerialInv
  <1>6. ASSUME NEW w \in Workers, Rollback(w) PROVE SerialInv'
    BY <1>0, <1>6 DEF Rollback, SerialInv, TypeOK, StoreTypeOK
  <1>7. CASE UNCHANGED vars
    BY <1>0, <1>7 DEF SerialInv, Arrow, vars, storeVars
  <1>8. QED
    BY <1>1, <1>2, <1>3, <1>4, <1>5, <1>6, <1>7 DEF Next

\* The trail of a history that has grown by one entry.
LEMMA TrailAppend ==
  ASSUME NEW s \in Seq(Entry), NEW e \in Entry
  PROVE  [k \in 1..Len(Append(s, e)) |-> <<Append(s, e)[k].stage, Append(s, e)[k].outcome>>]
           = Append([k \in 1..Len(s) |-> <<s[k].stage, s[k].outcome>>], <<e.stage, e.outcome>>)
  <1> DEFINE p == [k \in 1..Len(s) |-> <<s[k].stage, s[k].outcome>>]
             q == [k \in 1..Len(Append(s, e)) |->
                     <<Append(s, e)[k].stage, Append(s, e)[k].outcome>>]
             x == <<e.stage, e.outcome>>
  <1>1. /\ Len(s) \in Nat
        /\ Len(Append(s, e)) = Len(s) + 1
        /\ \A k \in 1..Len(s) : Append(s, e)[k] = s[k]
        /\ Append(s, e)[Len(s) + 1] = e
    OBVIOUS
  <1>2. p \in Seq({<<s[k].stage, s[k].outcome>> : k \in 1..Len(s)}) /\ Len(p) = Len(s)
    OBVIOUS
  <1>3. Append(p, x) = [k \in 1..(Len(p) + 1) |-> IF k = Len(p) + 1 THEN x ELSE p[k]]
    BY <1>2
  <1>4. \A k \in 1..(Len(s) + 1) :
          q[k] = IF k = Len(s) + 1 THEN x ELSE p[k]
    BY <1>1
  <1>5. QED
    BY <1>1, <1>2, <1>3, <1>4

\* A commit by the only worker is a decision of the diagram, or changes nothing in it.
LEMMA CommitFollows ==
  ASSUME SerialInv, NEW w \in Workers, Commit(w)
  PROVE  [Flow!Next]_(Flow!flowVars)
  <1> DEFINE j == job[w]
  <1>1. /\ j.id \in Ids /\ row[j.id] = j.seen /\ j.seen \in Row /\ j.seen # Absent
        /\ row \in [Ids -> Row \cup {Absent}] /\ log \in [Ids -> Seq(Entry)]
        /\ row' = [row EXCEPT ![j.id] = j.new] /\ Arrow(j)
    BY AbsentAssumption DEF SerialInv, Commit, TypeOK, StoreTypeOK, JobsOver
  <1>2. CASE j.new = Absent
    <2>1. StatusOf' = [StatusOf EXCEPT ![j.id] = Absent]
      BY <1>1, <1>2 DEF StatusOf
    <2>2. log' = [log EXCEPT ![j.id] = <<>>]
      BY <1>1, <1>2 DEF Commit
    <2>3. [k \in 1..Len(<<>>) |-> <<(<<>>)[k].stage, (<<>>)[k].outcome>>] = <<>>
      OBVIOUS
    <2>4. TrailOf' = [TrailOf EXCEPT ![j.id] = <<>>]
      <3>1. \A i \in Ids : TrailOf'[i] = IF i = j.id THEN <<>> ELSE TrailOf[i]
        BY <1>1, <2>2, <2>3 DEF TrailOf
      <3>2. TrailOf' = [i \in Ids |-> TrailOf'[i]] /\ TrailOf = [i \in Ids |-> TrailOf[i]]
        BY DEF TrailOf
      <3>3. QED
        BY <1>1, <3>1, <3>2
    <2>5. Flow!Remove(j.id)
      BY <2>1, <2>4 DEF Flow!Remove
    <2>6. QED
      BY <1>1, <2>5 DEF Flow!Next
  <1>3. CASE j.new # Absent /\ j.entry = NoEntry
    <2>1. j.new \in Row /\ j.new.status = j.seen.status /\ log' = log
      BY <1>1, <1>3, NoEntryAssumption DEF Arrow, Commit
    <2>2. StatusOf' = StatusOf /\ TrailOf' = TrailOf
      BY <1>1, <1>3, <2>1 DEF StatusOf, TrailOf
    <2>3. QED
      BY <2>2 DEF Flow!flowVars
  <1>4. CASE j.new # Absent /\ j.entry # NoEntry
    <2> DEFINE stage == j.entry.stage
               next  == j.new.status
    <2>1. /\ j.new \in Row /\ j.entry \in Entry /\ j.entry.outcome = next
          /\ log' = [log EXCEPT ![j.id] = Append(@, j.entry)]
      BY <1>1, <1>4 DEF Arrow, Commit
    <2>2. StatusOf' = [StatusOf EXCEPT ![j.id] = next]
      BY <1>1, <1>4 DEF StatusOf
    <2>3. TrailOf' = [TrailOf EXCEPT ![j.id] = Append(@, <<stage, next>>)]
      <3>1. ASSUME NEW i \in Ids
            PROVE  TrailOf'[i] = IF i = j.id THEN Append(TrailOf[i], <<stage, next>>)
                                             ELSE TrailOf[i]
        <4>1. CASE i = j.id
          <5>1. log'[i] = Append(log[i], j.entry) /\ log[i] \in Seq(Entry)
            BY <1>1, <2>1, <4>1
          <5>2. TrailOf'[i] = [k \in 1..Len(log'[i]) |->
                                 <<log'[i][k].stage, log'[i][k].outcome>>]
            BY DEF TrailOf
          <5>3. TrailOf[i] = [k \in 1..Len(log[i]) |->
                                 <<log[i][k].stage, log[i][k].outcome>>]
            BY DEF TrailOf
          <5>4. [k \in 1..Len(Append(log[i], j.entry)) |->
                   <<Append(log[i], j.entry)[k].stage, Append(log[i], j.entry)[k].outcome>>]
                = Append([k \in 1..Len(log[i]) |-> <<log[i][k].stage, log[i][k].outcome>>],
                         <<j.entry.stage, j.entry.outcome>>)
            BY <2>1, <5>1, TrailAppend
          <5>5. TrailOf'[i] = Append(TrailOf[i], <<j.entry.stage, j.entry.outcome>>)
            BY <5>1, <5>2, <5>3, <5>4, Zenon
          <5>6. QED
            BY <2>1, <4>1, <5>5
        <4>2. CASE i # j.id
          BY <1>1, <2>1, <4>2 DEF TrailOf
        <4>3. QED
          BY <4>1, <4>2
      <3>2. TrailOf' = [i \in Ids |-> TrailOf'[i]] /\ TrailOf = [i \in Ids |-> TrailOf[i]]
        BY DEF TrailOf
      <3> HIDE DEF stage, next
      <3>3. QED
        BY <1>1, <3>1, <3>2
    <2>4. StatusOf[j.id] = j.seen.status
      BY <1>1 DEF StatusOf
    <2>5. \/ Flow!CancelRequest(j.id) \/ Flow!SuperiorDecides(j.id)
          \/ Flow!AdminDecides(j.id)  \/ Flow!FinanceDecides(j.id)
      <3>1. \/ /\ j.seen.status = "PENDING_SUPERIOR" /\ stage = "CANCEL"
               /\ next = "CANCELLED"
            \/ /\ j.seen.status = "PENDING_SUPERIOR" /\ stage = "SUPERIOR"
               /\ next \in {"PENDING_ADMIN", "PENDING_FINANCE", "REJECTED_BY_SUPERIOR"}
            \/ /\ j.seen.status = "PENDING_ADMIN" /\ stage = "ADMIN"
               /\ next \in {"PENDING_FINANCE", "REJECTED_BY_ADMIN"}
            \/ /\ j.seen.status = "PENDING_FINANCE" /\ stage = "FINANCE"
               /\ next \in {"PAID", "APPROVED", "REJECTED_BY_FINANCE"}
        BY <1>1, <1>4 DEF Arrow
      <3> HIDE DEF stage, next
      <3>2. QED
        BY <2>2, <2>3, <2>4, <3>1 DEF Flow!CancelRequest, Flow!SuperiorDecides,
             Flow!AdminDecides, Flow!FinanceDecides, Flow!Decide
    <2>6. QED
      BY <1>1, <2>5 DEF Flow!Next
  <1>5. QED
    BY <1>2, <1>3, <1>4

LEMMA StepFollows ==
  ASSUME SerialInv, [Next]_vars
  PROVE  [Flow!Next]_(Flow!flowVars)
  <1>1. ASSUME NEW u \in Users, NEW i \in Ids, Create(u, i) PROVE Flow!Next
    <2>1. PICK new \in Row, entry \in Entry :
            /\ Insert(i, new, entry)
            /\ entry = [stage |-> "SUBMIT", actor |-> u, outcome |-> new.status]
            /\ new.requester = u
            /\ new.status \in {"PENDING_SUPERIOR", "PENDING_ADMIN"}
            /\ new.payment_date = FALSE
      BY <1>1, CreateFacts
    <2>2. /\ row' = [row EXCEPT ![i] = new] /\ DOMAIN row = Ids /\ new # Absent
          /\ log' = [log EXCEPT ![i] = <<entry>>] /\ DOMAIN log = Ids
          /\ row[i] = Absent /\ log[i] = <<>>
      BY <2>1, AbsentAssumption DEF Insert, Fresh, SerialInv, TypeOK, StoreTypeOK
    <2>3. StatusOf' = [StatusOf EXCEPT ![i] = new.status] /\ StatusOf[i] = Absent
      BY <2>2 DEF StatusOf
    <2>4. TrailOf[i] = <<>> /\ TrailOf \in [Ids -> {TrailOf[k] : k \in Ids}]
      BY <2>2 DEF TrailOf
    <2>5. TrailOf' = [TrailOf EXCEPT ![i] = <<<<"SUBMIT", new.status>>>>]
      <3>1. [k \in 1..Len(<<entry>>) |-> <<(<<entry>>)[k].stage, (<<entry>>)[k].outcome>>]
              = <<<<"SUBMIT", new.status>>>>
        BY <2>1
      <3>2. QED
        BY <2>2, <3>1 DEF TrailOf
    <2>6. Append(TrailOf[i], <<"SUBMIT", new.status>>) = <<<<"SUBMIT", new.status>>>>
      BY <2>4
    <2>7. Flow!Submit(i)
      BY <2>1, <2>3, <2>5, <2>6 DEF Flow!Submit, Flow!Decide
    <2>8. QED
      BY <2>7 DEF Flow!Next
  <1>2. ASSUME row' = row, log' = log PROVE UNCHANGED Flow!flowVars
    BY <1>2 DEF StatusOf, TrailOf, Flow!flowVars
  <1>3. ASSUME NEW w \in Workers, NEW u \in Users, NEW i \in Ids,
               \/ Cancel(w, u, i) \/ SuperiorReview(w, u, i) \/ AdminReview(w, u, i)
               \/ FinanceReview(w, u, i) \/ Update(w, u, i) \/ Destroy(w, u, i)
        PROVE  row' = row /\ log' = log
    BY <1>3 DEF Cancel, SuperiorReview, AdminReview, FinanceReview, Update, Destroy,
                Moves, Prepare
  <1>4. ASSUME NEW w \in Workers, Commit(w) PROVE [Flow!Next]_(Flow!flowVars)
    BY <1>4, CommitFollows
  <1>5. ASSUME NEW w \in Workers, Rollback(w) PROVE row' = row /\ log' = log
    BY <1>5 DEF Rollback
  <1>6. CASE UNCHANGED vars
    BY <1>2, <1>6 DEF vars, storeVars
  <1>7. QED
    BY <1>1, <1>2, <1>3, <1>4, <1>5, <1>6 DEF Next

\* A single worker implements the documented approval flow, PATCHes, deletions and
\* killed handlers included.
THEOREM OneWorkerFollowsTheFlow ==
  ASSUME NEW w0, Workers = {w0}
  PROVE  Spec => FollowsTheFlow
  <1>1. Init => SerialInv
    BY StoreInitType DEF Init, StoreInit, SerialInv, TypeOK
  <1>2. Init => Flow!Init
    BY DEF Init, StoreInit, Flow!Init, StatusOf, TrailOf
  <1>3. SerialInv /\ [Next]_vars => SerialInv'
    BY SerialInductive
  <1>4. SerialInv /\ [Next]_vars => [Flow!Next]_(Flow!flowVars)
    BY StepFollows
  <1>5. QED
    BY <1>1, <1>2, <1>3, <1>4, PTL DEF Spec, FollowsTheFlow, Flow!FlowSpec


-----------------------------------------------------------------------------
\* What the one worker's history L says of request r: a payment is the last thing that
\* happens to it, and nobody has reviewed what may still be, or was, cancelled.
Path(r, L) ==
  /\ \A j, k \in 1..Len(L) : L[j].outcome = "PAID" /\ L[k].outcome = "PAID" => j = k
  /\ \A k \in 1..Len(L) : L[k].outcome = "PAID" => r.status = "PAID"
  /\ r.status \in {"PENDING_SUPERIOR", "CANCELLED"} =>
       \A k \in 1..Len(L) : L[k].stage # "SUPERIOR"

PathInv == SerialInv /\ \A i \in Ids : row[i] # Absent => Path(row[i], log[i])

\* One move of the diagram leads from a path to a path.
LEMMA PathAppend ==
  ASSUME NEW r, NEW L \in Seq(Entry), Path(r, L), NEW new, NEW e \in Entry,
         Arrow([id |-> 0, seen |-> r, new |-> new, entry |-> e]), new # Absent
  PROVE  Path(new, Append(L, e))
  <1> PICK M : M = Append(L, e)
    OBVIOUS
  <1>1. /\ Len(M) = Len(L) + 1 /\ M[Len(M)] = e
        /\ \A k \in 1..Len(M) : (k \in 1..Len(L) /\ M[k] = L[k]) \/ k = Len(M)
    OBVIOUS
  <1>2. e.outcome = new.status /\ r.status # "PAID"
    BY NoEntryAssumption DEF Arrow
  <1>3. \A k \in 1..Len(L) : L[k].outcome # "PAID"
    BY <1>2 DEF Path
  <1>4. \A k \in 1..Len(M) : M[k].outcome = "PAID" => k = Len(M)
    BY <1>1, <1>3
  <1>5. new.status \in {"PENDING_SUPERIOR", "CANCELLED"} =>
          \A k \in 1..Len(M) : M[k].stage # "SUPERIOR"
    <2>1. new.status \in {"PENDING_SUPERIOR", "CANCELLED"} =>
            r.status = "PENDING_SUPERIOR" /\ e.stage = "CANCEL"
      BY NoEntryAssumption DEF Arrow
    <2>2. QED
      BY <1>1, <2>1 DEF Path
  <1>6. QED
    BY <1>1, <1>2, <1>4, <1>5 DEF Path

LEMMA PathInductive ==
  ASSUME NEW w0, Workers = {w0}, PathInv, [Next]_vars
  PROVE  PathInv'
  <1>0. SerialInv /\ SerialInv' /\ TypeOK /\ TypeOK'
    BY SerialInductive, NextType DEF PathInv, SerialInv
  <1>1. ASSUME NEW u \in Users, NEW i \in Ids, Create(u, i) PROVE PathInv'
    <2>1. PICK new \in Row, entry \in Entry :
            /\ Insert(i, new, entry)
            /\ entry = [stage |-> "SUBMIT", actor |-> u, outcome |-> new.status]
            /\ new.status \in {"PENDING_SUPERIOR", "PENDING_ADMIN"}
      BY <1>1, CreateFacts
    <2>2. /\ \A k \in Ids : row'[k] = IF k = i THEN new ELSE row[k]
          /\ \A k \in Ids : log'[k] = IF k = i THEN <<entry>> ELSE log[k]
      BY <1>0, <2>1 DEF Insert, TypeOK, StoreTypeOK
    <2>3. Path(new, <<entry>>)
      <3>1. PICK L : L = <<entry>>
        OBVIOUS
      <3>2. Len(L) = 1 /\ L[1] = entry
        BY <3>1
      <3>3. entry.stage = "SUBMIT" /\ entry.outcome # "PAID"
        BY <2>1
      <3>4. \A k \in 1..Len(L) : k = 1
        BY <3>2
      <3>5. Path(new, L)
        BY <3>2, <3>3, <3>4 DEF Path
      <3>6. QED
        BY <3>1, <3>5
    <2>4. ASSUME NEW k \in Ids, row'[k] # Absent PROVE Path(row'[k], log'[k])
      <3>1. CASE k = i
        BY <2>2, <2>3, <3>1
      <3>2. CASE k # i
        BY <2>2, <2>4, <3>2 DEF PathInv
      <3>3. QED
        BY <3>1, <3>2
    <2>5. QED
      BY <1>0, <2>4 DEF PathInv
  <1>2. ASSUME NEW w \in Workers, Commit(w) PROVE PathInv'
    <2>1. PICK i, seen, new, entry : /\ i = job[w].id /\ seen = job[w].seen
                                     /\ new = job[w].new /\ entry = job[w].entry
      OBVIOUS
    <2>2. /\ job[w] # Idle /\ job[w] \in JobsOver(Row, Entry) /\ i \in Ids
          /\ row[i] = seen /\ seen \in Row /\ Arrow(job[w])
      BY <1>0, <1>2, <2>1 DEF Commit, SerialInv, TypeOK, StoreTypeOK, JobsOver
    <2>3. /\ \A k \in Ids : row'[k] = IF k = i THEN new ELSE row[k]
          /\ \A k \in Ids : log'[k] = IF k # i THEN log[k]
                                      ELSE IF new = Absent THEN <<>>
                                      ELSE IF entry = NoEntry THEN log[i]
                                      ELSE Append(log[i], entry)
      BY <1>0, <1>2, <2>1, <2>2 DEF Commit, TypeOK, StoreTypeOK
    <2>4. row[i] # Absent /\ Path(seen, log[i]) /\ log[i] \in Seq(Entry)
      BY <1>0, <2>2, AbsentAssumption DEF PathInv, TypeOK, StoreTypeOK
    <2>5. new # Absent =>
            Path(new, IF entry = NoEntry THEN log[i] ELSE Append(log[i], entry))
      <3>1. CASE new # Absent /\ entry = NoEntry
        <4>1. new.status = seen.status
          BY <2>1, <2>2, <3>1, NoEntryAssumption DEF Arrow
        <4>2. QED
          BY <2>4, <3>1, <4>1 DEF Path
      <3>2. CASE new # Absent /\ entry # NoEntry
        <4>1. entry \in Entry
          BY <2>1, <2>2, <3>2 DEF Arrow
        <4>2. Arrow([id |-> 0, seen |-> seen, new |-> new, entry |-> entry])
          BY <2>1, <2>2 DEF Arrow
        <4>3. QED
          BY <2>4, <3>2, <4>1, <4>2, PathAppend
      <3>3. QED
        BY <3>1, <3>2
    <2>6. ASSUME NEW k \in Ids, row'[k] # Absent PROVE Path(row'[k], log'[k])
      <3>1. CASE k = i
        BY <2>2, <2>3, <2>5, <2>6, <3>1
      <3>2. CASE k # i
        BY <2>3, <2>6, <3>2 DEF PathInv
      <3>3. QED
        BY <3>1, <3>2
    <2>7. QED
      BY <1>0, <2>6 DEF PathInv
  <1>3. ASSUME row' = row, log' = log PROVE PathInv'
    BY <1>0, <1>3 DEF PathInv
  <1>4. ASSUME NEW w \in Workers, NEW u \in Users, NEW i \in Ids,
               \/ Cancel(w, u, i) \/ SuperiorReview(w, u, i) \/ AdminReview(w, u, i)
               \/ FinanceReview(w, u, i) \/ Update(w, u, i) \/ Destroy(w, u, i)
        PROVE  row' = row /\ log' = log
    BY <1>4 DEF Cancel, SuperiorReview, AdminReview, FinanceReview, Update, Destroy,
                Moves, Prepare
  <1>5. ASSUME NEW w \in Workers, Rollback(w) PROVE row' = row /\ log' = log
    BY <1>5 DEF Rollback
  <1>6. CASE UNCHANGED vars
    BY <1>3, <1>6 DEF vars, storeVars
  <1>7. QED
    BY <1>1, <1>2, <1>3, <1>4, <1>5, <1>6 DEF Next

LEMMA InitPath == Init => PathInv
  <1>1. Init => SerialInv
    BY StoreInitType DEF Init, StoreInit, SerialInv, TypeOK
  <1>2. QED
    BY <1>1 DEF Init, StoreInit, PathInv

LEMMA PathFacts ==
  ASSUME PathInv
  PROVE  PaidOnce /\ NoCancelAfterReview
  <1>1. ASSUME NEW i \in Ids, NEW j \in 1..Len(log[i]), NEW k \in 1..Len(log[i]),
               log[i][j].outcome = "PAID", log[i][k].outcome = "PAID"
        PROVE  j = k
    <2>1. CASE row[i] = Absent
      <3>1. log[i] = <<>>
        BY <2>1 DEF PathInv, SerialInv
      <3>2. FALSE
        BY <1>1, <3>1
      <3>3. QED
        BY <3>2
    <2>2. CASE row[i] # Absent
      BY <1>1, <2>2 DEF PathInv, Path
    <2>3. QED
      BY <2>1, <2>2
  <1>2. QED
    BY <1>1 DEF PaidOnce, NoCancelAfterReview, PathInv, Path

\* With one worker no request is paid twice, whatever is edited, deleted or killed.
THEOREM OneWorkerPaysOnce ==
  ASSUME NEW w0, Workers = {w0}
  PROVE  Spec => []PaidOnce
  <1>1. PathInv /\ [Next]_vars => PathInv'
    BY PathInductive
  <1>2. PathInv => PaidOnce
    BY PathFacts
  <1>3. QED
    BY <1>1, <1>2, InitPath, PTL DEF Spec

\* With one worker no request is cancelled after its superior has reviewed it.
THEOREM OneWorkerCancelsInTime ==
  ASSUME NEW w0, Workers = {w0}
  PROVE  Spec => []NoCancelAfterReview
  <1>1. PathInv /\ [Next]_vars => PathInv'
    BY PathInductive
  <1>2. PathInv => NoCancelAfterReview
    BY PathFacts
  <1>3. QED
    BY <1>1, <1>2, InitPath, PTL DEF Spec
=============================================================================
