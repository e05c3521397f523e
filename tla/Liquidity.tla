------------------------------ MODULE Liquidity ------------------------------
(***************************************************************************)
(* The liquidity manager: expenses, the cheques spent on them, and the     *)
(* envelope cards they are paid from.  No handler of this component opens  *)
(* a transaction, so every SQL statement commits on its own: a handler is  *)
(* a sequence of steps, other workers run between any two of them, and a   *)
(* killed worker leaves what it has written.  instance.save() writes all   *)
(* columns of the snapshot the handler loaded, and re-inserts the row if   *)
(* it has been deleted.                                                    *)
(***************************************************************************)
EXTENDS Integers, FiniteSets, FiniteSetsExt

CONSTANTS
  Expenses, Checks, Transactions,   \* primary keys
  Workers,                          \* gunicorn workers; one request at a time each
  Categories,                       \* expense categories = card types
  Amounts,                          \* amounts of expenses and cheques that clients enter
  CardAmounts,                      \* amounts of card transactions that clients enter
  StatusInputs,                     \* cheque statuses that clients enter
  LinkInputs,                       \* values of spent_on_expense that clients enter
  LastDay,                          \* bound: the clock stops at this day
  Endpoints,                        \* the endpoints clients call
  Crashes,                          \* whether workers may be killed
  Absent, Idle, None

AllEndpoints ==
  {"create", "create_with_checks", "confirm", "unconfirm", "spend", "remove",
   "update", "destroy", "deposit", "withdraw", "delete_transaction",
   "create_check", "list_checks", "patch_check", "delete_check"}

CheckStatuses == {"CLEARED", "PENDING", "UNPAID", "BOUNCED", "SPENT"}

ASSUME LiquidityAssumption ==
  /\ None \notin Expenses
  /\ Amounts \subseteq Int             \* the serializers set no minimum
  /\ CardAmounts \subseteq Nat \ {0}   \* _add_card_transaction refuses the others
  /\ StatusInputs \subseteq CheckStatuses
  /\ LinkInputs \subseteq Expenses \cup {None}
  /\ LastDay \in Nat
  /\ Endpoints \subseteq AllEndpoints
  /\ Crashes \in BOOLEAN

VARIABLES
  expense,  \* LiquidityExpense rows
  check,    \* LiquidityCheck rows
  card,     \* LiquidityCardTransaction rows
  today,    \* datetime.date.today()
  job       \* what each worker has loaded and which statement comes next

tables == <<expense, check, card>>
vars == <<expense, check, card, today, job>>

ExpenseRow == [category : Categories, amount : Int, initial_amount : Int,
               has_spent_check : BOOLEAN, is_paid : BOOLEAN]
CheckRow   == [amount : Int, due_date : 0..LastDay, status : CheckStatuses,
               spent_on_expense : Expenses \cup {None}]
CardRow    == [card_type : Categories, transaction_type : {"DEPOSIT", "WITHDRAWAL"},
               amount : Int, expense : Expenses \cup {None}]

\* next: the statement the handler runs next; row: its expense instance; ids: the
\* cheques it was asked for (None: not asked); todo: the cheque instances it has
\* yet to save, Absent elsewhere; sum: the aggregate it has read.
Job == [next : {"deposits", "withdrawals", "pay", "withdraw", "unpay", "refund",
                "edit", "read_checks", "read_linked", "save_checks", "recalculate",
                "save_net", "release", "delete", "load_patched", "load_deleted",
                "save_patched", "delete_check"},
        id : Expenses \cup {None}, row : ExpenseRow \cup {Absent},
        ids : (SUBSET Checks) \cup {None},
        todo : [Checks -> CheckRow \cup {Absent}],
        sum : Int]

\* The sentinels are no rows and no jobs.
ASSUME SentinelAssumption ==
  Absent \notin ExpenseRow \cup CheckRow \cup CardRow /\ Idle \notin Job

-----------------------------------------------------------------------------
Rows(card_type, type) ==
  {t \in Transactions : card[t] # Absent /\ card[t].card_type = card_type
                                         /\ card[t].transaction_type = type}
CardSum(card_type, type) ==
  MapThenSumSet(LAMBDA t : card[t].amount, Rows(card_type, type))
Balance(card_type) == CardSum(card_type, "DEPOSIT") - CardSum(card_type, "WITHDRAWAL")

SpentChecks(e) == {c \in Checks : check[c] # Absent /\ check[c].spent_on_expense = e}
SpentChecksAmount(e) == MapThenSumSet(LAMBDA c : check[c].amount, SpentChecks(e))

\* max(0, initial_amount - spent_checks_amount)
Net(initial, spent) == IF initial > spent THEN initial - spent ELSE 0

\* Slip: what the cheques leave is taken from the current amount.
RecalculatedFromAmount(r, spent) ==
  [r EXCEPT !.has_spent_check = (spent > 0), !.amount = Net(r.amount, spent)]

\* What recalculate_amounts() makes of an instance.
Recalculated(r, spent) ==
  [r EXCEPT !.has_spent_check = (spent > 0), !.amount = Net(r.initial_amount, spent)]

\* What spending a cheque makes of its instance.
SpentOn(e, r) == [r EXCEPT !.spent_on_expense = e, !.status = "SPENT"]

\* Slip: the link is forgotten.
ReturnedLinked(r) == [r EXCEPT !.status = IF r.due_date < today THEN "UNPAID" ELSE "PENDING"]

\* Slip: an overdue cheque gets the status that an overdue expense shows.
ReturnedOverdue(r) ==
  [r EXCEPT !.spent_on_expense = None,
            !.status = IF r.due_date < today THEN "OVERDUE" ELSE "PENDING"]

\* What taking a cheque back makes of its instance.
Returned(r) ==
  [r EXCEPT !.spent_on_expense = None,
            !.status = IF r.due_date < today THEN "UNPAID" ELSE "PENDING"]
AllReturned(C) == [c \in Checks |-> IF c \in C THEN Returned(check[c]) ELSE Absent]

\* sync_overdue_checks(): one UPDATE of all PENDING cheques whose day has passed.
Synced == [c \in Checks |->
  IF check[c] # Absent /\ check[c].status = "PENDING" /\ check[c].due_date < today
  THEN [check[c] EXCEPT !.status = "UNPAID"] ELSE check[c]]

\* A foreign key to expense e can be written: e exists, or the key is null.
LinkHolds(e) == e # None => expense[e] # Absent

-----------------------------------------------------------------------------
At(w, next) == job[w] # Idle /\ job[w].next = next
Becomes(w, j) == job' = [job EXCEPT ![w] = j]
Goto(w, next) == Becomes(w, [job[w] EXCEPT !.next = next])
Done(w) == Becomes(w, Idle)

\* A request of one statement needs a worker that is free.
Free == \E w \in Workers : job[w] = Idle

\* Worker w, free so far, runs a handler that holds expense instance r.
Begins(w, endpoint, next, e, r, ids, todo) ==
  /\ endpoint \in Endpoints
  /\ job[w] = Idle
  /\ Becomes(w, [next |-> next, id |-> e, row |-> r, ids |-> ids, todo |-> todo, sum |-> 0])
NoChecks == [c \in Checks |-> Absent]
Todo(w) == {c \in Checks : job[w].todo[c] # Absent}

\* get_object() of expense e; the handler goes on at next with its instance.
Loads(w, endpoint, next, e, ids) ==
  /\ expense[e] # Absent
  /\ Begins(w, endpoint, next, e, expense[e], ids, NoChecks)
  /\ UNCHANGED <<tables, today>>

\* expense.save(): every column of the instance, whatever the row has become.
SaveExpense(w) ==
  /\ expense' = [expense EXCEPT ![job[w].id] = job[w].row]
  /\ UNCHANGED <<check, card, today>>

\* chk.save() of one of the handler's cheques; the handler goes on at next after
\* the last one.  The foreign key refuses a link to an expense deleted meanwhile.
SaveCheck(w, c, next) ==
  /\ c \in Todo(w)
  /\ IF LinkHolds(job[w].todo[c].spent_on_expense)
     THEN /\ check' = [check EXCEPT ![c] = job[w].todo[c]]
          /\ Becomes(w, [job[w] EXCEPT !.todo = [@ EXCEPT ![c] = Absent],
                                       !.next = IF Todo(w) = {c} THEN next ELSE @])
     ELSE check' = check /\ Done(w)
  /\ UNCHANGED <<expense, card, today>>

-----------------------------------------------------------------------------
(* confirm_payment *)
\* Slip: is_paid is not tested.
ConfirmLoadAgain(w, e) ==
  /\ \E t \in Transactions : card[t] = Absent
  /\ Loads(w, "confirm", "deposits", e, None)

ConfirmLoad(w, e) ==
  /\ expense[e] # Absent /\ ~expense[e].is_paid
  /\ \E t \in Transactions : card[t] = Absent   \* bound: a key is left for the withdrawal
  /\ Loads(w, "confirm", "deposits", e, None)

ReadDeposits(w) ==
  /\ At(w, "deposits")
  /\ Becomes(w, [job[w] EXCEPT !.sum = CardSum(job[w].row.category, "DEPOSIT"),
                               !.next = "withdrawals"])
  /\ UNCHANGED <<tables, today>>

\* Slip: only the deposits are compared with the amount.
ReadWithdrawalsIgnored(w) ==
  /\ At(w, "withdrawals")
  /\ IF job[w].sum < job[w].row.amount THEN Done(w)
     ELSE Becomes(w, [job[w] EXCEPT !.row = [@ EXCEPT !.is_paid = TRUE], !.next = "pay"])
  /\ UNCHANGED <<tables, today>>

\* The strict balance check, on two aggregates read one after the other.
ReadWithdrawals(w) ==
  /\ At(w, "withdrawals")
  /\ LET balance == job[w].sum - CardSum(job[w].row.category, "WITHDRAWAL") IN
       IF balance < job[w].row.amount THEN Done(w)
       ELSE Becomes(w, [job[w] EXCEPT !.row = [@ EXCEPT !.is_paid = TRUE], !.next = "pay"])
  /\ UNCHANGED <<tables, today>>

SavePaid(w) == At(w, "pay") /\ SaveExpense(w) /\ Goto(w, "withdraw")

\* INSERT into the card's transactions under a fresh key.
AddTransaction(type, category, amount, e) ==
  \E t \in Transactions :
    /\ card[t] = Absent
    /\ card' = [card EXCEPT ![t] = [card_type |-> category, transaction_type |-> type,
                                    amount |-> amount, expense |-> e]]

CreateWithdrawal(w) ==
  /\ At(w, "withdraw")
  /\ IF LinkHolds(job[w].id)
     THEN AddTransaction("WITHDRAWAL", job[w].row.category, job[w].row.amount, job[w].id)
     ELSE card' = card
  /\ Done(w)
  /\ UNCHANGED <<expense, check, today>>

(* unconfirm_payment *)
UnconfirmLoad(w, e) ==
  /\ expense[e] # Absent /\ expense[e].is_paid
  /\ Begins(w, "unconfirm", "unpay", e, [expense[e] EXCEPT !.is_paid = FALSE], None, NoChecks)
  /\ UNCHANGED <<tables, today>>

SaveUnpaid(w) == At(w, "unpay") /\ SaveExpense(w) /\ Goto(w, "refund")

\* Slip: the withdrawal is kept.
KeepWithdrawals(w) ==
  /\ At(w, "refund")
  /\ Done(w)
  /\ UNCHANGED <<tables, today>>

DeleteWithdrawals(w) ==
  /\ At(w, "refund")
  /\ card' = [t \in Transactions |->
                IF /\ card[t] # Absent
                   /\ card[t].transaction_type = "WITHDRAWAL"
                   /\ card[t].expense = job[w].id
                THEN Absent ELSE card[t]]
  /\ Done(w)
  /\ UNCHANGED <<expense, check, today>>

(* spend_checks, and _attach_checks of the serializer *)
SpendLoad(w, e) ==
  /\ expense[e] # Absent /\ ~expense[e].is_paid
  /\ \E ids \in (SUBSET Checks) \ {{}} : Loads(w, "spend", "read_checks", e, ids)

\* Slip: the cheques only have to exist.
SpendableIfFound(ids, e) == \A c \in ids : check[c] # Absent

\* All cheques exist, none is spent on another expense, all are PENDING or UNPAID.
Spendable(ids, e) ==
  \A c \in ids : /\ check[c] # Absent
                 /\ check[c].spent_on_expense \in {None, e}
                 /\ check[c].status \in {"PENDING", "UNPAID"}

ReadChecks(w) ==
  /\ At(w, "read_checks")
  /\ LET j == job[w] IN
       IF Spendable(j.ids, j.id)
       THEN Becomes(w, [j EXCEPT
              !.todo = [c \in Checks |->
                IF c \in j.ids THEN SpentOn(j.id, check[c]) ELSE Absent],
              !.next = IF j.ids = {} THEN "recalculate" ELSE "save_checks"])
       ELSE Done(w)
  /\ UNCHANGED <<tables, today>>

SaveChecks(w) ==
  At(w, "save_checks") /\ \E c \in Checks : SaveCheck(w, c, "recalculate")

Recalculate(w) ==
  /\ At(w, "recalculate")
  /\ Becomes(w, [job[w] EXCEPT !.row = Recalculated(@, SpentChecksAmount(job[w].id)),
                               !.next = "save_net"])
  /\ UNCHANGED <<tables, today>>

SaveNet(w) == At(w, "save_net") /\ SaveExpense(w) /\ Done(w)

(* remove_spent_check *)
RemoveLoad(w, e) == \E c \in Checks : Loads(w, "remove", "read_linked", e, {c})

ReadLinked(w) ==
  /\ At(w, "read_linked")
  /\ IF job[w].ids \subseteq SpentChecks(job[w].id)
     THEN Becomes(w, [job[w] EXCEPT !.todo = AllReturned(job[w].ids),
                                    !.next = "save_checks"])
     ELSE Done(w)
  /\ UNCHANGED <<tables, today>>

(* create, update and destroy of an expense *)
\* uuid4() never returns a key that a row or a running handler still uses.
FreshExpense(e) ==
  /\ expense[e] = Absent
  /\ \A w \in Workers : job[w] # Idle =>
       /\ job[w].id # e
       /\ \A c \in Todo(w) : job[w].todo[c].spent_on_expense # e

NewExpense(category, amount) ==
  [category |-> category, amount |-> amount, initial_amount |-> amount,
   has_spent_check |-> FALSE, is_paid |-> FALSE]

CreateExpense(e) ==
  /\ "create" \in Endpoints /\ Free
  /\ FreshExpense(e)
  /\ \E category \in Categories, amount \in Amounts :
       expense' = [expense EXCEPT ![e] = NewExpense(category, amount)]
  /\ UNCHANGED <<check, card, today, job>>

\* The expense is there before its cheques are looked at.
CreateWithChecks(w, e) ==
  /\ FreshExpense(e)
  /\ \E category \in Categories, amount \in Amounts, ids \in (SUBSET Checks) \ {{}} :
       /\ expense' = [expense EXCEPT ![e] = NewExpense(category, amount)]
       /\ Begins(w, "create_with_checks", "read_checks", e, NewExpense(category, amount),
                 ids, NoChecks)
  /\ UNCHANGED <<check, card, today>>

\* PATCH edits the amount and the category of any expense, paid or not, and
\* never initial_amount; check_ids may come with it.
UpdateLoad(w, e) ==
  /\ expense[e] # Absent
  /\ \E category \in Categories, amount \in Amounts, ids \in (SUBSET Checks) \cup {None} :
       Begins(w, "update", "edit", e,
              [expense[e] EXCEPT !.category = category, !.amount = amount], ids, NoChecks)
  /\ UNCHANGED <<tables, today>>

SaveEdited(w) ==
  /\ At(w, "edit")
  /\ SaveExpense(w)
  /\ IF job[w].ids = None THEN Done(w) ELSE Goto(w, "read_checks")

\* Slip: the cheques are left to on_delete.
DestroyLoadUnreleased(w, e) ==
  /\ expense[e] # Absent
  /\ Begins(w, "destroy", "delete", e, expense[e], None, NoChecks)
  /\ UNCHANGED <<tables, today>>

\* The cheques to release are the prefetched ones.
DestroyLoad(w, e) ==
  /\ expense[e] # Absent
  /\ Begins(w, "destroy", IF SpentChecks(e) = {} THEN "delete" ELSE "release",
            e, expense[e], None, AllReturned(SpentChecks(e)))
  /\ UNCHANGED <<tables, today>>

ReleaseChecks(w) == At(w, "release") /\ \E c \in Checks : SaveCheck(w, c, "delete")

\* on_delete = SET_NULL for the cheques and the card transactions.
DeleteExpense(w) ==
  /\ At(w, "delete")
  /\ LET e == job[w].id IN
       /\ expense' = [expense EXCEPT ![e] = Absent]
       /\ check' = [c \in Checks |-> IF c \in SpentChecks(e)
                      THEN [check[c] EXCEPT !.spent_on_expense = None] ELSE check[c]]
       /\ card' = [t \in Transactions |-> IF card[t] # Absent /\ card[t].expense = e
                      THEN [card[t] EXCEPT !.expense = None] ELSE card[t]]
  /\ Done(w)
  /\ UNCHANGED today

(* cards *)
\* No balance check on a manual withdrawal.
AddCardTransaction ==
  /\ Free
  /\ \E amount \in CardAmounts, category \in Categories :
       \/ "deposit" \in Endpoints /\ AddTransaction("DEPOSIT", category, amount, None)
       \/ "withdraw" \in Endpoints /\ AddTransaction("WITHDRAWAL", category, amount, None)
  /\ UNCHANGED <<expense, check, today, job>>

DeleteTransaction(t) ==
  /\ "delete_transaction" \in Endpoints /\ Free
  /\ card[t] # Absent
  /\ card' = [card EXCEPT ![t] = Absent]
  /\ UNCHANGED <<expense, check, today, job>>

(* cheques *)
CreateCheck(c) ==
  /\ "create_check" \in Endpoints /\ Free
  /\ check[c] = Absent
  /\ \A w \in Workers : job[w] # Idle => c \notin Todo(w)
  /\ \E amount \in Amounts, due_date \in 0..LastDay,
        status \in StatusInputs \cup {"PENDING"}, e \in LinkInputs \cup {None} :
       /\ LinkHolds(e)
       /\ check' = [check EXCEPT ![c] = [amount |-> amount, due_date |-> due_date,
                                         status |-> status, spent_on_expense |-> e]]
  /\ UNCHANGED <<expense, card, today, job>>

ListChecks ==
  /\ "list_checks" \in Endpoints /\ Free
  /\ check' = Synced
  /\ UNCHANGED <<expense, card, today, job>>

\* Every request for a cheque syncs first, in get_queryset().
CheckRequest(w, c) ==
  /\ \/ Begins(w, "patch_check", "load_patched", None, Absent, {c}, NoChecks)
     \/ Begins(w, "delete_check", "load_deleted", None, Absent, {c}, NoChecks)
  /\ check' = Synced
  /\ UNCHANGED <<expense, card, today>>

\* PATCH may set every column, the status and the link included.
LoadPatched(w) ==
  /\ At(w, "load_patched")
  /\ \E c \in job[w].ids :
       IF check[c] = Absent THEN Done(w)
       ELSE \E amount \in Amounts, status \in StatusInputs \cup {check[c].status},
               e \in LinkInputs \cup {check[c].spent_on_expense} :
              Becomes(w, [job[w] EXCEPT !.next = "save_patched",
                !.todo = [@ EXCEPT ![c] = [check[c] EXCEPT !.amount = amount, !.status = status,
                                                           !.spent_on_expense = e]]])
  /\ UNCHANGED <<tables, today>>

SavePatched(w) ==
  /\ At(w, "save_patched")
  /\ \E c \in Todo(w) :
       check' = IF LinkHolds(job[w].todo[c].spent_on_expense)
                THEN [check EXCEPT ![c] = job[w].todo[c]] ELSE check
  /\ Done(w)
  /\ UNCHANGED <<expense, card, today>>

LoadDeleted(w) ==
  /\ At(w, "load_deleted")
  /\ \E c \in job[w].ids : IF check[c] = Absent THEN Done(w) ELSE Goto(w, "delete_check")
  /\ UNCHANGED <<tables, today>>

DeleteCheck(w) ==
  /\ At(w, "delete_check")
  /\ check' = [c \in Checks |-> IF c \in job[w].ids THEN Absent ELSE check[c]]
  /\ Done(w)
  /\ UNCHANGED <<expense, card, today>>

(* the environment *)
Tick ==
  /\ today < LastDay
  /\ today' = today + 1
  /\ UNCHANGED <<tables, job>>

Crash(w) ==
  /\ Crashes
  /\ job[w] # Idle
  /\ Done(w)
  /\ UNCHANGED <<tables, today>>

-----------------------------------------------------------------------------
Init ==
  /\ expense = [e \in Expenses |-> Absent]
  /\ check = [c \in Checks |-> Absent]
  /\ card = [t \in Transactions |-> Absent]
  /\ today = 0
  /\ job = [w \in Workers |-> Idle]

ExpenseRequest(w, e) ==
  \/ ConfirmLoad(w, e) \/ UnconfirmLoad(w, e)
  \/ SpendLoad(w, e) \/ RemoveLoad(w, e)
  \/ CreateWithChecks(w, e) \/ UpdateLoad(w, e) \/ DestroyLoad(w, e)

Statement(w) ==
  \/ ReadDeposits(w) \/ ReadWithdrawals(w) \/ SavePaid(w) \/ CreateWithdrawal(w)
  \/ SaveUnpaid(w) \/ DeleteWithdrawals(w)
  \/ ReadChecks(w) \/ ReadLinked(w) \/ SaveChecks(w) \/ Recalculate(w) \/ SaveNet(w)
  \/ SaveEdited(w) \/ ReleaseChecks(w) \/ DeleteExpense(w)
  \/ LoadPatched(w) \/ SavePatched(w) \/ LoadDeleted(w) \/ DeleteCheck(w)

Next ==
  \/ \E e \in Expenses : CreateExpense(e)
  \/ \E c \in Checks : CreateCheck(c)
  \/ \E t \in Transactions : DeleteTransaction(t)
  \/ AddCardTransaction \/ ListChecks \/ Tick
  \/ \E w \in Workers : \/ \E e \in Expenses : ExpenseRequest(w, e)
                        \/ \E c \in Checks : CheckRequest(w, c)
                        \/ Statement(w) \/ Crash(w)

Spec == Init /\ [][Next]_vars

-----------------------------------------------------------------------------
TypeOK ==
  /\ expense \in [Expenses -> ExpenseRow \cup {Absent}]
  /\ check \in [Checks -> CheckRow \cup {Absent}]
  /\ card \in [Transactions -> CardRow \cup {Absent}]
  /\ today \in 0..LastDay
  /\ job \in [Workers -> Job \cup {Idle}]

\* No handler is between two of its statements.
AtRest == \A w \in Workers : job[w] = Idle

Withdrawals(e) ==
  {t \in Transactions : card[t] # Absent /\ card[t].transaction_type = "WITHDRAWAL"
                                         /\ card[t].expense = e}

\* Transaction t is the payment of an expense, from this card.
Deducted(t, category) ==
  card[t] # Absent /\ card[t].card_type = category /\ card[t].expense # None

\* Docs lines 434-443, the strict balance check: a payment that is deducted for an
\* expense leaves its card covered, whatever amounts were entered and whatever was
\* withdrawn by hand before.
PaymentsCovered ==
  [][\A t \in Transactions, category \in Categories :
       card[t] = Absent /\ Deducted(t, category)' => (Balance(category) >= 0)']_vars

\* views.py:4791: an expense that was confirmed is not confirmed again, so it is
\* deducted from its card at most once.
DeductedOnce == \A e \in Expenses : Cardinality(Withdrawals(e)) <= 1

\* Docs lines 443-444 and 452-454: when no handler is running, an expense is marked
\* paid exactly if its amount has been deducted from the card.
PaidIffDeducted ==
  AtRest => \A e \in Expenses : expense[e] # Absent =>
              (expense[e].is_paid <=> Withdrawals(e) # {})

\* Docs line 444: what is deducted is the amount of the expense.
DeductedInFull ==
  AtRest => \A e \in Expenses : expense[e] # Absent =>
              \A t \in Withdrawals(e) : card[t].amount = expense[e].amount

\* models.py:1533: when no handler is running, the amount of an expense is what its
\* spent cheques leave of the initial amount, and has_spent_check says whether there
\* are any; an expense nothing was spent on may also show the initial amount itself,
\* which differs if it is negative.
NetOfSpentChecks ==
  AtRest => \A e \in Expenses : expense[e] # Absent =>
    LET spent == SpentChecksAmount(e)
        initial == expense[e].initial_amount IN
      /\ expense[e].amount = Net(initial, spent) \/ (spent = 0 /\ expense[e].amount = initial)
      /\ expense[e].has_spent_check <=> spent > 0

\* A cheque is marked SPENT exactly if it is linked to the expense it pays, so that
\* it is either offered for spending again or counted somewhere, never neither.
SpentIffLinked ==
  \A c \in Checks : check[c] # Absent =>
    (check[c].status = "SPENT" <=> check[c].spent_on_expense # None)

\* views.py:4946-4955: whatever statuses and links clients enter, a cheque that loses
\* its expense is not left marked SPENT, so that it can be spent again; only a client
\* that edits the cheque itself may leave it so.
ReturnedWhenUnlinked ==
  [][\A c \in Checks :
       check[c] # Absent /\ check'[c] # Absent /\ check[c].spent_on_expense # None =>
         \/ check'[c].spent_on_expense # None
         \/ check'[c].status # "SPENT"
         \/ \E w \in Workers : At(w, "save_patched") /\ c \in Todo(w)]_vars

\* views.py:4889-4890: a cheque spent on one expense cannot be spent on another one;
\* it has to be taken back first.
NeverRespent ==
  [][\A c \in Checks : check[c] # Absent /\ check'[c] # Absent =>
       check'[c].spent_on_expense \in {check[c].spent_on_expense, None}
         \/ check[c].spent_on_expense = None]_vars
=============================================================================
