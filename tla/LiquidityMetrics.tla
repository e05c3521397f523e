-------------------------- MODULE LiquidityMetrics --------------------------
(***************************************************************************)
(* What the liquidity manager shows: the pressure of each open expense on  *)
(* the card of its category, computed once per expense on its own page     *)
(* (LiquidityExpense.calculate_liquidity_metrics) and in one pass over all *)
(* of them for the list and the summary (batch_calculate_metrics), and the *)
(* sums that are put aside for it (staged payments).                       *)
(*                                                                         *)
(* Handlers run one at a time here: module Liquidity is about the          *)
(* statements of those that write, and about cheques, which change an      *)
(* amount as an edit does.  Money counts in hundredths wherever a share of *)
(* the revenue enters.                                                     *)
(***************************************************************************)
EXTENDS Integers, FiniteSets, FiniteSetsExt, SequencesExt

CONSTANTS
  Expenses, Payments,   \* primary keys; those of expenses are compared
  Categories, Share,    \* categories and their share of the revenue, in percent
  Amounts,              \* amounts that clients enter for expenses and payments
  Revenues,             \* amounts that clients enter for the daily revenue
  CardSums,             \* bound: what other transactions may leave on a card
  Instants,             \* values of created_at; two expenses may share one
  DueDates, LastDay,    \* due dates that clients enter; bound: the last day
  Absent, None

ASSUME MetricsAssumption ==
  /\ Share \in [Categories -> 0 .. 100]
  /\ Expenses \subseteq Int /\ Instants \subseteq Int
  /\ Amounts \subseteq Int /\ Revenues \subseteq Nat
  /\ CardSums \subseteq Int /\ 0 \in CardSums
  /\ DueDates \subseteq Int /\ LastDay \in Nat

VARIABLES
  expense,     \* LiquidityExpense rows
  payment,     \* LiquidityExpensePayment rows
  withdrawal,  \* the WITHDRAWAL that confirm_payment linked to an expense
  card,        \* what all other transactions leave on a card
  revenue,     \* LiquidityDailyRevenueSetting.amount
  today        \* datetime.date.today()

vars == <<expense, payment, withdrawal, card, revenue, today>>

Payable == {n \in Amounts : n > 0}
ExpenseRow == [category : Categories, amount : Amounts, due_date : DueDates,
               created_at : Instants, is_paid : BOOLEAN]
PaymentRow == [expense : Expenses, amount : Payable]
WithdrawalRow == [card_type : Categories, amount : Amounts]

\* What stands for a row that is not there is none.
ASSUME SentinelAssumption == Absent \notin ExpenseRow \cup PaymentRow /\ None \notin WithdrawalRow

Statuses == {"PAID", "OVERDUE", "CRITICAL", "WARNING", "NORMAL", "EXCELLENT"}
\* How bad an unpaid expense looks.
Severity(status) ==
  CHOOSE n \in 0 .. 4 :
    <<"EXCELLENT", "NORMAL", "WARNING", "CRITICAL", "OVERDUE">>[n + 1] = status

Stored == {e \in Expenses : expense[e] # Absent}
Unpaid == {e \in Stored : ~expense[e].is_paid}
UnpaidIn(c) == {e \in Unpaid : expense[e].category = c}
AmountOf(S) == MapThenSumSet(LAMBDA e : expense[e].amount, S)
AtLeastZero(n) == IF n > 0 THEN n ELSE 0

Balance(c) ==
  card[c] - MapThenSumSet(LAMBDA e : withdrawal[e].amount,
                          {e \in Expenses : withdrawal[e] # None /\ withdrawal[e].card_type = c})

-----------------------------------------------------------------------------
\* The metrics of one expense.

\* e is to be paid before f.
Before(e, f) ==
  \/ expense[e].due_date < expense[f].due_date
  \/ expense[e].due_date = expense[f].due_date /\ expense[e].created_at < expense[f].created_at
Tied(e, f) ==
  expense[e].due_date = expense[f].due_date /\ expense[e].created_at = expense[f].created_at

\* Slip: expenses that are overdue are forgotten.
UpstreamNotOverdue(e) ==
  {f \in UnpaidIn(expense[e].category) \ {e} : Before(f, e) /\ expense[f].due_date >= today}

\* The expenses that the card has to pay first.
Upstream(e) == {f \in UnpaidIn(expense[e].category) \ {e} : Before(f, e)}

\* Those that the query of its page leaves out, though they may have to be paid first.
TiedAhead(e) == {f \in UnpaidIn(expense[e].category) \ {e} : Tied(f, e) /\ f < e}

DaysRemaining(e) == expense[e].due_date - today
ExpectedIncoming(e) ==
  revenue * Share[expense[e].category] * AtLeastZero(DaysRemaining(e))
\* In hundredths.
Available(e, balance, upstream) == 100 * (balance - upstream) + ExpectedIncoming(e)

\* round(amount / available, 4), in ten-thousandths, a half to the even neighbour.
Ratio(amount, available) ==
  LET whole == (1000000 * amount) \div available
      rest == (1000000 * amount) % available
  IN whole + IF 2 * rest > available \/ (2 * rest = available /\ whole % 2 = 1) THEN 1 ELSE 0

StatusOf(ratio) ==
  IF ratio >= 10000 THEN "CRITICAL" ELSE IF ratio >= 8000 THEN "WARNING"
  ELSE IF ratio >= 3000 THEN "NORMAL" ELSE "EXCELLENT"

\* Slip: cash that is not there counts as plenty.
PressureUnguarded(amount, cash) == IF cash > 0 THEN Ratio(amount, cash) ELSE 0

Pressure(amount, cash) == IF cash > 0 THEN Ratio(amount, cash) ELSE 9990000

\* calculate_liquidity_metrics(); a ratio of -1 stands for None.  Without pressure it
\* repeats the balance and the sum that it was given, and shows 0 where it was given none.
Metrics(e, given, balance, upstream) ==
  LET cash == Available(e, balance, upstream)
      ratio == Pressure(expense[e].amount, cash)
      row == [card_balance |-> balance, upstream |-> upstream,
              incoming |-> ExpectedIncoming(e), cash |-> cash,
              status |-> StatusOf(ratio), ratio |-> ratio]
      idle == [row EXCEPT !.card_balance = IF given THEN balance ELSE 0,
                          !.upstream = IF given THEN upstream ELSE 0,
                          !.incoming = 0, !.cash = 0]
  IN IF expense[e].is_paid THEN [idle EXCEPT !.status = "PAID", !.ratio = 0]
     ELSE IF DaysRemaining(e) < 0 THEN [idle EXCEPT !.status = "OVERDUE", !.ratio = -1]
     ELSE row

\* The page of an expense.
Detail(e) == Metrics(e, FALSE, Balance(expense[e].category), AmountOf(Upstream(e)))

-----------------------------------------------------------------------------
\* The list and the summary.

\* Slip: of two expenses due on one day the younger comes first, as in the model's
\* own ordering.
ComesFirstNewest(e, f) ==
  \/ expense[e].due_date < expense[f].due_date
  \/ expense[e].due_date = expense[f].due_date /\ expense[e].created_at > expense[f].created_at
  \/ Tied(e, f) /\ e < f

\* order_by('due_date', 'created_at', 'id')
ComesFirst(e, f) == Before(e, f) \/ (Tied(e, f) /\ e < f)

\* The unpaid expenses of a category in that order.
Queue(c) == CHOOSE q \in SetToSeqs(UnpaidIn(c)) :
              \A i, j \in DOMAIN q : i < j => ComesFirst(q[i], q[j])

\* upstream_by_id: the running sum ahead of an unpaid expense, 0 for a paid one.
RunningSum(e) ==
  IF e \notin Unpaid THEN 0 ELSE
  LET q == Queue(expense[e].category)
  IN AmountOf({q[i] : i \in {j \in DOMAIN q : \E k \in DOMAIN q : j < k /\ q[k] = e}})

\* batch_calculate_metrics()
Batch(e) == Metrics(e, TRUE, Balance(expense[e].category), RunningSum(e))

\* ?is_paid= and ?scope= (without one: "unpaid"); "this_month" is a range of due dates.
Flagged(is_paid) ==
  CASE is_paid = "true" -> Stored \ Unpaid
    [] is_paid = "false" -> Unpaid
    [] OTHER -> Stored
Scoped(scope) ==
  CASE scope = "unpaid" -> Unpaid
    [] scope = "paid" -> Stored \ Unpaid
    [] scope = "overdue" -> {e \in Unpaid : DaysRemaining(e) < 0}
    [] scope = "next_week" -> {e \in Unpaid : DaysRemaining(e) \in 0 .. 7}
    [] OTHER -> Stored
\* The list under ?is_paid=, ?scope= and ?status=, from the metrics of the expenses.
Listed(batch, is_paid, scope, status) ==
  {e \in Flagged(is_paid) \cap Scoped(scope) : batch[e].status = status}

Allocated(e) ==
  MapThenSumSet(LAMBDA p : payment[p].amount,
                {p \in Payments : payment[p] # Absent /\ payment[p].expense = e})
RemainingDebt(e) == AtLeastZero(expense[e].amount - Allocated(e))

\* GET summary
StatusCounts(batch) ==
  [s \in Statuses |-> IF s = "PAID" THEN Cardinality(Stored \ Unpaid)
                      ELSE Cardinality({e \in Unpaid : batch[e].status = s})]
TotalRemaining == AtLeastZero(AmountOf(Unpaid) - MapThenSumSet(Allocated, Unpaid))

-----------------------------------------------------------------------------
\* What changes them.

CreateExpense(e, c, amount, due) ==
  /\ e \notin Stored
  /\ \E now \in Instants :
       expense' = [expense EXCEPT ![e] =
         [category |-> c, amount |-> amount, due_date |-> due, created_at |-> now,
          is_paid |-> FALSE]]
  /\ UNCHANGED <<payment, withdrawal, card, revenue, today>>

\* PUT and PATCH; is_paid is read-only.
UpdateExpense(e, c, amount, due) ==
  /\ e \in Stored
  /\ expense' = [expense EXCEPT ![e] =
       [category |-> c, amount |-> amount, due_date |-> due,
        created_at |-> @.created_at, is_paid |-> @.is_paid]]
  /\ UNCHANGED <<payment, withdrawal, card, revenue, today>>

\* The payments go with their expense, its withdrawal stays on the card (an expense that
\* would leave a sum beyond the bound is not deleted).
DestroyExpense(e) ==
  /\ e \in Stored
  /\ withdrawal[e] # None => card[withdrawal[e].card_type] - withdrawal[e].amount \in CardSums
  /\ expense' = [expense EXCEPT ![e] = Absent]
  /\ payment' = [p \in Payments |->
       IF payment[p] # Absent /\ payment[p].expense = e THEN Absent ELSE payment[p]]
  /\ withdrawal' = [withdrawal EXCEPT ![e] = None]
  /\ card' = IF withdrawal[e] = None THEN card
             ELSE [card EXCEPT ![withdrawal[e].card_type] = @ - withdrawal[e].amount]
  /\ UNCHANGED <<revenue, today>>

\* confirm-payment: the flag and the withdrawal.
ConfirmPayment(e) ==
  /\ e \in Unpaid /\ withdrawal[e] = None
  /\ Balance(expense[e].category) >= expense[e].amount
  /\ expense' = [expense EXCEPT ![e].is_paid = TRUE]
  /\ withdrawal' = [withdrawal EXCEPT ![e] =
       [card_type |-> expense[e].category, amount |-> expense[e].amount]]
  /\ UNCHANGED <<payment, card, revenue, today>>

UnconfirmPayment(e) ==
  /\ e \in Stored \ Unpaid
  /\ expense' = [expense EXCEPT ![e].is_paid = FALSE]
  /\ withdrawal' = [withdrawal EXCEPT ![e] = None]
  /\ UNCHANGED <<payment, card, revenue, today>>

\* payments/: any amount greater than zero, also for a paid expense.
AddPayment(p, e, amount) ==
  /\ e \in Stored /\ payment[p] = Absent
  /\ payment' = [payment EXCEPT ![p] = [expense |-> e, amount |-> amount]]
  /\ UNCHANGED <<expense, withdrawal, card, revenue, today>>
DeletePayment(p) ==
  /\ payment[p] # Absent
  /\ payment' = [payment EXCEPT ![p] = Absent]
  /\ UNCHANGED <<expense, withdrawal, card, revenue, today>>

\* Deposits, withdrawals by hand, and the deletion of either.
ChangeCard(c, left) ==
  /\ left # card[c] /\ card' = [card EXCEPT ![c] = left]
  /\ UNCHANGED <<expense, payment, withdrawal, revenue, today>>
\* delete_transaction of the withdrawal of an expense.
DeleteWithdrawal(e) ==
  /\ withdrawal[e] # None
  /\ withdrawal' = [withdrawal EXCEPT ![e] = None]
  /\ UNCHANGED <<expense, payment, card, revenue, today>>

\* daily-revenue/
SetRevenue(amount) ==
  /\ amount # revenue /\ revenue' = amount
  /\ UNCHANGED <<expense, payment, withdrawal, card, today>>

NextDay ==
  /\ today < LastDay /\ today' = today + 1
  /\ UNCHANGED <<expense, payment, withdrawal, card, revenue>>

Init ==
  /\ expense = [e \in Expenses |-> Absent]
  /\ payment = [p \in Payments |-> Absent]
  /\ withdrawal = [e \in Expenses |-> None]
  /\ card = [c \in Categories |-> 0]
  /\ revenue = 0 /\ today = 0

ExpenseRequest(e) ==
  \/ \E c \in Categories, amount \in Amounts, due \in DueDates :
       CreateExpense(e, c, amount, due) \/ UpdateExpense(e, c, amount, due)
  \/ DestroyExpense(e) \/ ConfirmPayment(e) \/ UnconfirmPayment(e) \/ DeleteWithdrawal(e)
PaymentRequest(p) ==
  \/ \E e \in Expenses, amount \in Payable : AddPayment(p, e, amount)
  \/ DeletePayment(p)
Next ==
  \/ \E e \in Expenses : ExpenseRequest(e)
  \/ \E p \in Payments : PaymentRequest(p)
  \/ \E c \in Categories, left \in CardSums : ChangeCard(c, left)
  \/ \E amount \in Revenues : SetRevenue(amount)
  \/ NextDay

Spec == Init /\ [][Next]_vars

-----------------------------------------------------------------------------
\* The list, the summary and the page of an expense agree, though each computes the
\* metrics in its own way (one pass over the sorted queues against two queries per
\* expense).  Of an open expense the list counts, ahead of it, what its page counts and
\* those with the same due date and created_at that have the smaller id; where there is
\* none of these, the two show the same numbers.  Of a paid or an overdue one they show
\* the same status, ratio and cash (what they repeat as its balance and the sum ahead
\* differs).  ?status= under its default scope lists what it lists of all but the paid
\* expenses, the overdue ones are those of the scope of that name, the summary counts under
\* each status what the list over all shows, and it never claims more debt than the
\* expenses have one by one and exactly that unless more than its amount was put aside
\* for one of them.
PagesAgree ==
  LET batch == [e \in Stored |-> Batch(e)]
      page == [e \in Stored |-> Detail(e)]
      counts == StatusCounts(batch)
      debts == MapThenSumSet(RemainingDebt, Unpaid)
  IN
  /\ \A e \in Stored :
       /\ expense[e] \in ExpenseRow
       /\ page[e].status \in {"PAID", "OVERDUE"} =>
            [batch[e] EXCEPT !.card_balance = 0, !.upstream = 0] = page[e]
       /\ page[e].status \notin {"PAID", "OVERDUE"} =>
            /\ batch[e].card_balance = page[e].card_balance
            /\ batch[e].upstream = page[e].upstream + AmountOf(TiedAhead(e))
            /\ TiedAhead(e) = {} => batch[e] = page[e]
  /\ \A s \in Statuses :
       LET all == Listed(batch, "", "all", s) IN
       /\ counts[s] = Cardinality(all)
       /\ Listed(batch, "", "unpaid", s) = IF s = "PAID" THEN {} ELSE all
       /\ s = "OVERDUE" => all = Scoped("overdue")
  /\ TotalRemaining <= debts
  /\ (\A e \in Unpaid : Allocated(e) <= expense[e].amount) => TotalRemaining = debts

\* What the documentation says of ?status=PAID, with ?is_paid=true or without: it lists the
\* paid expenses.
PaidAreListed ==
  LET batch == [e \in Stored |-> Batch(e)]
  IN \A e \in Stored \ Unpaid, flag \in {"", "true"} :
       e \in Listed(batch, flag, "unpaid", "PAID")

\* The same without the exceptions: an expense looks on its page as it does in the list
\* (calculate_liquidity_metrics against batch_calculate_metrics).
PageIsList == \A e \in Stored : Batch(e) = Detail(e)

Cash(e) == Available(e, Balance(expense[e].category), AmountOf(Upstream(e)))

\* Paying an expense moves its amount from the queue to the withdrawals: those behind
\* it have the same cash available as before, whether it was overdue or not, and those
\* ahead of it have its amount less.
PayingKeepsDownstream ==
  [][\A e \in Unpaid : expense'[e] # Absent /\ expense'[e].is_paid =>
       \A f \in UnpaidIn(expense[e].category) \ {e} :
         Cash(f)' = Cash(f) - IF Before(e, f) THEN 0 ELSE 100 * expense[e].amount]_vars

\* Waiting never helps: a day on which nothing else happens makes no unpaid expense
\* look better, over the boundaries of the statuses and of the due date.
WaitingNeverHelps ==
  [][today' # today => \A e \in Unpaid :
       Severity(Detail(e).status) <= Severity(Detail(e)'.status)]_vars
=============================================================================
