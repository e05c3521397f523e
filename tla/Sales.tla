------------------------------- MODULE Sales -------------------------------
(***************************************************************************)
(* Sales, deposit orders and their settlement, the cheques received in     *)
(* sales and endorsed to expenses, and the customers' purchase totals.     *)
(*                                                                         *)
(* Creations, edits and settle() are @transaction.atomic: what they write  *)
(* is one commit.  What they READ before (get_object, select_related,      *)
(* filter().first(), the serializer's uniqueness query) may be stale by    *)
(* then, because only the customer's row is read with select_for_update.   *)
(* A handler with such a read is two or three steps; the others are one.   *)
(*                                                                         *)
(* Left out: items and their prices, names, dates, images, the customer's  *)
(* purchase_types; a request carries at most one cheque.                   *)
(***************************************************************************)
EXTENDS Integers

CONSTANTS
  Customers, Orders, SaleIds, ExpenseIds,  \* primary keys
  ChequeNumbers,                           \* unique in the table of cheques
  Workers,                                 \* gunicorn workers
  Prices,                                  \* total amounts that clients enter
  Parts,                                   \* deposits and discounts they enter; no minimum is set
  Payments,                                \* what they pay at once in a sale
  StatusInputs,                            \* order statuses that clients enter
  MaxAmount,                               \* the largest amount numeric(12,2) holds
  Endpoints,                               \* the endpoints clients call
  Absent, Idle, None

Statuses == {"PENDING", "DELIVERED", "CANCELLED"}

AllEndpoints ==
  {"create_customer", "update_customer", "destroy_customer",
   "create_sale", "update_sale", "destroy_sale",
   "create_order", "update_order", "destroy_order", "settle",
   "create_expense", "destroy_expense"}

ASSUME SalesAssumption ==
  /\ MaxAmount \in Nat
  /\ \A a \in Prices \cup Parts \cup Payments : a \in Int /\ a <= MaxAmount
  /\ StatusInputs \subseteq Statuses
  /\ Endpoints \subseteq AllEndpoints
  /\ None \notin Customers \cup SaleIds \cup ExpenseIds \cup ChequeNumbers
  /\ SaleIds \cap ExpenseIds = {}

VARIABLES
  customer,  \* Customer rows
  sale,      \* Sale rows with their payments
  order,     \* DepositOrder rows
  cheque,    \* Cheque rows by number
  expense,   \* the keys of the Expense rows
  job        \* what each worker has read and is about to write

tables == <<customer, sale, order, cheque, expense>>
vars == <<customer, sale, order, cheque, expense, job>>

\* What a numeric(12,2) column holds.
Column == {a \in Int : a <= MaxAmount}

CustomerRow == [total_purchase_amount : Column]

\* What stands for a row that is not there is none.
ASSUME SentinelAssumption == Absent \notin CustomerRow

\* paid: the amounts of the sale's Payment rows together; of_order: the order whose
\* settlement made the sale (settle() writes its id into the description).
SaleRow == [customer : Customers \cup {None}, total_amount : Int, remaining_balance : Int,
            paid : Int, of_order : Orders \cup {None}]

OrderRow == [customer : Customers, total_amount : Int, discount_amount : Int,
             deposit_paid : Int, remaining_debt : Int, status : Statuses,
             sale : SaleIds \cup {None}]

\* of: the sale or the expense whose request brought the cheque in, which tells apart
\* cheques that had the same number; payment: the sale whose payment the cheque names.
ChequeRow == [of : SaleIds \cup ExpenseIds, payment : SaleIds \cup {None},
              expense : ExpenseIds \cup {None}, is_endorsed : BOOLEAN]

\* What clients enter of a cheque besides its number.
ChequeInput == [expense : ExpenseIds \cup {None}, is_endorsed : BOOLEAN]

Job == [next : {"settle"}, id : Orders, row : OrderRow, customer_row : CustomerRow]
  \cup [next : {"save_order"}, id : Orders, row : OrderRow]
  \cup [next : {"save_sale"}, id : SaleIds, row : SaleRow]
  \cup [next : {"save_customer"}, id : Customers, row : CustomerRow]
  \cup [next : {"read_cheque", "record"}, id : ExpenseIds, number : ChequeNumbers,
        payment : SaleIds \cup {None}]
  \cup [next : {"endorse"}, id : ExpenseIds, number : ChequeNumbers,
        payment : SaleIds \cup {None}, row : ChequeRow \cup {Absent}]

-----------------------------------------------------------------------------
At(w, next) == job[w] # Idle /\ job[w].next = next
Begins(w, endpoint, j) ==
  /\ endpoint \in Endpoints
  /\ job[w] = Idle
  /\ job' = [job EXCEPT ![w] = j]
  /\ UNCHANGED tables
Done(w) == job' = [job EXCEPT ![w] = Idle]

\* A handler that reads nothing it could find changed: one step, no worker is held.
Atomically(endpoint) == endpoint \in Endpoints /\ UNCHANGED job

\* uuid4() never returns a key that a running handler still mentions.
Mentions(w) ==
  IF job[w] = Idle THEN {}
  ELSE {job[w].id} \cup
       CASE job[w].next \in {"settle", "save_order"} -> {job[w].row.sale, job[w].row.customer}
         [] job[w].next = "endorse" /\ job[w].row # Absent -> {job[w].row.of, job[w].row.payment}
         [] job[w].next \in {"read_cheque", "record", "endorse"} -> {job[w].payment}
         [] OTHER -> {}
Fresh(key) == \A w \in Workers : key \notin Mentions(w)
NewSale(s) == sale[s] = Absent /\ Fresh(s)

\* A foreign key to a payment of sale s, or none, can be written.
PaymentHolds(s) == s # None => sale[s] # Absent /\ sale[s].paid # 0

AtLeastZero(n) == IF n > 0 THEN n ELSE 0
SalesOf(k) == {s \in SaleIds : sale[s] # Absent /\ sale[s].customer = k}
OrdersOf(k) == {o \in Orders : order[o] # Absent /\ order[o].customer = k}

\* Slip: the debt of a new order is computed, that of an edited one is kept.
SavedAsGiven(r) == r

\* DepositOrder.save() recomputes the debt from the instance's other columns.
Saved(r) == [r EXCEPT !.remaining_debt =
               AtLeastZero(r.total_amount - r.discount_amount - r.deposit_paid)]

\* DepositOrderSerializer.validate(), on the request merged with the instance.
Valid(r) ==
  /\ r.discount_amount <= r.total_amount
  /\ r.deposit_paid <= r.total_amount - r.discount_amount

\* Slip: the customer is the one get_object() joined to the order.
PurchaseFromSnapshot(k, seen, amount) ==
  IF k = None THEN UNCHANGED customer
  ELSE /\ customer[k] # Absent
       /\ seen.total_purchase_amount + amount <= MaxAmount
       /\ customer' = [customer EXCEPT ![k] =
            [total_purchase_amount |-> seen.total_purchase_amount + amount]]

\* Slip: a total too wide for its column is stored.
PurchaseUnbounded(k, seen, amount) ==
  IF k = None THEN UNCHANGED customer
  ELSE /\ customer[k] # Absent
       /\ customer' = [customer EXCEPT ![k] =
            [total_purchase_amount |-> customer[k].total_purchase_amount + amount]]

\* The purchase is added to what the customer's row holds when it is locked, at the
\* end of the transaction; a total too wide for the column aborts it.
Purchase(k, seen, amount) ==
  IF k = None THEN UNCHANGED customer
  ELSE /\ customer[k] # Absent
       /\ customer[k].total_purchase_amount + amount <= MaxAmount
       /\ customer' = [customer EXCEPT ![k] =
            [total_purchase_amount |-> customer[k].total_purchase_amount + amount]]

-----------------------------------------------------------------------------
\* SaleSerializer.create(): the sale, its payments and the cheque one of them came
\* with (a number that is taken is refused), and the customer's total.  The client may
\* enter the cheque as endorsed already, for any expense or for none.
CreateSale(s, k, total, paid, c, entered) ==
  /\ Atomically("create_sale")
  /\ NewSale(s)
  /\ c # None => cheque[c] = Absent
  /\ entered.expense \in expense \cup {None}
  /\ Purchase(k, IF k = None THEN Absent ELSE customer[k], total)
  /\ sale' = [sale EXCEPT ![s] =
       [customer |-> k, total_amount |-> total,
        remaining_balance |-> AtLeastZero(total - paid), paid |-> paid, of_order |-> None]]
  /\ cheque' = IF c = None THEN cheque
               ELSE [cheque EXCEPT ![c] = [of |-> s, payment |-> s, expense |-> entered.expense,
                                           is_endorsed |-> entered.is_endorsed]]
  /\ UNCHANGED <<order, expense>>

\* PATCH of a sale: the default update(), every column of the loaded row but no
\* payment and no customer's total.
LoadSale(w, s, k, total) ==
  /\ sale[s] # Absent
  /\ k # None => customer[k] # Absent
  /\ Begins(w, "update_sale", [next |-> "save_sale", id |-> s,
       row |-> [sale[s] EXCEPT !.customer = k, !.total_amount = total]])
SaveSale(w) ==
  /\ At(w, "save_sale")
  /\ LET j == job[w]
         inserted == [j.row EXCEPT !.paid = 0]  \* its payments were deleted with it
     IN /\ j.row.customer # None => customer[j.row.customer] # Absent
        /\ sale' = [sale EXCEPT ![j.id] =
             IF @ = Absent THEN inserted ELSE [j.row EXCEPT !.paid = sale[j.id].paid]]
  /\ Done(w)
  /\ UNCHANGED <<customer, order, cheque, expense>>

\* DELETE cascades to the payments and their cheques, and unlinks the order.
DestroySale(s) ==
  /\ Atomically("destroy_sale")
  /\ sale[s] # Absent
  /\ sale' = [sale EXCEPT ![s] = Absent]
  /\ cheque' = [c \in ChequeNumbers |->
       IF cheque[c] # Absent /\ cheque[c].payment = s THEN Absent ELSE cheque[c]]
  /\ order' = [o \in Orders |->
       IF order[o] # Absent /\ order[o].sale = s THEN [order[o] EXCEPT !.sale = None]
       ELSE order[o]]
  /\ UNCHANGED <<customer, expense>>

-----------------------------------------------------------------------------
\* DepositOrderSerializer.create(); the client may set any status.
CreateOrder(o, r) ==
  /\ Atomically("create_order")
  /\ order[o] = Absent /\ Fresh(o) /\ \A s \in SaleIds : sale[s] # Absent => sale[s].of_order # o
  /\ customer[r.customer] # Absent
  /\ Valid(r)
  /\ order' = [order EXCEPT ![o] = Saved(r)]
  /\ UNCHANGED <<customer, sale, cheque, expense>>

\* PUT and PATCH: the request is merged into the loaded instance, validated, and
\* the whole instance saved, its status and its link to the sale included.
LoadOrder(w, o, r) ==
  /\ order[o] # Absent
  /\ Valid(r)
  /\ Begins(w, "update_order", [next |-> "save_order", id |-> o, row |-> r])
SaveOrder(w) ==
  /\ At(w, "save_order")
  /\ LET j == job[w] IN
       /\ customer[j.row.customer] # Absent
       /\ j.row.sale # None => sale[j.row.sale] # Absent
       /\ order' = [order EXCEPT ![j.id] = Saved(j.row)]
  /\ Done(w)
  /\ UNCHANGED <<customer, sale, cheque, expense>>

\* The sale an order has become stays when the order is deleted.
DestroyOrder(o) ==
  /\ Atomically("destroy_order")
  /\ order[o] # Absent
  /\ order' = [order EXCEPT ![o] = Absent]
  /\ UNCHANGED <<customer, sale, cheque, expense>>

\* settle(): get_object() with the customer joined, and the two refusals.
LoadSettle(w, o) ==
  /\ order[o] # Absent
  /\ order[o].status \notin {"DELIVERED", "CANCELLED"}
  /\ Begins(w, "settle", [next |-> "settle", id |-> o, row |-> order[o],
                          customer_row |-> customer[order[o].customer]])

\* Slip: the order's deposit_paid is overwritten before the payments are made.
CollectedLate(r) ==
  AtLeastZero(r.total_amount - r.discount_amount) + AtLeastZero(r.remaining_debt)

\* What settle() collects: one payment for the deposit and one for the debt.
Collected(r) == AtLeastZero(r.deposit_paid) + AtLeastZero(r.remaining_debt)

\* settle(): the sale with its payments, the order, the customer's total.
Settle(w, s) ==
  /\ At(w, "settle")
  /\ NewSale(s)
  /\ LET j == job[w]
         net == j.row.total_amount - j.row.discount_amount
     IN /\ sale' = [sale EXCEPT ![s] =
             [customer |-> j.row.customer, total_amount |-> net, remaining_balance |-> 0,
              paid |-> Collected(j.row), of_order |-> j.id]]
        /\ order' = [order EXCEPT ![j.id] =
             Saved([j.row EXCEPT !.sale = s, !.status = "DELIVERED", !.deposit_paid = net])]
        /\ Purchase(j.row.customer, j.customer_row, net)
  /\ Done(w)
  /\ UNCHANGED <<cheque, expense>>

-----------------------------------------------------------------------------
CreateCustomer(k, opening) ==
  /\ Atomically("create_customer")
  /\ customer[k] = Absent /\ Fresh(k)
  /\ customer' = [customer EXCEPT ![k] = [total_purchase_amount |-> opening]]
  /\ UNCHANGED <<sale, order, cheque, expense>>

\* PATCH keeps the loaded total unless one is sent; PUT without one resets it to 0.
LoadCustomer(w, k, total) ==
  /\ customer[k] # Absent
  /\ Begins(w, "update_customer", [next |-> "save_customer", id |-> k,
                                   row |-> [total_purchase_amount |-> total]])
SaveCustomer(w) ==
  /\ At(w, "save_customer")
  /\ customer' = [customer EXCEPT ![job[w].id] = job[w].row]
  /\ Done(w)
  /\ UNCHANGED <<sale, order, cheque, expense>>

\* PROTECT: refused while a sale or an order names the customer.
DestroyCustomer(k) ==
  /\ Atomically("destroy_customer")
  /\ customer[k] # Absent
  /\ SalesOf(k) = {} /\ OrdersOf(k) = {}
  /\ customer' = [customer EXCEPT ![k] = Absent]
  /\ UNCHANGED <<sale, order, cheque, expense>>

-----------------------------------------------------------------------------
\* ExpenseSerializer without a cheque.
CreateExpense(x) ==
  /\ Atomically("create_expense")
  /\ x \notin expense /\ Fresh(x)
  /\ expense' = expense \cup {x}
  /\ UNCHANGED <<customer, sale, order, cheque>>

\* ... with one: the nested serializer's UniqueValidator refuses a number that is
\* in the table, also when the request is to endorse that very cheque.  The client may
\* name a payment; one that names an expense as well gets an error from create().
ValidateExpense(w, x, c, endorsed, payment) ==
  /\ x \notin expense /\ Fresh(x)
  /\ cheque[c] = Absent
  /\ PaymentHolds(payment)
  /\ Begins(w, "create_expense", [next |-> IF endorsed THEN "read_cheque" ELSE "record",
                                  id |-> x, number |-> c, payment |-> payment])

\* create(), not endorsed: refused when the number is taken by now.
RecordCheque(w) ==
  /\ At(w, "record")
  /\ LET j == job[w] IN
       /\ cheque[j.number] = Absent
       /\ PaymentHolds(j.payment)
       /\ expense' = expense \cup {j.id}
       /\ cheque' = [cheque EXCEPT ![j.number] =
                       [of |-> j.id, payment |-> j.payment, expense |-> j.id,
                        is_endorsed |-> FALSE]]
  /\ Done(w)
  /\ UNCHANGED <<customer, sale, order>>

\* create(), endorsed: existing = filter(cheque_number).first(), without a lock.
ReadCheque(w) ==
  /\ At(w, "read_cheque")
  /\ LET j == job[w] IN
       job' = [job EXCEPT ![w] = [next |-> "endorse", id |-> j.id, number |-> j.number,
                                  payment |-> j.payment, row |-> cheque[j.number]]]
  /\ UNCHANGED tables

\* ... then existing.save(), which keeps its payment and re-inserts a deleted cheque if
\* that is still there, or, when none was found, a new cheque.
EndorseCheque(w) ==
  /\ At(w, "endorse")
  /\ LET j == job[w]
         new == IF j.row = Absent
                THEN [of |-> j.id, payment |-> j.payment, expense |-> j.id, is_endorsed |-> TRUE]
                ELSE [j.row EXCEPT !.expense = j.id, !.is_endorsed = TRUE]
     IN /\ IF j.row = Absent THEN cheque[j.number] = Absent
           ELSE cheque[j.number] # Absent => cheque[j.number].of = j.row.of
        /\ PaymentHolds(new.payment)
        /\ expense' = expense \cup {j.id}
        /\ cheque' = [cheque EXCEPT ![j.number] = new]
  /\ Done(w)
  /\ UNCHANGED <<customer, sale, order>>

\* Slip: the cheque of a deleted expense is kept.
DestroyExpenseOnly(x) ==
  /\ Atomically("destroy_expense")
  /\ x \in expense
  /\ expense' = expense \ {x}
  /\ cheque' = [c \in ChequeNumbers |->
       IF cheque[c] # Absent /\ cheque[c].expense = x THEN [cheque[c] EXCEPT !.expense = None]
       ELSE cheque[c]]
  /\ UNCHANGED <<customer, sale, order>>

\* DELETE cascades to the expense's cheques, received in a sale or not.
DestroyExpense(x) ==
  /\ Atomically("destroy_expense")
  /\ x \in expense
  /\ expense' = expense \ {x}
  /\ cheque' = [c \in ChequeNumbers |->
       IF cheque[c] # Absent /\ cheque[c].expense = x THEN Absent ELSE cheque[c]]
  /\ UNCHANGED <<customer, sale, order>>

\* The worker is killed, or the database refuses what it writes.
Rollback(w) == job[w] # Idle /\ Done(w) /\ UNCHANGED tables

-----------------------------------------------------------------------------
Init ==
  /\ customer = [k \in Customers |-> Absent]
  /\ sale = [s \in SaleIds |-> Absent]
  /\ order = [o \in Orders |-> Absent]
  /\ cheque = [c \in ChequeNumbers |-> Absent]
  /\ expense = {}
  /\ job = [w \in Workers |-> Idle]

\* What clients do: inputs are drawn from the small sets of the constants.
SaleRequest ==
  \/ \E s \in SaleIds, k \in Customers \cup {None}, total \in Prices,
        paid \in Payments, c \in ChequeNumbers \cup {None}, entered \in ChequeInput :
       CreateSale(s, k, total, paid, c, entered)
  \/ \E w \in Workers, s \in SaleIds, k \in Customers \cup {None}, total \in Prices :
       LoadSale(w, s, k, total)
  \/ \E s \in SaleIds : DestroySale(s)

OrderRequest ==
  \/ \E o \in Orders, k \in Customers, total \in Prices,
        discount, paid \in Parts, status \in StatusInputs \cup {"PENDING"} :
       CreateOrder(o, [customer |-> k, total_amount |-> total, discount_amount |-> discount,
                       deposit_paid |-> paid, remaining_debt |-> 0, status |-> status,
                       sale |-> None])
  \/ \E w \in Workers, o \in Orders, status \in StatusInputs :
       order[o] # Absent /\ LoadOrder(w, o, [order[o] EXCEPT !.status = status])
  \/ \E w \in Workers, o \in Orders, total \in Prices, paid \in Parts :
       order[o] # Absent
         /\ LoadOrder(w, o, [order[o] EXCEPT !.total_amount = total, !.deposit_paid = paid])
  \/ \E w \in Workers, o \in Orders : LoadSettle(w, o)
  \/ \E o \in Orders : DestroyOrder(o)

CustomerRequest ==
  \/ \E k \in Customers, opening \in {0} : CreateCustomer(k, opening)
  \/ \E w \in Workers, k \in Customers :
       \/ customer[k] # Absent /\ LoadCustomer(w, k, customer[k].total_purchase_amount)
       \/ LoadCustomer(w, k, 0)
  \/ \E k \in Customers : DestroyCustomer(k)

ExpenseRequest ==
  \/ \E x \in ExpenseIds : CreateExpense(x)
  \/ \E w \in Workers, x \in ExpenseIds, c \in ChequeNumbers, endorsed \in BOOLEAN,
        payment \in SaleIds \cup {None} :
       ValidateExpense(w, x, c, endorsed, payment)
  \/ \E x \in ExpenseIds : DestroyExpense(x)

Step(w) ==
  \/ SaveSale(w)
  \/ SaveOrder(w)
  \/ \E s \in SaleIds : Settle(w, s)
  \/ SaveCustomer(w)
  \/ RecordCheque(w)
  \/ ReadCheque(w)
  \/ EndorseCheque(w)
  \/ Rollback(w)

Next == SaleRequest \/ OrderRequest \/ CustomerRequest \/ ExpenseRequest
        \/ \E w \in Workers : Step(w)

Spec == Init /\ [][Next]_vars

-----------------------------------------------------------------------------
TypeOK ==
  /\ customer \in [Customers -> CustomerRow \cup {Absent}]
  /\ sale \in [SaleIds -> SaleRow \cup {Absent}]
  /\ order \in [Orders -> OrderRow \cup {Absent}]
  /\ cheque \in [ChequeNumbers -> ChequeRow \cup {Absent}]
  /\ expense \in SUBSET ExpenseIds
  /\ job \in [Workers -> Job \cup {Idle}]

\* What is paid and what is owed make up the price of every order, whichever of
\* two overlapping edits and settlements was saved last: each saves one validated
\* snapshot whole (serializers.py:460-467, models.py:521-528).
OrderBalanced ==
  \A o \in Orders : order[o] # Absent =>
    order[o].deposit_paid + order[o].remaining_debt
      = order[o].total_amount - order[o].discount_amount

\* The payments that a settlement books make up the sale's amount, whatever snapshot of
\* the order it has: a deposit and a debt that were split otherwise meanwhile are neither
\* lost nor booked twice; only a deposit below zero is collected on top (views.py:1352-1370).
SettlementCollectsNet ==
  [][\A w \in Workers, s \in SaleIds :
       At(w, "settle") /\ job'[w] = Idle /\ NewSale(s) /\ sale'[s] # Absent =>
         sale'[s].paid = sale'[s].total_amount + AtLeastZero(-job[w].row.deposit_paid)]_vars

\* A sale or settlement raises its customer's total by exactly its amount over what
\* other transactions have committed meanwhile (serializers.py:317, views.py:1378).
EverySaleCounted ==
  [][\A s \in SaleIds :
       NewSale(s) /\ sale'[s] # Absent /\ sale'[s].customer # None
         => LET k == sale'[s].customer IN
              customer'[k].total_purchase_amount
                = customer[k].total_purchase_amount + sale'[s].total_amount]_vars

\* A cheque that is in the table changes only by being endorsed: whatever stale row of it
\* is saved and whichever rows are deleted meanwhile, it is marked, and given to an expense
\* that is recorded with it (serializers.py:370-380, models.py:309).
EndorsedWithExpense ==
  [][\A c \in ChequeNumbers :
       cheque[c] # Absent /\ cheque'[c] # Absent /\ cheque'[c] # cheque[c] =>
         cheque'[c].is_endorsed /\ cheque'[c].expense \in expense' \ expense]_vars

\* "This order has already been settled": no order becomes two sales.
OneSalePerOrder ==
  \A s, t \in SaleIds :
    sale[s] # Absent /\ sale[t] # Absent /\ sale[s].of_order = sale[t].of_order
      /\ sale[s].of_order # None => s = t
=============================================================================
