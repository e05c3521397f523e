---------------------------- MODULE Sales_proofs ----------------------------
(***************************************************************************)
(* For any tables, workers and inputs, negative amounts included: every    *)
(* order's books balance, every settlement collects the net price and any  *)
(* deposit below zero, every sale is counted in its customer's total,      *)
(* every row has its type, and a cheque that is in the table changes only  *)
(* by being endorsed to an expense that is recorded with it.               *)
(***************************************************************************)
EXTENDS Sales, TLAPS

\* The books of an order row: what save() left in it, of validated columns.
Balanced(r) ==
  /\ Valid(r)
  /\ r.remaining_debt = AtLeastZero(r.total_amount - r.discount_amount - r.deposit_paid)

\* A worker is about to save validated columns, or to settle a balanced order.
Sound(j) ==
  /\ j.next \in {"settle", "save_order"} => j.id \in Orders /\ j.row \in OrderRow /\ Valid(j.row)
  /\ j.next = "settle" => Balanced(j.row)

\* OrderBalanced says nothing of the snapshots; those it must be saved from are sound.
BooksInv ==
  /\ order \in [Orders -> OrderRow \cup {Absent}]
  /\ \A o \in Orders : order[o] # Absent => Balanced(order[o])
  /\ job = [w \in Workers |-> job[w]]
  /\ \A w \in Workers : job[w] # Idle => Sound(job[w])

\* Saving a validated instance leaves a balanced row (models.py:521-528).
LEMMA SavedIsBalanced ==
  ASSUME NEW r \in OrderRow, Valid(r)
  PROVE  Saved(r) \in OrderRow /\ Balanced(Saved(r))
<1> DEFINE debt == AtLeastZero(r.total_amount - r.discount_amount - r.deposit_paid)
<1>1. debt \in Int  BY DEF OrderRow, AtLeastZero
<1>2. Saved(r) = [r EXCEPT !.remaining_debt = debt]  BY DEF Saved
<1> HIDE DEF debt
<1>3. [r EXCEPT !.remaining_debt = debt] \in OrderRow  BY <1>1 DEF OrderRow
<1>4. /\ Saved(r).total_amount = r.total_amount
      /\ Saved(r).discount_amount = r.discount_amount
      /\ Saved(r).deposit_paid = r.deposit_paid
      /\ Saved(r).remaining_debt = debt
  BY <1>1, <1>2 DEF OrderRow
<1> QED  BY <1>2, <1>3, <1>4 DEF Balanced, Valid, debt

\* A settled row is still valid: nothing is owed on it.
LEMMA SettledIsValid ==
  ASSUME NEW r \in OrderRow, NEW s \in SaleIds, Valid(r)
  PROVE  LET new == [r EXCEPT !.sale = s, !.status = "DELIVERED",
                              !.deposit_paid = r.total_amount - r.discount_amount]
         IN  new \in OrderRow /\ Valid(new)
<1> DEFINE net == r.total_amount - r.discount_amount
           r1 == [r EXCEPT !.sale = s]
           r2 == [r1 EXCEPT !.status = "DELIVERED"]
           r3 == [r2 EXCEPT !.deposit_paid = net]
<1>1. net \in Int  BY DEF OrderRow
<1>2. r1 \in OrderRow /\ r1.total_amount = r.total_amount /\ r1.discount_amount = r.discount_amount
  BY DEF OrderRow
<1>3. [r EXCEPT !.sale = s, !.status = "DELIVERED", !.deposit_paid = net] = r3
  BY DEF OrderRow
<1> HIDE DEF r1
<1>4. r2 \in OrderRow /\ r2.total_amount = r.total_amount /\ r2.discount_amount = r.discount_amount
  BY <1>2 DEF OrderRow, Statuses
<1> HIDE DEF r2, net
<1>5. r3 \in OrderRow /\ r3.total_amount = r.total_amount /\ r3.discount_amount = r.discount_amount
        /\ r3.deposit_paid = net
  BY <1>1, <1>4 DEF OrderRow
<1> HIDE DEF r3
<1>6. Valid(r3)
  <2>1. r3.deposit_paid = r3.total_amount - r3.discount_amount  BY <1>5 DEF net
  <2>2. r.discount_amount <= r.total_amount  BY DEF Valid
  <2> QED  BY <1>5, <2>1, <2>2 DEF Valid, OrderRow
<1> QED  BY <1>3, <1>5, <1>6 DEF net

\* Putting a job without an order on a worker, or taking its job, keeps BooksInv.
LEMMA OtherJobs ==
  ASSUME BooksInv, UNCHANGED order, NEW w \in Workers, NEW j,
         j = Idle \/ Sound(j), job' = [job EXCEPT ![w] = j]
  PROVE  BooksInv'
<1>1. job' = [v \in Workers |-> IF v = w THEN j ELSE job[v]]  BY DEF BooksInv
<1> HIDE DEF Sound
<1>2. job' = [v \in Workers |-> job'[v]]  BY <1>1
<1>3. \A v \in Workers : job'[v] # Idle => Sound(job'[v])  BY <1>1 DEF BooksInv
<1> QED  BY <1>2, <1>3 DEF BooksInv

\* Saving a sound instance over order o keeps BooksInv.
LEMMA SavesOrder ==
  ASSUME BooksInv, NEW w \in Workers, NEW o \in Orders, NEW r \in OrderRow, Valid(r),
         order' = [order EXCEPT ![o] = Saved(r)], Done(w)
  PROVE  BooksInv'
<1>1. Saved(r) \in OrderRow /\ Balanced(Saved(r))  BY SavedIsBalanced
<1>2. order' \in [Orders -> OrderRow \cup {Absent}]  BY <1>1 DEF BooksInv
<1>3. \A p \in Orders : order'[p] # Absent => Balanced(order'[p])
  BY <1>1 DEF BooksInv
<1>4. job' = [v \in Workers |-> IF v = w THEN Idle ELSE job[v]]  BY DEF BooksInv, Done
<1>5. job' = [v \in Workers |-> job'[v]]  BY <1>4
<1>6. \A v \in Workers : job'[v] # Idle => Sound(job'[v])  BY <1>4 DEF BooksInv
<1> QED  BY <1>2, <1>3, <1>5, <1>6 DEF BooksInv

\* Orders of which only the link to a sale is changed stay balanced.
LEMMA UnlinkKeeps ==
  ASSUME BooksInv, UNCHANGED job, NEW s \in SaleIds,
         order' = [o \in Orders |->
           IF order[o] # Absent /\ order[o].sale = s THEN [order[o] EXCEPT !.sale = None]
           ELSE order[o]]
  PROVE  BooksInv'
<1>1. ASSUME NEW r \in OrderRow, Balanced(r)
      PROVE  [r EXCEPT !.sale = None] \in OrderRow /\ Balanced([r EXCEPT !.sale = None])
  BY <1>1 DEF OrderRow, Balanced, Valid, AtLeastZero
<1>2. \A o \in Orders : order'[o] \in OrderRow \cup {Absent}
                          /\ (order'[o] # Absent => Balanced(order'[o]))
  BY <1>1 DEF BooksInv
<1> QED  BY <1>2 DEF BooksInv

\* The snapshot get_object() takes for settle() is sound.
LEMMA LoadSettleKeeps ==
  ASSUME BooksInv, NEW w \in Workers, NEW o \in Orders, LoadSettle(w, o)
  PROVE  BooksInv'
<1> DEFINE j == [next |-> "settle", id |-> o, row |-> order[o],
                 customer_row |-> customer[order[o].customer]]
<1>1. order[o] \in OrderRow /\ Balanced(order[o])  BY DEF BooksInv, LoadSettle
<1>2. Sound(j)  BY <1>1 DEF Sound, Balanced
<1>3. UNCHANGED order /\ job' = [job EXCEPT ![w] = j]  BY DEF LoadSettle, Begins, tables
<1> QED  BY <1>2, <1>3, OtherJobs

\* So is the instance that validate() has accepted for an edit.
LEMMA LoadOrderKeeps ==
  ASSUME BooksInv, NEW w \in Workers, NEW o \in Orders, NEW r \in OrderRow,
         LoadOrder(w, o, r)
  PROVE  BooksInv'
<1> DEFINE j == [next |-> "save_order", id |-> o, row |-> r]
<1>1. Sound(j)  BY DEF Sound, LoadOrder
<1>2. UNCHANGED order /\ job' = [job EXCEPT ![w] = j]  BY DEF LoadOrder, Begins, tables
<1> QED  BY <1>1, <1>2, OtherJobs

LEMMA SettleKeeps ==
  ASSUME BooksInv, NEW w \in Workers, NEW s \in SaleIds, Settle(w, s)
  PROVE  BooksInv'
<1> DEFINE r == job[w].row
           new == [r EXCEPT !.sale = s, !.status = "DELIVERED",
                            !.deposit_paid = r.total_amount - r.discount_amount]
<1>1. job[w].id \in Orders /\ r \in OrderRow /\ Valid(r)
  BY DEF BooksInv, Sound, Settle, At
<1>2. new \in OrderRow /\ Valid(new)  BY <1>1, SettledIsValid
<1>3. order' = [order EXCEPT ![job[w].id] = Saved(new)] /\ Done(w)  BY DEF Settle
<1> HIDE DEF new
<1> QED  BY <1>1, <1>2, <1>3, SavesOrder

LEMMA SaveOrderKeeps ==
  ASSUME BooksInv, NEW w \in Workers, SaveOrder(w)
  PROVE  BooksInv'
<1>1. job[w].id \in Orders /\ job[w].row \in OrderRow /\ Valid(job[w].row)
  BY DEF BooksInv, Sound, SaveOrder, At
<1>2. order' = [order EXCEPT ![job[w].id] = Saved(job[w].row)] /\ Done(w)  BY DEF SaveOrder
<1> QED  BY <1>1, <1>2, SavesOrder

LEMMA CreateOrderKeeps ==
  ASSUME BooksInv, NEW o \in Orders, NEW r \in OrderRow,
         CreateOrder(o, r)
  PROVE  BooksInv'
<1>1. Saved(r) \in OrderRow /\ Balanced(Saved(r))
  BY SavedIsBalanced DEF CreateOrder
<1>2. order' = [order EXCEPT ![o] = Saved(r)] /\ UNCHANGED job  BY DEF CreateOrder, Atomically
<1> QED  BY <1>1, <1>2 DEF BooksInv

\* What an edit of the amounts makes of the instance.
LEMMA EditedAmounts ==
  ASSUME NEW r \in OrderRow, NEW total \in Int, NEW paid \in Int
  PROVE  LET new == [r EXCEPT !.total_amount = total, !.deposit_paid = paid]
         IN  new \in OrderRow /\ new.deposit_paid = paid
<1> DEFINE r1 == [r EXCEPT !.total_amount = total]
<1>1. r1 \in OrderRow  BY DEF OrderRow
<1>2. [r EXCEPT !.total_amount = total, !.deposit_paid = paid] = [r1 EXCEPT !.deposit_paid = paid]
  BY DEF OrderRow
<1> HIDE DEF r1
<1>3. [r1 EXCEPT !.deposit_paid = paid] \in OrderRow
        /\ [r1 EXCEPT !.deposit_paid = paid].deposit_paid = paid
  BY <1>1 DEF OrderRow
<1> QED  BY <1>2, <1>3

LEMMA OrderRequestKeeps ==
  ASSUME SalesAssumption, BooksInv, OrderRequest PROVE BooksInv'
<1>1. ASSUME NEW o \in Orders, NEW k \in Customers, NEW total \in Prices,
             NEW discount \in Parts, NEW paid \in Parts, NEW status \in StatusInputs \cup {"PENDING"},
             CreateOrder(o, [customer |-> k, total_amount |-> total, discount_amount |-> discount,
                             deposit_paid |-> paid, remaining_debt |-> 0, status |-> status,
                             sale |-> None])
      PROVE  BooksInv'
  <2> DEFINE r == [customer |-> k, total_amount |-> total, discount_amount |-> discount,
                   deposit_paid |-> paid, remaining_debt |-> 0, status |-> status, sale |-> None]
  <2>1. r \in OrderRow  BY <1>1 DEF OrderRow, Statuses, SalesAssumption
  <2> QED  BY <1>1, <2>1, CreateOrderKeeps
<1>2. ASSUME NEW w \in Workers, NEW o \in Orders, NEW status \in StatusInputs,
             order[o] # Absent, LoadOrder(w, o, [order[o] EXCEPT !.status = status])
      PROVE  BooksInv'
  <2> DEFINE r == [order[o] EXCEPT !.status = status]
  <2>1. order[o] \in OrderRow /\ Balanced(order[o])  BY <1>2 DEF BooksInv
  <2>2. r \in OrderRow  BY <2>1 DEF OrderRow, Statuses, SalesAssumption
  <2> HIDE DEF r
  <2>3. LoadOrder(w, o, r)  BY <1>2 DEF r
  <2> QED  BY <2>2, <2>3, LoadOrderKeeps
<1>3. ASSUME NEW w \in Workers, NEW o \in Orders, NEW total \in Prices, NEW paid \in Parts,
             order[o] # Absent,
             LoadOrder(w, o, [order[o] EXCEPT !.total_amount = total, !.deposit_paid = paid])
      PROVE  BooksInv'
  <2> DEFINE r == [order[o] EXCEPT !.total_amount = total, !.deposit_paid = paid]
  <2>1. order[o] \in OrderRow  BY <1>3 DEF BooksInv
  <2>2. total \in Int /\ paid \in Int  BY <1>3 DEF SalesAssumption
  <2>3. r \in OrderRow  BY <2>1, <2>2, EditedAmounts, ZenonT(30)
  <2> HIDE DEF r
  <2>4. LoadOrder(w, o, r)  BY <1>3 DEF r
  <2> QED  BY <2>3, <2>4, LoadOrderKeeps
<1>4. ASSUME NEW o \in Orders, DestroyOrder(o) PROVE BooksInv'
  BY <1>4 DEF DestroyOrder, Atomically, BooksInv
<1> QED  BY <1>1, <1>2, <1>3, <1>4, LoadSettleKeeps DEF OrderRequest

\* A job that concerns no order.
LEMMA OtherRequestsKeep ==
  ASSUME BooksInv, SaleRequest \/ CustomerRequest \/ ExpenseRequest PROVE BooksInv'
<1>1. ASSUME NEW w \in Workers, NEW endpoint, NEW j,
             j.next \notin {"settle", "save_order"}, Begins(w, endpoint, j)
      PROVE  BooksInv'
  <2>1. Sound(j)  BY <1>1 DEF Sound
  <2>2. UNCHANGED order /\ job' = [job EXCEPT ![w] = j]  BY <1>1 DEF Begins, tables
  <2> QED  BY <2>1, <2>2, OtherJobs
<1>2. ASSUME UNCHANGED <<order, job>> PROVE BooksInv'
  BY <1>2 DEF BooksInv
<1>3. CASE SaleRequest
  <2>1. ASSUME NEW s \in SaleIds, DestroySale(s) PROVE BooksInv'
    BY <2>1, UnlinkKeeps DEF DestroySale, Atomically
  <2>2. ASSUME NEW s \in SaleIds, NEW k, NEW total, NEW paid, NEW c, NEW e,
               CreateSale(s, k, total, paid, c, e)
        PROVE  BooksInv'
    BY <2>2, <1>2 DEF CreateSale, Atomically
  <2>3. ASSUME NEW w \in Workers, NEW s \in SaleIds, NEW k, NEW total, LoadSale(w, s, k, total)
        PROVE  BooksInv'
    BY <2>3, <1>1 DEF LoadSale
  <2> QED  BY <1>3, <2>1, <2>2, <2>3 DEF SaleRequest
<1>4. CASE CustomerRequest
  <2>1. ASSUME NEW k, NEW opening, CreateCustomer(k, opening) PROVE BooksInv'
    BY <2>1, <1>2 DEF CreateCustomer, Atomically
  <2>2. ASSUME NEW w \in Workers, NEW k, NEW total, LoadCustomer(w, k, total) PROVE BooksInv'
    BY <2>2, <1>1 DEF LoadCustomer
  <2>3. ASSUME NEW k, DestroyCustomer(k) PROVE BooksInv'
    BY <2>3, <1>2 DEF DestroyCustomer, Atomically
  <2> QED  BY <1>4, <2>1, <2>2, <2>3 DEF CustomerRequest
<1>5. CASE ExpenseRequest
  <2>1. ASSUME NEW x, CreateExpense(x) \/ DestroyExpense(x) PROVE BooksInv'
    BY <2>1, <1>2 DEF CreateExpense, DestroyExpense, Atomically
  <2>2. ASSUME NEW w \in Workers, NEW x, NEW c, NEW endorsed, NEW payment,
               ValidateExpense(w, x, c, endorsed, payment)
        PROVE  BooksInv'
    BY <2>2, <1>1 DEF ValidateExpense
  <2> QED  BY <1>5, <2>1, <2>2 DEF ExpenseRequest
<1> QED  BY <1>3, <1>4, <1>5

LEMMA StepKeeps ==
  ASSUME BooksInv, NEW w \in Workers, Step(w) PROVE BooksInv'
<1>1. ASSUME UNCHANGED order, Done(w) PROVE BooksInv'
  BY <1>1, OtherJobs DEF Done
<1>2. CASE ReadCheque(w)
  <2> DEFINE j == [next |-> "endorse", id |-> job[w].id, number |-> job[w].number,
                   payment |-> job[w].payment, row |-> cheque[job[w].number]]
  <2>1. Sound(j)  BY DEF Sound
  <2>2. UNCHANGED order /\ job' = [job EXCEPT ![w] = j]  BY <1>2 DEF ReadCheque, tables
  <2> QED  BY <2>1, <2>2, OtherJobs
<1>3. CASE SaveSale(w) \/ SaveCustomer(w) \/ RecordCheque(w) \/ EndorseCheque(w) \/ Rollback(w)
  BY <1>1, <1>3 DEF SaveSale, SaveCustomer, RecordCheque, EndorseCheque, Rollback, tables
<1> QED  BY <1>2, <1>3, SettleKeeps, SaveOrderKeeps DEF Step

LEMMA BooksInvHolds == Spec => []BooksInv
<1>1. Init => BooksInv  BY DEF Init, BooksInv
<1>2. BooksInv /\ [Next]_vars => BooksInv'
  <2>1. ASSUME BooksInv, UNCHANGED vars PROVE BooksInv'
    BY <2>1 DEF vars, BooksInv
  <2> QED  BY <2>1, SalesAssumption, OrderRequestKeeps, OtherRequestsKeep, StepKeeps DEF Next
<1> QED  BY <1>1, <1>2, PTL DEF Spec

\* Every order's deposit and debt make up its net price, whatever stale snapshots
\* of it are saved in whatever order.
THEOREM OrderBalancedHolds == Spec => []OrderBalanced
<1>1. BooksInv => OrderBalanced
  BY DEF BooksInv, OrderBalanced, Balanced, Valid, OrderRow, AtLeastZero
<1> QED  BY <1>1, BooksInvHolds, PTL

\* The tables of sales and customers are functions of their keys.
TablesInv ==
  /\ sale = [s \in SaleIds |-> sale[s]]
  /\ customer = [k \in Customers |-> customer[k]]

LEMMA TablesInvHolds == Spec => []TablesInv
<1>1. Init => TablesInv  BY DEF Init, TablesInv
<1>2. TablesInv /\ [Next]_vars => TablesInv'
  <2> SUFFICES ASSUME TablesInv, [Next]_vars PROVE TablesInv'  OBVIOUS
  <2>1. ASSUME UNCHANGED <<sale, customer>> PROVE TablesInv'  BY <2>1 DEF TablesInv
  <2>2. ASSUME NEW k, NEW seen, NEW amount, Purchase(k, seen, amount)
        PROVE  customer' = [h \in Customers |-> customer'[h]]
    BY <2>2 DEF Purchase, TablesInv
  <2>3. CASE UNCHANGED vars  BY <2>3, <2>1 DEF vars
  <2>4. CASE SaleRequest
    <3>1. ASSUME NEW s \in SaleIds, NEW k, NEW total, NEW paid, NEW c, NEW e,
                 CreateSale(s, k, total, paid, c, e)
          PROVE  TablesInv'
      BY <3>1, <2>2 DEF CreateSale, TablesInv
    <3>2. ASSUME NEW s \in SaleIds, DestroySale(s) PROVE TablesInv'
      BY <3>2 DEF DestroySale, TablesInv
    <3> QED  BY <2>4, <3>1, <3>2, <2>1 DEF SaleRequest, LoadSale, Begins, tables
  <2>5. CASE OrderRequest
    BY <2>5, <2>1, ZenonT(30)
    DEF OrderRequest, CreateOrder, LoadOrder, LoadSettle, DestroyOrder, Begins, tables
  <2>6. CASE CustomerRequest
    BY <2>6, <2>1 DEF CustomerRequest, CreateCustomer, LoadCustomer, DestroyCustomer, Begins, tables,
                      TablesInv
  <2>7. CASE ExpenseRequest
    BY <2>7, <2>1 DEF ExpenseRequest, CreateExpense, ValidateExpense, DestroyExpense, Begins, tables
  <2>8. ASSUME NEW w \in Workers, Step(w) PROVE TablesInv'
    <3>1. CASE \E s \in SaleIds : Settle(w, s)  BY <3>1, <2>2 DEF Settle, TablesInv
    <3>2. CASE SaveSale(w)  BY <3>2 DEF SaveSale, TablesInv
    <3>3. CASE SaveCustomer(w)  BY <3>3 DEF SaveCustomer, TablesInv
    <3> QED  BY <2>8, <3>1, <3>2, <3>3, <2>1
             DEF Step, SaveOrder, RecordCheque, ReadCheque, EndorseCheque, Rollback, tables
  <2> QED  BY <2>3, <2>4, <2>5, <2>6, <2>7, <2>8 DEF Next
<1> QED  BY <1>1, <1>2, PTL DEF Spec

\* Only create() and settle() bring a new key into the table of sales.
LEMMA NewSales ==
  ASSUME TablesInv, [Next]_vars, NEW s \in SaleIds, NewSale(s), sale'[s] # Absent
  PROVE  \/ \E k \in Customers \cup {None}, total \in Prices, paid \in Payments,
               c \in ChequeNumbers \cup {None}, e \in ChequeInput :
                 CreateSale(s, k, total, paid, c, e)
         \/ \E w \in Workers : Settle(w, s)
<1>1. ~ UNCHANGED sale  BY DEF NewSale
<1>2. ASSUME NEW t \in SaleIds, DestroySale(t) PROVE FALSE
  BY <1>2 DEF DestroySale, TablesInv, NewSale
<1>3. ASSUME NEW w \in Workers, SaveSale(w) PROVE FALSE
  <2>1. job[w] # Idle /\ (s # job[w].id => sale'[s] = sale[s])
    BY <1>3 DEF SaveSale, At, TablesInv
  <2>2. s = job[w].id  BY <2>1 DEF NewSale
  <2>3. job[w].id \in Mentions(w)  BY <2>1 DEF Mentions
  <2> QED  BY <2>2, <2>3 DEF NewSale, Fresh
<1>4. ASSUME NEW t \in SaleIds, NEW k, NEW total, NEW paid, NEW c, NEW e,
             CreateSale(t, k, total, paid, c, e)
      PROVE  s = t
  BY <1>4 DEF CreateSale, TablesInv, NewSale
<1>5. ASSUME NEW w \in Workers, NEW t \in SaleIds, Settle(w, t) PROVE s = t
  BY <1>5 DEF Settle, TablesInv, NewSale
<1>6. ~ (UNCHANGED vars \/ OrderRequest \/ CustomerRequest \/ ExpenseRequest)
  BY <1>1, ZenonT(30)
     DEF vars, OrderRequest, CreateOrder, LoadOrder, LoadSettle, DestroyOrder, CustomerRequest,
              CreateCustomer, LoadCustomer, DestroyCustomer, ExpenseRequest, CreateExpense,
              ValidateExpense, DestroyExpense, Begins, tables
<1>7. CASE SaleRequest
  BY <1>1, <1>2, <1>4, <1>7 DEF SaleRequest, LoadSale, Begins, tables
<1>8. CASE \E w \in Workers : Step(w)
  BY <1>1, <1>3, <1>5, <1>8
     DEF Step, SaveOrder, SaveCustomer, RecordCheque, ReadCheque, EndorseCheque, Rollback, tables
<1> QED  BY <1>6, <1>7, <1>8 DEF Next

\* What settle() collects of a balanced snapshot is its net price, and any negative deposit.
LEMMA CollectedIsNet ==
  ASSUME NEW r \in OrderRow, Balanced(r)
  PROVE  Collected(r) = (r.total_amount - r.discount_amount) + AtLeastZero(-r.deposit_paid)
BY DEF Balanced, Valid, Collected, AtLeastZero, OrderRow

\* The payments of a settlement make up the sale's amount, from whatever snapshot of the
\* order it works and whatever amounts are entered; what is left of a deposit below zero
\* is collected on top of it.
THEOREM SettlementCollects == Spec => SettlementCollectsNet
<1>1. ASSUME BooksInv, TablesInv, [Next]_vars, NEW w \in Workers, NEW s \in SaleIds,
             At(w, "settle"), job'[w] = Idle, NewSale(s), sale'[s] # Absent
      PROVE  sale'[s].paid = sale'[s].total_amount + AtLeastZero(-job[w].row.deposit_paid)
  <2>1. ASSUME NEW k, NEW total, NEW paid, NEW c, NEW e, CreateSale(s, k, total, paid, c, e)
        PROVE  FALSE
    BY <1>1, <2>1 DEF CreateSale, Atomically, At
  <2>2. ASSUME NEW v \in Workers, Settle(v, s)
        PROVE  sale'[s].paid = sale'[s].total_amount + AtLeastZero(-job[w].row.deposit_paid)
    <3>1. job' = [job EXCEPT ![v] = Idle] /\ job = [u \in Workers |-> job[u]]
      BY <1>1, <2>2 DEF Settle, Done, BooksInv
    <3>2. w = v  BY <1>1, <3>1 DEF At
    <3>3. job[w].row \in OrderRow /\ Balanced(job[w].row)
      BY <1>1 DEF BooksInv, Sound, At
    <3>4. /\ sale'[s].paid = Collected(job[w].row)
          /\ sale'[s].total_amount = job[w].row.total_amount - job[w].row.discount_amount
      BY <1>1, <2>2, <3>2 DEF Settle, TablesInv
    <3> QED  BY <3>3, <3>4, CollectedIsNet
  <2> QED  BY <1>1, <2>1, <2>2, NewSales
<1>2. BooksInv /\ TablesInv /\ [Next]_vars
        => \A w \in Workers, s \in SaleIds :
             At(w, "settle") /\ job'[w] = Idle /\ NewSale(s) /\ sale'[s] # Absent =>
               sale'[s].paid = sale'[s].total_amount + AtLeastZero(-job[w].row.deposit_paid)
  BY <1>1
<1> QED  BY <1>2, BooksInvHolds, TablesInvHolds, PTL DEF Spec, SettlementCollectsNet

\* A new sale raises its customer's total by exactly its amount, over whatever
\* other transactions have committed since the handler began.
THEOREM EverySaleIsCounted == Spec => EverySaleCounted
<1>1. ASSUME TablesInv, NEW k, NEW seen, NEW amount, k # None, Purchase(k, seen, amount),
             k \in Customers
      PROVE  customer'[k].total_purchase_amount = customer[k].total_purchase_amount + amount
  BY <1>1 DEF Purchase, TablesInv
<1>2. ASSUME TablesInv, [Next]_vars, NEW s \in SaleIds,
             NewSale(s), sale'[s] # Absent, sale'[s].customer # None, sale'[s].customer \in Customers
      PROVE  LET k == sale'[s].customer IN
               customer'[k].total_purchase_amount
                 = customer[k].total_purchase_amount + sale'[s].total_amount
  <2>1. ASSUME NEW k, NEW total, NEW paid, NEW c, NEW e,
               CreateSale(s, k, total, paid, c, e)
        PROVE  /\ sale'[s].customer = k /\ sale'[s].total_amount = total
               /\ \E seen : Purchase(k, seen, total)
    BY <1>2, <2>1 DEF CreateSale, TablesInv
  <2>2. ASSUME NEW w \in Workers, Settle(w, s)
        PROVE  \E seen : Purchase(sale'[s].customer, seen, sale'[s].total_amount)
    BY <1>2, <2>2 DEF Settle, TablesInv
  <2>3. \E seen : Purchase(sale'[s].customer, seen, sale'[s].total_amount)
    BY <1>2, <2>1, <2>2, NewSales
  <2> QED  BY <1>1, <1>2, <2>3
<1>3. TablesInv /\ BooksInv /\ [Next]_vars
        => \A s \in SaleIds :
             NewSale(s) /\ sale'[s] # Absent /\ sale'[s].customer # None
               => LET k == sale'[s].customer IN
                    customer'[k].total_purchase_amount
                      = customer[k].total_purchase_amount + sale'[s].total_amount
  <2>1. ASSUME TablesInv, BooksInv, [Next]_vars, NEW s \in SaleIds,
               NewSale(s), sale'[s] # Absent, sale'[s].customer # None
        PROVE  sale'[s].customer \in Customers
    <3>1. ASSUME NEW k \in Customers \cup {None}, NEW total, NEW paid, NEW c, NEW e,
                 CreateSale(s, k, total, paid, c, e)
          PROVE  sale'[s].customer \in Customers
      BY <2>1, <3>1 DEF CreateSale, TablesInv
    <3>2. ASSUME NEW w \in Workers, Settle(w, s) PROVE sale'[s].customer \in Customers
      <4>1. job[w].row \in OrderRow  BY <2>1, <3>2 DEF BooksInv, Sound, Settle, At
      <4>2. sale'[s].customer = job[w].row.customer  BY <2>1, <3>2 DEF Settle, TablesInv
      <4> QED  BY <4>1, <4>2 DEF OrderRow
    <3> QED  BY <2>1, <3>1, <3>2, NewSales
  <2> QED  BY <1>2, <2>1
<1> QED  BY <1>3, BooksInvHolds, TablesInvHolds, PTL DEF Spec, EverySaleCounted

-----------------------------------------------------------------------------
(* Types *)

\* An order belongs to a customer who is there (PROTECT).
OrdersHaveCustomers ==
  \A o \in Orders : order[o] # Absent => customer[order[o].customer] # Absent

\* Without it, what settle() joins to the order would not be a row.
TypeInv == TypeOK /\ OrdersHaveCustomers

\* What a worker holds at each of its steps.
LEMMA JobTypes ==
  ASSUME TypeOK, NEW w \in Workers, job[w] # Idle
  PROVE  /\ job[w].next \in {"settle", "save_order", "save_sale", "save_customer",
                             "read_cheque", "record", "endorse"}
         /\ job[w].next = "settle" =>
              job[w].id \in Orders /\ job[w].row \in OrderRow /\ job[w].customer_row \in CustomerRow
         /\ job[w].next = "save_order" => job[w].id \in Orders /\ job[w].row \in OrderRow
         /\ job[w].next = "save_sale" => job[w].id \in SaleIds /\ job[w].row \in SaleRow
         /\ job[w].next = "save_customer" => job[w].id \in Customers /\ job[w].row \in CustomerRow
         /\ job[w].next \in {"read_cheque", "record", "endorse"} =>
              /\ job[w].id \in ExpenseIds /\ job[w].number \in ChequeNumbers
              /\ job[w].payment \in SaleIds \cup {None}
         /\ job[w].next = "endorse" => job[w].row \in ChequeRow \cup {Absent}
<1>1. job[w] \in Job  BY DEF TypeOK
<1> QED  BY <1>1 DEF Job

\* A worker gets or loses its job.
LEMMA JobsTyped ==
  ASSUME TypeOK, NEW w \in Workers, NEW j \in Job \cup {Idle}, job' = [job EXCEPT ![w] = j]
  PROVE  job' \in [Workers -> Job \cup {Idle}]
<1>1. job \in [Workers -> Job \cup {Idle}]  BY DEF TypeOK
<1> HIDE DEF Job
<1> QED  BY <1>1

\* A handler that has only read.
LEMMA BeginsTyped ==
  ASSUME TypeInv, NEW w \in Workers, NEW j \in Job \cup {Idle}, job' = [job EXCEPT ![w] = j],
         UNCHANGED tables
  PROVE  TypeInv'
<1>1. job' \in [Workers -> Job \cup {Idle}]  BY JobsTyped DEF TypeInv
<1> HIDE DEF Job
<1> QED  BY <1>1 DEF TypeInv, TypeOK, OrdersHaveCustomers, tables

\* What the purchase of a customer writes.
LEMMA PurchaseTyped ==
  ASSUME TypeInv, NEW k \in Customers \cup {None}, NEW seen, NEW amount \in Int,
         Purchase(k, seen, amount)
  PROVE  /\ customer' \in [Customers -> CustomerRow \cup {Absent}]
         /\ \A h \in Customers : customer[h] # Absent => customer'[h] # Absent
         /\ k # None => customer'[k] # Absent
<1>1. customer \in [Customers -> CustomerRow \cup {Absent}]  BY DEF TypeInv, TypeOK
<1>2. CASE k = None  BY <1>1, <1>2 DEF Purchase
<1>3. CASE k # None
  <2> PICK r : r = [total_purchase_amount |-> customer[k].total_purchase_amount + amount]  OBVIOUS
  <2>1. /\ customer[k] \in CustomerRow
        /\ customer[k].total_purchase_amount + amount <= MaxAmount
        /\ customer' = [customer EXCEPT ![k] = r]
    BY <1>1, <1>3 DEF Purchase
  <2>2. r \in CustomerRow  BY <2>1 DEF CustomerRow, Column
  <2>3. r # Absent  BY <2>2, SentinelAssumption
  <2> QED  BY <1>1, <1>3, <2>1, <2>2, <2>3
<1> QED  BY <1>2, <1>3

\* The tables of sales and cheques do not matter to the customers of orders.
LEMMA SaleRequestTyped ==
  ASSUME TypeInv, SaleRequest
  PROVE  TypeInv'
<1> USE SalesAssumption DEF SalesAssumption
<1>1. ASSUME NEW s \in SaleIds, NEW k \in Customers \cup {None}, NEW total \in Prices,
             NEW paid \in Payments, NEW c \in ChequeNumbers \cup {None}, NEW e \in ChequeInput,
             CreateSale(s, k, total, paid, c, e)
      PROVE  TypeInv'
  <2>1. total \in Int /\ paid \in Int  OBVIOUS
  <2>2. PICK r : r = [customer |-> k, total_amount |-> total,
                      remaining_balance |-> AtLeastZero(total - paid), paid |-> paid,
                      of_order |-> None]
    OBVIOUS
  <2>3. r \in SaleRow  BY <2>1, <2>2 DEF SaleRow, AtLeastZero
  <2>4. PICK q : q = [of |-> s, payment |-> s, expense |-> e.expense,
                      is_endorsed |-> e.is_endorsed]
    OBVIOUS
  <2>5. q \in ChequeRow  BY <2>4 DEF ChequeRow, ChequeInput
  <2>6. /\ sale' = [sale EXCEPT ![s] = r]
        /\ cheque' = IF c = None THEN cheque ELSE [cheque EXCEPT ![c] = q]
        /\ UNCHANGED <<order, expense, job>>
    BY <1>1, <2>2, <2>4 DEF CreateSale, Atomically
  <2>7. sale' \in [SaleIds -> SaleRow \cup {Absent}]  BY <2>3, <2>6 DEF TypeInv, TypeOK
  <2>8. cheque' \in [ChequeNumbers -> ChequeRow \cup {Absent}]
    BY <2>5, <2>6 DEF TypeInv, TypeOK
  <2>9. /\ customer' \in [Customers -> CustomerRow \cup {Absent}]
        /\ \A h \in Customers : customer[h] # Absent => customer'[h] # Absent
    BY <1>1, <2>1, PurchaseTyped DEF CreateSale
  <2>10. OrdersHaveCustomers'
    BY <2>6, <2>9 DEF TypeInv, TypeOK, OrdersHaveCustomers, OrderRow
  <2> HIDE DEF Job
  <2> QED  BY <2>6, <2>7, <2>8, <2>9, <2>10 DEF TypeInv, TypeOK
<1>2. ASSUME NEW w \in Workers, NEW s \in SaleIds, NEW k \in Customers \cup {None},
             NEW total \in Prices, LoadSale(w, s, k, total)
      PROVE  TypeInv'
  <2>1. sale[s] \in SaleRow  BY <1>2 DEF LoadSale, TypeInv, TypeOK
  <2>2. PICK r1 : r1 = [sale[s] EXCEPT !.customer = k]  OBVIOUS
  <2>3. r1 \in SaleRow  BY <2>1, <2>2 DEF SaleRow
  <2>4. PICK r : r = [r1 EXCEPT !.total_amount = total]  OBVIOUS
  <2>5. r \in SaleRow  BY <2>3, <2>4 DEF SaleRow
  <2>6. r = [sale[s] EXCEPT !.customer = k, !.total_amount = total]
    BY <2>1, <2>2, <2>4 DEF SaleRow
  <2>7. PICK j : j = [next |-> "save_sale", id |-> s, row |-> r]  OBVIOUS
  <2>8. j \in Job  BY <2>5, <2>7 DEF Job
  <2>9. job' = [job EXCEPT ![w] = j] /\ UNCHANGED tables
    BY <1>2, <2>6, <2>7 DEF LoadSale, Begins
  <2> QED  BY <2>8, <2>9, BeginsTyped
<1>3. ASSUME NEW s \in SaleIds, DestroySale(s)
      PROVE  TypeInv'
  <2>1. UNCHANGED <<customer, expense, job>>  BY <1>3 DEF DestroySale, Atomically
  <2>2. sale' \in [SaleIds -> SaleRow \cup {Absent}]  BY <1>3 DEF DestroySale, TypeInv, TypeOK
  <2>3. cheque' \in [ChequeNumbers -> ChequeRow \cup {Absent}]
    BY <1>3 DEF DestroySale, TypeInv, TypeOK
  <2>4. ASSUME NEW r \in OrderRow
        PROVE  [r EXCEPT !.sale = None] \in OrderRow /\ [r EXCEPT !.sale = None].customer = r.customer
    BY DEF OrderRow
  <2>5. \A o \in Orders :
          \/ order'[o] = order[o]
          \/ /\ order[o] \in OrderRow
             /\ order'[o] = [order[o] EXCEPT !.sale = None]
    BY <1>3 DEF DestroySale, TypeInv, TypeOK
  <2>6. \A o \in Orders :
          \/ order'[o] = order[o]
          \/ /\ order[o] \in OrderRow /\ order'[o] \in OrderRow
             /\ order'[o].customer = order[o].customer
    BY <2>4, <2>5
  <2>7. order' \in [Orders -> OrderRow \cup {Absent}]
    <3>1. order' = [o \in Orders |-> order'[o]]  BY <1>3 DEF DestroySale
    <3> QED  BY <2>6, <3>1 DEF TypeInv, TypeOK
  <2>8. \A o \in Orders : order[o] = Absent => order'[o] = Absent
    BY <1>3 DEF DestroySale
  <2>9. OrdersHaveCustomers'
    BY <2>1, <2>6, <2>8 DEF TypeInv, TypeOK, OrdersHaveCustomers
  <2> HIDE DEF Job
  <2> QED  BY <2>1, <2>2, <2>3, <2>7, <2>9 DEF TypeInv, TypeOK
<1> QED  BY <1>1, <1>2, <1>3 DEF SaleRequest

\* An order is stored, for a customer who is there.
LEMMA StoresOrder ==
  ASSUME TypeInv, NEW o \in Orders, NEW r \in OrderRow,
         order' = [order EXCEPT ![o] = r],
         \A h \in Customers : customer[h] # Absent => customer'[h] # Absent,
         customer'[r.customer] # Absent
  PROVE  order' \in [Orders -> OrderRow \cup {Absent}] /\ OrdersHaveCustomers'
<1>1. order \in [Orders -> OrderRow \cup {Absent}]  BY DEF TypeInv, TypeOK
<1>2. order' \in [Orders -> OrderRow \cup {Absent}]  BY <1>1
<1>3. ASSUME NEW p \in Orders, order'[p] # Absent PROVE customer'[order'[p].customer] # Absent
  <2>1. CASE p = o  BY <1>1, <2>1
  <2>2. CASE p # o
    <3>1. order'[p] = order[p] /\ order[p] \in OrderRow  BY <1>1, <1>3, <2>2
    <3>2. order[p].customer \in Customers  BY <3>1 DEF OrderRow
    <3>3. customer[order[p].customer] # Absent  BY <1>3, <3>1 DEF TypeInv, OrdersHaveCustomers
    <3> QED  BY <3>1, <3>2, <3>3
  <2> QED  BY <2>1, <2>2
<1> QED  BY <1>2, <1>3 DEF OrdersHaveCustomers

\* save() changes the debt alone.
LEMMA SavedTyped ==
  ASSUME NEW r \in OrderRow
  PROVE  Saved(r) \in OrderRow /\ Saved(r).customer = r.customer
<1> PICK d : d = AtLeastZero(r.total_amount - r.discount_amount - r.deposit_paid)  OBVIOUS
<1>1. d \in Int  BY DEF OrderRow, AtLeastZero
<1>2. Saved(r) = [r EXCEPT !.remaining_debt = d]  BY DEF Saved
<1> QED  BY <1>1, <1>2 DEF OrderRow

LEMMA OrderRequestTyped ==
  ASSUME TypeInv, OrderRequest
  PROVE  TypeInv'
<1> USE SalesAssumption DEF SalesAssumption
<1>1. ASSUME NEW o \in Orders, NEW r \in OrderRow, CreateOrder(o, r)
      PROVE  TypeInv'
  <2>1. PICK q : q = Saved(r)  OBVIOUS
  <2>2. q \in OrderRow /\ q.customer = r.customer  BY <2>1, SavedTyped
  <2>3. /\ order' = [order EXCEPT ![o] = q]
        /\ UNCHANGED <<customer, sale, cheque, expense, job>>
        /\ customer[r.customer] # Absent
    BY <1>1, <2>1 DEF CreateOrder, Atomically
  <2>4. order' \in [Orders -> OrderRow \cup {Absent}] /\ OrdersHaveCustomers'
    BY <2>2, <2>3, StoresOrder
  <2> HIDE DEF Job
  <2> QED  BY <2>3, <2>4 DEF TypeInv, TypeOK
<1>2. ASSUME NEW w \in Workers, NEW o \in Orders, NEW r \in OrderRow, LoadOrder(w, o, r)
      PROVE  TypeInv'
  <2>1. PICK j : j = [next |-> "save_order", id |-> o, row |-> r]  OBVIOUS
  <2>2. j \in Job  BY <2>1 DEF Job
  <2>3. job' = [job EXCEPT ![w] = j] /\ UNCHANGED tables
    BY <1>2, <2>1 DEF LoadOrder, Begins
  <2> QED  BY <2>2, <2>3, BeginsTyped
<1>3. ASSUME NEW o \in Orders, order[o] # Absent
      PROVE  order[o] \in OrderRow /\ customer[order[o].customer] \in CustomerRow
  <2>1. order[o] \in OrderRow  BY <1>3 DEF TypeInv, TypeOK
  <2>2. order[o].customer \in Customers  BY <2>1 DEF OrderRow
  <2>3. customer[order[o].customer] # Absent  BY <1>3 DEF TypeInv, OrdersHaveCustomers
  <2> QED  BY <2>1, <2>2, <2>3 DEF TypeInv, TypeOK
<1>4. ASSUME NEW w \in Workers, NEW o \in Orders, LoadSettle(w, o)
      PROVE  TypeInv'
  <2>1. PICK r, c : r = order[o] /\ c = customer[order[o].customer]  OBVIOUS
  <2>2. r \in OrderRow /\ c \in CustomerRow  BY <1>3, <1>4, <2>1 DEF LoadSettle
  <2>3. PICK j : j = [next |-> "settle", id |-> o, row |-> r, customer_row |-> c]  OBVIOUS
  <2>4. j \in Job  BY <2>2, <2>3 DEF Job
  <2>5. job' = [job EXCEPT ![w] = j] /\ UNCHANGED tables
    BY <1>4, <2>1, <2>3 DEF LoadSettle, Begins
  <2> QED  BY <2>4, <2>5, BeginsTyped
<1>5. ASSUME NEW o \in Orders, DestroyOrder(o)
      PROVE  TypeInv'
  <2>1. /\ order' = [order EXCEPT ![o] = Absent]
        /\ UNCHANGED <<customer, sale, cheque, expense, job>>
    BY <1>5 DEF DestroyOrder, Atomically
  <2>2. order' \in [Orders -> OrderRow \cup {Absent}] /\ OrdersHaveCustomers'
    BY <2>1 DEF TypeInv, TypeOK, OrdersHaveCustomers
  <2> HIDE DEF Job
  <2> QED  BY <2>1, <2>2 DEF TypeInv, TypeOK
<1>6. ASSUME NEW o \in Orders, NEW k \in Customers, NEW total \in Prices,
             NEW discount \in Parts, NEW paid \in Parts,
             NEW status \in StatusInputs \cup {"PENDING"},
             CreateOrder(o, [customer |-> k, total_amount |-> total, discount_amount |-> discount,
                             deposit_paid |-> paid, remaining_debt |-> 0, status |-> status,
                             sale |-> None])
      PROVE  TypeInv'
  <2>1. PICK r : r = [customer |-> k, total_amount |-> total, discount_amount |-> discount,
                      deposit_paid |-> paid, remaining_debt |-> 0, status |-> status,
                      sale |-> None]
    OBVIOUS
  <2>2. r \in OrderRow  BY <2>1 DEF OrderRow, Statuses
  <2> QED  BY <1>1, <1>6, <2>1, <2>2
<1>7. ASSUME NEW w \in Workers, NEW o \in Orders, NEW status \in StatusInputs,
             order[o] # Absent, LoadOrder(w, o, [order[o] EXCEPT !.status = status])
      PROVE  TypeInv'
  <2>1. PICK r : r = [order[o] EXCEPT !.status = status]  OBVIOUS
  <2>2. order[o] \in OrderRow  BY <1>3, <1>7
  <2>3. r \in OrderRow  BY <2>1, <2>2 DEF OrderRow, Statuses
  <2> QED  BY <1>2, <1>7, <2>1, <2>3
<1>8. ASSUME NEW w \in Workers, NEW o \in Orders, NEW total \in Prices, NEW paid \in Parts,
             order[o] # Absent,
             LoadOrder(w, o, [order[o] EXCEPT !.total_amount = total, !.deposit_paid = paid])
      PROVE  TypeInv'
  <2>1. PICK r : r = [order[o] EXCEPT !.total_amount = total, !.deposit_paid = paid]  OBVIOUS
  <2>2. order[o] \in OrderRow /\ total \in Int /\ paid \in Int  BY <1>3, <1>8
  <2>3. r \in OrderRow  BY <2>1, <2>2, EditedAmounts
  <2> QED  BY <1>2, <1>8, <2>1, <2>3
<1> QED  BY <1>4, <1>5, <1>6, <1>7, <1>8 DEF OrderRequest

LEMMA CustomerRequestTyped ==
  ASSUME TypeInv, CustomerRequest
  PROVE  TypeInv'
<1> USE SalesAssumption DEF SalesAssumption
<1>1. ASSUME NEW k \in Customers, CreateCustomer(k, 0)
      PROVE  TypeInv'
  <2>1. PICK r : r = [total_purchase_amount |-> 0]  OBVIOUS
  <2>2. r \in CustomerRow  BY <2>1 DEF CustomerRow, Column
  <2>3. r # Absent  BY <2>2, SentinelAssumption
  <2>4. /\ customer' = [customer EXCEPT ![k] = r]
        /\ UNCHANGED <<sale, order, cheque, expense, job>>
    BY <1>1, <2>1 DEF CreateCustomer, Atomically
  <2>5. customer' \in [Customers -> CustomerRow \cup {Absent}] /\ OrdersHaveCustomers'
    BY <2>2, <2>3, <2>4 DEF TypeInv, TypeOK, OrdersHaveCustomers
  <2> HIDE DEF Job
  <2> QED  BY <2>4, <2>5 DEF TypeInv, TypeOK
<1>2. ASSUME NEW w \in Workers, NEW k \in Customers, NEW total \in Column,
             LoadCustomer(w, k, total)
      PROVE  TypeInv'
  <2>1. PICK r : r = [total_purchase_amount |-> total]  OBVIOUS
  <2>2. r \in CustomerRow  BY <2>1 DEF CustomerRow
  <2>3. PICK j : j = [next |-> "save_customer", id |-> k, row |-> r]  OBVIOUS
  <2>4. j \in Job  BY <2>2, <2>3 DEF Job
  <2>5. job' = [job EXCEPT ![w] = j] /\ UNCHANGED tables
    BY <1>2, <2>1, <2>3 DEF LoadCustomer, Begins
  <2> QED  BY <2>4, <2>5, BeginsTyped
<1>3. ASSUME NEW k \in Customers, DestroyCustomer(k)
      PROVE  TypeInv'
  <2>1. /\ customer' = [customer EXCEPT ![k] = Absent]
        /\ UNCHANGED <<sale, order, cheque, expense, job>>
    BY <1>3 DEF DestroyCustomer, Atomically
  <2>2. \A o \in Orders : order[o] # Absent => order[o].customer # k
    BY <1>3 DEF DestroyCustomer, OrdersOf
  <2>3. \A o \in Orders : order[o] # Absent => order[o].customer \in Customers
    BY DEF TypeInv, TypeOK, OrderRow
  <2>4. customer' \in [Customers -> CustomerRow \cup {Absent}]
    BY <2>1 DEF TypeInv, TypeOK
  <2>5. OrdersHaveCustomers'
    BY <2>1, <2>2, <2>3 DEF TypeInv, TypeOK, OrdersHaveCustomers
  <2> HIDE DEF Job
  <2> QED  BY <2>1, <2>4, <2>5 DEF TypeInv, TypeOK
<1>4. ASSUME NEW k \in Customers, customer[k] # Absent
      PROVE  customer[k].total_purchase_amount \in Column
  BY <1>4 DEF TypeInv, TypeOK, CustomerRow
<1>5. 0 \in Column  BY DEF Column
<1> QED  BY <1>1, <1>2, <1>3, <1>4, <1>5 DEF CustomerRequest

LEMMA ExpenseRequestTyped ==
  ASSUME TypeInv, ExpenseRequest
  PROVE  TypeInv'
<1>1. ASSUME NEW x \in ExpenseIds, CreateExpense(x)
      PROVE  TypeInv'
  <2>1. UNCHANGED <<customer, sale, order, cheque, job>> /\ expense' = expense \cup {x}
    BY <1>1 DEF CreateExpense, Atomically
  <2> HIDE DEF Job
  <2> QED  BY <2>1 DEF TypeInv, TypeOK, OrdersHaveCustomers
<1>2. ASSUME NEW w \in Workers, NEW x \in ExpenseIds, NEW c \in ChequeNumbers,
             NEW endorsed \in BOOLEAN, NEW payment \in SaleIds \cup {None},
             ValidateExpense(w, x, c, endorsed, payment)
      PROVE  TypeInv'
  <2>1. PICK j : j = [next |-> IF endorsed THEN "read_cheque" ELSE "record", id |-> x,
                      number |-> c, payment |-> payment]
    OBVIOUS
  <2>2. j \in Job  BY <2>1 DEF Job
  <2>3. job' = [job EXCEPT ![w] = j] /\ UNCHANGED tables
    BY <1>2, <2>1 DEF ValidateExpense, Begins
  <2> QED  BY <2>2, <2>3, BeginsTyped
<1>3. ASSUME NEW x \in ExpenseIds, DestroyExpense(x)
      PROVE  TypeInv'
  <2>1. UNCHANGED <<customer, sale, order, job>> /\ expense' = expense \ {x}
    BY <1>3 DEF DestroyExpense, Atomically
  <2>2. cheque' \in [ChequeNumbers -> ChequeRow \cup {Absent}]
    BY <1>3 DEF DestroyExpense, TypeInv, TypeOK
  <2> HIDE DEF Job
  <2> QED  BY <2>1, <2>2 DEF TypeInv, TypeOK, OrdersHaveCustomers
<1> QED  BY <1>1, <1>2, <1>3 DEF ExpenseRequest

\* What endorsing makes of the row of a cheque.
LEMMA EndorsedRow ==
  ASSUME NEW r \in ChequeRow, NEW x \in ExpenseIds
  PROVE  LET q == [r EXCEPT !.expense = x, !.is_endorsed = TRUE]
         IN  q \in ChequeRow /\ q.of = r.of /\ q.expense = x /\ q.is_endorsed
<1>1. PICK r1 : r1 = [r EXCEPT !.expense = x]  OBVIOUS
<1>2. r1 \in ChequeRow /\ r1.of = r.of /\ r1.expense = x  BY <1>1 DEF ChequeRow
<1>3. PICK r2 : r2 = [r1 EXCEPT !.is_endorsed = TRUE]  OBVIOUS
<1>4. r2 \in ChequeRow /\ r2.of = r.of /\ r2.expense = x /\ r2.is_endorsed
  BY <1>2, <1>3 DEF ChequeRow
<1>5. r2 = [r EXCEPT !.expense = x, !.is_endorsed = TRUE]  BY <1>1, <1>3 DEF ChequeRow
<1> QED  BY <1>4, <1>5

LEMMA StepTyped ==
  ASSUME TypeInv, NEW w \in Workers, Step(w)
  PROVE  TypeInv'
<1> USE SalesAssumption DEF SalesAssumption
<1>1. job' = [job EXCEPT ![w] = Idle] => job' \in [Workers -> Job \cup {Idle}]
  BY JobsTyped DEF TypeInv
<1>2. job[w] # Idle /\ TypeOK
  BY DEF TypeInv, Step, SaveSale, SaveOrder, Settle, SaveCustomer, RecordCheque, ReadCheque,
         EndorseCheque, Rollback, At
<1>3. CASE SaveSale(w)
  <2>1. PICK i, r : i = job[w].id /\ r = job[w].row  OBVIOUS
  <2>2. i \in SaleIds /\ r \in SaleRow  BY <1>2, <1>3, <2>1, JobTypes DEF SaveSale, At
  <2>3. PICK q : q = IF sale[i] = Absent THEN [r EXCEPT !.paid = 0]
                     ELSE [r EXCEPT !.paid = sale[i].paid]
    OBVIOUS
  <2>4. q \in SaleRow
    <3>1. CASE sale[i] = Absent  BY <2>2, <2>3, <3>1 DEF SaleRow
    <3>2. CASE sale[i] # Absent
      <4>1. sale[i] \in SaleRow  BY <2>2, <3>2 DEF TypeInv, TypeOK
      <4>2. sale[i].paid \in Int  BY <4>1 DEF SaleRow
      <4> QED  BY <2>2, <2>3, <3>2, <4>2 DEF SaleRow
    <3> QED  BY <3>1, <3>2
  <2>5. sale' = [sale EXCEPT ![i] = q]  BY <1>3, <2>1, <2>3 DEF SaveSale
  <2>6. UNCHANGED <<customer, order, cheque, expense>> /\ job' = [job EXCEPT ![w] = Idle]
    BY <1>3 DEF SaveSale, Done
  <2>7. sale' \in [SaleIds -> SaleRow \cup {Absent}]  BY <2>2, <2>4, <2>5 DEF TypeInv, TypeOK
  <2> HIDE DEF Job
  <2> QED  BY <1>1, <2>6, <2>7 DEF TypeInv, TypeOK, OrdersHaveCustomers
<1>4. CASE SaveOrder(w)
  <2>1. PICK i, r : i = job[w].id /\ r = job[w].row  OBVIOUS
  <2>2. i \in Orders /\ r \in OrderRow  BY <1>2, <1>4, <2>1, JobTypes DEF SaveOrder, At
  <2>3. PICK q : q = Saved(r)  OBVIOUS
  <2>4. q \in OrderRow /\ q.customer = r.customer  BY <2>2, <2>3, SavedTyped
  <2>5. /\ order' = [order EXCEPT ![i] = q] /\ customer[r.customer] # Absent
        /\ UNCHANGED <<customer, sale, cheque, expense>> /\ job' = [job EXCEPT ![w] = Idle]
    BY <1>4, <2>1, <2>3 DEF SaveOrder, Done
  <2>6. order' \in [Orders -> OrderRow \cup {Absent}] /\ OrdersHaveCustomers'
    BY <2>2, <2>4, <2>5, StoresOrder
  <2> HIDE DEF Job
  <2> QED  BY <1>1, <2>5, <2>6 DEF TypeInv, TypeOK
<1>5. ASSUME NEW s \in SaleIds, Settle(w, s)
      PROVE  TypeInv'
  <2>1. PICK i, r, c, net : /\ i = job[w].id /\ r = job[w].row /\ c = job[w].customer_row
                            /\ net = r.total_amount - r.discount_amount
    OBVIOUS
  <2>2. i \in Orders /\ r \in OrderRow  BY <1>2, <1>5, <2>1, JobTypes DEF Settle, At
  <2>3. /\ r.customer \in Customers /\ net \in Int /\ Collected(r) \in Int
    BY <2>1, <2>2 DEF OrderRow, Collected, AtLeastZero
  <2>4. PICK q : q = [customer |-> r.customer, total_amount |-> net, remaining_balance |-> 0,
                      paid |-> Collected(r), of_order |-> i]
    OBVIOUS
  <2>5. q \in SaleRow  BY <2>2, <2>3, <2>4 DEF SaleRow
  <2>6. /\ sale' = [sale EXCEPT ![s] = q]
        /\ order' = [order EXCEPT ![i] =
             Saved([r EXCEPT !.sale = s, !.status = "DELIVERED", !.deposit_paid = net])]
        /\ Purchase(r.customer, c, net)
        /\ UNCHANGED <<cheque, expense>> /\ job' = [job EXCEPT ![w] = Idle]
    BY <1>5, <2>1, <2>4 DEF Settle, Done
  <2>7. PICK r1 : r1 = [r EXCEPT !.sale = s]  OBVIOUS
  <2>8. r1 \in OrderRow /\ r1.customer = r.customer  BY <2>2, <2>7 DEF OrderRow
  <2>9. PICK r2 : r2 = [r1 EXCEPT !.status = "DELIVERED"]  OBVIOUS
  <2>10. r2 \in OrderRow /\ r2.customer = r.customer  BY <2>8, <2>9 DEF OrderRow, Statuses
  <2>11. PICK r3 : r3 = [r2 EXCEPT !.deposit_paid = net]  OBVIOUS
  <2>12. r3 \in OrderRow /\ r3.customer = r.customer  BY <2>3, <2>10, <2>11 DEF OrderRow
  <2>13. r3 = [r EXCEPT !.sale = s, !.status = "DELIVERED", !.deposit_paid = net]
    BY <2>2, <2>7, <2>9, <2>11 DEF OrderRow
  <2>14. PICK t : t = Saved(r3)  OBVIOUS
  <2>15. t \in OrderRow /\ t.customer = r.customer  BY <2>12, <2>14, SavedTyped
  <2>16. order' = [order EXCEPT ![i] = t]  BY <2>6, <2>13, <2>14
  <2>17. /\ customer' \in [Customers -> CustomerRow \cup {Absent}]
         /\ \A h \in Customers : customer[h] # Absent => customer'[h] # Absent
         /\ customer'[r.customer] # Absent
    BY <2>3, <2>6, PurchaseTyped
  <2>18. order' \in [Orders -> OrderRow \cup {Absent}] /\ OrdersHaveCustomers'
    BY <2>2, <2>15, <2>16, <2>17, StoresOrder
  <2>19. sale' \in [SaleIds -> SaleRow \cup {Absent}]  BY <2>5, <2>6 DEF TypeInv, TypeOK
  <2> HIDE DEF Job
  <2> QED  BY <1>1, <2>6, <2>17, <2>18, <2>19 DEF TypeInv, TypeOK
<1>6. CASE SaveCustomer(w)
  <2>1. PICK i, r : i = job[w].id /\ r = job[w].row  OBVIOUS
  <2>2. i \in Customers /\ r \in CustomerRow  BY <1>2, <1>6, <2>1, JobTypes DEF SaveCustomer, At
  <2>3. r # Absent  BY <2>2, SentinelAssumption
  <2>4. /\ customer' = [customer EXCEPT ![i] = r]
        /\ UNCHANGED <<sale, order, cheque, expense>> /\ job' = [job EXCEPT ![w] = Idle]
    BY <1>6, <2>1 DEF SaveCustomer, Done
  <2>5. customer' \in [Customers -> CustomerRow \cup {Absent}] /\ OrdersHaveCustomers'
    BY <2>2, <2>3, <2>4 DEF TypeInv, TypeOK, OrdersHaveCustomers
  <2> HIDE DEF Job
  <2> QED  BY <1>1, <2>4, <2>5 DEF TypeInv, TypeOK
<1>7. CASE RecordCheque(w)
  <2>1. PICK i, n, m : i = job[w].id /\ n = job[w].number /\ m = job[w].payment  OBVIOUS
  <2>2. i \in ExpenseIds /\ n \in ChequeNumbers /\ m \in SaleIds \cup {None}
    BY <1>2, <1>7, <2>1, JobTypes DEF RecordCheque, At
  <2>3. PICK q : q = [of |-> i, payment |-> m, expense |-> i, is_endorsed |-> FALSE]  OBVIOUS
  <2>4. q \in ChequeRow  BY <2>2, <2>3 DEF ChequeRow
  <2>5. /\ cheque' = [cheque EXCEPT ![n] = q] /\ expense' = expense \cup {i}
        /\ UNCHANGED <<customer, sale, order>> /\ job' = [job EXCEPT ![w] = Idle]
    BY <1>7, <2>1, <2>3 DEF RecordCheque, Done
  <2>6. cheque' \in [ChequeNumbers -> ChequeRow \cup {Absent}]
    BY <2>2, <2>4, <2>5 DEF TypeInv, TypeOK
  <2> HIDE DEF Job
  <2> QED  BY <1>1, <2>2, <2>5, <2>6 DEF TypeInv, TypeOK, OrdersHaveCustomers
<1>8. CASE ReadCheque(w)
  <2>1. PICK i, n, m, q : /\ i = job[w].id /\ n = job[w].number
                          /\ m = job[w].payment /\ q = cheque[n]
    OBVIOUS
  <2>2. i \in ExpenseIds /\ n \in ChequeNumbers /\ m \in SaleIds \cup {None}
    BY <1>2, <1>8, <2>1, JobTypes DEF ReadCheque, At
  <2>3. q \in ChequeRow \cup {Absent}  BY <2>1, <2>2 DEF TypeInv, TypeOK
  <2>4. PICK j : j = [next |-> "endorse", id |-> i, number |-> n, payment |-> m, row |-> q]  OBVIOUS
  <2>5. j \in Job  BY <2>2, <2>3, <2>4 DEF Job
  <2>6. job' = [job EXCEPT ![w] = j] /\ UNCHANGED tables  BY <1>8, <2>1, <2>4 DEF ReadCheque
  <2> QED  BY <2>5, <2>6, BeginsTyped
<1>9. CASE EndorseCheque(w)
  <2>1. PICK i, n, m, r : /\ i = job[w].id /\ n = job[w].number
                          /\ m = job[w].payment /\ r = job[w].row
    OBVIOUS
  <2>2. i \in ExpenseIds /\ n \in ChequeNumbers /\ m \in SaleIds \cup {None} /\ r \in ChequeRow \cup {Absent}
    BY <1>2, <1>9, <2>1, JobTypes DEF EndorseCheque, At
  <2>3. PICK q : q = IF r = Absent
                     THEN [of |-> i, payment |-> m, expense |-> i, is_endorsed |-> TRUE]
                     ELSE [r EXCEPT !.expense = i, !.is_endorsed = TRUE]
    OBVIOUS
  <2>4. q \in ChequeRow  BY <2>2, <2>3, EndorsedRow DEF ChequeRow
  <2>5. /\ cheque' = [cheque EXCEPT ![n] = q] /\ expense' = expense \cup {i}
        /\ UNCHANGED <<customer, sale, order>> /\ job' = [job EXCEPT ![w] = Idle]
    BY <1>9, <2>1, <2>3 DEF EndorseCheque, Done
  <2>6. cheque' \in [ChequeNumbers -> ChequeRow \cup {Absent}]
    BY <2>2, <2>4, <2>5 DEF TypeInv, TypeOK
  <2> HIDE DEF Job
  <2> QED  BY <1>1, <2>2, <2>5, <2>6 DEF TypeInv, TypeOK, OrdersHaveCustomers
<1>10. CASE Rollback(w)
  <2>1. job' = [job EXCEPT ![w] = Idle] /\ UNCHANGED tables  BY <1>10 DEF Rollback, Done
  <2> QED  BY <2>1, BeginsTyped
<1> QED  BY <1>3, <1>4, <1>5, <1>6, <1>7, <1>8, <1>9, <1>10 DEF Step

LEMMA TypeInvHolds == Spec => []TypeInv
<1>1. Init => TypeInv
  BY DEF Init, TypeInv, TypeOK, OrdersHaveCustomers
<1>2. TypeInv /\ [Next]_vars => TypeInv'
  <2>1. ASSUME TypeInv, UNCHANGED vars PROVE TypeInv'
    <3> HIDE DEF Job
    <3> QED  BY <2>1 DEF vars, TypeInv, TypeOK, OrdersHaveCustomers
  <2> QED  BY <2>1, SaleRequestTyped, OrderRequestTyped, CustomerRequestTyped,
              ExpenseRequestTyped, StepTyped DEF Next
<1> QED  BY <1>1, <1>2, PTL DEF Spec

\* Every row and every snapshot has its columns, however the handlers overlap; that the
\* customer joined to an order is a row rests on PROTECT (models.py:509), and that a total
\* fits its column on the row that is read again under the lock (serializers.py:317).
THEOREM TypesHold == Spec => []TypeOK
<1>1. TypeInv => TypeOK  BY DEF TypeInv
<1> QED  BY <1>1, TypeInvHolds, PTL

-----------------------------------------------------------------------------
(* Endorsed cheques *)

\* The worker is about to record an expense with its cheque.
Records(w) == job[w] # Idle /\ job[w].next \in {"read_cheque", "record", "endorse"}

\* Each such worker has a key of its own, and no expense has it yet.
KeysInv ==
  \A w \in Workers : Records(w) =>
    /\ job[w].id \notin expense
    /\ \A v \in Workers : Records(v) /\ v # w => job[v].id # job[w].id

\* A worker ends, or begins what records no expense; expenses may be deleted, or one is
\* recorded under the worker's own key.
LEMMA WorkerKeepsKeys ==
  ASSUME TypeOK, KeysInv, NEW w \in Workers, NEW j, job' = [job EXCEPT ![w] = j],
         j # Idle => j.next \notin {"read_cheque", "record", "endorse"},
         \/ expense' \subseteq expense
         \/ Records(w) /\ expense' = expense \cup {job[w].id}
  PROVE  KeysInv'
<1>1. \A v \in Workers : job'[v] = IF v = w THEN j ELSE job[v]  BY DEF TypeOK
<1>2. ~ Records(w)'  BY <1>1 DEF Records
<1>3. \A v \in Workers : v # w => job'[v] = job[v] /\ (Records(v)' <=> Records(v))
  BY <1>1 DEF Records
<1>4. ASSUME NEW v \in Workers, Records(v)'
      PROVE  /\ job'[v].id \notin expense'
             /\ \A u \in Workers : Records(u)' /\ u # v => job'[u].id # job'[v].id
  <2>1. v # w /\ Records(v) /\ job'[v] = job[v]  BY <1>2, <1>3, <1>4
  <2>2. job[v].id \notin expense'  BY <2>1 DEF KeysInv
  <2>3. ASSUME NEW u \in Workers, Records(u)', u # v PROVE job'[u].id # job'[v].id
    <3>1. u # w /\ Records(u) /\ job'[u] = job[u]  BY <1>2, <1>3, <2>3
    <3> QED  BY <2>1, <2>3, <3>1 DEF KeysInv
  <2> QED  BY <2>1, <2>2, <2>3
<1> QED  BY <1>4 DEF KeysInv

\* The keys of the workers stay as they are.
LEMMA KeysKept ==
  ASSUME KeysInv, UNCHANGED job, expense' \subseteq expense
  PROVE  KeysInv'
BY DEF KeysInv, Records

\* A new key is mentioned by no worker.
LEMMA FreshKey ==
  ASSUME NEW x, Fresh(x), NEW w \in Workers, job[w] # Idle PROVE job[w].id # x
BY DEF Fresh, Mentions

LEMMA ExpenseRequestKeepsKeys ==
  ASSUME TypeOK, KeysInv, ExpenseRequest
  PROVE  KeysInv'
<1>1. ASSUME NEW x \in ExpenseIds, CreateExpense(x) PROVE KeysInv'
  <2>1. UNCHANGED job /\ expense' = expense \cup {x}  BY <1>1 DEF CreateExpense, Atomically
  <2>2. \A w \in Workers : Records(w) => job[w].id # x
    BY <1>1, FreshKey DEF CreateExpense, Records
  <2> QED  BY <2>1, <2>2 DEF KeysInv, Records
<1>2. ASSUME NEW w \in Workers, NEW x, NEW c, NEW endorsed, NEW payment,
             ValidateExpense(w, x, c, endorsed, payment)
      PROVE  KeysInv'
  <2>1. PICK j : j = [next |-> IF endorsed THEN "read_cheque" ELSE "record", id |-> x,
                      number |-> c, payment |-> payment]
    OBVIOUS
  <2>2. /\ job' = [job EXCEPT ![w] = j] /\ UNCHANGED expense
        /\ x \notin expense /\ Fresh(x)
    BY <1>2, <2>1 DEF ValidateExpense, Begins, tables
  <2>3. j.id = x  BY <2>1
  <2>4. \A v \in Workers : job'[v] = IF v = w THEN j ELSE job[v]  BY <2>2 DEF TypeOK
  <2>5. \A v \in Workers : v # w /\ Records(v)' => Records(v) /\ job'[v] = job[v] /\ job[v].id # x
    BY <2>2, <2>4, FreshKey DEF Records
  <2>6. ASSUME NEW v \in Workers, Records(v)'
        PROVE  /\ job'[v].id \notin expense'
               /\ \A u \in Workers : Records(u)' /\ u # v => job'[u].id # job'[v].id
    <3>1. CASE v = w
      <4>1. job'[v].id = x  BY <2>3, <2>4, <3>1
      <4> QED  BY <2>2, <2>5, <3>1, <4>1
    <3>2. CASE v # w
      <4>1. Records(v) /\ job'[v] = job[v] /\ job[v].id # x  BY <2>5, <2>6, <3>2
      <4>2. ASSUME NEW u \in Workers, Records(u)', u # v PROVE job'[u].id # job'[v].id
        <5>1. CASE u = w  BY <2>3, <2>4, <4>1, <5>1
        <5>2. CASE u # w
          <6>1. Records(u) /\ job'[u] = job[u]  BY <2>5, <4>2, <5>2
          <6> QED  BY <4>1, <4>2, <6>1 DEF KeysInv
        <5> QED  BY <5>1, <5>2
      <4> QED  BY <2>2, <4>1, <4>2 DEF KeysInv
    <3> QED  BY <3>1, <3>2
  <2> QED  BY <2>6 DEF KeysInv
<1>3. ASSUME NEW x \in ExpenseIds, DestroyExpense(x) PROVE KeysInv'
  BY <1>3, KeysKept DEF DestroyExpense, Atomically
<1> QED  BY <1>1, <1>2, <1>3 DEF ExpenseRequest

\* Every other request begins what records no expense, or is one step.
LEMMA OtherRequestsKeepKeys ==
  ASSUME TypeOK, KeysInv, SaleRequest \/ OrderRequest \/ CustomerRequest
  PROVE  KeysInv'
<1>1. ASSUME NEW w \in Workers, NEW endpoint, NEW j, Begins(w, endpoint, j),
             j.next \notin {"read_cheque", "record", "endorse"}
      PROVE  KeysInv'
  <2>1. job' = [job EXCEPT ![w] = j] /\ expense' \subseteq expense  BY <1>1 DEF Begins, tables
  <2> QED  BY <1>1, <2>1, WorkerKeepsKeys
<1>2. ASSUME UNCHANGED <<job, expense>> PROVE KeysInv'  BY <1>2, KeysKept
<1>3. CASE SaleRequest
  <2>1. ASSUME NEW w \in Workers, NEW s, NEW k, NEW total, LoadSale(w, s, k, total) PROVE KeysInv'
    BY <1>1, <2>1 DEF LoadSale
  <2> QED  BY <1>2, <1>3, <2>1 DEF SaleRequest, CreateSale, DestroySale, Atomically
<1>4. CASE OrderRequest
  <2>1. ASSUME NEW w \in Workers, NEW o, NEW r, LoadOrder(w, o, r) PROVE KeysInv'
    BY <1>1, <2>1 DEF LoadOrder
  <2>2. ASSUME NEW w \in Workers, NEW o, LoadSettle(w, o) PROVE KeysInv'
    BY <1>1, <2>2 DEF LoadSettle
  <2>3. ASSUME NEW o, NEW r, CreateOrder(o, r) \/ DestroyOrder(o) PROVE KeysInv'
    BY <1>2, <2>3 DEF CreateOrder, DestroyOrder, Atomically
  <2> QED  BY <1>4, <2>1, <2>2, <2>3, ZenonT(30) DEF OrderRequest
<1>5. CASE CustomerRequest
  <2>1. ASSUME NEW w \in Workers, NEW k, NEW total, LoadCustomer(w, k, total) PROVE KeysInv'
    BY <1>1, <2>1 DEF LoadCustomer
  <2> QED  BY <1>2, <1>5, <2>1 DEF CustomerRequest, CreateCustomer, DestroyCustomer, Atomically
<1> QED  BY <1>3, <1>4, <1>5

LEMMA StepKeepsKeys ==
  ASSUME TypeOK, KeysInv, NEW w \in Workers, Step(w)
  PROVE  KeysInv'
<1>1. ASSUME Done(w), UNCHANGED expense PROVE KeysInv'
  <2>1. job' = [job EXCEPT ![w] = Idle] /\ expense' \subseteq expense  BY <1>1 DEF Done
  <2> QED  BY <2>1, WorkerKeepsKeys
<1>2. CASE RecordCheque(w)
  <2>1. Records(w) /\ expense' = expense \cup {job[w].id}
    BY <1>2 DEF RecordCheque, At, Records
  <2> QED  BY <1>2, <2>1, WorkerKeepsKeys DEF RecordCheque, Done
<1>3. CASE EndorseCheque(w)
  <2>1. Records(w) /\ expense' = expense \cup {job[w].id}
    BY <1>3 DEF EndorseCheque, At, Records
  <2> QED  BY <1>3, <2>1, WorkerKeepsKeys DEF EndorseCheque, Done
<1>4. CASE ReadCheque(w)
  <2>1. PICK j : j = [next |-> "endorse", id |-> job[w].id, number |-> job[w].number,
                      payment |-> job[w].payment, row |-> cheque[job[w].number]]
    OBVIOUS
  <2>2. Records(w) /\ job' = [job EXCEPT ![w] = j] /\ UNCHANGED expense
    BY <1>4, <2>1 DEF ReadCheque, At, Records, tables
  <2>3. j.id = job[w].id  BY <2>1
  <2>4. \A v \in Workers : job'[v] = IF v = w THEN j ELSE job[v]  BY <2>2 DEF TypeOK
  <2>5. \A v \in Workers : Records(v)' => Records(v)  BY <2>2, <2>4 DEF Records
  <2>6. \A v \in Workers : Records(v)' => job'[v].id = job[v].id  BY <2>3, <2>4
  <2> QED  BY <2>2, <2>5, <2>6 DEF KeysInv
<1>5. CASE SaveSale(w) \/ SaveOrder(w) \/ (\E s \in SaleIds : Settle(w, s)) \/ SaveCustomer(w)
             \/ Rollback(w)
  BY <1>1, <1>5 DEF SaveSale, SaveOrder, Settle, SaveCustomer, Rollback, tables
<1> QED  BY <1>2, <1>3, <1>4, <1>5 DEF Step

\* Of the rows of cheques that stay, only an endorsement changes one.
LEMMA OnlyEndorsed ==
  ASSUME TypeOK, [Next]_vars, NEW c \in ChequeNumbers,
         cheque[c] # Absent, cheque'[c] # Absent, cheque'[c] # cheque[c]
  PROVE  \E w \in Workers : EndorseCheque(w)
<1>1. ~ UNCHANGED cheque  OBVIOUS
<1>2. ASSUME NEW s, NEW k, NEW total, NEW paid, NEW d, NEW e, CreateSale(s, k, total, paid, d, e)
      PROVE  FALSE
  BY <1>2 DEF CreateSale, TypeOK
<1>3. ASSUME NEW s, DestroySale(s) PROVE FALSE  BY <1>3 DEF DestroySale
<1>4. ASSUME NEW x, DestroyExpense(x) PROVE FALSE  BY <1>4 DEF DestroyExpense
<1>5. ASSUME NEW w \in Workers, RecordCheque(w) PROVE FALSE
  BY <1>5 DEF RecordCheque, TypeOK
<1>6. ~ (UNCHANGED vars \/ OrderRequest \/ CustomerRequest)
  BY <1>1, ZenonT(30)
     DEF vars, OrderRequest, CreateOrder, LoadOrder, LoadSettle, DestroyOrder, CustomerRequest,
         CreateCustomer, LoadCustomer, DestroyCustomer, Begins, tables
<1>7. ~ SaleRequest  BY <1>1, <1>2, <1>3 DEF SaleRequest, LoadSale, Begins, tables
<1>8. ~ ExpenseRequest
  BY <1>1, <1>4 DEF ExpenseRequest, CreateExpense, ValidateExpense, Begins, tables
<1> QED  BY <1>1, <1>5, <1>6, <1>7, <1>8
         DEF Next, Step, SaveSale, SaveOrder, Settle, SaveCustomer, ReadCheque, Rollback, tables

\* What endorsing writes.
LEMMA EndorsesWithExpense ==
  ASSUME TypeOK, KeysInv, NEW w \in Workers, EndorseCheque(w), NEW c \in ChequeNumbers,
         cheque'[c] # cheque[c]
  PROVE  cheque'[c].is_endorsed /\ cheque'[c].expense \in expense' \ expense
<1>1. PICK i, n, m, r : /\ i = job[w].id /\ n = job[w].number
                        /\ m = job[w].payment /\ r = job[w].row
  OBVIOUS
<1>2. i \in ExpenseIds /\ n \in ChequeNumbers /\ r \in ChequeRow \cup {Absent}
  BY <1>1, JobTypes DEF EndorseCheque, At
<1>3. PICK q : q = IF r = Absent
                   THEN [of |-> i, payment |-> m, expense |-> i, is_endorsed |-> TRUE]
                   ELSE [r EXCEPT !.expense = i, !.is_endorsed = TRUE]
  OBVIOUS
<1>4. q.expense = i /\ q.is_endorsed
  <2>1. CASE r = Absent  BY <1>3, <2>1
  <2>2. CASE r # Absent  BY <1>2, <1>3, <2>2, EndorsedRow
  <2> QED  BY <2>1, <2>2
<1>5. cheque' = [cheque EXCEPT ![n] = q] /\ expense' = expense \cup {i}
  BY <1>1, <1>3 DEF EndorseCheque
<1>6. cheque'[c] = q  BY <1>5 DEF TypeOK
<1>7. i \notin expense  BY <1>1 DEF KeysInv, Records, EndorseCheque, At
<1> QED  BY <1>4, <1>5, <1>6, <1>7

\* A cheque that is in the table changes only by being endorsed to an expense that commits
\* in the same step, for any number of workers that save rows they read without a lock and
\* whatever rows are deleted meanwhile (serializers.py:370-380).
THEOREM EndorsedWithExpenseHolds == Spec => EndorsedWithExpense
<1>1. Init => KeysInv  BY DEF Init, KeysInv, Records
<1>2. TypeInv /\ KeysInv /\ [Next]_vars => KeysInv'
  <2> SUFFICES ASSUME TypeInv, KeysInv, [Next]_vars PROVE KeysInv'  OBVIOUS
  <2>1. TypeOK  BY DEF TypeInv
  <2>2. CASE UNCHANGED vars  BY <2>2, KeysKept DEF vars
  <2> QED  BY <2>1, <2>2, ExpenseRequestKeepsKeys, OtherRequestsKeepKeys, StepKeepsKeys DEF Next
<1>3. TypeInv /\ KeysInv /\ [Next]_vars
        => \A c \in ChequeNumbers :
             cheque[c] # Absent /\ cheque'[c] # Absent /\ cheque'[c] # cheque[c] =>
               cheque'[c].is_endorsed /\ cheque'[c].expense \in expense' \ expense
  BY OnlyEndorsed, EndorsesWithExpense DEF TypeInv
<1> QED  BY <1>1, <1>2, <1>3, TypeInvHolds, PTL DEF Spec, EndorsedWithExpense
=============================================================================
