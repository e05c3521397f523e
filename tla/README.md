# RetailHub: a verification project

RetailHub (`src/`) is a Django/DRF back office for a chain of shops: employee and
approval workflows, sales and deposits, an expense/cheque/card "liquidity manager",
checklists, missions and reports. This directory holds TLA+ models of its core logic,
TLC configurations that check them on small instances, and TLAPS proofs of the most
important results for every value of the constants.

Abbreviations: `V` = `src/core/views.py`, `S` = `src/core/serializers.py`,
`M` = `src/core/models.py`, docs = the files of `src/API/`.

## 1. The system

One Django app (`src/core`) behind gunicorn with three worker processes, one PostgreSQL
database at READ COMMITTED, and a cron container. There is no `ATOMIC_REQUESTS`, almost
no row locking (`select_for_update` occurs for customers only), and `instance.save()`
is called without `update_fields` everywhere but in the soft deletion and restoring of
users. So each handler loads a snapshot, tests it, and later writes *every* column of the snapshot back. That pattern is the source of
nearly everything that is hard about this code.

| component | state | operations | what is hard | what makes it correct | modules |
|---|---|---|---|---|---|
| Row store (ORM + PostgreSQL, `V:90`, `src/project/settings.py`) | committed rows, history tables, the snapshot each worker holds | load, save all columns, insert entry, delete with cascade, roll back | stale snapshots overwrite newer rows; a save re-inserts a row deleted meanwhile | history and row change in one commit | `RowStore` |
| Users and hierarchy (`M:81-171`) | users, roles, superiors (a graph that may have cycles), `is_deleted` | who may see/decide what; soft delete, restore, profile, online time | cyclic hierarchy; stale saves undo a soft deletion | visibility equals "above in the graph"; a deleted user stays deleted, and nobody reports to one | `Hierarchy` (guards of the workflows), `Accounts` |
| Employee requests (`V:3403-3720`) | request row, `EmployeeRequestLog` | create, cancel, superior/admin/finance review, PUT/PATCH, DELETE | overlapping decisions, merged admin stage, silent PATCH | every status backed by the chain of decisions; paid once; history = status | `EmployeeRequest`, `EmployeeFlow` |
| Liquidity manager (`V:4442-5353`, `M:1472-1990`) | expenses, cheques, card transactions, today | confirm/unconfirm payment, spend/remove cheques, CRUD, overdue sync | no transactions at all: every SQL statement commits by itself | a payment is covered by what the card has; paid iff deducted; cheques counted once | `Liquidity` |
| Damage registrations (`V:1854-2220`) | row, items, log | four-stage review, cancel, edit by admin at any time, delete | stages by different people on stale rows; legacy rows | no stage skipped | `Documents`, `DamageRegistration` |
| Branch transfers (`V:2624-2871`) | row, items, log | sender/receiver approve/reject, edit and send again | update loads the row twice; the final entry lists prefetched items | what was approved is what was listed | `Documents`, `BranchTransfer` |
| Waste reports (`V:2893-3046`) | row, items, involved users | warehouse review, admin decision, edit, delete | same double load, no history | the row names the reviewer of each passed stage | `Documents`, `WasteReport` |
| Return requests (`V:2307-2376`) | row, items | approve, finalize refund, edit by anyone, delete | no transaction, no history | money returns only on approved returns | `Documents`, `ReturnRequest` |
| Advance requests (`V:3067-3254`) | row, log | superior, admin, pay, PATCH, delete | as employee requests, without a merged stage | no stage skipped, paid once | `Documents`, `AdvanceRequest` |
| Sales, deposits, customers (`S:187-490`, `V:1145-1390`) | customers, sales, deposit orders, expenses and cheques of sales | create sale, order, settle, edit, delete, endorse a cheque | the customer row is locked, the order is not; edits save snapshots | a settlement collects the net amount; every sale is counted; order balanced | `Sales` |
| Checklists (`M:363-478`, `S:557-640`, `reset_checklists.py`, `cron_runner.sh`) | tasks, checklists, archive, the clock | tick, edit, delete; reset every night | a drifting loop; reset missed, repeated, or racing a tick | an undisturbed reset archives exactly what it clears; no two nights are missed; every tick is in the end cleared | `Checklists` |
| Seller commissions (`utils/commission.py`, `S:1700-1880`, `V:4085-4260`) | plan and daily sales of a seller | edit, delete, bulk save; tiers, rewards | boundaries of tiers; overlapping one-column PATCHes | each unit is paid once; selling more never earns less; plans valid | `Commissions` |
| Liquidity metrics, staged payments, revenue (`M:1434-1883`, `V:4442-5000`) | as liquidity, and payments, revenue | page, list, summary; staged payments | the metrics are computed in two ways; zero and boundaries | both agree on all that the code lets agree; paying changes nothing downstream | `LiquidityMetrics` |
| Daily charges (`V:4276-4440`), claims, missions, reports, sellers, item exits, upload, calendar, pagination, admin site, deployment | — | single-row CRUD, library glue, pure I/O | little interaction | — | not modelled |

Components interact through the shared tables and the user graph: every workflow reads
roles and superiors; the daily dashboards read liquidity rows; workers never exchange
messages, only rows. Hence composition here means *several workers running handlers of
several tables over one store* (`Approvals`).

## 2. Plan

1. `RowStore`, `Hierarchy`, `EmployeeRequest` with the abstract `EmployeeFlow`; proofs — **done**
2. `Liquidity`, statement by statement, with the proof that the status and the link of a
   cheque agree — **done**
3. `Documents` and the five document workflows, composed in `Approvals`; every property
   of the two runs proved — **done**
4. `Sales`: sales, deposit orders and settlement, customers, expenses and their cheques;
   every property proved — **done**
5. `Checklists`: cron loop with drift, reset statement by statement, ticks and edits, and
   the one liveness property of the system — **done**
6. `Commissions` and `LiquidityMetrics`: the calculations, fed by every row the handlers
   can produce, checked against reference definitions; every property proved — **done**
7. `Accounts`: profile saves, superiors, soft deletion and restoration — **done**
8. The promises of `Liquidity` with one worker, on sums over any number of rows — **done**

Not begun: an atomic card ledger as the abstract specification of `Liquidity`, and the
register of daily charges.

## 3. Modules and how they correspond to the code

**RowStore.** `row`, `log` are the committed table and its history; `job[w]` is what
worker `w` has computed and will commit. `Prepare` is everything a handler does from
`get_object()` up to the commit; `Commit` writes the whole row and appends the entry (one
`@transaction.atomic`); `Rollback` is a killed worker or an error. A commit over a row
that was deleted re-inserts it, as `save()` with an existing primary key does. Two
abstractions: the row and its prefetched children are read in one step, and UUID keys
are not handed out again while a row or a running handler uses them.

**Hierarchy.** The roles and the walk `is_superior_to`/`get_all_subordinates`. `Above` is
the least set closed under superiors, which is what the walk with its visited set
computes; cycles are allowed.

**EmployeeRequest.** One action per endpoint (`Create`, `Cancel`, `SuperiorReview`,
`AdminReview`, `FinanceReview`, `Update`, `Destroy`); guards are the early returns with
400/403/404, `Visible` is `get_queryset`. `outcome` of an entry stands for its wording.
**EmployeeFlow** is the diagram of `EMPLOYEE_REQUESTS_API_DOCS.md`, one atomic step per
decision; `EmployeeRequest` maps to it with `status` and the trail of its history.

**Liquidity.** A handler is a program counter (`job[w].next`) and what it has read; each
SQL statement is one action. `Statement` is the union of the statements, `ExpenseRequest`
and `CheckRequest` start handlers, `Crash` kills a worker between two statements. The
order in which a handler saves its cheques is left open. Amounts of expenses and cheques are
any integers, since the serializers set no minimum; those of card transactions are positive,
as `_add_card_transaction` demands. A request of one statement needs a free worker as well,
so that with one worker nothing happens between the statements of a handler but the
passing of a day.

**Documents** holds what the five workflows share: child rows `parts` replaced by an edit
in the same commit, `again` for the second `get_object()` of `super().update()`, the roles,
the save of a decision. Each of **DamageRegistration, BranchTransfer, WasteReport,
ReturnRequest, AdvanceRequest** has one action per endpoint, its visibility and a
predicate `…Backed` that says which recorded decisions justify each status. **Approvals**
EXTENDS all five and serves them with the same workers; its initial states include the
damage registrations of before migration 0028, which wait for their supervisor and have
no history.

**Sales.** `settle` is one transaction, but it tests an order it has read without a lock;
so it takes two steps, `LoadSettle` and `Settle`, and so do all edits. `Purchase` is the
read and write of the customer's total under `select_for_update`. Sums stand for the lists
of items and payments. `ChequeInput` is what a client enters of a cheque beside its number:
`is_endorsed` and an expense with a cheque received in a sale, a payment with one that is
given away. Deposits and discounts may be below zero, which `validate` does not refuse.

**Checklists.** `PassBy`, `Notice`, `Finish` are the passes of the shell loop: `clock` has
`Phases` positions per minute and every pass takes 60 seconds and at most one position
more. The reset reads all tasks (`Load`), counts by a query per checklist (`Count`), and
makes logs and unticked tasks visible in one `Commit` (the atomicity of
`transaction.atomic()` is taken for granted, not checked); `Abort` is the failing foreign key
when a checklist vanished meanwhile, `Fail` an error or kill, `Restart` that of the
container. `disturbed` and `missed` are bookkeeping that only properties read.

**Commissions.** One seller's plan and daily sales. A PATCH of one column is merged with
the snapshot of `get_object()`, validated, and saved whole later; `BulkSave` is atomic.
`Commission`, `Tiered`, `Reward` are the functions of `utils/commission.py`, `Status` is
what the endpoint shows. Earnings count in hundredths, so that no percentage is rounded.
`MaxDays` is the largest day `validate` accepts: where the length of the month cannot be
told (Esfand of the year 0, or of a year after 9377: `jdatetime` raises) it is 31. What `float()`
rounds in the answer is left out.

**Accounts.** Usernames, deletion marks and superiors. `SaveUser` writes all columns of what
was read (a deleted row is inserted again), `SoftDelete` and `Restore` write the columns
they change. `overtaken` holds the pairs of a worker and a user that was deleted or came back
since the worker's request began: the properties say that only such a request, about this
very user, can undo a deletion. The names clients enter are none of the form
`deleted_<timestamp>_<name>`; the serializer would not refuse one.

**LiquidityMetrics.** `Detail` is `calculate_liquidity_metrics`, which asks the database
per expense; `Batch` is `batch_calculate_metrics`, which walks all open expenses in order
of maturity and keeps running sums. `Liquidity` is about the statements of the handlers
that write; here they are one step each, and what matters is the rows they leave.
Two expenses may have one `created_at`: the list then goes by `id` (`ComesFirst`), the page
counts neither of the two ahead of the other (`TiedAhead`). `Metrics` takes `given`, since
only the list hands over a balance and a sum that paid and overdue expenses repeat. `Flagged`,
`Scoped` and `Listed` are the filters `is_paid`, `scope` (without one: unpaid) and `status`;
the scope `this_month` is left out, a range of due dates like `next_week`.

**Slips.** A definition whose comment starts with "Slip:" is a plausible mistake (a
dropped guard, a missing reset) in the definition that follows it. No action uses it; it
is substituted to show that a property would notice the mistake.

## 4. Runs

`CHECK_DEADLOCK FALSE` is set in `employee_overlap` and the two runs of `Approvals` alone,
where all documents may end in a final state or at the bound of their history with nothing
left to call; the others are checked for deadlock.

| run | question | what it shows |
|---|---|---|
| `employee_serial` | one worker, every endpoint incl. PATCH and DELETE | types, paid once, no late cancel, refinement of `EmployeeFlow` |
| `employee_overlap` | two workers, stale saves, no PATCH/DELETE | chain of decisions and status = last entry survive |
| `liquidity_serial` | one worker, never killed, every endpoint but edits and deletions by hand; amounts below zero, manual withdrawals | a payment is covered by its card, deducted once, paid iff deducted; net amounts; cheques never spent twice |
| `liquidity_overlap` | two workers that may be killed | `SpentIffLinked` survives |
| `liquidity_all` | one worker, every endpoint, all five statuses and a link or none entered by clients, kills | a cheque that loses its expense is not left SPENT, unless a client edits it so |
| `approvals_serial` | one worker, five workflows, every endpoint | decisions backed, history announces status, final entry lists the goods, one final decision, no late cancel |
| `approvals_overlap` | two workers, stale saves, edits with double load | no document passes a stage nobody decided |
| `sales_overlap` | two workers that both edit, settle and endorse, every endpoint | orders balanced, cheques change hands with an expense only, a settlement books what its snapshot owes, every sale is in its customer's total |
| `checklists` | drifting scheduler, one failure or restart, one user | never two nights missed without a mishap, undisturbed resets exact, every tick cleared in the end |
| `commissions` | two workers patch a plan and days | plans and days stay valid; every unit is paid once; more sales never earn less |
| `accounts` | two workers, two users, two names | names and marks coherent; deleted users stay deleted, and without subordinates, but for requests the deletion has overtaken |
| `liquidity_metrics` | two expenses, one payment, three days | page, list, filters and summary agree up to ties and to what paid and overdue expenses repeat; paying leaves those behind as they were; waiting never helps |

**Bounds.** `Ids`/`Expenses`/`Checks`/`Transactions`: one document or two of each suffice
because handlers of the workflows touch one row and liquidity rules relate at most two
expenses and two cheques of one card; `MaxLog` stops new handlers on a document whose
history is full: 5 entries cover submission, all four decisions of the longest flow, and
a transfer that is rejected, edited and sent again; in `approvals_overlap` 4 entries reach
`PENDING_FINANCIAL` (the last stage is covered by `approvals_serial`) and there is no
DELETE, because a re-inserted row legitimately loses its history (see section 5).
`Amounts` -1 and 2 in `liquidity_serial` (1 and 2 in `liquidity_all`) against card
transactions of 2 tell sufficient from insufficient balance, partial from full cheques, and
a card that a confirmed negative expense fills from one that a manual withdrawal overdraws;
`LastDay` = 1 gives one due and one overdue day. `Users` are one person per role that
matters: a requester, a superior, an admin, a financial manager (or a manager holding all
stage roles, the worst case for skipped stages). `Named`, `InvolvedSets`, `Goods`,
`StatusInputs`, `LinkInputs` are the inputs clients enter; `Endpoints` and `Kinds` choose
which handlers a run includes.

In `Sales`, a price of 3 with parts (discounts, deposits) of -1 or 1 leaves a discount, a
deposit and a debt that all differ; `MaxAmount` = 4 is the width of the customer's column,
small enough to be reached by a second sale. Two expenses may endorse one cheque at once.
The constraint `Apart` of `sales_overlap` looks at deposit orders and at sales with their
cheques in turn, never at both in one state: they meet only in the customer's total, which
both change while edits of the customer overlap them. In `Checklists`, `Days` is
a calendar of two days one of which is Saturday and the 28th, so that both kinds of night
recur; `Minutes` = `Phases` = 3 keeps the proportion that matters (a day drifts by less
than a minute); `MaxMishaps` = 1 bounds failures, restarts and checklists deleted under a
reset; keys are not handed out again (`Gone`), which bounds creations. In `Commissions`,
`MaxTotal` = 5 passes every boundary of the tiers and milestones, of the two months one
has 30 days and the other is Esfand of the year 0, whose length nobody tells, and every
list of inputs has one refused value. `Accounts` has two users and two
names: the rules relate two users, or a user and a name. In `LiquidityMetrics` what a
payment does concerns pairs (an expense and one behind it), amounts of -1 and 2
and cards with 0 or 3 cover a card that is short, exact and ample, two `Instants` an older, a
younger and a tied expense, and `LastDay` = 2 a day before, at and after maturity. Symmetry is used for workers and keys in runs without temporal refinement or liveness
over them, and for values no definition distinguishes.

**Fairness.** `Checklists` alone assumes it: `WF_vars(Scheduler)`, the passes of the cron
loop and of the command it waits for. The code justifies it: the loop is `while true`, it
runs in a container of its own with `restart: always`, and it calls one command at a time.
Nothing is assumed of users: nobody is obliged to send a request, to finish one, or to
leave a task alone. Failures are bounded by `MaxMishaps`: a command that fails every night
clears nothing, and no property says otherwise. `DailyCleared` needs the drift analysed:
`sleep 60` may skip the minute 23:00, but never on two nights in a row (`NightsMissed`).
Elsewhere a handler runs to completion unless its worker is killed, but nobody is obliged
to call one, so nothing must eventually happen.

## 5. What the checks found

The following claims are violated. Their configurations are kept so that TLC shows the
counterexample (`tlc -config <file> <module>`); they are no part of the runs of section 4.

| configuration | module | violated | behaviour |
|---|---|---|---|
| `EmployeeRequest_paid_twice.cfg` | `EmployeeRequestMC` | `PaidOnce` | a PATCH saves an old status over PAID, and finance pays again |
| `Liquidity_overdraft.cfg` | `LiquidityMC` | `PaymentsCovered` | two confirmations read one balance, and the second is not covered |
| `Liquidity_killed.cfg` | `LiquidityMC` | `PaidIffDeducted` | a worker killed between the flag and the withdrawal |
| `Liquidity_removed_after_paid.cfg` | `LiquidityMC` | `DeductedInFull` | a cheque taken back from a paid expense |
| `Approvals_stale_items.cfg` | `ApprovalsMC` | `FinalEntryListsGoods` | an edit between load and final approval |
| `Sales_settled_twice.cfg` | `SalesMC` | `OneSalePerOrder` | two settlements of one order: two sales, counted twice |
| `LiquidityMetrics_paid_filter.cfg` | `LiquidityMetricsMC` | `PaidAreListed` | `?status=PAID`, also with `is_paid=true`, lists nothing under the default scope |
| `LiquidityMetrics_page_and_list.cfg` | `LiquidityMetricsMC` | `PageIsList` | the list shows a balance of a paid or overdue expense, its page shows 0 |

Other disagreements met while modelling:

- Cancel of a request tests a stale snapshot (`V:3496`): it commits over an approval made
  meanwhile, against docs line 52. Seen with two workers; `NoCancelAfterReview` therefore
  belongs to the serial run only. The same holds for `V:2204` and damage registrations.
- `admin_review` of employee requests accepts `FINANCIAL_MANAGER` (`V:3616`); docs lines
  65 and 393 say admins only.
- DELETE is open to everyone who sees a request or registration (`V:90`); the docs
  (employee requests line 397) give it to ADMIN only. PATCH leaves no history entry
  although docs line 409 promises a complete one.
- A DELETE that races a review: the review's `save()` re-inserts the request without its
  history; a DELETE of an expense can likewise leave a cheque SPENT that belongs to none,
  although `test_liquidity_checks_and_charges.py:251` expects released cheques.
- Two workers can confirm one expense twice (`V:4791`) and spend one cheque on two
  expenses (`V:4889`); a failed creation with cheques leaves the expense behind.
- Amounts of expenses and cheques may be negative (`M:1500`, `S:2133`): confirming an expense
  of -5 books a withdrawal of -5, which raises the balance; unconfirming it after the money
  is spent leaves the card below zero. A manual withdrawal is not compared with the balance
  (`V:5308`). So a balance *can* be negative even with one worker, and `PaymentsCovered`
  speaks of the moment of a payment.
- Clients may enter a cheque as SPENT without an expense, clear the link of one that is, or
  link one that is PENDING (`S:2058-2083`); `ReturnedWhenUnlinked` therefore is about what
  the handlers make of a cheque.
- PATCH of an expense sets `amount` but not `initial_amount`; the next recalculation
  (`M:1533`) discards the edit.
- Damage registrations: `get_queryset` hides them from `EXECUTIVE_MANAGER`, whose
  `management_review` therefore answers 404; the docs contradict themselves on who may
  cancel until when (line 23 against 35 and 70).
- A waste report rejected by the warehouse can be edited but never reviewed again, as its
  status does not return to PENDING. The refund date of a return can be patched any time.
- Sales: payments may exceed the total (`S:284`, against `API_Documentation.md:782`); an
  endorsed cheque with a known number is refused before it is looked up (`S:223`, against
  `API_Documentation.md:979`); the status of an order is writable (`S:445`, against the
  diagram of `DEPOSIT_API_DOCS.md:314`); a PUT of a customer without a total resets it. A sale
  may bring in a cheque that is marked as endorsed already, for some expense or for none
  (`S:223`), and an expense a cheque that names the payment of a sale (`S:382-392`), so that
  "endorsed" does not mean "pays an expense". A deposit below zero is accepted (`S:447`) and
  makes the settlement collect more than the sale costs (`V:1361-1370`).
- Checklists: `POST /api/tasks/` cannot name its checklist (`S:563`), though
  `API_Documentation.md:1337` requires it. A tick that saves a task read before the reset
  brings yesterday's completion back.
- Commissions: `to_amount` is validated nowhere, so a tier may end before it starts and then
  pays a negative part (`S:1767`); in Esfand of the year 0, or of a year after 9377, the
  31st is accepted as a day (`S:1836`);
  the Gregorian date of a daily sale does not follow a PATCH of its day (`M:1423`).
- Metrics: expenses due on the same day count as upstream if they are older (`M:1582`;
  `LIQUIDITY_API_DOCS.md:45` names earlier dates only); of two with one date and one
  `created_at` the list counts the smaller id as upstream, the page neither (`M:1583`,
  `M:1713`); the summary's remaining
  total is too small when an expense is over-allocated (`V:4989`); two first requests
  create two revenue rows (`M:1452`).
- Accounts: a profile saved by a request that was running during a deletion restores the
  user (`V:532`); a request that named a superior before the superior's deletion makes it a
  superior again (`S:166`); and an update of a deleted user (`?include_deleted=true`) that
  saves after the restoration deletes the user again, without clearing whom subordinates
  report to. `overtaken` in `DeletedStays` and `NoDeletedSuperior` names exactly these cases.

## 6. Proofs

Each `X_proofs` proves results about `X` for every value of its constants: any users,
roles, hierarchies, rows, amounts, calendars, bounds and numbers of workers.
A row without an assumption holds for all workers, endpoints and inputs. "One worker" means
`Workers = {w0}`: the handlers then run one after the other, but still statement by
statement, and may still be killed where the row does not exclude it.

| module | theorem | statement | assumes |
|---|---|---|---|
| `EmployeeRequest_proofs` | `TypeCorrect` | `[]TypeOK` | — |
| | `ApprovalChainHolds` | `[]ApprovalChain`, PATCH included | `"destroy"` not called |
| | `PaymentDateHolds` | `[]PaymentDateIffPaid` | — |
| | `StatusIsLastEntryHolds` | `[]StatusIsLastEntry` | neither `"update"` nor `"destroy"` called |
| | `OneWorkerFollowsTheFlow` | `FollowsTheFlow` (refinement) | one worker |
| | `OneWorkerPaysOnce`, `OneWorkerCancelsInTime` | `[]PaidOnce`, `[]NoCancelAfterReview` | one worker |
| `Approvals_proofs` | `TypesHold` | `[]TypeOK` | — |
| | `DecisionsBackedHolds` | `[]DecisionsBacked` | `"destroy"` not called, or one worker |
| | `StatusIsAnnounced`, `FinalEntryListsTheGoods`, `DecidedFinallyOnce`, `CancelledBeforeWarehouse` | `[]StatusAnnounced`, `[]FinalEntryListsGoods`, `[]FinalOnce`, `[]NoCancelAfterWarehouse` | one worker |
| `Liquidity_proofs` | `TypesHold` | `[]TypeOK`, workers killed anywhere | — |
| | `SpentIffLinkedHolds` | `[]SpentIffLinked`, workers killed anywhere | clients set neither status nor link of a cheque, `"destroy"` not called |
| | `OneWorkerDeductsOnce` | `[]DeductedOnce` | one worker, not killed |
| | `OneWorkerPaysAsDeducted` | `[]PaidIffDeducted` | one worker, not killed; `"delete_transaction"` not called |
| | `OneWorkerPaysCovered` | `PaymentsCovered`, the worker killed anywhere | one worker |
| | `OneWorkerReturnsCheques` | `ReturnedWhenUnlinked`, the worker killed anywhere | one worker |
| | `OneWorkerNeverRespends` | `NeverRespent`, the worker killed anywhere | one worker; clients write no links |
| | `OneWorkerKeepsNetAmounts` | `[]NetOfSpentChecks` | one worker, not killed; clients neither edit an expense, nor patch, delete or link a cheque by hand (`RecalculatedAlways`) |
| `Sales_proofs` | `TypesHold` | `[]TypeOK` | — |
| | `OrderBalancedHolds` | `[]OrderBalanced` | — |
| | `SettlementCollects` | `SettlementCollectsNet` | — |
| | `EverySaleIsCounted` | `EverySaleCounted` | — |
| | `EndorsedWithExpenseHolds` | `EndorsedWithExpense` | — |
| `Accounts_proofs` | `CoherentHolds`, `NoDeletedSuperiorHolds`, `DeletedStaysHolds` | `[]Coherent`, `NoDeletedSuperior`, `DeletedStays` | — |
| `Commissions_proofs` | `PlansValidHolds`, `DaysExistHolds` | `[]PlansValid`, `[]DaysExist` | — |
| | `MarginalUnitsHold`, `EarningsGrowHolds` | `[]MarginalUnits`, `[]EarningsGrow` | — |
| `Checklists_proofs` | `TypesHold` | `[]TypeOK` | — |
| | `SnapshotExactHolds` | `SnapshotExact`, with failures and restarts | — |
| | `NightsMissedHolds` | `[]NightsMissed`, with failures and restarts | — |
| `LiquidityMetrics_proofs` | `PagesAgreeHolds` | `[]PagesAgree` | — |
| | `PayingKeepsDownstreamHolds` | `PayingKeepsDownstream` | — |
| | `WaitingNeverHelpsHolds` | `WaitingNeverHelps` | — |

Besides, every theorem rests on the named ASSUMEs of the modules, which TLC evaluates in
every run: inputs are of their types; a sentinel (`Absent`, `Idle`, `Unused`, `Gone`, `None`)
is no row, entry or job, as NULL is none; the tasks are finitely many; and, the one that carries an
argument, `DriftAssumption`: a day's drift and a night's commands each take at most
a minute, and the day has at least two minutes before 23:00.

The other assumptions are needed: a deleted row that a stale save re-inserts has no
history, a PATCH saves an old status without an entry, the deletion of an expense takes
the link from a cheque that another worker spent on it meanwhile; and for most of what is
proved of one worker, TLC shows how two of them, or a kill, violate it (section 5).

*Stale saves* (`EmployeeRequest`, `Approvals`). No invariant of the workflows is inductive
alone, because `Commit` writes what was computed earlier. The inductive invariant speaks of
the committed row **and** of every row a running handler is about to save: the pending row,
with the history as it will be after the pending entry, is backed. A handler computes its
row from one committed version, whose backing decisions are in the history, and histories
only grow (`BackedMonotone`), so the pending row stays backed however long the worker waits
and whatever others commit. That is why the chain survives stale saves although the *order*
of statuses does not. For `StatusIsLastEntry` the pending entry announces the pending
status, so that whichever save comes last, its own entry is last too.

`Approvals_proofs` brings every step of the five workflows to one of a few forms first
(`StepForms`: a document is created, a handler has computed its save from one committed
version, a job commits, a job is given up), and shows for each workflow once that what its
handlers compute is backed (`BackedInv`). An update loads its row twice, so that what passed
the test need not be what is saved: the lemmas about `again` say that what the second load
finds is still backed by decisions, and, with one worker, still editable.

*One worker on documents* (`SerialInv`, `PathInv`). What a job has seen is still committed
when it commits. For `EmployeeRequest` this gives the refinement, and `Path`: the trail of a
request says for each status which decisions were taken and which were not, so that payment
is the last decision and cancellation the first. For `Approvals` each document is
`Consistent` with its history: its status is the one announced, its final decision occurs
once, and a final entry lists the goods, since edits end before it.

*Liquidity.* The types come first, for any interleaving (`TypeInv`): an aggregate is a sum
over rows, so they say that the tables stay finite, and that every row, every instance a
handler has yet to save and every sum it has read is a number where one is expected.
`AgreeInv` for `SpentIffLinked` says that status and link agree in the committed cheques
and in the instances yet to be saved; the overdue sync writes the status alone, but only of
PENDING cheques, and the deletion of an expense, which writes the link alone, is excluded.
With one worker the invariants say, for each statement a handler may be at, what it has
done and what it has yet to do. `PaidInv`: the flag and the deduction differ exactly
between the two statements that write them. `FundsInv`: a confirmation that is past its test
still has the funds it has read, because nobody else runs before it books the withdrawal; so the
payment is covered, whatever the card looked like before and will look like after.
`LinkedInv`: whatever a handler has yet to save as SPENT is linked, unless it is an edit of a
cheque, and one that deletes an expense has yet to release, or has released, every cheque
spent on it; so when the row goes, none of the cheques whose link becomes null is SPENT.
`SpendInv`: no cheque a handler has yet to save moves from one expense to another.
`NetInv`: the sum of the spent cheques changes by one cheque per statement, and an expense
may differ from it only while its own recalculation is ahead.

*Sums.* `MapThenSumSet`, defined by recursion over subsets, adds up over any finite set: the
sum of one element more or less, of equal or comparable terms. The induction over subsets is
stated with a set of sets instead of a predicate and so needs no theorem with an operator
parameter. `Liquidity_proofs`, `LiquidityMetrics_proofs` and `Commissions_proofs` each begin
with the lemmas on sums that they use.

*Metrics.* Due date, `created_at` and id together order the unpaid expenses of a category
(`ComesFirst`): each has its rank among them, the ranks are exactly the places of a queue
(`SortedExists`), and those ahead in the queue are those that come first (`AheadInQueue`).
They are the ones the page asks for and the tied ones of smaller id, two disjoint sets
(`TotalOfUnion`), so the running sum of the list is the sum of the page plus that of the tied;
where none is tied the metrics are equal. For the summary, amounts are compared one by one with what was put
aside and what is left (`DebtsOneByOne`). A confirmation is the only step that makes an
expense paid: it takes one term out of the sum of those behind and puts it into the
withdrawals. When a day passes the cash does not grow, a smaller divisor has the larger
quotient or the larger rest (`QuotientGrows`), half-even rounding keeps that order, and the
thresholds do.

*Commissions.* `PlansInv` and `DaysInv`: every plan and every sale about to be saved was
validated as it was merged, and days are unique because `SaveSale` and `bulk-save` check
them again at the write, as the unique constraint does. On such plans the calculations are
sums over tiers and milestones. `MarginalUnits` is an induction over the turnover: one unit
more changes the part of exactly one tier, the one it lies in, by that tier's rate
(`Consecutive` tiers leave no gap). `EarningsGrow`: each part of the calculation, the base,
the tiers, the reward, grows with the turnover, and raising one day raises the month.

*Sales.* `BooksInv` is an invariant of the committed orders and of every order a running
handler is about to save: each was validated and rounded to its debt as a whole, so that it
does not matter which one is saved last; `SettlementCollects` follows, for the order that
`settle` has read was saved balanced: its deposit and its debt make up the price, and a
payment is booked of each that is above zero, so that a negative deposit is what the
customer pays in excess. The types need
that the customer joined to an order is a row, which PROTECT gives (`OrdersHaveCustomers`).
`KeysInv`: an expense that a request is about to record is not in the table and no other
request records the same one, so that a cheque saved with it, stale or not, is given to an
expense that is new with this commit.

*Accounts.* `AccountsInv`: a row a request holds agrees with the table about the deletion of
its user, and every superior a request names is not deleted, unless that request was running
when the user, or the superior, was deleted or came back (`overtaken`).

*Checklists.* `ResetInv`: what a command holds that no request has disturbed equals the
tables: the rows it read, the completed tasks of each of its checklists, and the counts
taken so far. Insertions need no mark, since a new task is not completed; every other write
of a task marks the command. `NightsInv` counts the drift: while the loop is `OnTime`
(its position within the minute plus the minutes until 23:00 stay within a minute) it reads
23:00; skipping a night means that the drift has just added up to a minute, which
leaves the loop at the start of one and hence on time for the whole next day. Once 23:00
is read the DAILY command is the first (`DailyFirst`), and it is on track unless it fails,
is killed or one of its checklists is deleted, each of which `mishaps` counts.

*Only model-checked:* `DailyCleared` of `Checklists`, a liveness property under fairness and
so out of the prover's reach. ENABLED and modules with RECURSIVE operators are out of reach
too; no module declares one.

## 7. Not modelled

Texts, notes, dates other than "recorded or not", pagination, filtering, notifications
and endpoints that only read; permissions appear as guards. The register of daily charges
is one row per day edited by its owner. `mark_online` and the dashboards that count pending
work write a timestamp or nothing. Signatures and expiry of tokens belong to a library.
Claims, missions and reports hold single rows with validation and no interaction; file
upload, calendar conversion, the admin site, migrations and deployment are pure I/O,
library glue or generated. Whether a completion that a stale save brings back should count
for the next day has no property, as no document says so.
