---------------------------- MODULE Commissions ----------------------------
(***************************************************************************)
(* The commission plan of one seller, the sales recorded for the days of   *)
(* the Shamsi months, and the earnings computed from both.                 *)
(*                                                                         *)
(* Plans and days are saved by serializers: the request is merged with the *)
(* snapshot that get_object() loaded, the merged row is validated, and all *)
(* its columns are written later.  bulk-save locks the rows it updates.    *)
(* A PATCH of "seller" moves a row to or from another seller: for this one *)
(* it is a deletion or a creation.  Amounts of money are integers; earned  *)
(* ones are in hundredths, so that no percentage is rounded (the code has  *)
(* no rounding either).  A null amount counts as 0.                        *)
(*                                                                         *)
(* Left out: who may do it, notes, branch, who recorded a row, the         *)
(* breakdown of the calculation, and the column "date".                    *)
(***************************************************************************)
EXTENDS Integers, Sequences, FiniteSetsExt

CONSTANTS
  SaleIds,                       \* primary keys of SellerDailySale
  Workers,                       \* gunicorn workers
  Months, DaysInMonth,           \* Shamsi months of some years, and their lengths
  Uncounted,                     \* those of years that jdatetime does not know: Esfand of
                                 \* the year 0 or of a year after 9377
  BulkMonths,                    \* those of the years 1300 to 1500
  DayInputs, Amounts,            \* the days and amounts clients enter
  Thresholds, Percentages,       \* what clients enter in a plan ...
  TierLists, MilestoneLists,     \* ... and its lists, tiers and milestones
  MaxTotal,                      \* bound: the largest monthly total looked at
  Absent, Idle, Unlimited

ASSUME CommissionsAssumption ==
  /\ DaysInMonth \in [Months -> 29 .. 31]
  /\ Uncounted \subseteq Months /\ BulkMonths \subseteq Months \ Uncounted
  /\ DayInputs \subseteq Nat /\ Amounts \subseteq Int
  /\ Thresholds \subseteq Int /\ Percentages \subseteq Int
  /\ \A l \in TierLists : \A i \in DOMAIN l :
       l[i].from_amount \in Int /\ l[i].to_amount \in Int \cup {Unlimited}
       /\ l[i].percentage \in Int
  /\ \A l \in MilestoneLists : \A i \in DOMAIN l :
       l[i].target_amount \in Int /\ l[i].reward_amount \in Int
  /\ \A l \in TierLists \cup MilestoneLists : Len(l) \in Nat /\ DOMAIN l = 1 .. Len(l)
  /\ MaxTotal \in Nat

VARIABLES
  config,  \* the seller's SellerCommissionConfig (one to one)
  sale,    \* the seller's SellerDailySale rows
  job      \* the validated rows that the workers are about to save

vars == <<config, sale, job>>

ConfigColumns ==
  [is_active |-> BOOLEAN, model_type |-> {"THRESHOLD_SURPLUS", "TIERED_FROM_BASE"},
   threshold_amount |-> Thresholds, surplus_percentage |-> Percentages, tiers |-> TierLists,
   reward_active |-> BOOLEAN, reward_mode |-> {"HIGHEST_ONLY", "CUMULATIVE"},
   reward_milestones |-> MilestoneLists]
ConfigRow ==
  [is_active : BOOLEAN, model_type : ConfigColumns.model_type,
   threshold_amount : Thresholds, surplus_percentage : Percentages, tiers : TierLists,
   reward_active : BOOLEAN, reward_mode : ConfigColumns.reward_mode,
   reward_milestones : MilestoneLists]

SaleColumns == [shamsi_month |-> Months, shamsi_day |-> DayInputs, amount |-> Amounts]
SaleRow == [shamsi_month : Months, shamsi_day : DayInputs, amount : Amounts]

-----------------------------------------------------------------------------
\* The calculation (core/utils/commission.py).

\* calculate_threshold_surplus()
Surplus(total, threshold, percentage) ==
  IF total <= threshold THEN 0 ELSE (total - threshold) * percentage

\* Slip: the tier that the total falls into is not cut off at the total.
TierPartWhole(total, tier) ==
  IF total <= tier.from_amount THEN 0
  ELSE IF tier.to_amount = Unlimited THEN (total - tier.from_amount) * tier.percentage
  ELSE (tier.to_amount - tier.from_amount) * tier.percentage

\* Slip: a tier pays for the whole total, as a non-marginal scale would.
TierPartOnAll(total, tier) ==
  IF total <= tier.from_amount THEN 0
  ELSE IF tier.to_amount # Unlimited /\ total > tier.to_amount THEN 0
  ELSE total * tier.percentage

\* What one tier pays: for the part of the total that lies in it.
TierPart(total, tier) ==
  IF total <= tier.from_amount THEN 0
  ELSE IF tier.to_amount = Unlimited \/ total <= tier.to_amount
  THEN (total - tier.from_amount) * tier.percentage
  ELSE (tier.to_amount - tier.from_amount) * tier.percentage

\* calculate_tiered_marginal(); the order of the tiers does not change the sum.
Tiered(total, tiers) == MapThenSumSet(LAMBDA i : TierPart(total, tiers[i]), DOMAIN tiers)

Achieved(total, milestones) == {i \in DOMAIN milestones : total >= milestones[i].target_amount}

\* The last one of these milestones sorted by target (a stable sort).
Highest(S, milestones) ==
  CHOOSE i \in S : \A j \in S :
    \/ milestones[j].target_amount < milestones[i].target_amount
    \/ milestones[j].target_amount = milestones[i].target_amount /\ j <= i

\* calculate_reward(): the highest achieved milestone, or all of them.
Reward(total, milestones, mode) ==
  LET achieved == Achieved(total, milestones) IN
  IF achieved = {} THEN 0
  ELSE IF mode = "CUMULATIVE"
  THEN MapThenSumSet(LAMBDA i : 100 * milestones[i].reward_amount, achieved)
  ELSE 100 * milestones[Highest(achieved, milestones)].reward_amount

\* calculate_seller_commission()
Commission(r, total) ==
  IF r.model_type = "THRESHOLD_SURPLUS"
  THEN Surplus(total, r.threshold_amount, r.surplus_percentage)
  ELSE Tiered(total, r.tiers)
Earnings(r, total) ==
  IF r = Absent \/ ~r.is_active THEN 0
  ELSE Commission(r, total)
       + IF r.reward_active THEN Reward(total, r.reward_milestones, r.reward_mode) ELSE 0

\* What GET status sums up: the rows of one month.
Rows(m) == {s \in SaleIds : sale[s] # Absent /\ sale[s].shamsi_month = m}
MonthTotal(m) == MapThenSumSet(LAMBDA s : sale[s].amount, Rows(m))
\* GET status: what the seller has earned in a month, if his sales were more by more.
Status(m, more) == Earnings(config, MonthTotal(m) + more)

-----------------------------------------------------------------------------
\* The handlers.

\* A PATCH merged with the instance; it sends one column.  (A PUT sends all of them, and
\* its row depends on no snapshot: it is the row of a creation.)
Patches(row, Inputs) ==
  UNION {{[row EXCEPT ![c] = v] : v \in Inputs[c]} : c \in DOMAIN Inputs}
Columns(row, merged) == {c \in DOMAIN row : row[c] # merged[c]}

\* Slip: only the columns that were sent are validated.
ValidPlanSent(r, columns) ==
  /\ "threshold_amount" \in columns => r.threshold_amount >= 0
  /\ "surplus_percentage" \in columns => r.surplus_percentage \in 0 .. 100
  /\ "tiers" \in columns => \A i \in DOMAIN r.tiers :
       r.tiers[i].from_amount >= 0 /\ r.tiers[i].percentage \in 0 .. 100
  /\ "reward_milestones" \in columns /\ r.reward_active =>
       \A i \in DOMAIN r.reward_milestones :
         r.reward_milestones[i].target_amount > 0 /\ r.reward_milestones[i].reward_amount >= 0

\* SellerCommissionConfigSerializer.validate(), on the merged row: only what the
\* chosen model uses is looked at, and only the lower end of a tier.
ValidPlan(r, columns) ==
  /\ r.model_type = "THRESHOLD_SURPLUS" =>
       r.threshold_amount >= 0 /\ r.surplus_percentage \in 0 .. 100
  /\ r.model_type = "TIERED_FROM_BASE" => \A i \in DOMAIN r.tiers :
       r.tiers[i].from_amount >= 0 /\ r.tiers[i].percentage \in 0 .. 100
  /\ r.reward_active => \A i \in DOMAIN r.reward_milestones :
       r.reward_milestones[i].target_amount > 0 /\ r.reward_milestones[i].reward_amount >= 0

\* Slip: the day is compared with the longest month.
ValidDayAnyMonth(r) == r.amount >= 0 /\ r.shamsi_day \in 1 .. 31

\* The largest day that validate() accepts: 31 if get_days_in_shamsi_month() raises.
MaxDays(m) == IF m \in Uncounted THEN 31 ELSE DaysInMonth[m]

\* SellerDailySaleSerializer.validate() and validate_amount().
ValidDay(r) == r.amount >= 0 /\ r.shamsi_day \in 1 .. MaxDays(r.shamsi_month)

SameDay(r, q) == r.shamsi_month = q.shamsi_month /\ r.shamsi_day = q.shamsi_day
\* The unique key of seller, year, month and day.
Unique(s, r) == \A t \in SaleIds \ {s} : sale[t] # Absent => ~SameDay(sale[t], r)

At(w, next) == job[w] # Idle /\ job[w].next = next
Done(w) == job' = [job EXCEPT ![w] = Idle]

\* uuid4() never returns the key of a row that a running request has loaded.
FreshSale(s) == sale[s] = Absent /\ \A w \in Workers : At(w, "save_sale") => job[w].id # s

\* perform_create(); a plan that is running through a request and is created again gets
\* a new key, and the save of the old one is refused by the unique seller.
CreateConfig(sent) ==
  /\ config = Absent /\ \A w \in Workers : ~At(w, "save_config")
  /\ ValidPlan(sent, DOMAIN sent)
  /\ config' = sent
  /\ UNCHANGED <<sale, job>>
LoadConfig(w, merged) ==
  /\ job[w] = Idle
  /\ ValidPlan(merged, Columns(config, merged))
  /\ job' = [job EXCEPT ![w] = [next |-> "save_config", row |-> merged]]
  /\ UNCHANGED <<config, sale>>
\* A plan deleted since it was loaded is inserted again.
SaveConfig(w) ==
  /\ At(w, "save_config")
  /\ config' = job[w].row
  /\ Done(w)
  /\ UNCHANGED sale
DestroyConfig ==
  /\ config # Absent
  /\ config' = Absent
  /\ UNCHANGED <<sale, job>>

CreateSale(s, sent) ==
  /\ FreshSale(s) /\ ValidDay(sent) /\ Unique(s, sent)
  /\ sale' = [sale EXCEPT ![s] = sent]
  /\ UNCHANGED <<config, job>>
LoadSale(w, s, merged) ==
  /\ job[w] = Idle
  /\ ValidDay(merged)
  /\ job' = [job EXCEPT ![w] = [next |-> "save_sale", id |-> s, row |-> merged]]
  /\ UNCHANGED <<config, sale>>
SaveSale(w) ==
  /\ At(w, "save_sale") /\ Unique(job[w].id, job[w].row)
  /\ sale' = [sale EXCEPT ![job[w].id] = job[w].row]
  /\ Done(w)
  /\ UNCHANGED config
DestroySale(s) ==
  /\ sale[s] # Absent
  /\ sale' = [sale EXCEPT ![s] = Absent]
  /\ UNCHANGED <<config, job>>

\* SellerDailySaleBulkSerializer: the year is in range and every day lies in the month
\* (and is sent once).
ValidBulk(m, amount) ==
  /\ m \in BulkMonths
  /\ \A d \in DOMAIN amount : amount[d] >= 0 /\ d \in 1 .. MaxDays(m)

\* bulk-save: update_or_create() for each day of one month, in one transaction; key
\* names the row of each day, the stored one or a new one.
BulkSave(m, amount) ==
  LET Row(d) == [shamsi_month |-> m, shamsi_day |-> d, amount |-> amount[d]]
  IN /\ ValidBulk(m, amount)
     /\ \E key \in [DOMAIN amount -> SaleIds] :
          /\ \A d, e \in DOMAIN amount : key[d] = key[e] => d = e
          /\ \A d \in DOMAIN amount :
               IF sale[key[d]] = Absent THEN FreshSale(key[d]) /\ Unique(key[d], Row(d))
               ELSE SameDay(sale[key[d]], Row(d))
          /\ sale' = [s \in SaleIds |->
               IF \E d \in DOMAIN amount : key[d] = s
               THEN Row(CHOOSE d \in DOMAIN amount : key[d] = s) ELSE sale[s]]
     /\ UNCHANGED <<config, job>>

\* A refused save, or a killed worker.
Rollback(w) == job[w] # Idle /\ Done(w) /\ UNCHANGED <<config, sale>>

Init ==
  /\ config = Absent
  /\ sale = [s \in SaleIds |-> Absent]
  /\ job = [w \in Workers |-> Idle]

ConfigStep ==
  \/ \E sent \in ConfigRow : CreateConfig(sent)
  \/ config # Absent /\ \E w \in Workers, merged \in Patches(config, ConfigColumns) :
       LoadConfig(w, merged)
  \/ \E w \in Workers : SaveConfig(w)
  \/ DestroyConfig
SaleStep ==
  \/ \E s \in SaleIds, sent \in SaleRow : CreateSale(s, sent)
  \/ \E s \in SaleIds : sale[s] # Absent /\
       \E w \in Workers, merged \in Patches(sale[s], SaleColumns) : LoadSale(w, s, merged)
  \/ \E w \in Workers : SaveSale(w)
  \/ \E s \in SaleIds : DestroySale(s)
  \/ \E m \in Months, days \in SUBSET DayInputs : \E amount \in [days -> Amounts] :
       days # {} /\ BulkSave(m, amount)
Next == ConfigStep \/ SaleStep \/ \E w \in Workers : Rollback(w)

Spec == Init /\ [][Next]_vars

-----------------------------------------------------------------------------
\* The stored plan is always one that the calculation may use: what the chosen model
\* and the active rewards need has been validated, though each PATCH sends one column
\* and two of them may overlap (validate() merges with the instance, and save() writes
\* the whole merged row, never a mixture of two requests).
PlansValid ==
  config # Absent =>
    /\ config \in ConfigRow
    /\ IF config.model_type = "THRESHOLD_SURPLUS"
       THEN config.threshold_amount >= 0 /\ config.surplus_percentage \in 0 .. 100
       ELSE \A i \in DOMAIN config.tiers :
              config.tiers[i].from_amount >= 0 /\ config.tiers[i].percentage \in 0 .. 100
    /\ config.reward_active => \A i \in DOMAIN config.reward_milestones :
         /\ config.reward_milestones[i].target_amount > 0
         /\ config.reward_milestones[i].reward_amount >= 0

\* Every recorded day exists in its month, if the calendar knows the month's year, and no
\* day is recorded twice, though month and day are patched one at a time and bulk-save
\* creates rows meanwhile; in Esfand of an unknown year only the 31 days of the fallback
\* limit it (serializers.py:1836-1844).
DaysExist ==
  \A s \in SaleIds : sale[s] # Absent =>
    /\ sale[s].shamsi_day <= IF sale[s].shamsi_month \in Uncounted THEN 31
                              ELSE DaysInMonth[sale[s].shamsi_month]
    /\ Unique(s, sale[s])

\* The tiers follow one another from their base and the last one is open, as in the
\* documented example.
Consecutive(tiers) ==
  \A i \in DOMAIN tiers :
    IF i = Len(tiers) THEN tiers[i].to_amount = Unlimited
    ELSE tiers[i].to_amount = tiers[i + 1].from_amount
         /\ tiers[i].from_amount < tiers[i].to_amount
\* The rate of the u-th unit of money sold.
UnitRate(tiers, u) ==
  MapThenSumSet(LAMBDA i : tiers[i].percentage,
    {i \in DOMAIN tiers : tiers[i].from_amount < u
       /\ (tiers[i].to_amount = Unlimited \/ u <= tiers[i].to_amount)})

\* Marginal tiers: every unit of money sold is paid at the rate of the tier it lies in
\* and at no other, at and around each boundary (calculate_tiered_marginal).
MarginalUnits ==
  config # Absent /\ config.model_type = "TIERED_FROM_BASE" /\ Consecutive(config.tiers) =>
    \A total \in 0 .. MaxTotal :
      Tiered(total, config.tiers) = MapThenSumSet(LAMBDA u : UnitRate(config.tiers, u), 1 .. total)

\* The milestones' rewards do not fall with their targets.
Ascending(milestones) ==
  \A i, j \in DOMAIN milestones :
    milestones[i].target_amount <= milestones[j].target_amount =>
      milestones[i].reward_amount <= milestones[j].reward_amount

\* Selling more never earns less: whatever the plan in force and whatever was patched
\* before, the earnings of a month do not fall when sales are added to it (the code
\* does not ask for consecutive tiers or ascending rewards: without them they may).
EarningsGrow ==
  config # Absent
  /\ (config.model_type = "TIERED_FROM_BASE" => Consecutive(config.tiers))
  /\ (config.reward_active => Ascending(config.reward_milestones)) =>
    \A m \in Months : \A more \in 0 .. MaxTotal :
      Status(m, 0) <= Status(m, more)
=============================================================================
