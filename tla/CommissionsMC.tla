--------------------------- MODULE CommissionsMC ---------------------------
(* Instances of Commissions for model checking. *)
EXTENDS Commissions, TLC

Tier(from, to, percentage) ==
  [from_amount |-> from, to_amount |-> to, percentage |-> percentage]
Milestone(target, reward) == [target_amount |-> target, reward_amount |-> reward]

\* Year and month: a month of 30 days, and Esfand of the year 0, where day 31 is accepted.
MCMonths == {<<1403, 7>>, <<0, 12>>}
MCDaysInMonth == [m \in MCMonths |-> IF m = <<1403, 7>> THEN 30 ELSE 29]
MCUncounted == {<<0, 12>>}
MCBulkMonths == {<<1403, 7>>}
\* Three consecutive tiers; one that is refused.
MCTierLists == {<<Tier(0, 1, 0), Tier(1, 3, 10), Tier(3, Unlimited, 5)>>,
                <<Tier(-1, Unlimited, 5)>>}
\* Two milestones, not sorted, and a list that is refused.
MCMilestoneLists == {<<Milestone(3, 2), Milestone(1, 1)>>, <<Milestone(1, -1)>>}
MCThresholds == {-1, 2}
MCAmounts == {-1, 3}
Symmetry == Permutations(Workers)
=============================================================================
