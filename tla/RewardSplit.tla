---------------------------- MODULE RewardSplit -----------------------------
(***************************************************************************)
(* How the reward of a round is split: the commissions, computed by the    *)
(* attender of a landed transaction, and each miner's share of the rest,   *)
(* computed by pool_mine_success_processor with two truncating divisions.  *)
(***************************************************************************)
EXTENDS Integers, Sequences, Sums

(* pool_rewards.mul(5).saturating_div(100) *)
commissions(poolRewards) == (poolRewards * 5) \div 100

total_hashpower(contributions) ==
  SumTo([k \in DOMAIN contributions |-> contributions[k].hashpower], Len(contributions))

(* In parts per million, rounded down. *)
hashpower_percent(hashpower, total) == (hashpower * 1000000) \div total

earned_rewards(hashpower, total, minersRewards) ==
  (hashpower_percent(hashpower, total) * minersRewards) \div 1000000
=============================================================================
