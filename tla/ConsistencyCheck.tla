-------------------------- MODULE ConsistencyCheck --------------------------
(***************************************************************************)
(* The comparison of the registry with the network that each start makes   *)
(* (consistency_check.rs, gas_station_initializer.rs).  Only a warning     *)
(* comes of it, so module Startup has the calls and not the numbers.  The  *)
(* percentages, f64 in the code, are compared as exact fractions.          *)
(***************************************************************************)
EXTENDS Integers, Sequences, SequencesExt

CONSTANT None    \* an Option that is None

(* What the fullnode's pages of the sponsor's coins add up to. *)
AggregateCoinStats(pages) ==
  LET coins == FlattenSeq(pages)
  IN  [count |-> Len(coins),
       balance |-> FoldLeft(LAMBDA sum, c : sum + c.balance, 0, coins)]

DEFAULT_DIVERGENCE_THRESHOLD_PERCENT == 20

UnwrapOr(option, default) == IF option = None THEN default ELSE option

Larger(a, b) == IF a > b THEN a ELSE b

AbsDiff(a, b) == IF a > b THEN a - b ELSE b - a

(* calculate_divergence_percent(a, b) > percent: the difference is a part of
   the larger value, and of two zeros it is none. *)
DivergesBy(a, b, percent) ==
  Larger(a, b) # 0 /\ 100 * AbsDiff(a, b) > percent * Larger(a, b)

ValidateConsistency(registry, network, balancePercent, countPercent) ==
  [balanceDiverged |->
     DivergesBy(registry.balance, network.balance,
                UnwrapOr(balancePercent, DEFAULT_DIVERGENCE_THRESHOLD_PERCENT)),
   coinCountDiverged |->
     DivergesBy(registry.count, network.count,
                UnwrapOr(countPercent, DEFAULT_DIVERGENCE_THRESHOLD_PERCENT))]

HasDivergence(result) == result.balanceDiverged \/ result.coinCountDiverged

LogConsistencyWarnings(result) ==
  (IF result.balanceDiverged THEN {"balance"} ELSE {})
    \cup (IF result.coinCountDiverged THEN {"coin count"} ELSE {})

(* perform_consistency_check: what it warns of. *)
Warnings(registry, pages) ==
  LET result == ValidateConsistency(registry, AggregateCoinStats(pages), None, None)
  IN  IF HasDivergence(result) THEN LogConsistencyWarnings(result) ELSE {}
=============================================================================
