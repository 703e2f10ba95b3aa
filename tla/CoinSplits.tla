----------------------------- MODULE CoinSplits -----------------------------
(***************************************************************************)
(* The arithmetic of splitting the sponsor's coins into pieces of about    *)
(* the target balance (gas_station_initializer.rs, iota_client.rs).        *)
(***************************************************************************)
EXTENDS Integers

CONSTANTS
  GasPerObject,        \* gas_cost_per_object: what a split may cost per piece
  TargetInitBalance,   \* target_init_coin_balance
  MaxSplit,            \* the 2000 coins one transaction may create
  U64                  \* 2^64, the modulus of u64

NEW_COIN_BALANCE_FACTOR_THRESHOLD == 200

(* From here on a refresh takes a coin for a new one. *)
NewCoinBalance == TargetInitBalance * NEW_COIN_BALANCE_FACTOR_THRESHOLD

(* calibrate_gas_cost_per_object: half of it is what a piece of a split into
   500 was said to cost. *)
CalibratedGasCost(gasUsed) == (gasUsed \div 500) * 2

(* run_once goes on to split only with such a target. *)
TargetPaysForSplits == TargetInitBalance * 99 > GasPerObject

PieceCost == GasPerObject + TargetInitBalance

(* enqueue_task keeps a coin that is too small to split. *)
TooSmall(balance) == balance <= PieceCost * 2

SplitCount(balance) ==
  LET n == balance \div PieceCost IN IF n < MaxSplit THEN n ELSE MaxSplit

Budget(count) == GasPerObject * count

(* The balance of a created piece, and of the gas coin, which keeps the rest
   and what the split has cost less than its budget. *)
PieceBalance(balance, count) == ((balance - Budget(count)) % U64) \div count

RestBalance(balance, count, gasUsed) ==
  (balance - PieceBalance(balance, count) * (count - 1) - gasUsed) % U64
=============================================================================
