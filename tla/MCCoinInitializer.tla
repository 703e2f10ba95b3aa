------------------------- MODULE MCCoinInitializer -------------------------
(* The sponsor starts with one coin of balance 9, which the first start splits
   into three (9 div (1 + 2)), of 2, 2 and what is left.  A coin of more than
   6 is worth splitting; the threshold is 7, so the first coin, a deposit of 7
   and coins that merge and get a rebate reach it. *)
EXTENDS CoinInitializer

CONSTANTS c1, c2, c3, c4, c5, c6, c7, c8, c9, c10, t1, t2, s1, s2

Coins3 == {c1, c2, c3}
Coins10 == {c1, c2, c3, c4, c5, c6, c7, c8, c9, c10}
OneTask == {t1}
OneStation == {s1}
TwoStations == {s1, s2}
OnOneStation == [t \in Tasks |-> s1]
OneCoinOf9 == {[id |-> c1, balance |-> 9, version |-> 1]}
Budgets13 == {1, 3}
Budgets1 == {1}
Budgets3 == {3}
MCDurations == {1}
Costs == {1}
CostAndRebate == {1, -6}
SomeOrAllGas == {0, 1}
AllGas == {1}
=============================================================================
