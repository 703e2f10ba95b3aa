--------------------------- MODULE MCGasStation ---------------------------
(* Two or three coins of balance 2 and budgets that take one or two of them,
   or are refused, as are all durations but 1; two tasks, one in each of two
   gas stations that share the registry.  A transaction costs 1 or rebates 3;
   two merged coins stay below the threshold of 4 unless a rebate comes on
   top, and a rebate of 3 makes one coin oversized and lets two tasks ask for a
   rescan at once.  In the run of two coins it costs or rebates 1; with a
   threshold of 2 every rebate then makes its coin oversized, and so does a
   merge. *)
EXTENDS GasStation

CONSTANTS c1, c2, c3, t1, t2, s1, s2

TwoCoins == {c1, c2}
ThreeCoins == {c1, c2, c3}
TwoTasks == {t1, t2}
TwoStations == {s1, s2}
OnTwoStations == [t \in TwoTasks |-> IF t = t1 THEN s1 ELSE s2]
MCBudgets == {0, 1, 3, 4}
MCDurations == {0, 1, 2}
MCNetGas == {1, -1}
LargeRebate == {1, -3}

(* Coins are alike, and so are the two stations with their tasks. *)
Exchange ==
  [x \in TwoStations \cup TwoTasks |->
     CASE x = s1 -> s2 [] x = s2 -> s1 [] x = t1 -> t2 [] x = t2 -> t1]

Symmetric == Permutations(ThreeCoins) \cup {Exchange}
=============================================================================
