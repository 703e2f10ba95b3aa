------------------------- MODULE MCRegistryClients -------------------------
(* Two coin ids and balances that make one, two or all coins of a list pay
   for a budget.  MaxCoinsPerQuery = 2 < MaxPool makes the limit of 256 bite. *)
EXTENDS RegistryClients

CONSTANTS c1, c2

MCCoinIds == {c1, c2}
MCBudgets == {1, 3}
MCDurations == {1}
MCBalances == {1, 2}

Symmetric == Permutations(MCCoinIds)
=============================================================================
