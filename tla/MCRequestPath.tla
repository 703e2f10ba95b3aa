--------------------------- MODULE MCRequestPath ---------------------------
(* Two clients and two calls of execute_tx; a transaction uses 2 or rebates 1,
   and each attempt is repeated once. *)
EXTENDS RequestPath, TLC

CONSTANTS r1, r2, t1, t2

MCRequests == {r1, r2}
MCTasks == {t1, t2}
MCNetGas == {2, -1}
Symmetric == Permutations(MCRequests) \cup Permutations(MCTasks)
=============================================================================
