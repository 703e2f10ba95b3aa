---------------------------- MODULE GasUsageCap ----------------------------
(***************************************************************************)
(* The daily gas usage cap of one gas station process                      *)
(* (gas_station/gas_usage_cap.rs).  check_usage runs when a client         *)
(* reserves, update_usage when its transaction was executed; both first    *)
(* reset the counter if the date has changed.  Each takes and drops the    *)
(* lock several times, so requests interleave between the lines.  What     *)
(* happens between the two calls is in RequestPath.                        *)
(***************************************************************************)
EXTENDS Integers, FiniteSets

CONSTANTS
  Requests,     \* requests handled at the same time
  DailyCap,     \* daily_cap, a u64
  I63,          \* 2^63, where `as i64` turns negative
  NetGas,       \* net gas usage of a transaction, negative for a rebate
  MaxDay,       \* bound: days
  MaxExecuted,  \* bound: executed transactions
  MaxRestarts   \* bound: restarts of the process

ASSUME CapAssumption ==
  /\ Requests # {} /\ IsFiniteSet(Requests)
  /\ DailyCap \in Nat
  /\ I63 \in Nat \ {0}
  /\ DailyCap < 2 * I63
  /\ NetGas \subseteq Int
  /\ \E g \in NetGas : g > 0 /\ \A h \in NetGas : h <= g
  /\ {MaxDay, MaxExecuted, MaxRestarts} \subseteq Nat

VARIABLES
  day,            \* the local date
  curDate,        \* cur_date
  curDailyUsage,  \* cur_daily_usage
  request,        \* where each request is
  executed,       \* transactions executed so far
  restarts,       \* restarts so far
  charged         \* history: gas charged since midnight, rebates apart

vars == <<day, curDate, curDailyUsage, request, executed, restarts, charged>>

AsI64(x) == IF x < I63 THEN x ELSE x - 2 * I63

Idle == [pc |-> "idle", calls |-> "check_usage", today |-> 0]

Init ==
  /\ day = 0
  /\ curDate = day
  /\ curDailyUsage = 0
  /\ request = [r \in Requests |-> Idle]
  /\ executed = 0
  /\ restarts = 0
  /\ charged = 0

(* reset_date_maybe: the date is read before the lock is asked for. *)
Begin(r, function) ==
  request' = [request EXCEPT
    ![r] = [pc |-> "compare", calls |-> function, today |-> day]]

BeginCheck(r) ==
  /\ request[r].pc = "idle"
  /\ Begin(r, "check_usage")
  /\ UNCHANGED <<day, curDate, curDailyUsage, executed, restarts, charged>>

CompareDate(r) ==
  /\ request[r].pc = "compare"
  /\ request' = [request EXCEPT
       ![r].pc = IF curDate # request[r].today THEN "reset" ELSE "use"]
  /\ UNCHANGED <<day, curDate, curDailyUsage, executed, restarts, charged>>

(* Mutated forms, here and below: named for the slip they stand for, never
   used by the specification itself. *)
ResetDateKeepsUsage(r) ==
  /\ request[r].pc = "reset"
  /\ curDate' = request[r].today
  /\ request' = [request EXCEPT ![r].pc = "use"]
  /\ UNCHANGED <<day, curDailyUsage, executed, restarts, charged>>

ResetDate(r) ==
  /\ request[r].pc = "reset"
  /\ curDate' = request[r].today
  /\ curDailyUsage' = 0
  /\ request' = [request EXCEPT ![r].pc = "use"]
  /\ UNCHANGED <<day, executed, restarts, charged>>

CheckUsageAfterCap(r) ==
  /\ request[r].pc = "use"
  /\ request[r].calls = "check_usage"
  /\ request' = [request EXCEPT
       ![r] = IF curDailyUsage > AsI64(DailyCap)
              THEN Idle
              ELSE [Idle EXCEPT !.pc = "admitted"]]
  /\ UNCHANGED <<day, curDate, curDailyUsage, executed, restarts, charged>>

(* The rest of check_usage: the request goes on or is refused. *)
CheckUsage(r) ==
  /\ request[r].pc = "use"
  /\ request[r].calls = "check_usage"
  /\ request' = [request EXCEPT
       ![r] = IF curDailyUsage >= AsI64(DailyCap)
              THEN Idle
              ELSE [Idle EXCEPT !.pc = "admitted"]]
  /\ UNCHANGED <<day, curDate, curDailyUsage, executed, restarts, charged>>

(* The client reserves and executes, or lets its reservation expire. *)
BeginUpdate(r) ==
  /\ request[r].pc = "admitted"
  /\ executed < MaxExecuted
  /\ executed' = executed + 1
  /\ Begin(r, "update_usage")
  /\ UNCHANGED <<day, curDate, curDailyUsage, restarts, charged>>

Abandon(r) ==
  /\ request[r].pc = "admitted"
  /\ request' = [request EXCEPT ![r] = Idle]
  /\ UNCHANGED <<day, curDate, curDailyUsage, executed, restarts, charged>>

UpdateUsage(r, gas) ==
  /\ request[r].pc = "use"
  /\ request[r].calls = "update_usage"
  /\ curDailyUsage' = curDailyUsage + gas
  /\ charged' = IF gas > 0 THEN charged + gas ELSE charged
  /\ request' = [request EXCEPT ![r] = Idle]
  /\ UNCHANGED <<day, curDate, executed, restarts>>

NextDay ==
  /\ day < MaxDay
  /\ day' = day + 1
  /\ charged' = 0
  /\ UNCHANGED <<curDate, curDailyUsage, request, executed, restarts>>

(* The counter lives in memory only, a reservation does not: a client that
   holds one may have it executed by the process that comes after. *)
Restart(holding) ==
  /\ restarts < MaxRestarts
  /\ restarts' = restarts + 1
  /\ curDate' = day
  /\ curDailyUsage' = 0
  /\ request' = [r \in Requests |-> IF r \in holding THEN request[r] ELSE Idle]
  /\ UNCHANGED <<day, executed, charged>>

-----------------------------------------------------------------------------
TypeOK ==
  /\ day \in 0 .. MaxDay
  /\ curDate \in 0 .. day
  /\ curDailyUsage \in Int
  /\ request \in [Requests ->
       [pc : {"idle", "compare", "reset", "use", "admitted"},
        calls : {"check_usage", "update_usage"},
        today : 0 .. MaxDay]]
  /\ executed \in 0 .. MaxExecuted
  /\ restarts \in 0 .. MaxRestarts
  /\ charged \in Nat

(* The requests whose gas is still to be counted. *)
InFlight ==
  {r \in Requests : \/ request[r].pc = "admitted"
                    \/ /\ request[r].calls = "update_usage"
                       /\ request[r].pc # "idle"}

MaxGas == CHOOSE g \in NetGas : \A h \in NetGas : h <= g

(* The counter passes the cap by no more than the requests that were admitted
   before it got there: the cap is checked when a client reserves, and the
   usage is known when its transaction is executed (gas_usage_cap.rs:29-44,
   gas_station_core.rs:82 and 261). *)
OvershootIsBounded ==
  curDailyUsage + Cardinality(InFlight) * MaxGas
    <= DailyCap - 1 + Cardinality(Requests) * MaxGas

(* A refusal is earned: a request that came today is refused only if the gas
   charged since midnight has reached the cap, so a new day is never blocked
   by the usage of the day before, whatever requests reset the date. *)
RefusalsAreEarned ==
  [][ \A r \in Requests :
        /\ request[r].calls = "check_usage"
        /\ request[r].pc = "use"
        /\ request[r].today = day
        /\ request'[r].pc = "idle"
        => charged >= DailyCap \/ restarts' # restarts
    ]_vars
=============================================================================
