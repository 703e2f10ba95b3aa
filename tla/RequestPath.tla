---------------------------- MODULE RequestPath ----------------------------
(***************************************************************************)
(* What a request does between the two calls of GasUsageCap: reserve_gas,  *)
(* and execute_transaction with its signature and its submission, each     *)
(* retried (gas_station_core.rs, tx_signer.rs, iota_client.rs), under a    *)
(* client that may send execute_tx several times, since the server goes on *)
(* with what it began when a connection breaks (server.rs:193).            *)
(*                                                                         *)
(* A reservation is its id; the coins behind it are in GasStation.  An     *)
(* attempt to submit is cut into its sending, what the ledger does with    *)
(* it, and what comes back: a transaction that was sent may commit at any  *)
(* time, also when the station has given up.                               *)
(***************************************************************************)
EXTENDS GasUsageCap, FiniteSetsExt

CONSTANTS
  Tasks,            \* execute_tx calls handled at the same time
  MaxAttempts,      \* max_attempts: retries of a signature or a submission
  MaxReservations,  \* bound: reservations
  None              \* no reservation, no client

ASSUME PathAssumption ==
  /\ MaxAttempts \in Nat
  /\ MaxReservations \in Nat
  /\ None \notin Nat \cup Requests

VARIABLES
  held,      \* the reservation that a client knows it has
  live,      \* the reservations in the registry
  nextId,    \* next_reservation_id
  task,      \* what each execute_tx call is doing
  sent,      \* the reservations whose transaction was sent to the ledger
  spent,     \* the ledger: the net gas usage of what has committed
  signed,    \* history: calls the sponsor signed for, by reservation
  counted,   \* history: how often update_usage counted, by reservation
  expired,   \* history: reservations that have expired
  forsaken   \* history: sent, and given up by the station without an answer

historyVars == <<signed, counted, expired, forsaken>>
pathVars == <<held, live, nextId, task, sent, spent, historyVars>>
allVars == <<vars, pathVars>>

NoTask == [pc |-> "idle", id |-> None, client |-> None, retries |-> 0]

PathInit ==
  /\ Init
  /\ held = [r \in Requests |-> None]
  /\ live = {}
  /\ nextId = 1
  /\ task = [t \in Tasks |-> NoTask]
  /\ sent = {}
  /\ spent = << >>
  /\ signed = [id \in 1 .. MaxReservations |-> 0]
  /\ counted = [id \in 1 .. MaxReservations |-> 0]
  /\ expired = {}
  /\ forsaken = {}

-----------------------------------------------------------------------------
(* reserve_gas.  The answer may not reach the client; the reservation is then
   left to expire. *)
ReserveCoins(r) ==
  /\ request[r].pc = "admitted"
  /\ held[r] = None
  /\ nextId <= MaxReservations
  /\ nextId' = nextId + 1
  /\ live' = live \cup {nextId}
  /\ \/ held' = [held EXCEPT ![r] = nextId] /\ UNCHANGED vars
     \/ Abandon(r) /\ UNCHANGED held
  /\ UNCHANGED <<task, sent, spent, historyVars>>

(* No coins, maintenance, or an error of the storage; or a client that gives
   up, or was told that its execution failed. *)
GiveUp(r) ==
  /\ \A t \in Tasks : task[t].client # r
  /\ Abandon(r)
  /\ held' = [held EXCEPT ![r] = None]
  /\ UNCHANGED <<live, nextId, task, sent, spent, historyVars>>

(* expire_coins: the coin unlock task takes what is overdue. *)
Expire(id) ==
  /\ id \in live
  /\ live' = live \ {id}
  /\ UNCHANGED <<vars, held, nextId, task, sent, spent, signed, counted, forsaken>>
  /\ expired' = expired \cup {id}

(* execute_tx, once or again. *)
SendExecute(t, r) ==
  /\ task[t].pc = "idle"
  /\ request[r].pc = "admitted"
  /\ held[r] # None
  /\ task' = [task EXCEPT
       ![t] = [pc |-> "check", id |-> held[r], client |-> r, retries |-> 0]]
  /\ UNCHANGED <<vars, held, live, nextId, sent, spent, historyVars>>

EndTask(t) == task' = [task EXCEPT ![t] = NoTask]

(* The call is refused before it touches the reservation: by the access
   controller, for its sponsor, or for a use of the gas coin. *)
RefuseExecution(t) ==
  /\ task[t].pc = "check"
  /\ EndTask(t)
  /\ UNCHANGED <<vars, held, live, nextId, sent, spent, historyVars>>

(* Mutated forms, here and below: named for the slip they stand for, never
   used by the specification itself. *)
TakeOverKeepsReservation(t) ==
  /\ task[t].pc = "check"
  /\ IF task[t].id \in live
     THEN task' = [task EXCEPT ![t].pc = "sign"]
     ELSE EndTask(t)
  /\ UNCHANGED <<vars, held, live, nextId, sent, spent, historyVars>>

(* ready_for_execution.  When its answer is lost, the reservation is gone and
   the call fails nevertheless. *)
TakeOver(t) ==
  /\ task[t].pc = "check"
  /\ live' = live \ {task[t].id}
  /\ \/ task[t].id \in live /\ task' = [task EXCEPT ![t].pc = "sign"]
     \/ EndTask(t)
  /\ UNCHANGED <<vars, held, nextId, sent, spent, historyVars>>

MayRetryOnceMore(t) == task[t].retries <= MaxAttempts

(* retry_with_max_attempts: one attempt, and max_attempts retries. *)
MayRetry(t) == task[t].retries < MaxAttempts

Retry(t, pc) == task' = [task EXCEPT ![t].pc = pc, ![t].retries = @ + 1]

SignTransaction(t) ==
  /\ task[t].pc = "sign"
  /\ task' = [task EXCEPT ![t].pc = "submit", ![t].retries = 0]
  /\ signed' = [signed EXCEPT ![task[t].id] = @ + 1]
  /\ UNCHANGED <<vars, held, live, nextId, sent, spent,
                 counted, expired, forsaken>>

(* The signer gives no answer, or none that can be read. *)
SignerFails(t) ==
  /\ task[t].pc = "sign"
  /\ IF MayRetry(t) THEN Retry(t, "sign") ELSE EndTask(t)
  /\ UNCHANGED <<vars, held, live, nextId, sent, spent, historyVars>>

Submit(t) ==
  /\ task[t].pc = "submit"
  /\ task' = [task EXCEPT ![t].pc = "await"]
  /\ sent' = sent \cup {task[t].id}
  /\ UNCHANGED <<vars, held, live, nextId, spent, historyVars>>

SubmissionFails(t) ==
  /\ task[t].pc = "await"
  /\ IF MayRetry(t)
     THEN Retry(t, "submit") /\ UNCHANGED forsaken
     ELSE EndTask(t) /\ forsaken' = forsaken \cup {task[t].id}
  /\ UNCHANGED <<vars, held, live, nextId, sent, spent,
                 signed, counted, expired>>

(* A transaction commits once, however often it was sent. *)
Commit(id, gas) ==
  /\ id \in sent \ DOMAIN spent
  /\ spent' = [i \in DOMAIN spent \cup {id} |->
                 IF i = id THEN gas ELSE spent[i]]
  /\ UNCHANGED <<vars, held, live, nextId, task, sent, historyVars>>

ExecutedUncounted(t) ==
  /\ task[t].pc = "await"
  /\ task[t].id \in DOMAIN spent
  /\ EndTask(t)
  /\ UNCHANGED <<vars, held, live, nextId, sent, spent, historyVars>>

(* The effects have come: update_usage begins. *)
Executed(t) ==
  /\ task[t].pc = "await"
  /\ task[t].id \in DOMAIN spent
  /\ task' = [task EXCEPT ![t].pc = "count"]
  /\ BeginUpdate(task[t].client)
  /\ UNCHANGED <<held, live, nextId, sent, spent, historyVars>>

(* ... and ends, and so does the call, the return of the coins apart. *)
Count(t) ==
  /\ task[t].pc = "count"
  /\ UpdateUsage(task[t].client, spent[task[t].id])
  /\ counted' = [counted EXCEPT ![task[t].id] = @ + 1]
  /\ held' = [held EXCEPT ![task[t].client] = None]
  /\ EndTask(t)
  /\ UNCHANGED <<live, nextId, sent, spent, signed, expired, forsaken>>

(* The calls that have sent the transaction of a reservation. *)
Sending == {t \in Tasks : task[t].pc # "check" /\ task[t].id \in sent}

(* The tasks of the process are gone; the reservations are not. *)
RestartServer ==
  LET holding == {r \in Requests : held[r] # None /\ request[r].pc = "admitted"}
  IN  /\ Restart(holding)
      /\ held' = [r \in Requests |-> IF r \in holding THEN held[r] ELSE None]
      /\ task' = [t \in Tasks |-> NoTask]
      /\ forsaken' = forsaken \cup {task[t].id : t \in Sending}
      /\ UNCHANGED <<live, nextId, sent, spent, signed, counted, expired>>

PathNext ==
  \/ \E r \in Requests :
       \/ BeginCheck(r) /\ UNCHANGED pathVars
       \/ CompareDate(r) /\ UNCHANGED pathVars
       \/ ResetDate(r) /\ UNCHANGED pathVars
       \/ CheckUsage(r) /\ UNCHANGED pathVars
       \/ ReserveCoins(r)
       \/ GiveUp(r)
  \/ \E t \in Tasks :
       \/ \E r \in Requests : SendExecute(t, r)
       \/ RefuseExecution(t)
       \/ TakeOver(t)
       \/ SignTransaction(t)
       \/ SignerFails(t)
       \/ Submit(t)
       \/ SubmissionFails(t)
       \/ Executed(t)
       \/ Count(t)
  \/ \E id \in 1 .. nextId - 1 :
       \/ Expire(id)
       \/ \E gas \in NetGas : Commit(id, gas)
  \/ NextDay /\ UNCHANGED pathVars
  \/ RestartServer

PathSpec == PathInit /\ [][PathNext]_allVars
-----------------------------------------------------------------------------
Ids == 1 .. MaxReservations

PathTypeOK ==
  /\ TypeOK
  /\ held \in [Requests -> Ids \cup {None}]
  /\ nextId \in 1 .. MaxReservations + 1
  /\ live \cup sent \cup expired \cup forsaken \subseteq 1 .. nextId - 1
  /\ task \in [Tasks ->
       [pc : {"idle", "check", "sign", "submit", "await", "count"},
        id : Ids \cup {None}, client : Requests \cup {None},
        retries : 0 .. MaxAttempts]]
  /\ DOMAIN spent \subseteq sent
  /\ \A id \in DOMAIN spent : spent[id] \in NetGas
  /\ {signed, counted} \subseteq [Ids -> Nat]

(* A reservation ends once: it expires, or a single call gets the sponsor's
   signature for it, however many calls of its client run at the same time
   (gas_station_core.rs:123-142). *)
SponsorSignsOnce ==
  \A id \in Ids :
    /\ signed[id] <= 1
    /\ signed[id] = 1 => id \notin expired \cup live

(* A transaction that was sent is counted in the daily usage once, if it
   commits and its call still waits: what is never counted is what a call left
   without an answer, after all its attempts or with its process
   (gas_station_core.rs:251-261). *)
SentGasIsCountedOnce ==
  \A id \in sent :
    LET calls == {t \in Sending : task[t].id = id}
    IN  /\ Cardinality(calls) + counted[id]
              + (IF id \in forsaken THEN 1 ELSE 0) = 1
        /\ counted[id] = 1 => id \in DOMAIN spent

(* "Maximum allowed daily gas usage" (README.md:122): up to midnight, and while
   the process runs, what the ledger takes for the transactions that were
   answered is below the cap, or passes it by no more than what the requests in
   flight could spend. *)
LedgerGasIsCapped ==
  day = 0 /\ restarts = 0 =>
    MapThenSumSet(LAMBDA id : spent[id], DOMAIN spent \ forsaken)
      <= DailyCap - 1 + Cardinality(Requests) * MaxGas
=============================================================================
