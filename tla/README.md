# A verification project for the gas station

TLA+ models of the IOTA gas station in `src/`: the pool of gas coins that
several gas station processes share in Redis, the processes that lend, spend
and give back those coins, the initializer that splits them, the start of a
process, the path of a request with the daily usage cap, and the access
controller with its rules. TLC checks the models on small instances; TLAPS
proves what is most important, and what is arithmetic or text, for every value
of the constants.

Paths below are relative to the repository; `lua/` stands for
`src/storage/redis/lua_scripts/`.

- [1. The system](#1-the-system)
- [2. Modules](#2-modules)
- [3. What is checked](#3-what-is-checked)
- [4. What is proved](#4-what-is-proved)
- [5. What the models say of the code](#5-what-the-models-say-of-the-code)
- [6. What is left out](#6-what-is-left-out)
- [7. Plan](#7-plan)

## 1. The system

A gas station owns one sponsor address. A client asks for gas
(`reserve_gas`), gets a reservation id and references of gas coins, signs a
transaction that pays with them and sends it back (`execute_tx`). The access
controller judges the transaction, the station signs and submits it and gives
the coins back. Several processes may serve the same sponsor: everything they
share is in one Redis namespace, and every access to it is one Lua script,
which Redis runs atomically.

| Component | State | Operations |
|---|---|---|
| Coin registry, `lua/*.lua`, `storage/redis/mod.rs` | list of pooled coins, count, total, next reservation id, reservations, expiration queue, `initialized`, `schema_version`, two locks | reserve, add, ready for execution, expire, init statistics, clean up, acquire and release two locks |
| Gas station core, `gas_station/gas_station_core.rs` | per request: where it is and which coins it has in memory | `reserve_gas`, `execute_transaction`, the coin unlock task, `release_gas_coins`, `debug_check_health` |
| Rescan trigger, `gas_station/rescan_trigger.rs` | bounded channel | trigger (dropped when full), receive |
| Coin initializer, `gas_station_initializer.rs` | the coins it is splitting, its results | first start, full rescan, refresh, splitting with retries |
| Daily usage cap, `gas_station/gas_usage_cap.rs` | date and counter behind a lock | `check_usage`, `update_usage`, date reset |
| Startup and cold parameters, `command.rs`, `config/cold_params.rs` | parameters saved in Redis | compare, force a full rescan, save |
| Namespaces and their migration, `storage/mod.rs`, `storage/redis/migration.rs`, `lua/migrate_keys.lua` | keys of the old namespace | name keys, migrate |
| Consistency check, `consistency_check.rs` | none | compare registry and chain at startup |
| Access controller, `access_controller/` | rules behind an `ArcSwap`, pending confirmations | check access, confirm, reload |
| Access predicates, `access_controller/predicates/` | none, or a loaded Rego policy | match, write, read, load |
| Hooks, `access_controller/hook/` | none | call, initialize |
| Statistics tracker, `tracker/` | counters in Redis that expire | add, correct |
| HTTP server and client, signers | none of their own | routing, retries, signing |
| Metrics, logging, tools, benchmarks | | observation |

How they interact. The core calls the registry, then the fullnode, then the
registry again, with an `await` at every call; a crash at any of them loses
what is in memory. The unlock task of every process expires reservations of
all processes. The core tells the initializer of oversized coins over the
trigger channel and forgets them. The initializer finds coins on the chain,
not in the registry, so that it and the tasks of the core must never have the
same coin in their hands. Two locks in the registry keep initializers apart.
A start migrates keys, compares parameters, cleans up and rebuilds while other
processes serve. The access controller counts a transaction's budget in Redis
before it is executed and takes back what was too much afterwards, while a
reload may have put another controller in its place.

What is hard here:

- a request and the unlock task of any process race for one reservation;
- the scripts are not idempotent, and some callers repeat them until they get
  an answer;
- a coin in the memory of a task is in no key: only the task gives it back;
- the fullnode may lag behind the ledger, and a transaction may commit without
  an answer, or only after the station has given it up, read its coins and
  given them back;
- a request goes on in the server when its client has disconnected, and the
  client calls again;
- balances are computed from earlier reads, not read;
- flags and locks are read in one script and used in a later one;
- a date is compared under one lock and reset under another;
- parameters are saved after the work they describe, so a kill in between
  leaves coins of an unknown target;
- a gas limit is counted before it is compared, confirmed after the execution,
  and its window may have ended in between; what is counted is a budget that the
  client wrote, cast to a signed number, and what is confirmed is gas before any
  rebate;
- the text of a rule is the name of its counter, so how a rule is written
  decides who shares a limit.

What makes each part correct:

- registry: the statistics follow the list; a reservation can expire, ends
  once and takes just what it needs; nothing leaves the list unrecorded;
- core: a coin has one holder, the list tells the ledger's state of it, no coin
  is lost, every reservation ends and its coins come back;
- request path and cap: the sponsor signs once for a reservation, gas is
  counted once, the cap is passed by the requests in flight at most, and no
  request is refused on account of yesterday;
- initializer: locks exclude, no coin is split or added twice, none is
  forgotten, each oversized coin is split, a full rescan finds all; the two
  thresholds leave no coin between them, and a split conserves the balance;
- startup: a station serves a whole pool that fits its parameters, and no
  refused or failed start leaves a lock or half a migration behind;
- access controller: a limit bounds what transactions cost, counters settle at
  what was spent, nothing stays pending, a controller comes into use as a
  whole, a decision is that of one controller, every request is answered;
- rules: what is written is read back, and counters with different meanings
  have different names.

`PROJECT.json` lists all components, and under `hazards` each of these dangers
at the line where it bites, with the properties that watch it.

## 2. Modules

```
CoinRegistry  <--- RegistryClients <--- MCRegistryClients
     ^                  ^
     |                  +--- RegistryClientsProofs ---> CoinRegistryProofs
     |
     +--- GasStation <--- MCGasStation      (GasStation implements CoinPool)
              ^    ^
              |    +--- GasStationProofs ---> CoinRegistryProofs
              |
              +--- CoinInitializer <--- MCCoinInitializer
                       |       ^
   CoinSplits <--------+       +--- CoinInitializerProofs ---> GasStationProofs

Startup <--- MCStartup ---> ConsistencyCheck, Namespaces
   ^                                ^
   +--------- StartupProofs --------+

GasUsageCap <--- RequestPath <--- MCRequestPath
                      ^
                      +--- RequestPathProofs

RuleTexts <--- AccessRules <--- AccessController <--- MCAccessController ---> BcsDecoder
                                      ^
                                      +--- AccessControllerProofs

SumTheorems <--- CoinRegistryProofs, RequestPathProofs, AccessControllerProofs
```

(`A <--- B`: B extends A, or instantiates CoinSplits. The MC modules on the left of `--->` instantiate what
is on its right, to check it with an assumption.)

**CoinRegistry** has one variable per Redis key (or group of keys) and one
action per script that writes. A script is atomic. It is not a transaction: when
it raises an error, what it wrote before stays, so a script that can fail
half-way has an action of its own for that (`ReserveFailed`,
`AddNewCoinsFailed`: the statistics are missing, the coins are already popped
or pushed). `Absent` is the value of a missing statistic. A lock is the time
at which it expires; the value names no owner, as in the code. Seconds and
milliseconds are one unit of the clock, and each script sees one time.

**RegistryClients** runs the scripts under any clients whatever: any script,
any coins, any order. What holds here needs no assumption on the callers.

**CoinPool** is the abstract promise of `storage/mod.rs`: each coin has one
owner; a reservation takes pooled coins, one agent takes over a whole
reservation, an agent gives its coins back or gives them up.

**GasStation** has the clients that exist. `StartExecution`,
`QueryTotalBalance`, `ExecuteOk` or `ExecuteErr`, `QueryLatest`,
`TriggerRescan` or `ReleaseCoins` are `execute_transaction` cut at its awaits,
`task[t].pc` says where; `UnlockExpire`, `UnlockQuery`, `UnlockRelease` are the
unlock task. `ledger` is the chain's live gas coins, `fullnode` what the
fullnode shows of it; `lagged` remembers that somebody read it while it was
behind. `NetGas` may be negative: a transaction can give a storage rebate.
`ExecuteErr` leaves open what has become of the transaction: with
`ResponsesGetLost` its payment may go to `sent`, and `LateCommit` may commit it
at any time after that, once, or never: before the coins are read, between that
and their release, or when they are long in the list, in another reservation or
in another task. So may a transaction whose process was killed. `late` remembers
the commits that came when nobody was to read the coins again.
`U64` is the modulus of `as u64`, where the code subtracts the net gas from
the total that was read. A crash forgets the tasks, the unlock batch and the
channel of a process; a restart runs `init_coin_stats_at_startup`.
`ReplyIsLost` is a connection that breaks after a script ran:
`ready_for_execution` then fails, `expire_coins` is taken for nothing expired,
and `release_gas_coins` tries again, each as the code does.

**CoinInitializer** extends GasStation with the start of a process
(`Start` to `Serve`), the full rescan under the maintenance lock, and the
background refresh. `initializer[s].pc` goes through `run_once`: lock, scan,
split, add in chunks, unlock. A split keeps the count and the budget of its
first try; an `Err` reads the coin's latest state and tries again. The balances
of the pieces are computed, while the cost of the split is whatever the ledger
takes (`SplitGas`). A split that commits without an answer commits in the step
that returns `Err`: what is left of its coin is then read before the next try. If
it commits later, that try fails on the spent version, and the model has the
commit at that try; one that commits after its process was killed is left out.

**CoinSplits** is the arithmetic behind it, for all balances: the check of the
target, the count, the pieces and the rest, the calibrated gas cost.

**Startup** is `Command::execute`, step by step, for several processes with
changing targets and flags: the schema check, the migration, the statistics,
the cold parameters, the two reads of the consistency check, locks, cleanup,
scan, chunks, saving, the access controller, serving. Where CoinInitializer
has balances, Startup tags a coin with the target it was cut for. `mishaps`
records what has gone wrong, for the properties that hold only without it.

**ConsistencyCheck** is the comparison of the registry with the network (only
a warning comes of it), **Namespaces** how keys are named and what
`clean_up_coin_registry` finds by those names.

**GasUsageCap** cuts `check_usage` and `update_usage` where they drop their
lock; the date is read before the lock is asked for. **RequestPath** is what
happens between the two: the reservation, the client that sends `execute_tx`
any number of times, `ready_for_execution`, the signature and the submission
with their retries, the ledger that commits what was sent at any time, the
unlock task and a restart.

**RuleTexts** has the parts of a rule with their `Text` and `Read` operators
and the builder, **AccessRules** what a rule says of one transaction and the
counter it uses, **BcsDecoder** the function `bcs.decode_typed` that policies
call. **AccessController** is `execute_tx_impl` around `check_access` and
`confirm_transaction`, cut at the awaits and locks: a controller, once
installed, does not change but for its pending confirmations, and
`request[r].gen` is the one that a request has loaded. `counters` are the
tracker's keys with their times to live. `Events` (reload, crash, an error of
the tracker, a lost answer of the fullnode) are bounded together. A budget is
any u64 and is counted `AsI64`, as is what a confirmation takes back
(`TakenBack`); the gas of a transaction may exceed its budget, since the
confirmation has the gross gas, and a storage rebate may pay for the rest. Only
the ledger bounds a budget (`Affordable`): nobody has 2^63 to pay with.

An operator that no specification uses and that is named for a slip
(`ReserveFailedDecrBy`, `ThresholdZero`, ...) is a mutated form of the one
that follows it. `PROJECT.json` pairs every property with one: with the slip
put in, TLC finds the property violated.

## 3. What is checked

`cd tla; tlc -config <run>.cfg <module>`. Passing runs:

| Run | Properties | Instance |
|---|---|---|
| `registry` (MCRegistryClients) | the four invariants and three action properties of RegistryClients | 2 coin ids of balance 1 or 2, lists up to 3, limit of 2 coins per query, 2 reservations, 3 ticks |
| `gas_station` (MCGasStation) | `TypeOK`, `SingleCustody`, `PoolIsSpendable`, `NoCoinIsLost`, `ImplementsCoinPool` | 3 coins, 2 stations with a task each, 2 reservations, 3 ticks, budgets of 0 to 4 where 3 is the maximum, health checks, transactions that cost 1 or rebate 3, a fullnode that lags, transactions that commit without an answer or late, 1 crash; 361 919 states |
| `gas_station_liveness` (MCGasStation) | `ReservationsEnd`, `CoinsComeBack` | 2 coins, 2 stations, 2 reservations, 2 ticks, 1 crash, 1 lost reply of Redis, late commits, transactions that cost or rebate 1, where each rebate and each merge makes a coin oversized; 146 445 states |
| `usage_cap` (MCRequestPath) | `PathTypeOK`, `OvershootIsBounded`, `SponsorSignsOnce`, `SentGasIsCountedOnce`, `LedgerGasIsCapped`, `RefusalsAreEarned` | 2 clients, 2 calls of `execute_tx`, 3 reservations, cap 2, 3 executions that use 2 or rebate 1, 1 retry at every place, 1 midnight, 1 restart |
| `initializer` (MCCoinInitializer) | `InitializerTypeOK`, `SoleCustody`, `NoCoinIsForgotten`, `OversizedCoinsAreSplit` | 1 station: first start, refreshes, 1 deposit, 2 reservations, rebates that make a coin oversized, chunks of 2, answers that arrive |
| `full_rescan` (MCCoinInitializer) | `FullRescanRecoversAll` | 1 station, 3 starts, 2 crashes anywhere, answers that arrive |
| `locks` (MCCoinInitializer) | `LocksExclude` | 2 stations, 3 starts, full rescans, lost answers |
| `access_controller` (MCAccessController) | `TypeOK`, `LimitHolds`, `CountersSettle`, `PendingBelongsToARequest`, `InstalledRulesAreLoaded`, `AccessIsJustified`, `RequestsAreAnswered` | 2 requests, 3 transactions with budgets of 2, 4 and 9, gas of 1 or 5, numbers that end at 4 (so that 9 counts as -1), 3 configurations (one broken), 3 ticks, 1 reload, crash, tracker error or lost answer; 772 076 states |
| `startup` (MCStartup) | `TypeOK`, `PoolFitsTarget`, `AllCoinsAreRegistered`, `RegistryIsSound`, `LocksAreReleased`, `MigrationIsOver` | 2 processes, 3 starts of which 2 overlap, 2 coins, 3 targets (one too small), 3 sets of flags, 1 failing call, 1 reservation, kills anywhere |

Runs that end in a counterexample, each against a sentence of the repository
(`findings` in `PROJECT.json`, [section 5](#5-what-the-models-say-of-the-code)):
`lost_reply`, `two_first_starts`, `unnoticed_params`.

What holds of values, not of behaviours, is an assumption of an MC module, and
TLC evaluates it before the run: `RulesAreReadBack` (the rules of the instance,
with all forms of locations and addresses), `EncodedIsDecoded`,
`DecodedWasEncoded`, `WidthsAsExpected` and `UnknownIsRefused` (the BCS
decoder, with bytes of two bits), `WarningsAsExpected` (the consistency check
for all pairs of counts up to 25), `CleanUpStaysAtHome` (the cleanup of one
namespace beside all others).

What the deeper ones say:

- `SingleCustody`: list, reservations, tasks and unlock tasks hold disjoint
  sets of coins, and none of them holds a coin twice. It is what makes the
  coin of a client its own.
- `ImplementsCoinPool`: each step of the gas stations is a step of CoinPool. A
  reservation ends as a whole and with one agent; a coin that was given up
  never comes back by itself. `OwnerOf` is the refinement mapping.
- `PoolIsSpendable`: while nobody has read a lagging fullnode, the list tells
  the version and the balance that the coin has on the ledger, with one
  exception: a version that a late commit has spent (`SpentLate`). The code
  reads the coins once after an `Err` and gives back what it has read
  (`gas_station_core.rs:169`, `:203`), so that nothing corrects such an entry
  until a task fails with it.
- `NoCoinIsLost`: without a crash or a lagging read a live coin is held by
  somebody, or is oversized while the channel of some process still has a
  request for a rescan. A crash does lose the coins in memory, which is why
  there is a full rescan, and `FullRescanRecoversAll` checks that one. The
  exception is a late commit with a rebate that makes a coin oversized
  (`RebatedLate`): it may be in the list already, and a task that later pays with
  it and a small coin, and fails, releases neither (`gas_station_core.rs:188`).
  The comment at `gas_station_core.rs:200` ("Otherwise, we lose track of them")
  is about the branch that is not taken then. `CoinsComeBack` has the same
  exception.
- `SoleCustody`: `SingleCustody` with the initializers among the custodians. A
  task that has seen that its coin is oversized gives nothing back, so a
  refresh may have that coin from then on.
- `SponsorSignsOnce`, `SentGasIsCountedOnce`, `LedgerGasIsCapped`: follow one
  reservation through repeated calls, retries, expiration and the ledger. They
  relate what the sponsor signed, what was sent, what the counter counted and
  what the ledger took.
- `OvershootIsBounded`: the counter plus the worst gas of the requests in
  flight stays within the cap and one transaction for each request.
- `LimitHolds`: for each window of a counter, what the transactions let through
  by a limit have cost stays under it. `CountersSettle`: once they are through,
  the counter tells just that. Both name the corrections that do not belong
  (`Regular`, `Undisturbed`): of a window that has ended, of a claim of another
  request with the same digest, of a controller that was replaced. `LimitHolds`
  names one thing more: a claim of 2^63 or more lowers the counter while its
  request is under way, so that others are let through
  (`LoweredByClaims`; any client can write such a budget, and it is put back only
  when the execution has failed). The cost in it is what the ledger takes, never
  more than the budget (`CostOf`). The counter is not told that cost, but gross
  gas: `saturating_sub` (`access_controller/mod.rs:154`) takes nothing back when
  that exceeds the budget, so the counter settles at the smaller of the two.
  These are the exceptions, one by one; for limits below 2^63 - 1 there is no other
  (`UsageStaysLimited`, `CountersComeToTheCost`).
- `AccessIsJustified`: what is executed was allowed by one controller as a
  whole, although rules are evaluated over several awaits while another one
  is installed.
- `PoolFitsTarget`, `AllCoinsAreRegistered`, `RegistryIsSound`: of a station
  that serves, after any sequence of starts, refusals and failed migrations.
  `mishaps` names the exceptions: a start that was killed before it saved its
  parameters, and, for the first two, starts that have worked at once.
- `MigrationIsOver`: the old list comes in before anybody has finished a start,
  or never.

**Bounds.** Ids, reservations, ticks, crashes and lost replies are bounded
where an action takes one more; the names are in the CONSTANTS of each module
with the word "bound". Two processes are the smallest number that race; three
coins with budgets that take one or two give payments of two coins while
another one is elsewhere. Two crashes in `full_rescan` let a rescan itself
crash. Two clients and three reservations in `usage_cap` let two reset the
date, one of them after the other has used the counter, and let a client call
twice for one reservation while another one holds the second. In
`access_controller` budgets of 2 and 4 pass a limit and overflow a counter
together, a budget of 9 lowers it by one and lets the 4 through, and gas of 5 is
more than two of the budgets, so every order of counting, deciding and correcting
occurs with every form of the numbers; three ticks end a window of two and begin
another. In `startup` the third start begins
when the others have ended: what they left is then all that counts, while the
two before it overlap at every step. `MaxCoinsPerQuery = 2` is 256 in the code,
lower than the list of 3, so both limits stop the loop. `MaxPool` bounds a list
that additions keep growing while the statistics are missing.

**Deadlock.** `CHECK_DEADLOCK FALSE` is in the runs whose behaviours end
because a bound is reached: reservations given out and the clock at `MaxTime`
(`gas_station*`, `lost_reply`, `access_controller`), or no start left (`locks`,
`startup`, `unnoticed_params`). In `registry` a state whose only steps are
refusals is an end too. The program itself never stops.

**Symmetry.** Coin ids are symmetric in `registry`, `gas_station` and
`lost_reply`, as are the two stations, each with its task, in the last two; clients and calls in `usage_cap`, processes and coins in
`startup`. The runs with liveness use none, nor do `full_rescan` and `locks`,
which choose fresh ids, nor `access_controller`, whose requests are chosen
among.

**Fairness.** Weak fairness of every step of a task, an unlock task and an
initializer: they are tokio tasks, their calls to the storage and the fullnode
are repeated until they return, and the ticker of the background task keeps
ticking. Weak fairness of a restart (in GasStation only): an operator or
supervisor starts a process again. The clock and the fullnode move on. Fairness
asks for a step whose reply arrives: no behaviour owes a lost reply, a late commit
or a crash.
A request of the access controller runs to its end, since the server spawns it
as a task of its own, but for one place: a hook need not answer, because the
client of a hook that is read from the configuration has no timeout.
*Not* fair: clients. They may reserve and never come back, and
`CoinsComeBack` and `ReservationsEnd` hold nevertheless. `CoinsComeBack` gives
up as soon as a process crashed, a reply of Redis was lost or a late commit made a
coin oversized; `ReservationsEnd` does not.

## 4. What is proved

Of behaviours:

| Theorem | Property | Module |
|---|---|---|
| `RegistryIsTyped` | `RegistryTypeOK` | RegistryClientsProofs |
| `StatisticsNeverDrift` | `StatisticsAgree` | |
| `ReservationsAlwaysCanExpire` | `ReservationsCanExpire` | |
| `PooledCoinsStayInitialized` | `PooledCoinsAreInitialized` | |
| `ReservationsEndForGood` | `ReservationsEndOnce` | |
| `ReservationsStayFrugal` | `ReservationsAreFrugal` | |
| `TakenCoinsStayRecorded` | `TakenCoinsAreRecorded` | |
| `GasStationIsTyped` | `TypeOK` | GasStationProofs |
| `CustodyLastsUntilAReplyIsLost` | `SingleCustody`, while `lostReplies = 0` | |
| `GasStationImplementsCoinPool` | `ImplementsCoinPool`, if `lostReplies = 0` for ever | |
| `PoolStaysSpendable` | `PoolIsSpendable`, while `lostReplies = 0`, if `BalancesFit` for ever | |
| `NoCoinStaysLost` | `NoCoinIsLost`, under the same conditions | |
| `OvershootStaysBounded` | `OvershootIsBounded` | RequestPathProofs |
| `SponsorNeverSignsTwice` | `SponsorSignsOnce` | |
| `RequestPathIsTyped` | `PathTypeOK` | |
| `SentGasIsNeverCountedTwice` | `SentGasIsCountedOnce` | |
| `LedgerStaysCapped` | `LedgerGasIsCapped` | |
| `RefusalsStayEarned` | `RefusalsAreEarned`, for a cap below 2^63 | |
| `NothingStaysPending` | `PendingBelongsToARequest` | AccessControllerProofs |
| `InstalledControllersAreLoaded` | `InstalledRulesAreLoaded` | |
| `ControllerIsTyped` | `TypeOK` | |
| `ExecutionsAreJustified` | `AccessIsJustified` | |
| `UsageStaysLimited` | `LimitHolds`, if `LimitsFit` | |
| `CountersComeToTheCost` | `CountersSettle` | |
| `StartupIsTyped` | `TypeOK` | StartupProofs |
| `LocksStayReleasable` | `LocksAreReleased` | |
| `RegistryStaysSound` | `RegistryIsSound` | |
| `PoolsFitTheirTarget` | `PoolFitsTarget` | |
| `CoinsStayRegistered` | `AllCoinsAreRegistered` | |
| `MigrationIsOverInTime` | `MigrationIsOver` | |
| `InitializersAreTyped` | `InitializerTypeOK` and `TypeOK`, with starts, rescans and crashes of stations | CoinInitializerProofs |
| `LocksExcludeWhileTheyLast` | `LocksExclude` without `IgnoreLocks`, if no holder outlives its lock | |
| `LocksExcludeOnAShortClock` | `LocksExclude` without `IgnoreLocks`, if the clock stays within one lock's duration | |
| `CustodyStaysSole` | `SoleCustody`, and that the list has no coin of the threshold, while `lostReplies = 0`, under the conditions below | |
| `AloneCustodyStaysSole` | the same for one station, with fewer conditions | |
| `NoCoinGetsForgotten` | `NoCoinIsForgotten`, while nobody crashes and `lostReplies = 0`, under the conditions of `CustodyStaysSole` and for deposits of the threshold or more | |
| `AloneNoCoinGetsForgotten` | the same for one station, with fewer conditions | |
| `FullRescanFindsEveryCoin` | `FullRescanRecoversAll`, while nothing lags, if a rescan is alone | |

Of values:

| Theorem | What it says | Module |
|---|---|---|
| `NumberIsReadBack`, `RuleIsReadBack` | what is written to the configuration file is read back as that criterion, that rule, and nothing else | AccessControllerProofs |
| `CountersHaveTheirOwnNames`, `CountersAreSeparate` | rules and counted values share a counter only if they are the same | |
| `AddedAddressIsIncluded` | the builder includes the address that it adds and nobody that was not named | |
| `KeptCoinsAreNotNew` | the check of the target lets a target pass if and only if every coin that is kept is below the threshold of a refresh | CoinInitializerProofs |
| `SplitsAddUp`, `SplitsEnd` | a split conserves the balance, nothing wraps, and every part is smaller than the whole | |
| `CalibrationCoversItsSplit` | the calibrated cost pays for the split it was measured with, except when it comes out as 0 | |
| `NoWarningMeansFourFifths` | a start does not warn if and only if the smaller value is four fifths of the larger | StartupProofs |
| `CleanUpTakesTheRegistry` | a cleanup takes exactly the keys of the registry of its host, port and sponsor without the two locks, and nothing if the host is in brackets | |
| `CleanUpStaysInItsNamespace` | so it takes no key of a station with another host, port or sponsor, no counter, no cold parameters, and nothing of the earlier version | |

**The registry.** `IInv` is the conjunction of the four invariants. None of the
first two is inductive alone: the script subtracts from the count and the
total, and that the results are natural numbers is known only because both
agree with the list; that they agree after a grant needs that what is taken and
what is left are two halves of a list. `ReservationsEndOnce` and
`TakenCoinsAreRecorded` need that the id of INCR is new, which is the second
half of `ReservationsCanExpire`. The lemmas of `CoinRegistryProofs` carry it:
the recursive function `PrefixBalance` exists and is unique, `BalanceOf` is
additive over concatenation, a list is the concatenation of its two parts, and
the loop of `reserve_gas_coins.lua` stops, at the limit at the latest, with
every earlier sum below the budget. The induction behind them is by the least
counterexample (`LeastNatural`, from the well-foundedness of the naturals),
which needs no induction theorem with an operator argument.

**The gas stations.** `TypeOK` needs three things it does not say (`TInv`):
the ledger is finite, so that the sum and the latest version of what a
transaction pays with are numbers, which takes an induction over the subsets of
a finite set; no payment is empty, as the script grants one coin at least; and
the total is present, so that no addition fails half-way. `SingleCustody` needs
that every hand gives back only what it holds, each coin once (`CInv`): the
coins that a task or an unlock task is about to release have different ids and
are its own, because the ledger and the fullnode have one object for an id; and
what a client was told is what its reservation holds, because ids are not used
again. That a commit keeps the ledger unique is a pigeonhole argument: as many
coins are paid as the payment names, so the first one, whose id the merged coin
keeps, is among them. Each step then moves coins from some holders to one other
(`CoinsMove`). A lost reply is excluded by hypothesis, since the run
`lost_reply` shows what it does; everything else may happen: lag, commits
without an answer and late ones, expiry under the hands of a client, crashes at
any place.
For the refinement (`OwnersInv`) who is idle holds nothing and reservations are
numbered from 1. In single custody the CHOOSE of `OwnerOf` is the one holder
(`OwnerIsTheHolder`), so that what is left to show of a step is which holders
lose coins and which get them (`CoinsAreTransferred`).

`PoolIsSpendable` speaks of the list, but coins come to it from the tasks and
unlock tasks, so `SpendableInv` says the same of what these are about to give
back, and that the balance a task has read is what its payment has on the
ledger, if all of it is still there to be spent. A commit touches only the coins
of its payment. When it is that of a task, single custody says that nobody else
has them (`OthersHoldOtherCoins`), and the balance derived from what the task
read is the one that the ledger leaves (`UpdatedCoinIsLive`). There the condition
`BalancesFit` comes in: the derivation ends in a `u64`, and no coin on the ledger
is larger than that. When a late commit comes, somebody else may have the coins.
What he has is then a version that the commit has spent, hence the exception,
and it stays one because versions grow: no reference that anybody holds is
newer than the coin on the ledger (`PaymentsOld`), so that a version, once spent,
is not payable again, and the transactions that still name it can only fail.

`NoCoinIsLost` needs three facts more (`KeepInv`). What is given back is all that
is live of what was held (`WholeReleases`): a transaction leaves one coin of
those it pays with, and the latest objects are those of the ledger. Whoever holds
a coin that is oversized is a task that has merged all of its coins into that one,
or whose payment was merged for it by a late commit of the same payment
(`SmallCoinsHeld`). A task that sees an oversized coin gives none of its coins
back; because of the second fact there is no other that would be lost by this.
And what is sent and not yet committed pays with small coins (`SentAreSmall`), so
that only its own rebate or merge can leave a large one: if that happens when
nobody is to look again, it is `RebatedLate`, which is excluded as a crash and lag
are. `TriggerRescan` finds the channel with room or full, and in both cases it
holds a request afterwards.

**The request path.** `OvershootIsBounded` becomes inductive with the types of
the records and with: under a cap of 0 nobody is in flight. Without the latter,
`DailyCap - 1` would not bound the admission of the first request. Then each
step is arithmetic on the number of requests in flight, which one request
leaves or enters. `SponsorSignsOnce` needs `TakenOnce`: the calls that hold a
reservation and what was signed for it are one at most, and none while it is
live or after it has expired; this is where it matters that
`ready_for_execution` removes the reservation before anything is signed.

`PathIInv` goes on from there. What was sent and what was signed belong to one
another (`sent` without a signature, or two calls that send for one id, are
excluded), so that `SentGasIsCountedOnce` moves its one from the calls to the
counter or to `forsaken` at the step that ends a call. For `LedgerGasIsCapped`
the sum over what the ledger took is compared, by id, with what was counted:
until the first midnight, and while nothing restarts, the counter is the sum of
what the ledger took for the ids that were counted, and every other id that is
not given up is in the hands of one request, which may spend `MaxGas` at most.
`OvershootIsBounded` then gives the cap. `RefusalsAreEarned` is a property of
one step: a request that has read today's date finds the counter of today,
whoever reset it. It is proved for caps that an i64 can hold; a larger one is
negative as the code compares it, and refuses a request that nothing was
counted before.

**The access controller.** `PendingBelongsToARequest` needs that a request is
checked by the controller it loaded and confirms with that one or a later one
(`RequestInv`), and that a map has one entry for a digest (`PendingInv`).
`InstalledRulesAreLoaded` needs that a reload builds its controller aside and
installs it only when every rule is initialized.

`AccessIsJustified` needs that the rules of an installed controller never change
and that what a request has matched so far is what its own claims say of the
rules before the one it is at (`JustifiedInv`). Then the decision of the loop is
the decision of the definition, rule by rule.

The two properties of the counters rest on their accounts (`AccountsInv`). While
a key lives, its value is the sum of the budgets claimed in its window less the
sum of what was taken back in it, unless INCRBY has overflowed; the total that a
claim was told is the value that its own step left. The claims and corrections
of a window that is over do not change any more, and a window never begins
twice (`FreshInv`, `HistoryInv`).

- `LimitHolds` (`SpendingInv`, `BoundInv`): to every claim of a window belongs a
  potential, which is what was counted for it less what its regular corrections
  took back, and never less than what its transaction has cost. A budget of 2^63
  or more was counted as a negative number; it is split into a part that the
  potential has (`Counted`, 0 then) and one that lowers the counter (`Off`). The
  last claim that a limit let through has seen the sum of all potentials of
  claims before it, less irregular corrections and less what was lowered, below
  the limit; a correction takes as much from the counter as from the potential
  of its claim, so nothing that happens later lifts the sum. `LimitsFit` says
  that no limit is 2^63 - 1 or more: the counter stops at that number, and would
  show it to a limit that it satisfies. Budgets are not limited, nor is gas.
- `CountersSettle` (`SettleInv`): a request that is done, undisturbed and with
  one claim has taken back the difference between budget and gas, or nothing when
  the gas was more, once; the sum over the claims less the sum over the regular
  corrections is then the sum of the smaller of the two (`TotalOfSums`). A
  request with a budget of 2^63 or more cannot have been paid for, and has taken
  back all of it.

**The initializer.** In GasStation the registry is set up once; here a cleanup
removes the total and the next id while other stations serve. So the invariant
of types is cut in two: `Typed`, which every step keeps whatever the others do,
and `RegistryKept` (the total is a number, no id is given twice), which only
GasStation keeps. `InitializersAreTyped` needs, besides, that coins have
different ids where they are cut: a split writes what is left under the id of
its coin and what was cut off under fresh ones (`IdsInv`, `FreshIdsAreFresh`), and a split yields naturals
only because its coin can pay for two pieces (`SplitIsPaid`). A step of the
initializer touches one station and possibly the registry (`Changes`), and a
step of a serving station moves no initializer, so each step falls to one of
two lemmas.

A lock is the time at which it ends, and whoever releases it releases it for
all. `LocksInv` says of each station that works under a lock that no other one
does, and that the lock has not been released. That it has not expired either
is what `LocksOutlive` adds, since the code neither renews a lock nor asks for
it again.
`LocksExcludeOnAShortClock` states the same without that hypothesis, for a
clock on which no lock can end; this is what the run `locks` checks.

`SoleCustody` counts the initializers among the hands, and the only coins that
an initializer takes are those that its scan finds. That nobody else has them is
shown in two ways (`ScannedCoinsAreFree`). A refresh finds coins of the threshold
or more, and every coin that anybody holds is smaller and on the ledger as its
holder has it (`CustodyInv`, with it `PooledCoinsAreSmall`: the list has no coin
of the threshold). A first
start keeps coins of any balance, but it scans before anything is added, so
that nobody serves yet (`NothingIsServed`); and no other initializer has coins
in hand while it holds the init lock. The rest of `SoleInv` says that who is at
no place of a split has no coins to split (`StagesInv`), that a client pays with
what its reservation holds (`GrantsInv`, for `StageOneExecution`), and that
whoever adds coins has started, so that the total is there to add to
(`TotalIsThere`). A split needs that its pieces have ids that nobody has
(`FreshIdsAreFresh`), and that they and what is left of its coin are below the
threshold or stay with the initializer; a task, that what it gives back is below
it, because it lets an oversized coin go.

The theorem assumes what the code cannot keep the promise without: no full
rescan under the clients' feet; a fullnode that is up to date and answers, so that
no commit comes late (`sent` stays empty: a late commit can merge coins that are
in the list again, and a refresh would take what they have become); locks that
exclude (see above); balances of 64 bits; no coin of exactly the threshold
(`NoneIsOnTheEdge`); and no second first start (`FirstStartsAreFirst`), which the
run `two_first_starts` has. For a station that is the only one,
`AloneCustodyStaysSole` does without the conditions on locks and first starts
(`FirstInv`: from its question whether the registry is initialized to its scan
nobody else can initialize it). This is what the run `initializer` has.

`NoCoinIsForgotten` needs the converse of custody: not that at most one has a
coin, but that somebody has it. From the scan of the first start on, every live
coin is in one of the hands that `SoleInv` counts, or in the pool, or of the
threshold or more, so that the next refresh takes it; before that scan the
registry is not initialized and nothing is served (`RememberInv`). What can make
a coin slip away is what its holder gives back, hence `GiversInv`: who is idle
holds nothing, a task gives back its payment whole unless it is oversized, and
the last batch of an initializer gives back whatever is live of it. Without a
lost answer the ledger and the holder agree on what is live. A crash is excluded
because a process's memory goes with it; a coin that it had scanned or paid with
comes back with the next full rescan only. A deposit below the threshold waits
for that as well, which is why the theorem has `DepositBalance >=
OversizeThreshold`.

`FullRescanRecoversAll` speaks of that rescan, and needs nothing of custody. The
cleanup takes away the old list and what was reserved; the scan then reads the
ledger. From the scan to the end every coin of the ledger is in the work of the
initializer, in its results, or in the pool (`HasFound`): a split moves a coin
and its fresh pieces from work to work or results, and adding moves results to
the pool. This breaks if something else takes from the pool or puts a coin on
the ledger at that time, so the theorem supposes that a rescan is alone
(`RescansAlone`) and that no deposit arrives during it (`DepositsWait`), and it
supposes answers, since a split without one leaves pieces that the initializer
does not know, and a payment that commits after its process was killed takes coins
that the scan has found. Crashes are allowed: a rescan that is killed
comes to no end, and the theorem speaks of the next one that does.

**The rules.** The texts of the parts are compared from the right: what follows
a number is a number, and an operator is not, so the first operator of
`OPERATORS` that fits is the one that was written, in spite of `>` being the
start of `>=`. The hash that shortens a counter's name is taken as injective.

**The start.** None of the properties of Startup but `RegistryIsSound` is more
than a window on the invariant, which says for each place of
`Command::execute` what the start has seen to (`Stage`): between the comparison
of the parameters and the initializer it forces a rescan or the saved target is
its own; between the cleanup and the first coin nothing is initialized; while
it adds, what is in the list is what it has scanned and not what it still has to
add, each coin once, cut for its target (`Building`); afterwards the pool is
whole. What is left when no start is under way is `Settled`: the pool is whole
or there is none, and it was cut for the saved target, if one was saved and is
no `NoTarget`. A start that dies with coins added would break it; that is where
`unsaved` comes from. Since no two starts overlap, by hypothesis, the invariant
is one of a single process at a time (`OnlyOneActs`).

`MigrationIsOver` needs three more. A namespace without a schema version has
nothing but locks (in `LockInv`), so that a migration moves the old pool as a
whole. Unless starts raced, the old namespace is as the earlier version left it
or has nothing but a lock whose name is taken (`MigrationInv`); and whoever has
come past the statistics, or has saved parameters, has set the schema version
(`SchemaInv`), except between a cleanup and the statistics after it. That nobody
is at that place while a migration is pending is the rest of `MigrationInv`:
without a failed call all other starts are as early, and without an overlap
there are none.

**Sums.** `SumTheorems` has what all of these need of `MapThenSumSet`: that it is
independent of the order in which CHOOSE takes the elements, its value after one
element more, monotony, additivity over disjoint sets and over sums of
functions. They rest on an induction over subsets of a finite set that is stated
for the set of those that have the property, so that it takes no operator.

**Assumptions.** `ConstantsAssumption` (the limit and the lock duration are
positive, `Absent` is no number), `ClientsAssumption` (budgets and durations
are positive, balances are naturals: a request for none is refused,
`gas_station_core.rs:285`), `GasStationAssumption` (finitely many coins, every
task has a station, balances, budgets and durations are naturals, the modulus
and the channel are positive, a coin is not oversized from the start: the
threshold is 200 times the initial balance, `gas_station_initializer.rs:33`), `CapAssumption` and `PathAssumption` (a cap that
fits an i64; gas is an integer; `None` is neither client nor reservation),
`ControllerAssumption`, `TextsAssumption` (the parts of a text are told apart:
an operator is no number, `*` no address), `StartupAssumption` (finitely many
coins, one at least; a missing key, no target, and the states of a lock are told
apart; a reservation may be given out), `InitializerAssumption` (the target is
positive and two pieces are below the threshold, which `run_once` checks; a
split costs what was calibrated at most; a transaction creates at most
`MaxSplit` coins; the sponsor's coins have different ids). TLC evaluates those
on the instances. The theorems on the numbers of a split have
`ParametersAreNaturals` as their hypothesis.

**The namespaces.** A name is the sequence of its parts, and a cleanup's pattern
the first three of them. `CleanUpTakesTheRegistry` takes that apart for any set
of keys; host and port, sponsor, `registry` and the names of the locks are only
assumed to be parts. The second theorem follows, since the third part of a
counter is `tracker`, cold parameters have three parts, and the first part of the
earlier version's names is a sponsor and no pair of host and port.

**Only model-checked.** The decoder of BcsDecoder, whose recursion over its input
is an induction over data, and the liveness properties, among them
`OversizedCoinsAreSplit`: the provers at hand reason neither about ENABLED nor
about fairness. They cannot do induction with an operator argument either, nor
RECURSIVE operators; the models have recursive functions and folds instead. Every
other property of a passing run is stated by a theorem, for some under the
conditions that the table gives.

## 5. What the models say of the code

With a run (`findings`):

- `lost_reply`. `release_gas_coins` repeats `add_new_coins` until it answers.
  When the script ran and only its reply was lost, the coins are in the list
  twice.
- `two_first_starts`. Whether the registry is initialized is asked before the
  init lock is taken and not again. A second first start that asked early adds
  all coins once more.
- `unnoticed_params`. The target is saved after the initializer has returned,
  and what was never saved counts as unchanged. A first start that is killed in
  between leaves coins that a start with another target serves.

Seen while modelling, without a run of their own (where a property would fail,
its exception names the case):

*Core and cap*

- a lagging fullnode gives a balance from which the new balance derives too
  large: the task does not release the coin, and no refresh finds one that
  small (`lagged` in `NoCoinIsLost`);
- a transaction that commits after its station has given up and read its coins
  leaves the list with a spent version: the next client that is given it fails
  (`SpentLate` in `PoolIsSpendable`). If it had a rebate, or merged coins, the
  list may have an oversized coin, and a later task that pays with it and a small
  one and fails releases neither, so that the small one waits for a full rescan
  (`RebatedLate` in `NoCoinIsLost` and `CoinsComeBack`); or the next refresh takes
  the oversized coin, which is in the list, for a new one and adds its pieces
  beside it. `initializer`, `full_rescan` and the theorems about `SoleCustody`
  therefore assume answers that arrive (`ResponsesGetLost = FALSE`);
- a task calls a coin oversized above the threshold (`>`), a refresh at the
  threshold (`>=`): a coin of exactly the threshold is given back by its task
  and added by a refresh, so that it is in the list twice. `initializer` has
  balances that miss the threshold by one in a task, and the theorems about
  `SoleCustody` exclude it by name (`NoneIsOnTheEdge`): no run and no theorem
  says that the list is free of such coins without that condition;
- the payment of a transaction is compared with no reservation
  (`gas_station/mod.rs:150` has an ignored test for it). GasStation assumes
  that clients pay with what they were granted;
- a health check reserves more than a request may and leaves the coins to
  expire;
- two requests that read the old date both reset the usage counter after
  midnight, the second one after it was used (`gas_usage_cap.rs:48`), and a
  task that was late with its date drops what was used today;
- a transaction that was given up may commit later and is never counted
  (`forsaken`); the cap is per process and starts at 0 with it; a cap of 2^63
  or more is negative `as i64` and refuses every request. `RefusalsAreEarned` is
  about smaller caps, and about usage that is kept too long: of the second reset,
  which forgets usage, no property says anything.

*Initializer, startup, namespaces*

- a split that committed without an answer is tried again with the old budget,
  which what is left of the coin cannot pay; the loop has no end and the init
  lock stays held (`docs/common-issues.md:46`: oversized coins are split
  automatically);
- a refresh on a lagging fullnode, or after a transaction that committed
  without an answer, finds coins that others hold;
- the calibration gives 0 when a split into 500 costs less than 500;
- `add_new_coins.lua` does not look at the maintenance lock
  (`storage/mod.rs:66` says that additions stop), so serving stations give
  coins back during a full rescan. `LocksExclude` is about initializers and would
  not notice; `FullRescanFindsEveryCoin` assumes that a rescan is alone;
- a cleanup restarts the reservation ids, so an old client can end the
  reservation of a new one. `ReservationsEndOnce` therefore speaks of the time
  between two cleanups;
- locks expire after a fixed time whatever their owner does; `locks` checks
  them while they outlive what they protect (`LockDuration = 9 > MaxTime`), and
  says nothing of two owners after that;
- the consistency check of a start unwraps a total that another start may just
  have cleaned up (`gas_station_initializer.rs:483`), and the process ends there
  (`profile.release` has `panic = "abort"`). It holds no lock then, so that no
  property of `startup` is about it;
- a migration that fails is only logged. Beside another one that works it can
  leave a list without statistics (`Raced` in `RegistryIsSound`); a full rescan
  that is killed after its cleanup lets the stale keys of the earlier version
  in (`"cleanup"` in `MigrationIsOver`); nothing compares the target that the
  earlier version's coins were cut for;
- starts with different targets may work at once, and the last to save decides
  what the next one compares with (`"overlap"` in `PoolFitsTarget`);
- a namespace drops the path of the node's url (`storage/mod.rs:123`), so that
  two nodes behind one host share a registry; an IPv6 address in brackets is a
  character class for `clean_up_coin_registry.lua:9`, so that its cleanup
  deletes nothing and a full rescan adds the coins again.

*Access controller*

- a gas limit is counted before the hook of its rule is called
  (`access_controller/mod.rs:87`); `docs/access-controller.md:446` and `514`
  say that the hook comes first;
- a hook that is read from the configuration has no timeout: the client is
  skipped by serde and its default has none (`hook_action.rs:42`), so a request
  can wait for ever (`AwaitsHook`);
- a second confirmation for one digest replaces the first (the same
  transaction sent twice, or two limits that match), and a reload leaves those
  that are pending in the controller that nobody confirms with
  (`Undisturbed`); requests of one digest with different headers correct each
  other's counters;
- a correction that arrives after its window counts in the next one, and an
  execution whose answer is lost gets its whole budget back (`Regular`);
- when INCRBY overflows, the script sets the key anew and without an
  expiration, so the counter sticks at the largest number (`window = None` in
  `CountersSettle`);
- a budget is counted `as i64` before anybody has compared it with what can be
  paid (`rule.rs:383`): one of 2^63 or more lowers the counter until its
  execution has failed, and others pass the limit meanwhile (`LoweredByClaims` in
  `LimitHolds`). One of exactly 2^63 has no negation, `diff * -1` gives the same
  number in a release build, and the correction counts it a second time
  (`Invertible`);
- what is confirmed is gas before the storage rebate (`rpc/server.rs:391`). It
  may exceed the budget, and then the counter stays at the budget, while the
  ledger takes less than either (`CostOf`);
- a window below a second is one of 0 seconds, and one that cannot be parsed
  panics;
- two concurrent reloads may install the older file last;
- `AccessRuleBuilder::sender_address` forgets an address that was set before
  (`rule.rs:69`; `move_call_package_address` does the same); an empty list of
  addresses made by `::new` means everybody, and in the file nobody; the name
  of a header without values is never checked; values that are joined by a
  comma share the counter of one value with a comma in it.

## 6. What is left out

- **Rego**, the language: a policy is the set of inputs that it accepts and the
  set on which it fails. Its loading, its input and its BCS function are
  modelled.
- **Data.** Digests, addresses, the encoding of a coin as a string, HTTP, the
  text of a window. A balance is an unbounded integer in Redis and Lua;
  wrap-around is modelled where Rust casts (`U64`, `AsI64`) and where INCRBY
  overflows (`MaxI64`). Lua's doubles lose precision above 2^53; percentages of
  the consistency check are fractions, not doubles.
- **Requests that only fail** before they touch the registry: authorization, a
  malformed body.
- **Pages** of a scan are one read. The calibrated gas cost is the constant
  `GasPerObject` in the runs of CoinInitializer; CoinSplits has its arithmetic.
- **Stations of the earlier version** are stopped before a migration.
- **Metrics, logging, reports, tools, benchmarks and examples**: observation
  and clients, no state that a property here speaks of.
- The lines that no definition stands for are, beside these, the tests inside
  the source files, imports, command line and configuration types, and the
  wiring of the HTTP server.

## 7. Plan

Done: the modules of [section 2](#2-modules) with the runs and theorems above.

Next proofs. A weaker form of `NoCoinIsForgotten` across crashes, which would have
to say of each coin that the next full rescan finds it, and full rescans beside
serving stations, where custody has to be given up and found again.

Next models: a registry of the earlier version that still serves while another
process migrates; a fullnode that lags under the initializer, with the refresh
beside tasks, once the code says what it wants there.
