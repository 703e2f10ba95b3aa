-------------------------- MODULE AccessController --------------------------
(***************************************************************************)
(* The access controller beside the requests it judges: check_access with  *)
(* its gas limits and hooks, the confirmation after the execution          *)
(* (access_controller/mod.rs, rule.rs), the reload of the rules (server.rs *)
(* execute_tx_impl, reload_access_controller), and the counters, which     *)
(* Redis keeps for a window of time (stats_tracker_storage/redis).         *)
(*                                                                         *)
(* A controller, once installed, does not change; the server holds the     *)
(* last one (ArcSwap), and a request keeps the one it has loaded.  What    *)
(* does change in a controller is its map of pending confirmations, whose  *)
(* mutex is held while one of them is sent to Redis.                       *)
(***************************************************************************)
EXTENDS AccessRules, FiniteSets, FiniteSetsExt

CONSTANTS
  Requests,       \* execute_tx requests, each sent once
  Transactions,   \* what they may carry
  Configs,        \* what the configuration file may hold
  RegoPolicies,   \* what the source of the Rego policy may hold
  GasUsed,        \* what a transaction may use, before any storage rebate
  MaxI64,         \* 2^63 - 1, at the width of the model
  MaxTime,        \* bound: the clock
  MaxEvents       \* bound: how many of Events happen, each at most once

AccessPolicy == {"Disabled", "DenyAll", "AllowAll"}

(* What a hook may answer. *)
SkippableDecision == {"Allow", "Deny", "NoDecision"}

Events == {"reload", "crash", "trackerError", "lostAnswer"}

ASSUME ControllerAssumption ==
  /\ \A tx \in Transactions :
       /\ tx.sender \in Addresses
       /\ tx.packages \subseteq Addresses
       /\ tx.budget \in 1 .. 2 * MaxI64 + 1
       /\ \A other \in Transactions : tx.digest = other.digest => tx = other
  /\ None \notin Transactions
  /\ GasUsed \subseteq Nat
  /\ {MaxI64, MaxTime} \subseteq Nat \ {0}
  /\ MaxEvents \in Nat
  /\ \A c \in Configs :
       /\ c.policy \in AccessPolicy
       /\ c.rules \in Seq(AccessRule)
       /\ \A i \in DOMAIN c.rules :
            c.rules[i].gasUsage # None => c.rules[i].gasUsage.window > 0
  /\ \A p \in RegoPolicies :
       {p.accepts, p.fails} \subseteq SUBSET {RegoInput(tx) : tx \in Transactions}
  /\ None \notin Configs \cup RegoPolicies /\ None \notin Nat

VARIABLES
  installed,    \* every controller so far; the server holds the last one
  pending,      \* their confirmation_requests
  request,      \* what each request is doing
  reload,       \* what the reload request is doing
  counters,     \* the keys of the tracker that have not expired
  now,
  events,       \* the events that have happened
  claims,       \* history: gas counted by a check, with the total it got
  corrections   \* history: gas taken back by a confirmation

historyVars == <<claims, corrections>>
serverVars == <<installed, reload>>
vars == <<serverVars, pending, request, counters, now, events, historyVars>>

Happens(e) ==
  /\ e \notin events
  /\ Cardinality(events) < MaxEvents
  /\ events' = events \cup {e}

Idle == [pc |-> "new", tx |-> None, gen |-> 0, checked |-> 0, rule |-> 1,
         total |-> 0, gas |-> None, spent |-> 0, entry |-> None]

-----------------------------------------------------------------------------
(* The tracker.  aggr_increment_sum.lua: a missing key starts a window; a sum
   that does not fit is replaced by the largest number, without a time to
   live, and as Lua writes that number with an exponent, no later INCRBY of
   the key succeeds. *)
MinI64 == -MaxI64 - 1
AsU64(i) == i % (2 * (MaxI64 + 1))
AsI64(u) == IF u > MaxI64 THEN u - 2 * (MaxI64 + 1) ELSE u

ValueOf(key) == IF key \in DOMAIN counters THEN counters[key].value ELSE 0

Stuck(key) == key \in DOMAIN counters /\ counters[key].expires = None

Overflows(key, amount) ==
  Stuck(key) \/ ValueOf(key) + amount \notin MinI64 .. MaxI64

WindowOf(key, window) ==
  IF key \in DOMAIN counters THEN counters[key].expires ELSE now + window

(* Mutated forms, here and below: named for the slip they stand for, never
   used by the specification itself. *)
UpdatedCounterUnbounded(key, window, amount) ==
  [value |-> ValueOf(key) + amount, expires |-> WindowOf(key, window)]

UpdatedCounter(key, window, amount) ==
  IF Overflows(key, amount) THEN [value |-> MaxI64, expires |-> None]
  ELSE [value |-> ValueOf(key) + amount, expires |-> WindowOf(key, window)]

UpdateAggr(key, window, amount) ==
  counters' = [k \in DOMAIN counters \cup {key} |->
                 IF k = key THEN UpdatedCounter(key, window, amount) ELSE counters[k]]

(* The number returned on overflow is a double that no i64 holds, so it comes
   back as either end. *)
Totals(key, amount) ==
  IF Overflows(key, amount) THEN {MinI64, MaxI64}
  ELSE {ValueOf(key) + amount}

-----------------------------------------------------------------------------
(* Location::fetch_bytes.  The place of a Rego policy may not answer at all; a
   web server may answer with an error, which is not taken for a policy.  What
   comes holds a policy, or nothing that compiles (None).  The operator may
   have changed it, and the configuration file, at any time. *)
Answers ==
  [comes : BOOLEAN, success : BOOLEAN, holds : RegoPolicies \cup {None}]

FetchBytes(location, answer) ==
  IF answer.comes /\ (location.form = "Http" => answer.success)
  THEN answer.holds ELSE None

(* RegoExpression::reload_source: a rule without a policy has no engine, nor
   has one whose policy cannot be had. *)
Engine(rule, answer) ==
  IF rule.regoSource = None THEN None ELSE FetchBytes(rule.regoSource, answer)

(* AccessController::initialize: each Rego policy is fetched and compiled, the
   headers of each hook are parsed; the first error ends it. *)
Initializable(config, answer) ==
  \A i \in DOMAIN config.rules :
    /\ config.rules[i].regoSource # None => Engine(config.rules[i], answer) # None
    /\ ActionInitializes(config.rules[i].action)

Initialized(config, answer) ==
  [policy |-> config.policy, rules |-> config.rules,
   engines |-> [i \in DOMAIN config.rules |-> Engine(config.rules[i], answer)]]

(* A start of the server, which is given up when it cannot initialize. *)
Start ==
  {Initialized(cs[1], cs[2]) :
     cs \in {xy \in Configs \X Answers : Initializable(xy[1], xy[2])}}

Current == Len(installed)

Init ==
  /\ installed \in {<<controller>> : controller \in Start}
  /\ pending = {}
  /\ request = [r \in Requests |-> Idle]
  /\ reload = None
  /\ counters = << >>
  /\ now = 1
  /\ events = {}
  /\ claims = {}
  /\ corrections = {}

-----------------------------------------------------------------------------
(* check_access. *)
TxOf(r) == request[r].tx

Controller(r) == installed[request[r].gen]

Rule(r) == Controller(r).rules[request[r].rule]

IsDisabled(controller) == controller.policy = "Disabled"

Arrive(r) ==
  /\ request[r].pc = "new"
  /\ \E tx \in Transactions : request' = [request EXCEPT
       ![r].tx = tx,
       ![r].pc = IF IsDisabled(installed[Current]) THEN "execute" ELSE "check",
       ![r].gen = Current,
       ![r].checked = Current]
  /\ UNCHANGED <<serverVars, pending, counters, now, events, historyVars>>

(* The rules not yet passed that match the transaction, or whose Rego policy
   fails on it. *)
Applicable(r) ==
  {i \in request[r].rule .. Len(Controller(r).rules) :
     LET rule == Controller(r).rules[i]
         engine == Controller(r).engines[i]
     IN  /\ MatchesTransaction(rule, TxOf(r))
         /\ RegoFails(rule, engine, TxOf(r)) \/ RegoMatches(rule, engine, TxOf(r))}

NextRule(r) == Min(Applicable(r))

(* An error or Decision::Deny: the request goes straight to the confirmation,
   for which the controller of that moment is loaded. *)
RejectedForgets(r) == [request[r] EXCEPT !.pc = "done"]

Rejected(r) == [request[r] EXCEPT !.pc = "confirm", !.gen = Current]

Accepted(r) == [request[r] EXCEPT !.pc = "execute"]

Denies(policy) == policy = "DenyAll"

DefaultPolicy(r) ==
  /\ request[r].pc = "check"
  /\ Applicable(r) = {}
  /\ request' = [request EXCEPT ![r] =
       IF Denies(Controller(r).policy) THEN Rejected(r) ELSE Accepted(r)]
  /\ UNCHANGED <<serverVars, pending, counters, now, events, historyVars>>

(* AccessRule::matches, and match_gas_limit up to its await: the budget is
   counted in Redis before anything is compared.  It is what the client wrote,
   and counted as a signed number: one of 2^63 or more lowers the counter. *)
EvaluateRule(r) ==
  /\ request[r].pc = "check"
  /\ \E i \in Applicable(r) :
       LET rule == Controller(r).rules[i]
           at == [request[r] EXCEPT !.rule = i]
           key == KeyOf(rule, TxOf(r))
           budget == AsI64(TxOf(r).budget)
       IN  /\ i = NextRule(r)
           /\ \/ /\ RegoFails(rule, Controller(r).engines[i], TxOf(r))
                 /\ request' = [request EXCEPT ![r] = Rejected(r)]
                 /\ UNCHANGED <<counters, events, claims>>
              \/ /\ ~RegoFails(rule, Controller(r).engines[i], TxOf(r))
                 /\ rule.gasUsage = None
                 /\ request' = [request EXCEPT ![r] = [at EXCEPT !.pc = "action"]]
                 /\ UNCHANGED <<counters, events, claims>>
              \/ /\ ~RegoFails(rule, Controller(r).engines[i], TxOf(r))
                 /\ rule.gasUsage # None
                 /\ UpdateAggr(key, rule.gasUsage.window, budget)
                 /\ \E total \in Totals(key, budget) :
                      /\ claims' = claims \cup
                           {[request |-> r, rule |-> i, key |-> key, total |-> total,
                             window |-> counters'[key].expires]}
                      /\ \/ /\ request' = [request EXCEPT ![r] =
                                 [at EXCEPT !.pc = "record", !.total = total]]
                            /\ UNCHANGED events
                         \/ /\ Happens("trackerError")
                            /\ request' = [request EXCEPT ![r] = Rejected(r)]
              \/ /\ ~RegoFails(rule, Controller(r).engines[i], TxOf(r))
                 /\ rule.gasUsage # None
                 /\ Happens("trackerError")
                 /\ request' = [request EXCEPT ![r] = Rejected(r)]
                 /\ UNCHANGED <<counters, claims>>
  /\ UNCHANGED <<serverVars, pending, now, corrections>>

(* Somebody holds the mutex of a controller while its correction is sent. *)
LockFree(g) == \A r \in Requests : request[r].pc = "update" => request[r].gen # g

EntryOf(r) ==
  [gen |-> request[r].gen, digest |-> TxOf(r).digest, request |-> r,
   key |-> KeyOf(Rule(r), TxOf(r)), window |-> Rule(r).gasUsage.window]

PendingOf(g, digest) == {p \in pending : p.gen = g /\ p.digest = digest}

(* The claim is inserted into the map, under the digest alone, and its total,
   read as unsigned, is compared with the limit. *)
IsWithinTotal(r) == Matches(Rule(r).gasUsage.value, request[r].total)

IsWithin(r) == Matches(Rule(r).gasUsage.value, AsU64(request[r].total))

RecordClaim(r) ==
  /\ request[r].pc = "record"
  /\ LockFree(request[r].gen)
  /\ pending' = (pending \ PendingOf(request[r].gen, TxOf(r).digest))
                  \cup {EntryOf(r)}
  /\ request' = [request EXCEPT
       ![r].pc = IF IsWithin(r) THEN "action" ELSE "check",
       ![r].rule = IF IsWithin(r) THEN @ ELSE @ + 1,
       ![r].total = 0]
  /\ UNCHANGED <<serverVars, counters, now, events, historyVars>>

(* A hook allows, denies, or leaves the decision to the next rule; an error,
   of the connection, the status or the answer, rejects as well.  By then the
   gas of the rule has been counted. *)
Decided(r, decision) ==
  IF decision = "Allow" THEN Accepted(r)
  ELSE IF decision = "Deny" THEN Rejected(r)
  ELSE [request[r] EXCEPT !.pc = "check", !.rule = @ + 1]

CallHook(r) ==
  \/ \E decision \in SkippableDecision :
       request' = [request EXCEPT ![r] = Decided(r, decision)]
  \/ request' = [request EXCEPT ![r] = Rejected(r)]

TakeAction(r) ==
  /\ request[r].pc = "action"
  /\ \/ /\ Rule(r).action.kind = "Allow"
        /\ request' = [request EXCEPT ![r] = Accepted(r)]
     \/ /\ Rule(r).action.kind = "Deny"
        /\ request' = [request EXCEPT ![r] = Rejected(r)]
     \/ /\ Rule(r).action.kind = "HookAction"
        /\ CallHook(r)
  /\ UNCHANGED <<serverVars, pending, counters, now, events, historyVars>>

-----------------------------------------------------------------------------
(* GasStation::execute_transaction.  The ledger executes a transaction once; a
   second execution is answered with the same effects.  What they report is
   the gas used, of which a storage rebate may pay a part, so that it may be
   more than the budget.  No coins of the sponsor pay for a budget of 2^63: the
   ledger has fewer.  The answer to a transaction may be lost; whether it is
   committed before or after that makes no difference here, where only a
   request with the same transaction would notice. *)
Charged(tx) == {q \in Requests : TxOf(q) = tx /\ request[q].spent > 0}

Affordable(tx) == tx.budget <= MaxI64

ExecuteOk(r) ==
  /\ request[r].pc = "execute"
  /\ Affordable(TxOf(r))
  /\ \E gas \in GasUsed :
       IF Charged(TxOf(r)) = {}
       THEN request' = [request EXCEPT
              ![r].pc = "confirm", ![r].gen = Current,
              ![r].gas = gas, ![r].spent = gas]
       ELSE /\ \E q \in Charged(TxOf(r)) : request[q].spent = gas
            /\ request' = [request EXCEPT
                 ![r].pc = "confirm", ![r].gen = Current, ![r].gas = gas]
  /\ UNCHANGED <<serverVars, pending, counters, now, events, historyVars>>

ExecuteErr(r) ==
  /\ request[r].pc = "execute"
  /\ \/ /\ request' = [request EXCEPT ![r].pc = "confirm", ![r].gen = Current]
        /\ UNCHANGED events
     \/ /\ Happens("lostAnswer")
        /\ Affordable(TxOf(r))
        /\ Charged(TxOf(r)) = {}
        /\ \E gas \in GasUsed : request' = [request EXCEPT
             ![r].pc = "confirm", ![r].gen = Current, ![r].spent = gas]
  /\ UNCHANGED <<serverVars, pending, counters, now, historyVars>>

-----------------------------------------------------------------------------
(* confirm_transaction on the controller loaded last.  What is pending there
   under the digest is removed, and the gas it had counted too much is taken
   back before the mutex is released. *)
ConfirmTakeWaits(r) ==
  /\ request[r].pc = "confirm"
  /\ LockFree(request[r].gen)
  /\ \E p \in PendingOf(request[r].gen, TxOf(r).digest) :
       /\ pending' = pending \ {p}
       /\ request' = [request EXCEPT ![r].pc = "update", ![r].entry = p]
  /\ UNCHANGED <<serverVars, counters, now, events, historyVars>>

ConfirmTake(r) ==
  /\ request[r].pc = "confirm"
  /\ LockFree(request[r].gen)
  /\ \/ /\ PendingOf(request[r].gen, TxOf(r).digest) = {}
        /\ request' = [request EXCEPT ![r].pc = "done"]
        /\ UNCHANGED pending
     \/ \E p \in PendingOf(request[r].gen, TxOf(r).digest) :
          /\ pending' = pending \ {p}
          /\ request' = [request EXCEPT ![r].pc = "update", ![r].entry = p]
  /\ UNCHANGED <<serverVars, counters, now, events, historyVars>>

(* saturating_sub; all of the budget when the transaction gave no effects. *)
ExcessIgnoresFailure(r) ==
  IF request[r].gas = None THEN 0
  ELSE TxOf(request[r].entry.request).budget - request[r].gas

ExcessAbsolute(r) ==
  LET budget == TxOf(request[r].entry.request).budget
  IN  IF request[r].gas = None THEN budget
      ELSE IF request[r].gas > budget THEN request[r].gas - budget
      ELSE budget - request[r].gas

Excess(r) ==
  LET budget == TxOf(request[r].entry.request).budget
  IN  IF request[r].gas = None THEN budget
      ELSE IF request[r].gas > budget THEN 0 ELSE budget - request[r].gas

(* What `diff * -1` takes off the counter: -2^63 has no negation and stays. *)
TakenBack(r) ==
  LET diff == AsI64(Excess(r)) IN IF diff = MinI64 THEN -MinI64 ELSE diff

ConfirmUpdate(r) ==
  /\ request[r].pc = "update"
  /\ LET p == request[r].entry
     IN  \/ /\ UpdateAggr(p.key, p.window, -TakenBack(r))
            /\ corrections' = corrections \cup
                 {[by |-> r, of |-> p.request, key |-> p.key,
                   window |-> counters'[p.key].expires, gas |-> TakenBack(r)]}
            /\ UNCHANGED events \/ Happens("trackerError")
         \/ /\ Happens("trackerError")
            /\ UNCHANGED <<counters, corrections>>
  /\ request' = [request EXCEPT ![r].pc = "done", ![r].entry = None]
  /\ UNCHANGED <<serverVars, pending, now, claims>>

-----------------------------------------------------------------------------
(* reload_access_controller reads the file; when that fails nothing happens. *)
ReloadBegin ==
  /\ reload = None
  /\ Happens("reload")
  /\ reload' \in Configs
  /\ UNCHANGED <<installed, pending, request, counters, now, historyVars>>

(* The new controller is put in place of the old one when it is initialized,
   with an empty map of its own; otherwise the server keeps the one it has. *)
InstallReloadUnchecked(answer) ==
  installed' = Append(installed, Initialized(reload, answer))

InstallReload(answer) ==
  IF Initializable(reload, answer)
  THEN installed' = Append(installed, Initialized(reload, answer))
  ELSE UNCHANGED installed

(* The handler is not spawned: a client that hangs up may end it here, which
   leaves what a failure leaves. *)
ReloadInitialize ==
  /\ reload # None
  /\ \E answer \in Answers : InstallReload(answer)
  /\ reload' = None
  /\ UNCHANGED <<pending, request, counters, now, events, historyVars>>

(* The server stops with what it was doing and starts again. *)
Crash ==
  /\ Happens("crash")
  /\ \E controller \in Start : installed' = Append(installed, controller)
  /\ pending' = {}
  /\ reload' = None
  /\ request' = [r \in Requests |->
       IF request[r].pc \in {"new", "done"} THEN request[r]
       ELSE [request[r] EXCEPT !.pc = "gone", !.entry = None]]
  /\ UNCHANGED <<counters, now, historyVars>>

(* Keys disappear when their time to live is over. *)
TimePasses ==
  /\ now < MaxTime
  /\ now' = now + 1
  /\ LET live == {k \in DOMAIN counters :
                    counters[k].expires = None \/ now' < counters[k].expires}
     IN  counters' = [k \in live |-> counters[k]]
  /\ UNCHANGED <<serverVars, pending, request, events, historyVars>>

-----------------------------------------------------------------------------
RequestStep(r) ==
  \/ DefaultPolicy(r) \/ EvaluateRule(r) \/ RecordClaim(r) \/ TakeAction(r)
  \/ ExecuteOk(r) \/ ExecuteErr(r)
  \/ ConfirmTake(r) \/ ConfirmUpdate(r)

Next ==
  \/ \E r \in Requests : Arrive(r) \/ RequestStep(r)
  \/ ReloadBegin \/ ReloadInitialize \/ Crash \/ TimePasses

Spec == Init /\ [][Next]_vars

(* The task of a request is spawned and runs to its end whether or not its
   client waits; its calls to Redis and the fullnode return.  A hook need not
   answer: the client of a hook that is read from the configuration is the
   default one, without the timeout that HookAction::new_url sets. *)
AwaitsHook(r) == request[r].pc = "action" /\ Rule(r).action.kind = "HookAction"

Runs(r) == ~AwaitsHook(r) /\ RequestStep(r)

FairSpec == Spec /\ \A r \in Requests : WF_request(Runs(r))

-----------------------------------------------------------------------------
PCs == {"new", "check", "record", "action", "execute", "confirm", "update",
        "done", "gone"}

TypeOK ==
  /\ installed # << >>
  /\ reload \in Configs \cup {None}
  /\ \A p \in pending : p.gen \in 1 .. Current /\ p.request \in Requests
  /\ \A r \in Requests :
       /\ request[r].pc \in PCs
       /\ request[r].pc \notin {"new", "done", "gone"}
            => request[r].gen \in 1 .. Current
       /\ request[r].gas \in GasUsed \cup {None}
       /\ request[r].spent \in GasUsed \cup {0}
  /\ \A k \in DOMAIN counters :
       /\ counters[k].value \in MinI64 .. MaxI64
       /\ counters[k].expires = None \/ counters[k].expires > now

GasOf(S) == MapThenSumSet(LAMBDA c : c.gas, S)

(* The most a counter may show to a request that its limit lets through: an
   allow rule states it with <, <= or =, a deny rule with > or >=. *)
Ceiling(limit) ==
  IF limit.operator \in {OP_LT, OP_GE} THEN limit.number - 1 ELSE limit.number

LetThrough(c) ==
  /\ c.key.rule.gasUsage.value.operator # OP_NE
  /\ AsU64(c.total) <= Ceiling(c.key.rule.gasUsage.value)

(* A correction of the claim of the request that makes it, in the window of
   that claim, by one that knows what its transaction has cost; and not of a
   budget of 2^63, which the correction takes off a second time. *)
Invertible(r) == AsI64(TxOf(r).budget) # MinI64

Regular(k) ==
  /\ k.by = k.of
  /\ Invertible(k.of)
  /\ request[k.of].gas = None => request[k.of].spent = 0
  /\ \E c \in claims : c.request = k.of /\ c.key = k.key /\ c.window = k.window

(* What the ledger has taken for the transaction of a request: at most what it
   used, and at most its budget, as a rebate pays the rest. *)
CostOf(r) ==
  IF request[r].spent > TxOf(r).budget THEN TxOf(r).budget ELSE request[r].spent

SpentUnder(S) == MapThenSumSet(LAMBDA c : CostOf(c.request), S)

(* By how much corrections, and claims of budgets that count as negative, have
   lowered a counter. *)
LoweredByCorrections(S) ==
  MapThenSumSet(LAMBDA k : IF k.gas > 0 THEN k.gas ELSE 0, S)

LoweredByClaims(S) ==
  MapThenSumSet(LAMBDA c : LET amount == AsI64(TxOf(c.request).budget)
                           IN  IF amount < 0 THEN -amount ELSE 0, S)

(* "restricted to a maximum daily usage" (docs/access-controller.md:350): what
   the requests that a limit let through in one window have cost on the ledger
   stays below it, however they interleave, crash, share digests or see the
   rules reloaded, but for what lowered the counter without belonging there:
   corrections of an earlier window, of another request's claim, or of a
   transaction whose cost the station does not know, and claims of budgets of
   2^63 or more, which any client may make (rule.rs:383). *)
LimitHolds ==
  \A c \in claims : LetThrough(c) =>
    LET these == {d \in claims : d.key = c.key /\ d.window = c.window}
    IN  SpentUnder({d \in these : LetThrough(d)})
          <= Ceiling(c.key.rule.gasUsage.value)
               + LoweredByCorrections(
                   {k \in corrections :
                      k.key = c.key /\ k.window = c.window /\ ~Regular(k)})
               + LoweredByClaims(these)

(* A request whose one claim could be confirmed: no other request has its
   transaction, no error of the tracker, no reload between check and
   confirmation (the pending claims are in the old controller then), and a
   budget other than 2^63. *)
Undisturbed(r) ==
  /\ "trackerError" \notin events
  /\ \A q \in Requests \ {r} : TxOf(q) # TxOf(r)
  /\ Cardinality({c \in claims : c.request = r}) = 1
  /\ request[r].checked = request[r].gen
  /\ Invertible(r)

(* Once all requests counted in a window are through, the counter tells the gas
   they have used, or the budgets of those that used more: no claim of a
   refused, failed or cheaper transaction is left in it, except what was undone
   late from before the window. *)
CountersSettle ==
  \A key \in DOMAIN counters :
    LET window == counters[key].expires
        these == {c \in claims : c.key = key /\ c.window = window}
    IN  /\ window # None
        /\ "lostAnswer" \notin events
        /\ \A c \in these : request[c.request].pc = "done" /\ Undisturbed(c.request)
        => counters[key].value = SpentUnder(these)
             - GasOf({k \in corrections :
                        k.key = key /\ k.window = window /\ ~Regular(k)})

(* No confirmation stays in the map of the controller in use: every entry is
   that of a transaction some request is still busy with, and that request was
   checked by this controller.  A path of execute_tx_impl that returns without
   confirming would leave its entry, and the gas counted for it, for ever. *)
Busy(r) == request[r].pc \notin {"new", "update", "done", "gone"}

PendingBelongsToARequest ==
  \A p \in pending : p.gen = Current =>
    \E r \in Requests :
      Busy(r) /\ TxOf(r).digest = p.digest /\ request[r].checked = Current

(* A controller that is in use has been initialized as a whole: all its Rego
   policies are loaded and the headers of its hooks can be sent.  A reload
   that fails half-way must not put the rules it has read into use. *)
InstalledRulesAreLoaded ==
  \A g \in DOMAIN installed : \A i \in DOMAIN installed[g].rules :
    /\ installed[g].rules[i].regoSource # None => installed[g].engines[i] # None
    /\ ActionInitializes(installed[g].rules[i].action)

(* What a rule says of a request, with the limit judged by the total that the
   request's own claim got. *)
Decisive(r, i) ==
  LET c == installed[request[r].checked]
  IN  /\ MatchesTransaction(c.rules[i], TxOf(r))
      /\ RegoMatches(c.rules[i], c.engines[i], TxOf(r))
      /\ ~RegoFails(c.rules[i], c.engines[i], TxOf(r))
      /\ c.rules[i].gasUsage = None \/
         \E k \in claims :
           /\ k.request = r /\ k.key = KeyOf(c.rules[i], TxOf(r))
           /\ Matches(c.rules[i].gasUsage.value, AsU64(k.total))

(* "If a rule matches, the corresponding action is applied. If no rule
   matches, the next rule is checked. If none match, the default policy is
   applied" (access_controller/mod.rs:70): a transaction is executed only if
   one controller, the one it was checked by, says so, whatever is reloaded
   in the meantime. *)
AccessIsJustified ==
  \A r \in Requests : request[r].pc = "execute" =>
    LET c == installed[request[r].checked]
        May(i) == Decisive(r, i) /\ c.rules[i].action.kind \in {"Allow", "HookAction"}
        MustNot(i) == Decisive(r, i) /\ c.rules[i].action.kind = "Deny"
    IN  ~IsDisabled(c) =>
          /\ c.policy = "DenyAll" => \E i \in DOMAIN c.rules : May(i)
          /\ \A j \in DOMAIN c.rules : MustNot(j) => \E i \in 1 .. j - 1 : May(i)

(* Every request that is taken up is answered, dies with the server, or waits
   for a hook: the mutex of the pending confirmations never stays locked, no
   rule is evaluated for ever, and a hook that never answers holds up no
   request but its own. *)
RequestsAreAnswered ==
  \A r \in Requests :
    request[r].pc = "check" ~> request[r].pc \in {"done", "gone"} \/ AwaitsHook(r)
=============================================================================
