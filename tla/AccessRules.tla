---------------------------- MODULE AccessRules ----------------------------
(***************************************************************************)
(* What a rule of the access controller says of one transaction, and the   *)
(* counter its gas limit uses (access_controller/rule.rs and predicates/). *)
(* Nothing here has state.                                                 *)
(***************************************************************************)
EXTENDS RuleTexts

(* TransactionContext::new: what the rules look at.  A command is the package
   it calls, or None when it is no call; a transaction that is not
   programmable has neither commands nor calls.  Of a header it is the values,
   sorted and joined, that are looked at. *)
NewContext(data, headers) ==
  [digest |-> data.digest, sender |-> data.sender, budget |-> data.budget,
   packages |-> IF data.programmable
                THEN {data.commands[i] : i \in DOMAIN data.commands} \ {None}
                ELSE {},
   commands |-> IF data.programmable THEN Len(data.commands) ELSE None,
   headers |-> headers]

Matches(criteria, value) ==
  \/ criteria.operator = OP_GT /\ value > criteria.number
  \/ criteria.operator = OP_LT /\ value < criteria.number
  \/ criteria.operator = OP_EQ /\ value = criteria.number
  \/ criteria.operator = OP_NE /\ value # criteria.number
  \/ criteria.operator = OP_GE /\ value >= criteria.number
  \/ criteria.operator = OP_LE /\ value <= criteria.number

(* The predicates that read nothing but the transaction, in the order of
   AccessRule::matches, which stops at the first that fails. *)
MatchesTransaction(rule, tx) ==
  /\ Includes(rule.senderAddress, tx.sender)
  /\ rule.gasBudget = None \/ Matches(rule.gasBudget, tx.budget)
  /\ \/ rule.movePackages = None
     \/ IncludesAny(rule.movePackages, tx.packages)
  /\ \/ None \in {rule.ptbCommands, tx.commands}
     \/ Matches(rule.ptbCommands, tx.commands)

(* RegoInputPayload: a policy sees the transaction and the headers, but nothing
   of the reservation or the signature; of the transaction this is the part
   that the model has. *)
RegoInput(tx) ==
  [sender |-> tx.sender, budget |-> tx.budget, packages |-> tx.packages,
   commands |-> tx.commands, headers |-> tx.headers]

(* The Rego policy comes last.  An engine is what its source held when it was
   loaded; an evaluation may fail, and so does a rule never loaded. *)
RegoFails(rule, engine, tx) ==
  rule.regoSource # None /\ (engine = None \/ RegoInput(tx) \in engine.fails)

RegoMatches(rule, engine, tx) ==
  rule.regoSource = None \/ RegoInput(tx) \in engine.accepts

(* get_rule_meta: the counter of a limit belongs to the whole rule as it is
   written, with the values it counts by put over the rule's own fields: the
   sender takes the place of the rule's sender addresses. *)
Counts(rule, countBy) ==
  \E i \in DOMAIN rule.gasUsage.countBy : rule.gasUsage.countBy[i] = countBy

HeaderOf(tx, name) ==
  IF name \in DOMAIN tx.headers THEN tx.headers[name] ELSE ""

KeyOf(rule, tx) ==
  [rule |-> IF Counts(rule, CountBySender)
            THEN [rule EXCEPT !.senderAddress = Single(tx.sender)]
            ELSE rule,
   headers |-> [n \in {m \in Names : Counts(rule, CountByHeader(m))}
                  |-> HeaderOf(tx, n)]]

(* get_redis_aggr_key: what is hashed is the text of the rule, with the counted
   values in it; a hash is taken to be that of one text only. *)
CounterName(key) == [text |-> RuleText(key.rule), headers |-> key.headers]
=============================================================================
