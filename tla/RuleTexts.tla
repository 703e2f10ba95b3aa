----------------------------- MODULE RuleTexts -----------------------------
(***************************************************************************)
(* The parts of an access rule, how they are written in the configuration  *)
(* file and how they are read from it (access_controller/predicates/,      *)
(* hook/hook_action_config.rs, rule.rs).  The text of a rule is also what  *)
(* its gas counter is named by, so two rules must not have the same text.  *)
(* Each part has a Text and a Read operator; the latter gives the set of   *)
(* what a text means, which is empty when the text cannot be read.         *)
(***************************************************************************)
EXTENDS Integers, Sequences

CONSTANTS
  Addresses,    \* IotaAddress
  Star,         \* "*"
  Names,        \* what may stand for a header name; none holds "http-header::"
  Values,       \* what may stand for a header value
  ValidNames,   \* the names that can be sent
  ValidValues,  \* the values that can be sent
  Urls,         \* urls of hooks
  Places,       \* paths, urls and keys of Rego policies
  None          \* an Option that is None

-----------------------------------------------------------------------------
(* ValueNumber: an operator and a number. *)
OP_GE == <<">", "=">>
OP_LE == <<"<", "=">>
OP_EQ == <<"=">>
OP_NE == <<"!", "=">>
OP_GT == <<">">>
OP_LT == <<"<">>

ValueNumber ==
  [operator : {OP_GE, OP_LE, OP_EQ, OP_NE, OP_GT, OP_LT}, number : Nat]

(* Its text is the operator and the digits of the number; the digits stay one
   number here, the operator is characters. *)
NumberText(criteria) ==
  [characters |-> criteria.operator, digits |-> criteria.number]

(* "Operators with overlapping characters should have the longer operators
   first": the first one that the text starts with is taken, and what follows
   must be a number. *)
OPERATORS == <<OP_GE, OP_LE, OP_EQ, OP_NE, OP_GT, OP_LT>>

StartsWith(characters, operator) ==
  /\ Len(operator) <= Len(characters)
  /\ \A i \in 1 .. Len(operator) : characters[i] = operator[i]

FirstOperators(characters) ==
  {i \in 1 .. 6 :
     /\ StartsWith(characters, OPERATORS[i])
     /\ \A j \in 1 .. i - 1 : ~StartsWith(characters, OPERATORS[j])}

ReadNumber(text) ==
  {[operator |-> OPERATORS[i], number |-> text.digits] :
     i \in {k \in FirstOperators(text.characters) :
             Len(OPERATORS[k]) = Len(text.characters)}}

-----------------------------------------------------------------------------
(* ValueIotaAddress: all addresses, a single one, or a list. *)
All == [form |-> "All", addresses |-> << >>]
Single(a) == [form |-> "Single", addresses |-> <<a>>]
List(addresses) == [form |-> "List", addresses |-> addresses]

ValueIotaAddress ==
  {All} \cup [form : {"Single"}, addresses : [{1} -> Addresses]]
        \cup [form : {"List"}, addresses : Seq(Addresses)]

(* ValueIotaAddress::new: no address at all means all of them. *)
NewAddresses(addresses) ==
  IF addresses = << >> THEN All
  ELSE IF Len(addresses) = 1 THEN Single(addresses[1])
  ELSE List(addresses)

Includes(value, a) ==
  value.form = "All" \/ \E i \in DOMAIN value.addresses : value.addresses[i] = a

(* A transaction without a call has no address that even All could include. *)
IncludesAny(value, S) == \E a \in S : Includes(value, a)

(* AccessRuleBuilder::sender_address: the second address takes the place of
   the first, the others are added. *)
WithAddress(value, a) ==
  IF value.form = "All" THEN Single(a)
  ELSE IF value.form = "Single" THEN List(<<a>>)
  ELSE List(Append(value.addresses, a))

WithPackage(value, a) == IF value = None THEN Single(a) ELSE WithAddress(value, a)

(* "*", an address, or an array of addresses. *)
AddressText(value) ==
  [array |-> value.form = "List",
   items |-> IF value.form = "All" THEN <<Star>> ELSE value.addresses]

ReadAddress(text) ==
  IF text.array
  THEN {List(s) : s \in {text.items} \cap Seq(Addresses)}
  ELSE IF text.items[1] = Star THEN {All}
  ELSE {Single(a) : a \in {text.items[1]} \cap Addresses}

-----------------------------------------------------------------------------
(* CountBy.  A text is cut at each "http-header::": the text "x" is <<"x">>,
   and "http-header::x" is <<"", "x">>. *)
CountBySender == [by |-> "SenderAddress", name |-> None]
CountByHeader(name) == [by |-> "HttpHeader", name |-> name]

CountBy == {CountBySender} \cup {CountByHeader(n) : n \in Names}

CountByText(countBy) ==
  IF countBy.by = "SenderAddress" THEN <<"sender-address">> ELSE <<"", countBy.name>>

ReadCountBy(text) ==
  IF text = <<"sender-address">> THEN {CountBySender}
  ELSE IF Len(text) = 2 /\ text[1] = "" THEN {CountByHeader(text[2])}
  ELSE {}

(* ValueAggregate: a limit of gas in a window.  The text leaves out an empty
   list of what it counts by. *)
ValueAggregate == [window : Nat, value : ValueNumber, countBy : Seq(CountBy)]

NewAggregate(window, limit) ==
  [window |-> window, value |-> limit, countBy |-> << >>]

WithCountBy(aggregate, groupBy) == [aggregate EXCEPT !.countBy = groupBy]

AggregateText(limit) ==
  [window |-> limit.window,
   value |-> NumberText(limit.value),
   countBy |-> [i \in 1 .. Len(limit.countBy) |-> CountByText(limit.countBy[i])]]

ReadCountBys(texts) ==
  LET read == [i \in 1 .. Len(texts) |-> ReadCountBy(texts[i])]
  IN  {s \in [1 .. Len(texts) -> UNION {read[i] : i \in 1 .. Len(texts)}] :
         \A i \in 1 .. Len(texts) : s[i] \in read[i]}

ReadAggregate(text) ==
  {[window |-> text.window, value |-> value, countBy |-> countBy] :
     value \in ReadNumber(text.value), countBy \in ReadCountBys(text.countBy)}

-----------------------------------------------------------------------------
(* Action: allow, deny, or call a hook, which is a url or a url with headers,
   each name with its values, or None where the name is not there. *)
Allow == [kind |-> "Allow", url |-> None, detailed |-> FALSE, headers |-> None]
Deny == [Allow EXCEPT !.kind = "Deny"]
HookUrl(url) == [Allow EXCEPT !.kind = "HookAction", !.url = url]
HookDetailed(url, headers) ==
  [HookUrl(url) EXCEPT !.detailed = TRUE, !.headers = headers]

Headers == [Names -> Seq(Values) \cup {None}]

Action ==
  {Allow, Deny}
    \cup {HookUrl(u) : u \in Urls}
    \cup [kind : {"HookAction"}, url : Urls, detailed : {TRUE},
          headers : Headers \cup {None}]

ASSUME TextsAssumption ==
  /\ Star \notin Addresses
  /\ {"allow", "deny"} \cap Urls = {}
  /\ None \notin {"allow", "deny"} \cup Urls
  /\ None \notin ValueIotaAddress \cup Action

(* AccessRuleBuilder::hook. *)
HookOf(url, headers) ==
  IF headers = None THEN HookUrl(url) ELSE HookDetailed(url, headers)

ActionText(action) ==
  IF action.kind = "Allow" THEN [string |-> "allow", url |-> None, headers |-> None]
  ELSE IF action.kind = "Deny"
  THEN [string |-> "deny", url |-> None, headers |-> None]
  ELSE IF action.detailed
  THEN [string |-> None, url |-> action.url, headers |-> action.headers]
  ELSE [string |-> action.url, url |-> None, headers |-> None]

ReadAction(text) ==
  IF text.string = "allow" THEN {Allow}
  ELSE IF text.string = "deny" THEN {Deny}
  ELSE {HookUrl(u) : u \in {text.string} \cap Urls}
         \cup {HookDetailed(u, text.headers) : u \in {text.url} \cap Urls}

(* hash_map_to_header_map, when the controller is initialized: a name is
   looked at with each of its values, so one without values is not. *)
Sendable(headers) ==
  \A n \in Names : headers[n] # None =>
    \A i \in DOMAIN headers[n] : n \in ValidNames /\ headers[n][i] \in ValidValues

ActionInitializes(action) ==
  action.headers = None \/ Sendable(action.headers)

-----------------------------------------------------------------------------
(* Location of a Rego policy: a file, a key of Redis or a url, and the path of
   the rule in the policy.  The tag of its text says which fields must be
   there; others are passed over. *)
NewFile(path, rule) == [form |-> "File", at |-> <<path>>, regoRulePath |-> rule]
NewRedis(url, key, rule) == [form |-> "Redis", at |-> <<url, key>>, regoRulePath |-> rule]
NewHttp(url, rule) == [form |-> "Http", at |-> <<url>>, regoRulePath |-> rule]

Locations ==
  [form : {"File", "Http"}, at : [{1} -> Places], regoRulePath : Places]
    \cup [form : {"Redis"}, at : [{1, 2} -> Places], regoRulePath : Places]

LocationText(l) ==
  IF l.form = "File"
  THEN [tag |-> "file", path |-> l.at[1], rule |-> l.regoRulePath]
  ELSE IF l.form = "Redis"
  THEN [tag |-> "redis", url |-> l.at[1], key |-> l.at[2], rule |-> l.regoRulePath]
  ELSE [tag |-> "http", url |-> l.at[1], rule |-> l.regoRulePath]

ReadLocation(text) ==
  IF text.tag = "file" /\ {"path", "rule"} \subseteq DOMAIN text
  THEN {NewFile(text["path"], text.rule)}
  ELSE IF text.tag = "redis" /\ {"url", "key", "rule"} \subseteq DOMAIN text
  THEN {NewRedis(text["url"], text["key"], text.rule)}
  ELSE IF text.tag = "http" /\ {"url", "rule"} \subseteq DOMAIN text
  THEN {NewHttp(text["url"], text.rule)}
  ELSE {}

-----------------------------------------------------------------------------
(* AccessRule: a field that is None is left out of its text; only the action
   must be there.  Of a Rego policy the text holds the location alone, so what
   is read is not loaded. *)
AddressFields == {"senderAddress", "movePackages"}
NumberFields == {"gasBudget", "ptbCommands"}
RuleFields == AddressFields \cup NumberFields \cup {"gasUsage", "regoSource", "action"}

FieldText(field, value) ==
  IF field \in AddressFields THEN AddressText(value)
  ELSE IF field \in NumberFields THEN NumberText(value)
  ELSE IF field = "gasUsage" THEN AggregateText(value)
  ELSE IF field = "action" THEN ActionText(value)
  ELSE LocationText(value)

ReadField(field, text) ==
  IF field \in AddressFields THEN ReadAddress(text)
  ELSE IF field \in NumberFields THEN ReadNumber(text)
  ELSE IF field = "gasUsage" THEN ReadAggregate(text)
  ELSE IF field = "action" THEN ReadAction(text)
  ELSE ReadLocation(text)

(* AccessRuleBuilder::new is the default rule, which allows everything. *)
DefaultRule ==
  [senderAddress |-> All, gasBudget |-> None, movePackages |-> None,
   ptbCommands |-> None, gasUsage |-> None, regoSource |-> None,
   action |-> Allow]

(* The rest of AccessRuleBuilder. *)
WithAction(rule, action) == [rule EXCEPT !.action = action]
WithGasBudget(rule, criteria) == [rule EXCEPT !.gasBudget = criteria]
WithCommandCount(rule, criteria) == [rule EXCEPT !.ptbCommands = criteria]
WithGasLimit(rule, aggregate) == [rule EXCEPT !.gasUsage = aggregate]
WithRegoExpression(rule, location) == [rule EXCEPT !.regoSource = location]

AccessRule ==
  [senderAddress : ValueIotaAddress, gasBudget : ValueNumber \cup {None},
   movePackages : ValueIotaAddress \cup {None}, ptbCommands : ValueNumber \cup {None},
   gasUsage : ValueAggregate \cup {None}, regoSource : Locations \cup {None},
   action : Action]

RuleText(rule) ==
  [f \in {g \in RuleFields : rule[g] # None} |-> FieldText(f, rule[f])]

ReadOption(text, field, default) ==
  IF field \in DOMAIN text THEN ReadField(field, text[field]) ELSE {default}

ReadRule(text) ==
  {[senderAddress |-> sender, gasBudget |-> budget, movePackages |-> packages,
    ptbCommands |-> commands, gasUsage |-> limit, regoSource |-> source,
    action |-> action] :
     sender \in ReadOption(text, "senderAddress", All),
     budget \in ReadOption(text, "gasBudget", None),
     packages \in ReadOption(text, "movePackages", None),
     commands \in ReadOption(text, "ptbCommands", None),
     limit \in ReadOption(text, "gasUsage", None),
     source \in ReadOption(text, "regoSource", None),
     action \in IF "action" \in DOMAIN text
                THEN ReadField("action", text["action"]) ELSE {}}
=============================================================================
