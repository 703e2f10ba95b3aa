----------------------- MODULE AccessControllerProofs -----------------------
(***************************************************************************)
(* The access controller for every set of requests, transactions,          *)
(* configurations and Rego policies, and every bound: what is written for  *)
(* a rule is read back as that rule, and its counter is its own; no        *)
(* confirmation is left behind in the controller in use, and a controller  *)
(* in use is initialized as a whole; what is executed is allowed by the    *)
(* rules of the controller that checked it; and what a gas limit lets      *)
(* through costs no more than it may, and comes back to what it has cost.  *)
(*                                                                         *)
(* The parts, in this order: the texts of rules; the controllers and their *)
(* pending confirmations; the effect of each step on a request's record,   *)
(* and its types; the justification of an execution; the account of a      *)
(* counter, which is what its claims were budgeted less what was taken     *)
(* back; the limits; the settling of the counters.                         *)
(***************************************************************************)
EXTENDS AccessController, SumTheorems

(* A number criterion is read back as it was written: the order of OPERATORS
   puts no operator behind one that it begins with (number.rs:106). *)
THEOREM NumberIsReadBack ==
  \A v \in ValueNumber : ReadNumber(NumberText(v)) = {v}
<1> SUFFICES ASSUME NEW v \in ValueNumber
             PROVE  ReadNumber(NumberText(v)) = {v}
  OBVIOUS
<1> DEFINE c == v.operator
           Read == {k \in FirstOperators(c) : Len(OPERATORS[k]) = Len(c)}
<1>1. PICK k \in 1 .. 6 :
        /\ c = OPERATORS[k]
        /\ StartsWith(c, OPERATORS[k])
        /\ \A j \in 1 .. k - 1 : ~StartsWith(c, OPERATORS[j])
  BY SMTT(30)
     DEF ValueNumber, OPERATORS, StartsWith, OP_GE, OP_LE, OP_EQ, OP_NE, OP_GT, OP_LT
<1>2. Read = {k}
  <2>1. k \in Read
    BY <1>1 DEF FirstOperators
  <2>2. ASSUME NEW i \in Read PROVE i = k
    <3>1. i \in 1 .. 6 /\ StartsWith(c, OPERATORS[i])
          /\ \A j \in 1 .. i - 1 : ~StartsWith(c, OPERATORS[j])
      BY <2>2 DEF FirstOperators
    <3>2. ~(i < k) /\ ~(k < i)
      BY <1>1, <3>1
    <3> QED
      BY <3>1, <3>2
  <2> HIDE DEF Read
  <2> QED
    BY <2>1, <2>2
<1>3. ReadNumber(NumberText(v)) = {[operator |-> OPERATORS[i], number |-> v.number] : i \in Read}
  BY DEF ReadNumber, NumberText
<1>4. v = [operator |-> OPERATORS[k], number |-> v.number]
  BY <1>1 DEF ValueNumber
<1> HIDE DEF Read
<1> QED
  BY <1>2, <1>3, <1>4

(* Addresses are read back in the form they were written in: all of them, one,
   or a list, which may have one item or none. *)
THEOREM AddressIsReadBack ==
  \A v \in ValueIotaAddress : ReadAddress(AddressText(v)) = {v}
<1> SUFFICES ASSUME NEW v \in ValueIotaAddress
             PROVE  ReadAddress(AddressText(v)) = {v}
  OBVIOUS
<1>1. CASE v = All
  BY <1>1 DEF All, AddressText, ReadAddress
<1>2. CASE v \in [form : {"Single"}, addresses : [{1} -> Addresses]]
  <2>1. PICK s \in [{1} -> Addresses] : v = [form |-> "Single", addresses |-> s]
    BY <1>2
  <2>2. s = <<s[1]>> /\ s[1] \in Addresses
    BY <2>1
  <2>3. v = Single(s[1])
    BY <2>1, <2>2 DEF Single
  <2>4. AddressText(v) = [array |-> FALSE, items |-> <<s[1]>>]
    BY <2>3 DEF AddressText, Single
  <2> QED
    BY <2>2, <2>3, <2>4, TextsAssumption DEF ReadAddress
<1>3. CASE v \in [form : {"List"}, addresses : Seq(Addresses)]
  <2>1. PICK s \in Seq(Addresses) : v = List(s)
    BY <1>3 DEF List
  <2>2. AddressText(v) = [array |-> TRUE, items |-> s]
    BY <2>1 DEF AddressText, List
  <2> QED
    BY <2>1, <2>2 DEF ReadAddress, List
<1> QED
  BY <1>1, <1>2, <1>3 DEF ValueIotaAddress

(* A value made of addresses includes those and no other, but everybody when
   it is made of none (iota_address.rs:13). *)
THEOREM NewAddressesInclude ==
  \A s \in Seq(Addresses) : \A a \in Addresses :
    Includes(NewAddresses(s), a) <=> s = << >> \/ \E i \in DOMAIN s : s[i] = a
<1> SUFFICES ASSUME NEW s \in Seq(Addresses), NEW a \in Addresses
             PROVE  Includes(NewAddresses(s), a)
                      <=> s = << >> \/ \E i \in DOMAIN s : s[i] = a
  OBVIOUS
<1>1. CASE s = << >>
  BY <1>1 DEF NewAddresses, Includes, All
<1>2. CASE s # << >> /\ Len(s) = 1
  BY <1>2 DEF NewAddresses, Includes, Single
<1>3. CASE s # << >> /\ Len(s) # 1
  BY <1>3 DEF NewAddresses, Includes, List
<1> QED
  BY <1>1, <1>2, <1>3

(* An address added to a rule is included, and no address that was neither
   added nor included before (rule.rs:63).  One that was may be lost. *)
THEOREM AddedAddressIsIncluded ==
  \A v \in ValueIotaAddress : \A a, b \in Addresses :
    /\ Includes(WithAddress(v, a), a)
    /\ Includes(WithAddress(v, a), b) => b = a \/ Includes(v, b)
<1> SUFFICES ASSUME NEW v \in ValueIotaAddress, NEW a \in Addresses, NEW b \in Addresses
             PROVE  /\ Includes(WithAddress(v, a), a)
                    /\ Includes(WithAddress(v, a), b) => b = a \/ Includes(v, b)
  OBVIOUS
<1>1. CASE v.form \in {"All", "Single"}
  BY <1>1 DEF WithAddress, Includes, Single, List
<1>2. CASE v.form = "List"
  <2>1. v.addresses \in Seq(Addresses)
    BY <1>2 DEF ValueIotaAddress, All
  <2> DEFINE s == Append(v.addresses, a)
             n == Len(v.addresses)
  <2>2. WithAddress(v, a) = [form |-> "List", addresses |-> s]
    BY <1>2 DEF WithAddress, List
  <2>3. n \in Nat /\ DOMAIN s = 1 .. n + 1 /\ DOMAIN v.addresses = 1 .. n
        /\ s[n + 1] = a /\ \A i \in 1 .. n : s[i] = v.addresses[i]
    BY <2>1
  <2> HIDE DEF s, n
  <2>4. Includes(WithAddress(v, a), a)
    BY <2>2, <2>3 DEF Includes
  <2>5. ASSUME Includes(WithAddress(v, a), b), b # a PROVE Includes(v, b)
    <3>1. PICK i \in 1 .. n + 1 : s[i] = b
      BY <2>2, <2>3, <2>5 DEF Includes
    <3>2. i \in 1 .. n
      BY <2>3, <2>5, <3>1
    <3> QED
      BY <2>3, <3>1, <3>2 DEF Includes
  <2> QED
    BY <2>4, <2>5
<1> QED
  BY <1>1, <1>2 DEF ValueIotaAddress, All

(* What a limit counts by is read back: the sender, or the header that was
   named (aggregate/count_by.rs). *)
LEMMA CountByIsReadBack ==
  \A c \in CountBy : ReadCountBy(CountByText(c)) = {c}
<1> SUFFICES ASSUME NEW c \in CountBy
             PROVE  ReadCountBy(CountByText(c)) = {c}
  OBVIOUS
<1>1. CASE c = CountBySender
  <2>1. CountByText(c) = <<"sender-address">>
    BY <1>1 DEF CountBySender, CountByText
  <2> QED
    BY <1>1, <2>1 DEF ReadCountBy
<1>2. CASE \E n \in Names : c = CountByHeader(n)
  <2>1. PICK n \in Names : c = CountByHeader(n)
    BY <1>2
  <2>2. CountByText(c) = <<"", n>>
    BY <2>1 DEF CountByText, CountByHeader
  <2> DEFINE text == <<"", n>>
  <2>3. text # <<"sender-address">> /\ Len(text) = 2 /\ text[1] = "" /\ text[2] = n
    OBVIOUS
  <2> HIDE DEF text
  <2>4. ReadCountBy(text) = {CountByHeader(n)}
    BY <2>3 DEF ReadCountBy
  <2> QED
    BY <2>1, <2>2, <2>4 DEF text
<1> QED
  BY <1>1, <1>2 DEF CountBy

(* So is a whole limit: its window, its number and all that it counts by, in
   the order given. *)
LEMMA AggregateIsReadBack ==
  \A v \in ValueAggregate : ReadAggregate(AggregateText(v)) = {v}
<1> SUFFICES ASSUME NEW v \in ValueAggregate
             PROVE  ReadAggregate(AggregateText(v)) = {v}
  OBVIOUS
<1> DEFINE n == Len(v.countBy)
           texts == [i \in 1 .. n |-> CountByText(v.countBy[i])]
<1>1. v.countBy \in Seq(CountBy) /\ v.value \in ValueNumber /\ n \in Nat
      /\ v.countBy = [i \in 1 .. n |-> v.countBy[i]]
      /\ v = [window |-> v.window, value |-> v.value, countBy |-> v.countBy]
  BY DEF ValueAggregate
<1>2. Len(texts) = n /\ \A i \in 1 .. n : texts[i] = CountByText(v.countBy[i])
  BY <1>1
<1>3. ReadCountBys(texts) = {v.countBy}
  <2> DEFINE read == [i \in 1 .. n |-> ReadCountBy(texts[i])]
             all == UNION {read[i] : i \in 1 .. n}
  <2>1. \A i \in 1 .. n : read[i] = {v.countBy[i]}
    BY <1>1, <1>2, CountByIsReadBack
  <2>2. v.countBy \in [1 .. n -> all]
    BY <1>1, <2>1
  <2>3. \A s \in [1 .. n -> all] : (\A i \in 1 .. n : s[i] \in read[i]) <=> s = v.countBy
    BY <1>1, <2>1
  <2>4. ReadCountBys(texts) = {s \in [1 .. n -> all] : \A i \in 1 .. n : s[i] \in read[i]}
    BY <1>2 DEF ReadCountBys
  <2> HIDE DEF all, read
  <2> QED
    BY <2>2, <2>3, <2>4
<1>4. AggregateText(v) = [window |-> v.window, value |-> NumberText(v.value), countBy |-> texts]
  BY DEF AggregateText
<1>5. ReadNumber(NumberText(v.value)) = {v.value}
  BY <1>1, NumberIsReadBack
<1> HIDE DEF texts, n
<1> QED
  BY <1>1, <1>3, <1>4, <1>5 DEF ReadAggregate

(* An action is read back: no url is taken for the word of another action, and
   a url that stands alone is told from one in a map (action.rs:8,
   hook_action_config.rs:25). *)
THEOREM ActionIsReadBack ==
  \A a \in Action : ReadAction(ActionText(a)) = {a}
<1> SUFFICES ASSUME NEW a \in Action
             PROVE  ReadAction(ActionText(a)) = {a}
  OBVIOUS
<1>1. CASE a = Allow
  BY <1>1 DEF Allow, ActionText, ReadAction
<1>2. CASE a = Deny
  BY <1>2 DEF Allow, Deny, ActionText, ReadAction
<1>3. CASE \E u \in Urls : a = HookUrl(u)
  <2>1. PICK u \in Urls : a = HookUrl(u)
    BY <1>3
  <2>2. ActionText(a) = [string |-> u, url |-> None, headers |-> None]
    BY <2>1 DEF HookUrl, Allow, ActionText
  <2> QED
    BY <2>1, <2>2, TextsAssumption DEF ReadAction
<1>4. CASE a \in [kind : {"HookAction"}, url : Urls, detailed : {TRUE},
                  headers : Headers \cup {None}]
  <2>1. PICK u \in Urls, h \in Headers \cup {None} : a = HookDetailed(u, h)
    BY <1>4 DEF HookDetailed, HookUrl, Allow
  <2>2. ActionText(a) = [string |-> None, url |-> u, headers |-> h]
    BY <2>1 DEF HookDetailed, HookUrl, Allow, ActionText
  <2> QED
    BY <2>1, <2>2, TextsAssumption DEF ReadAction
<1> QED
  BY <1>1, <1>2, <1>3, <1>4 DEF Action

(* The location of a policy is read back, as the kind of place that it is
   (source.rs:41). *)
LEMMA LocationIsReadBack ==
  \A l \in Locations : ReadLocation(LocationText(l)) = {l}
<1> SUFFICES ASSUME NEW l \in Locations
             PROVE  ReadLocation(LocationText(l)) = {l}
  OBVIOUS
<1>1. CASE l.form = "File"
  <2>1. l = NewFile(l.at[1], l.regoRulePath)
    BY <1>1 DEF Locations, NewFile
  <2>2. LocationText(l) = [tag |-> "file", path |-> l.at[1], rule |-> l.regoRulePath]
    BY <1>1 DEF LocationText
  <2> QED
    BY <2>1, <2>2 DEF ReadLocation
<1>2. CASE l.form = "Redis"
  <2>1. l = NewRedis(l.at[1], l.at[2], l.regoRulePath)
    BY <1>2 DEF Locations, NewRedis
  <2>2. LocationText(l) = [tag |-> "redis", url |-> l.at[1], key |-> l.at[2],
                           rule |-> l.regoRulePath]
    BY <1>2 DEF LocationText
  <2> QED
    BY <2>1, <2>2 DEF ReadLocation
<1>3. CASE l.form = "Http"
  <2>1. l = NewHttp(l.at[1], l.regoRulePath)
    BY <1>3 DEF Locations, NewHttp
  <2>2. LocationText(l) = [tag |-> "http", url |-> l.at[1], rule |-> l.regoRulePath]
    BY <1>3 DEF LocationText
  <2> QED
    BY <2>1, <2>2 DEF ReadLocation
<1> QED
  BY <1>1, <1>2, <1>3 DEF Locations

-----------------------------------------------------------------------------
(* A field that is there is read back. *)
LEMMA FieldIsReadBack ==
  \A rule \in AccessRule : \A f \in RuleFields :
    rule[f] # None => ReadField(f, FieldText(f, rule[f])) = {rule[f]}
<1> SUFFICES ASSUME NEW rule \in AccessRule, NEW f \in RuleFields, rule[f] # None
             PROVE  ReadField(f, FieldText(f, rule[f])) = {rule[f]}
  OBVIOUS
<1>1. CASE f \in AddressFields
  <2>1. rule[f] \in ValueIotaAddress
    BY <1>1 DEF AddressFields, AccessRule
  <2> QED
    BY <1>1, <2>1, AddressIsReadBack DEF ReadField, FieldText
<1>2. CASE f \in NumberFields
  <2>1. rule[f] \in ValueNumber
    BY <1>2 DEF NumberFields, AccessRule
  <2>2. f \notin AddressFields
    BY <1>2 DEF NumberFields, AddressFields
  <2> QED
    BY <1>2, <2>1, <2>2, NumberIsReadBack DEF ReadField, FieldText
<1>3. CASE f = "gasUsage"
  <2>1. rule[f] \in ValueAggregate
    BY <1>3 DEF AccessRule
  <2>2. f \notin AddressFields /\ f \notin NumberFields
    BY <1>3 DEF NumberFields, AddressFields
  <2> QED
    BY <1>3, <2>1, <2>2, AggregateIsReadBack DEF ReadField, FieldText
<1>4. CASE f = "action"
  <2>1. rule[f] \in Action
    BY <1>4 DEF AccessRule
  <2>2. f \notin AddressFields /\ f \notin NumberFields /\ f # "gasUsage"
    BY <1>4 DEF NumberFields, AddressFields
  <2> QED
    BY <1>4, <2>1, <2>2, ActionIsReadBack DEF ReadField, FieldText
<1>5. CASE f = "regoSource"
  <2>1. rule[f] \in Locations
    BY <1>5 DEF AccessRule
  <2>2. f \notin AddressFields /\ f \notin NumberFields /\ f \notin {"gasUsage", "action"}
    BY <1>5 DEF NumberFields, AddressFields
  <2> QED
    BY <2>1, <2>2, LocationIsReadBack DEF ReadField, FieldText
<1> QED
  BY <1>1, <1>2, <1>3, <1>4, <1>5 DEF RuleFields

(* A rule that is written into the configuration file is read back as the same
   rule: no field is lost, turned into another or made up (rule.rs:149). *)
THEOREM RuleIsReadBack ==
  \A rule \in AccessRule : ReadRule(RuleText(rule)) = {rule}
<1> SUFFICES ASSUME NEW rule \in AccessRule
             PROVE  ReadRule(RuleText(rule)) = {rule}
  OBVIOUS
<1>0. rule.senderAddress # None /\ rule.action # None
  BY TextsAssumption DEF AccessRule
<1> DEFINE text == RuleText(rule)
<1>1. \A f \in RuleFields : f \in DOMAIN text <=> rule[f] # None
  BY DEF RuleText
<1>2. \A f \in RuleFields : rule[f] # None => text[f] = FieldText(f, rule[f])
  BY DEF RuleText
<1>3. ASSUME NEW f \in RuleFields, rule[f] # None
      PROVE  ReadField(f, text[f]) = {rule[f]}
  BY <1>2, <1>3, FieldIsReadBack
<1> HIDE DEF text
<1>4. ASSUME NEW f \in RuleFields
      PROVE  ReadOption(text, f, None) = {rule[f]}
  BY <1>1, <1>3 DEF ReadOption
<1>5. ReadOption(text, "senderAddress", All) = {rule.senderAddress}
  BY <1>0, <1>1, <1>3 DEF ReadOption, RuleFields, AddressFields
<1>6. "action" \in DOMAIN text /\ ReadField("action", text["action"]) = {rule.action}
  BY <1>0, <1>1, <1>3 DEF RuleFields
<1>7. {"gasBudget", "movePackages", "ptbCommands", "gasUsage", "regoSource"} \subseteq RuleFields
  BY DEF RuleFields, AddressFields, NumberFields
<1>8. rule = [senderAddress |-> rule.senderAddress, gasBudget |-> rule.gasBudget,
              movePackages |-> rule.movePackages, ptbCommands |-> rule.ptbCommands,
              gasUsage |-> rule.gasUsage, regoSource |-> rule.regoSource,
              action |-> rule.action]
  BY DEF AccessRule
<1> QED
  BY <1>4, <1>5, <1>6, <1>7, <1>8 DEF ReadRule, text

-----------------------------------------------------------------------------
(* With a counted sender put in, a rule is a rule still. *)
LEMMA KeysHoldRules ==
  \A rule \in AccessRule : \A tx :
    tx.sender \in Addresses => KeyOf(rule, tx).rule \in AccessRule
<1> SUFFICES ASSUME NEW rule \in AccessRule, NEW tx, tx.sender \in Addresses
             PROVE  KeyOf(rule, tx).rule \in AccessRule
  OBVIOUS
<1>1. Single(tx.sender) \in ValueIotaAddress
  BY DEF Single, ValueIotaAddress
<1>2. [rule EXCEPT !.senderAddress = Single(tx.sender)] \in AccessRule
  BY <1>1 DEF AccessRule
<1> QED
  BY <1>2 DEF KeyOf

(* Two counters that are not the same have different names, whatever rules of
   whatever configuration they belong to, before or after a reload: the name
   is made of the text of the rule with the counted values (rule.rs:334). *)
THEOREM CountersHaveTheirOwnNames ==
  \A rule, other \in AccessRule : \A tx, tx2 :
    /\ {tx.sender, tx2.sender} \subseteq Addresses
    /\ CounterName(KeyOf(rule, tx)) = CounterName(KeyOf(other, tx2))
    => KeyOf(rule, tx) = KeyOf(other, tx2)
<1> SUFFICES ASSUME NEW rule \in AccessRule, NEW other \in AccessRule, NEW tx, NEW tx2,
                    {tx.sender, tx2.sender} \subseteq Addresses,
                    CounterName(KeyOf(rule, tx)) = CounterName(KeyOf(other, tx2))
             PROVE  KeyOf(rule, tx) = KeyOf(other, tx2)
  OBVIOUS
<1> DEFINE one == KeyOf(rule, tx).rule
           two == KeyOf(other, tx2).rule
<1>1. one \in AccessRule /\ two \in AccessRule
  BY KeysHoldRules
<1>0. RuleText(one) = RuleText(two)
      /\ KeyOf(rule, tx).headers = KeyOf(other, tx2).headers
  BY DEF CounterName
<1>2. {one} = {two}
  <2>1. ReadRule(RuleText(one)) = {one} /\ ReadRule(RuleText(two)) = {two}
    BY <1>1, RuleIsReadBack
  <2> HIDE DEF one, two
  <2> QED
    BY <1>0, <2>1
<1>3. one = two
  <2> HIDE DEF one, two
  <2> QED
    BY <1>2
<1> QED
  BY <1>0, <1>3 DEF KeyOf

(* Two transactions share the counter of a rule exactly when they agree on all
   that the rule counts by: nobody uses up the gas of another sender or
   account, and nobody escapes its own counter. *)
THEOREM CountersAreSeparate ==
  \A rule \in AccessRule : \A tx, tx2 :
    KeyOf(rule, tx) = KeyOf(rule, tx2) <=>
      /\ Counts(rule, CountBySender) => tx.sender = tx2.sender
      /\ \A n \in Names :
           Counts(rule, CountByHeader(n)) => HeaderOf(tx, n) = HeaderOf(tx2, n)
<1> SUFFICES ASSUME NEW rule \in AccessRule, NEW tx, NEW tx2
             PROVE  KeyOf(rule, tx) = KeyOf(rule, tx2) <=>
                      /\ Counts(rule, CountBySender) => tx.sender = tx2.sender
                      /\ \A n \in Names : Counts(rule, CountByHeader(n))
                           => HeaderOf(tx, n) = HeaderOf(tx2, n)
  OBVIOUS
<1> DEFINE With(a) == [rule EXCEPT !.senderAddress = Single(a)]
           counted == {m \in Names : Counts(rule, CountByHeader(m))}
<1>1. \A a, b : With(a) = With(b) <=> a = b
  <2>1. \A a : With(a).senderAddress = Single(a)
    BY DEF AccessRule
  <2>2. \A a : Single(a).addresses[1] = a
    BY DEF Single
  <2> SUFFICES ASSUME NEW a, NEW b, With(a) = With(b)
               PROVE  a = b
    OBVIOUS
  <2> HIDE DEF With
  <2>3. Single(a) = Single(b)
    BY <2>1
  <2> QED
    BY <2>2, <2>3
<1>2. KeyOf(rule, tx).rule = KeyOf(rule, tx2).rule
        <=> (Counts(rule, CountBySender) => tx.sender = tx2.sender)
  <2> HIDE DEF With
  <2>1. \A t : KeyOf(rule, t).rule = IF Counts(rule, CountBySender) THEN With(t.sender) ELSE rule
    BY DEF KeyOf, With
  <2> QED
    BY <1>1, <2>1
<1>3. KeyOf(rule, tx).headers = KeyOf(rule, tx2).headers
        <=> \A n \in counted : HeaderOf(tx, n) = HeaderOf(tx2, n)
  <2>1. \A t : KeyOf(rule, t).headers = [n \in counted |-> HeaderOf(t, n)]
    BY DEF KeyOf
  <2> HIDE DEF counted
  <2>2. ASSUME KeyOf(rule, tx).headers = KeyOf(rule, tx2).headers, NEW n \in counted
        PROVE  HeaderOf(tx, n) = HeaderOf(tx2, n)
    <3>1. \A t : KeyOf(rule, t).headers[n] = HeaderOf(t, n)
      BY <2>1, <2>2
    <3> QED
      BY <2>2, <3>1
  <2>3. ASSUME \A n \in counted : HeaderOf(tx, n) = HeaderOf(tx2, n)
        PROVE  KeyOf(rule, tx).headers = KeyOf(rule, tx2).headers
    BY <2>1, <2>3
  <2> QED
    BY <2>2, <2>3
<1>4. KeyOf(rule, tx) = KeyOf(rule, tx2)
        <=> /\ KeyOf(rule, tx).rule = KeyOf(rule, tx2).rule
            /\ KeyOf(rule, tx).headers = KeyOf(rule, tx2).headers
  BY DEF KeyOf
<1> HIDE DEF With
<1> QED
  BY <1>2, <1>3, <1>4

-----------------------------------------------------------------------------
(* What a request's record holds beside its fields does not matter here. *)
Fields == {"pc", "tx", "gen", "checked", "rule", "total", "gas", "spent",
           "entry"}

Records == \E V : request \in [Requests -> [Fields -> V]]

Checking == {"check", "record", "action"}

RequestInv ==
  \A r \in Requests :
    /\ request[r].pc \in PCs
    /\ request[r].pc \in Checking => request[r].gen = request[r].checked
    /\ request[r].pc \notin {"new", "done", "gone"} =>
         /\ request[r].checked \in Nat
         /\ request[r].gen \in Nat
         /\ request[r].checked <= request[r].gen
         /\ request[r].gen <= Current

PendingInv ==
  /\ \A p \in pending : p.gen \in Nat /\ p.gen <= Current
  /\ \A p, q \in pending : p.gen = q.gen /\ p.digest = q.digest => p = q

IInv ==
  /\ installed \in Seq(Start) /\ installed # << >>
  /\ reload \in Configs \cup {None}
  /\ Records
  /\ RequestInv
  /\ PendingInv
  /\ PendingBelongsToARequest

-----------------------------------------------------------------------------
(* One request moves: its record is replaced, the others stay. *)
Moves(r, pcs, gen) ==
  /\ Records'
  /\ \A q \in Requests \ {r} : request'[q] = request[q]
  /\ request'[r].pc \in pcs
  /\ request'[r].gen = gen
  /\ request'[r].tx = request[r].tx
  /\ request'[r].checked = request[r].checked

LEMMA CurrentIsNat ==
  ASSUME installed \in Seq(Start), installed # << >>
  PROVE  Current \in Nat /\ Current > 0
BY DEF Current

LEMMA ArriveMoves ==
  ASSUME Records, NEW r \in Requests, Arrive(r)
  PROVE  /\ Records'
         /\ \A q \in Requests \ {r} : request'[q] = request[q]
         /\ request'[r].pc \in {"check", "execute"}
         /\ request'[r].gen = Current
         /\ request'[r].checked = Current
<1>1. PICK V : request \in [Requests -> [Fields -> V]]
  BY DEF Records
<1>2. PICK tx \in Transactions, pc \in {"check", "execute"} :
        request' = [request EXCEPT ![r].tx = tx, ![r].pc = pc,
                                   ![r].gen = Current, ![r].checked = Current]
  BY DEF Arrive
<1> DEFINE rec == [request[r] EXCEPT !.tx = tx, !.pc = pc,
                                     !.gen = Current, !.checked = Current]
<1>3. request' \in [Requests -> [Fields -> V \cup {tx, pc, Current}]]
  <2>1. request' = [request EXCEPT ![r] = rec]
    BY <1>1, <1>2
  <2>2. rec \in [Fields -> V \cup {tx, pc, Current}]
    <3>1. request[r] \in [Fields -> V \cup {tx, pc, Current}]
      BY <1>1
    <3> QED
      BY <3>1 DEF Fields
  <2> HIDE DEF rec
  <2> QED
    BY <1>1, <2>1, <2>2
<1>4. Records'
  BY <1>3 DEF Records
<1> QED
  BY <1>1, <1>2, <1>4 DEF Fields

(* The record of one request is replaced by one with the same transaction and
   the same controller of the check. *)
LEMMA Replaced ==
  ASSUME Records, NEW r \in Requests, NEW pcs, NEW gen,
         NEW W, NEW rec \in [Fields -> W],
         rec.pc \in pcs, rec.gen = gen,
         rec.tx = request[r].tx, rec.checked = request[r].checked,
         request' = [request EXCEPT ![r] = rec]
  PROVE  Moves(r, pcs, gen)
<1>1. PICK V : request \in [Requests -> [Fields -> V]]
  BY DEF Records
<1>2. request' \in [Requests -> [Fields -> V \cup W]]
  BY <1>1
<1> QED
  BY <1>1, <1>2 DEF Moves, Records

LEMMA RejectedMoves ==
  ASSUME Records, NEW r \in Requests,
         request' = [request EXCEPT ![r] = Rejected(r)]
  PROVE  Moves(r, {"confirm"}, Current)
<1>1. PICK V : request \in [Requests -> [Fields -> V]]
  BY DEF Records
<1>2. /\ Rejected(r) \in [Fields -> V \cup {"confirm", Current}]
      /\ Rejected(r).pc = "confirm" /\ Rejected(r).gen = Current
      /\ Rejected(r).tx = request[r].tx
      /\ Rejected(r).checked = request[r].checked
  BY <1>1 DEF Rejected, Fields
<1> QED
  BY <1>2, Replaced

LEMMA AcceptedMoves ==
  ASSUME Records, NEW r \in Requests,
         request' = [request EXCEPT ![r] = Accepted(r)]
  PROVE  Moves(r, {"execute"}, request[r].gen)
<1>1. PICK V : request \in [Requests -> [Fields -> V]]
  BY DEF Records
<1>2. /\ Accepted(r) \in [Fields -> V \cup {"execute"}]
      /\ Accepted(r).pc = "execute" /\ Accepted(r).gen = request[r].gen
      /\ Accepted(r).tx = request[r].tx
      /\ Accepted(r).checked = request[r].checked
  BY <1>1 DEF Accepted, Fields
<1> QED
  BY <1>2, Replaced

LEMMA DefaultPolicyMoves ==
  ASSUME Records, NEW r \in Requests, DefaultPolicy(r)
  PROVE  \/ Moves(r, {"execute"}, request[r].gen)
         \/ Moves(r, {"confirm"}, Current)
BY RejectedMoves, AcceptedMoves DEF DefaultPolicy

(* The rule that is evaluated is the next one. *)
LEMMA EvaluatesNextRule ==
  ASSUME NEW r, EvaluateRule(r)
  PROVE  LET i == NextRule(r)
             rule == Controller(r).rules[i]
             at == [request[r] EXCEPT !.rule = i]
             key == KeyOf(rule, TxOf(r))
             budget == AsI64(TxOf(r).budget)
             fails == RegoFails(rule, Controller(r).engines[i], TxOf(r))
         IN  /\ request[r].pc = "check" /\ Applicable(r) # {}
             /\ UNCHANGED <<serverVars, pending, now, corrections>>
             /\ \/ /\ request' = [request EXCEPT ![r] = Rejected(r)]
                   /\ UNCHANGED <<counters, claims>>
                   /\ UNCHANGED events \/ Happens("trackerError")
                \/ /\ ~fails /\ rule.gasUsage = None
                   /\ request' = [request EXCEPT ![r] = [at EXCEPT !.pc = "action"]]
                   /\ UNCHANGED <<counters, events, claims>>
                \/ /\ ~fails /\ rule.gasUsage # None
                   /\ UpdateAggr(key, rule.gasUsage.window, budget)
                   /\ \E total \in Totals(key, budget) :
                        /\ claims' = claims \cup
                             {[request |-> r, rule |-> i, key |-> key, total |-> total,
                               window |-> counters'[key].expires]}
                        /\ \/ /\ request' = [request EXCEPT ![r] =
                                   [at EXCEPT !.pc = "record", !.total = total]]
                              /\ UNCHANGED events
                           \/ /\ Happens("trackerError")
                              /\ request' = [request EXCEPT ![r] = Rejected(r)]
BY Zenon DEF EvaluateRule

LEMMA EvaluateRuleMoves ==
  ASSUME Records, NEW r \in Requests, EvaluateRule(r)
  PROVE  \/ Moves(r, {"action", "record"}, request[r].gen)
         \/ Moves(r, {"confirm"}, Current)
<1> DEFINE at == [request[r] EXCEPT !.rule = NextRule(r)]
<1>1. PICK V : request \in [Requests -> [Fields -> V]]
  BY DEF Records
<1>2. CASE request' = [request EXCEPT ![r] = Rejected(r)]
  BY <1>2, RejectedMoves
<1>3. /\ at \in [Fields -> V \cup {NextRule(r)}]
      /\ at.gen = request[r].gen
      /\ at.tx = request[r].tx
      /\ at.checked = request[r].checked
  BY <1>1 DEF Fields
<1>4. CASE request' = [request EXCEPT ![r] = [at EXCEPT !.pc = "action"]]
  <2> HIDE DEF at
  <2>1. /\ [at EXCEPT !.pc = "action"] \in [Fields -> V \cup {NextRule(r), "action"}]
        /\ [at EXCEPT !.pc = "action"].pc = "action"
        /\ [at EXCEPT !.pc = "action"].gen = request[r].gen
        /\ [at EXCEPT !.pc = "action"].tx = request[r].tx
        /\ [at EXCEPT !.pc = "action"].checked = request[r].checked
    BY <1>3 DEF Fields
  <2>2. Moves(r, {"action", "record"}, request[r].gen)
    BY <1>4, <2>1, Replaced
  <2> QED
    BY <2>2
<1>5. ASSUME NEW total,
             request' = [request EXCEPT ![r] =
                           [at EXCEPT !.pc = "record", !.total = total]]
      PROVE  Moves(r, {"action", "record"}, request[r].gen)
  <2> DEFINE rec == [at EXCEPT !.pc = "record", !.total = total]
  <2> HIDE DEF at
  <2>1. /\ rec \in [Fields -> V \cup {NextRule(r), "record", total}]
        /\ rec.pc = "record"
        /\ rec.gen = request[r].gen
        /\ rec.tx = request[r].tx
        /\ rec.checked = request[r].checked
    BY <1>3 DEF Fields
  <2> QED
    BY <1>5, <2>1, Replaced
<1>6. \/ request' = [request EXCEPT ![r] = Rejected(r)]
      \/ request' = [request EXCEPT ![r] = [at EXCEPT !.pc = "action"]]
      \/ \E total : request' = [request EXCEPT ![r] =
                           [at EXCEPT !.pc = "record", !.total = total]]
  BY EvaluatesNextRule
<1> QED
  BY <1>2, <1>4, <1>5, <1>6

LEMMA RecordClaimMoves ==
  ASSUME Records, NEW r \in Requests, RecordClaim(r)
  PROVE  Moves(r, {"action", "check"}, request[r].gen)
<1>1. PICK V : request \in [Requests -> [Fields -> V]]
  BY DEF Records
<1>a. PICK pc \in {"action", "check"} :
        \E rule : request' = [request EXCEPT ![r].pc = pc, ![r].rule = rule,
                                             ![r].total = 0]
  BY DEF RecordClaim
<1>2. PICK rule : request' = [request EXCEPT ![r].pc = pc, ![r].rule = rule,
                                             ![r].total = 0]
  BY <1>a
<1> DEFINE rec == [request[r] EXCEPT !.pc = pc, !.rule = rule, !.total = 0]
<1>3. /\ rec \in [Fields -> V \cup {pc, rule, 0}]
      /\ rec.pc \in {"action", "check"}
      /\ rec.gen = request[r].gen
      /\ rec.tx = request[r].tx
      /\ rec.checked = request[r].checked
  <2>1. request[r] \in [Fields -> V \cup {pc, rule, 0}]
    BY <1>1
  <2> QED
    BY <2>1 DEF Fields
<1>4. request' = [request EXCEPT ![r] = rec]
  BY <1>1, <1>2
<1> HIDE DEF rec
<1> QED
  BY <1>3, <1>4, Replaced

LEMMA TakeActionMoves ==
  ASSUME Records, NEW r \in Requests, TakeAction(r)
  PROVE  \/ Moves(r, {"execute", "check"}, request[r].gen)
         \/ Moves(r, {"confirm"}, Current)
<1>1. PICK V : request \in [Requests -> [Fields -> V]]
  BY DEF Records
<1>2. CASE request' = [request EXCEPT ![r] = Accepted(r)]
  BY <1>2, AcceptedMoves DEF Moves
<1>3. CASE request' = [request EXCEPT ![r] = Rejected(r)]
  BY <1>3, RejectedMoves
<1>4. ASSUME NEW rule,
             request' = [request EXCEPT
               ![r] = [request[r] EXCEPT !.pc = "check", !.rule = rule]]
      PROVE  Moves(r, {"execute", "check"}, request[r].gen)
  <2> DEFINE rec == [request[r] EXCEPT !.pc = "check", !.rule = rule]
  <2>1. /\ rec \in [Fields -> V \cup {"check", rule}]
        /\ rec.pc \in {"execute", "check"}
        /\ rec.gen = request[r].gen
        /\ rec.tx = request[r].tx
        /\ rec.checked = request[r].checked
    <3>1. request[r] \in [Fields -> V \cup {"check", rule}]
      BY <1>1
    <3> QED
      BY <3>1 DEF Fields
  <2>2. request' = [request EXCEPT ![r] = rec]
    BY <1>1, <1>4
  <2> HIDE DEF rec
  <2> QED
    BY <2>1, <2>2, Replaced
<1>5. \/ request' = [request EXCEPT ![r] = Accepted(r)]
      \/ request' = [request EXCEPT ![r] = Rejected(r)]
      \/ \E rule : request' = [request EXCEPT
           ![r] = [request[r] EXCEPT !.pc = "check", !.rule = rule]]
  BY DEF TakeAction, CallHook, Decided
<1> QED
  BY <1>2, <1>3, <1>4, <1>5

(* After the execution the controller of that moment is loaded; gas and spent
   are no part of the argument. *)
LEMMA ExecutedMoves ==
  ASSUME Records, NEW r \in Requests, NEW gas, NEW spent,
         request' = [request EXCEPT ![r].pc = "confirm", ![r].gen = Current,
                                    ![r].gas = gas, ![r].spent = spent]
  PROVE  Moves(r, {"confirm"}, Current)
<1>1. PICK V : request \in [Requests -> [Fields -> V]]
  BY DEF Records
<1> DEFINE rec == [request[r] EXCEPT !.pc = "confirm", !.gen = Current,
                                     !.gas = gas, !.spent = spent]
<1>2. /\ rec \in [Fields -> V \cup {"confirm", Current, gas, spent}]
      /\ rec.pc \in {"confirm"}
      /\ rec.gen = Current
      /\ rec.tx = request[r].tx
      /\ rec.checked = request[r].checked
  <2>1. request[r] \in [Fields -> V \cup {"confirm", Current, gas, spent}]
    BY <1>1
  <2> QED
    BY <2>1 DEF Fields
<1>3. request' = [request EXCEPT ![r] = rec]
  BY <1>1
<1> HIDE DEF rec
<1> QED
  BY <1>2, <1>3, Replaced

LEMMA ExecuteMoves ==
  ASSUME Records, NEW r \in Requests, ExecuteOk(r) \/ ExecuteErr(r)
  PROVE  Moves(r, {"confirm"}, Current)
<1>1. PICK V : request \in [Requests -> [Fields -> V]]
  BY DEF Records
<1>2. \/ \E gas : request' =
            [request EXCEPT ![r].pc = "confirm", ![r].gen = Current,
                            ![r].gas = gas, ![r].spent = gas]
      \/ \E gas : request' =
            [request EXCEPT ![r].pc = "confirm", ![r].gen = Current,
                            ![r].gas = gas]
      \/ \E spent : request' =
            [request EXCEPT ![r].pc = "confirm", ![r].gen = Current,
                            ![r].spent = spent]
      \/ request' = [request EXCEPT ![r].pc = "confirm", ![r].gen = Current]
  BY DEF ExecuteOk, ExecuteErr
<1>3. \E gas, spent : request' =
        [request EXCEPT ![r].pc = "confirm", ![r].gen = Current,
                        ![r].gas = gas, ![r].spent = spent]
  <2>1. CASE \E gas : request' =
               [request EXCEPT ![r].pc = "confirm", ![r].gen = Current,
                               ![r].gas = gas, ![r].spent = gas]
    BY <2>1
  <2>2. CASE \E gas : request' =
               [request EXCEPT ![r].pc = "confirm", ![r].gen = Current,
                               ![r].gas = gas]
    <3>1. PICK gas : request' =
               [request EXCEPT ![r].pc = "confirm", ![r].gen = Current,
                               ![r].gas = gas]
      BY <2>2
    <3>2. request' =
            [request EXCEPT ![r].pc = "confirm", ![r].gen = Current,
                            ![r].gas = gas, ![r].spent = request[r].spent]
      BY <1>1, <3>1 DEF Fields
    <3> QED
      BY <3>2
  <2>3. CASE \E spent : request' =
               [request EXCEPT ![r].pc = "confirm", ![r].gen = Current,
                               ![r].spent = spent]
    <3>1. PICK spent : request' =
               [request EXCEPT ![r].pc = "confirm", ![r].gen = Current,
                               ![r].spent = spent]
      BY <2>3
    <3>2. request' =
            [request EXCEPT ![r].pc = "confirm", ![r].gen = Current,
                            ![r].gas = request[r].gas, ![r].spent = spent]
      BY <1>1, <3>1 DEF Fields
    <3> QED
      BY <3>2
  <2>4. CASE request' =
               [request EXCEPT ![r].pc = "confirm", ![r].gen = Current]
    <3>1. request' =
            [request EXCEPT ![r].pc = "confirm", ![r].gen = Current,
                            ![r].gas = request[r].gas,
                            ![r].spent = request[r].spent]
      BY <1>1, <2>4 DEF Fields
    <3> QED
      BY <3>1
  <2> QED
    BY <1>2, <2>1, <2>2, <2>3, <2>4
<1> QED
  BY <1>3, ExecutedMoves

LEMMA ConfirmMoves ==
  ASSUME Records, NEW r \in Requests, ConfirmTake(r) \/ ConfirmUpdate(r)
  PROVE  Moves(r, {"update", "done"}, request[r].gen)
<1>1. PICK V : request \in [Requests -> [Fields -> V]]
  BY DEF Records
<1>a. PICK pc \in {"update", "done"} : \E entry :
        request' = [request EXCEPT ![r].pc = pc, ![r].entry = entry]
  <2>1. CASE request' = [request EXCEPT ![r].pc = "done"]
    <3>1. request' = [request EXCEPT ![r].pc = "done",
                                     ![r].entry = request[r].entry]
      BY <1>1, <2>1 DEF Fields
    <3> QED
      BY <3>1
  <2>2. CASE \E p : request' =
               [request EXCEPT ![r].pc = "update", ![r].entry = p]
    BY <2>2
  <2>3. CASE request' = [request EXCEPT ![r].pc = "done", ![r].entry = None]
    BY <2>3
  <2> QED
    BY <2>1, <2>2, <2>3 DEF ConfirmTake, ConfirmUpdate
<1>2. PICK entry :
        request' = [request EXCEPT ![r].pc = pc, ![r].entry = entry]
  BY <1>a
<1> DEFINE rec == [request[r] EXCEPT !.pc = pc, !.entry = entry]
<1>3. /\ rec \in [Fields -> V \cup {pc, entry}]
      /\ rec.pc \in {"update", "done"}
      /\ rec.gen = request[r].gen
      /\ rec.tx = request[r].tx
      /\ rec.checked = request[r].checked
  <2>1. request[r] \in [Fields -> V \cup {pc, entry}]
    BY <1>1
  <2> QED
    BY <2>1 DEF Fields
<1>4. request' = [request EXCEPT ![r] = rec]
  BY <1>1, <1>2
<1> HIDE DEF rec
<1> QED
  BY <1>3, <1>4, Replaced

-----------------------------------------------------------------------------
(* A request goes on: with its controller while it is checked and confirmed,
   with the current one from the check or the execution to the confirmation. *)
GoesOn(r) ==
  \/ /\ request[r].pc \in Checking
     /\ Moves(r, Checking \cup {"execute"}, request[r].gen)
  \/ /\ request[r].pc \in Checking \cup {"execute"}
     /\ Moves(r, {"confirm"}, Current)

LEMMA GoesOnOf ==
  ASSUME Records, NEW r \in Requests,
         \/ DefaultPolicy(r) \/ EvaluateRule(r) \/ RecordClaim(r)
         \/ TakeAction(r) \/ ExecuteOk(r) \/ ExecuteErr(r)
  PROVE  GoesOn(r)
<1>1. CASE DefaultPolicy(r)
  <2>1. request[r].pc \in Checking
    BY <1>1 DEF DefaultPolicy, Checking
  <2> QED
    BY <1>1, <2>1, DefaultPolicyMoves DEF GoesOn, Moves, Checking
<1>2. CASE EvaluateRule(r)
  <2>1. request[r].pc \in Checking
    BY <1>2 DEF EvaluateRule, Checking
  <2> QED
    BY <1>2, <2>1, EvaluateRuleMoves DEF GoesOn, Moves, Checking
<1>3. CASE RecordClaim(r)
  <2>1. request[r].pc \in Checking
    BY <1>3 DEF RecordClaim, Checking
  <2> QED
    BY <1>3, <2>1, RecordClaimMoves DEF GoesOn, Moves, Checking
<1>4. CASE TakeAction(r)
  <2>1. request[r].pc \in Checking
    BY <1>4 DEF TakeAction, Checking
  <2> QED
    BY <1>4, <2>1, TakeActionMoves DEF GoesOn, Moves, Checking
<1>5. CASE ExecuteOk(r) \/ ExecuteErr(r)
  <2>1. request[r].pc \in Checking \cup {"execute"}
    BY <1>5 DEF ExecuteOk, ExecuteErr
  <2> QED
    BY <1>5, <2>1, ExecuteMoves DEF GoesOn
<1> QED
  BY <1>1, <1>2, <1>3, <1>4, <1>5

LEMMA GoingOnKeepsRequestInv ==
  ASSUME IInv, NEW r \in Requests, GoesOn(r), installed' = installed
  PROVE  RequestInv'
<1>1. Current \in Nat /\ Current > 0 /\ Current' = Current
  BY CurrentIsNat DEF IInv, Current
<1> QED
  BY <1>1 DEF IInv, RequestInv, GoesOn, Moves, Checking, PCs

LEMMA GoingOnKeepsPending ==
  ASSUME IInv, NEW r \in Requests, GoesOn(r), installed' = installed,
         pending' = pending
  PROVE  PendingInv' /\ PendingBelongsToARequest'
<1>1. Current' = Current
  BY DEF Current
<1>2. PendingInv'
  BY <1>1 DEF IInv, PendingInv
<1>3. ASSUME NEW q \in Requests, Busy(q)
      PROVE  /\ Busy(q)' /\ TxOf(q)' = TxOf(q)
             /\ request'[q].checked = request[q].checked
  BY <1>3 DEF Busy, TxOf, GoesOn, Moves, Checking
<1>4. PendingBelongsToARequest'
  <2> SUFFICES ASSUME NEW p \in pending, p.gen = Current
               PROVE  \E q \in Requests :
                        /\ Busy(q)' /\ TxOf(q)'.digest = p.digest
                        /\ request'[q].checked = Current
    BY <1>1 DEF PendingBelongsToARequest
  <2> QED
    BY <1>3 DEF IInv, PendingBelongsToARequest
<1> QED
  BY <1>2, <1>4

(* The entry that is inserted takes the place of one with its digest. *)
LEMMA RecordClaimKeepsPending ==
  ASSUME IInv, NEW r \in Requests, RecordClaim(r)
  PROVE  PendingInv' /\ PendingBelongsToARequest'
<1> DEFINE e == EntryOf(r)
<1>1. Current \in Nat /\ Current' = Current
  BY CurrentIsNat DEF IInv, Current, RecordClaim, serverVars
<1>2. /\ request[r].pc = "record"
      /\ request[r].gen \in Nat /\ request[r].gen <= Current
      /\ request[r].checked = request[r].gen
  BY DEF IInv, RequestInv, RecordClaim, Checking
<1>3. Moves(r, {"action", "check"}, request[r].gen)
  BY RecordClaimMoves DEF IInv
<1>4. /\ e.gen = request[r].gen /\ e.digest = TxOf(r).digest
      /\ pending' = (pending \ PendingOf(e.gen, e.digest)) \cup {e}
  BY DEF EntryOf, RecordClaim
<1> HIDE DEF e
<1>5. PendingInv'
  <2>1. \A p \in pending' : p.gen \in Nat /\ p.gen <= Current
    BY <1>2, <1>4 DEF IInv, PendingInv
  <2>2. ASSUME NEW p \in pending', NEW q \in pending',
               p.gen = q.gen, p.digest = q.digest
        PROVE  p = q
    BY <1>4, <2>2 DEF IInv, PendingInv, PendingOf
  <2> QED
    BY <1>1, <2>1, <2>2 DEF PendingInv
<1>6. /\ Busy(r)' /\ TxOf(r)' = TxOf(r)
      /\ request'[r].checked = request[r].checked
  BY <1>3 DEF Moves, Busy, TxOf
<1>7. ASSUME NEW q \in Requests, Busy(q)
      PROVE  /\ Busy(q)' /\ TxOf(q)' = TxOf(q)
             /\ request'[q].checked = request[q].checked
  BY <1>3, <1>6, <1>7 DEF Moves, Busy, TxOf
<1>8. PendingBelongsToARequest'
  <2> SUFFICES ASSUME NEW p \in pending', p.gen = Current
               PROVE  \E q \in Requests :
                        /\ Busy(q)' /\ TxOf(q)'.digest = p.digest
                        /\ request'[q].checked = Current
    BY <1>1 DEF PendingBelongsToARequest
  <2>1. CASE p = e
    BY <1>2, <1>4, <1>6, <2>1
  <2>2. CASE p \in pending
    BY <1>7, <2>2 DEF IInv, PendingBelongsToARequest
  <2> QED
    BY <1>4, <2>1, <2>2
<1> QED
  BY <1>5, <1>8

(* A request that confirms takes the one entry of its digest from the
   controller it works with; that is the current one if it was checked by the
   current one. *)
LEMMA ConfirmKeepsInv ==
  ASSUME IInv, NEW r \in Requests, ConfirmTake(r) \/ ConfirmUpdate(r)
  PROVE  RequestInv' /\ PendingInv' /\ PendingBelongsToARequest'
<1>1. installed' = installed
  BY DEF ConfirmTake, ConfirmUpdate, serverVars
<1>2. Current \in Nat /\ Current' = Current
  BY <1>1, CurrentIsNat DEF IInv, Current
<1>3. request[r].pc \in {"confirm", "update"}
  BY DEF ConfirmTake, ConfirmUpdate
<1>4. Moves(r, {"update", "done"}, request[r].gen)
  BY ConfirmMoves DEF IInv
<1>5. RequestInv'
  BY <1>2, <1>3, <1>4 DEF IInv, RequestInv, Moves, Checking, PCs
<1>6. pending' \subseteq pending
  BY DEF ConfirmTake, ConfirmUpdate
<1>7. PendingInv'
  BY <1>2, <1>6 DEF IInv, PendingInv
<1>8. ASSUME NEW q \in Requests, q # r, Busy(q)
      PROVE  /\ Busy(q)' /\ TxOf(q)' = TxOf(q)
             /\ request'[q].checked = request[q].checked
  BY <1>4, <1>8 DEF Moves, Busy, TxOf
<1>9. PendingBelongsToARequest'
  <2> SUFFICES ASSUME NEW p \in pending', p.gen = Current
               PROVE  \E q \in Requests :
                        /\ Busy(q)' /\ TxOf(q)'.digest = p.digest
                        /\ request'[q].checked = Current
    BY <1>2 DEF PendingBelongsToARequest
  <2>1. PICK q \in Requests :
          Busy(q) /\ TxOf(q).digest = p.digest /\ request[q].checked = Current
    BY <1>6 DEF IInv, PendingBelongsToARequest
  <2>2. q # r
    <3> SUFFICES ASSUME q = r PROVE FALSE
      OBVIOUS
    <3>1. request[r].pc = "confirm" /\ ConfirmTake(r)
      BY <1>3, <2>1 DEF Busy, ConfirmUpdate
    <3>2. request[r].gen = Current
      BY <1>2, <2>1, <3>1 DEF IInv, RequestInv
    <3>3. p \in PendingOf(request[r].gen, TxOf(r).digest)
      BY <1>6, <2>1, <3>2 DEF PendingOf
    <3>4. PICK e \in PendingOf(request[r].gen, TxOf(r).digest) :
            pending' = pending \ {e}
      BY <3>1, <3>3 DEF ConfirmTake
    <3>5. p = e
      BY <3>3, <3>4 DEF IInv, PendingInv, PendingOf
    <3> QED
      BY <3>4, <3>5
  <2> QED
    BY <1>8, <2>1, <2>2
<1> QED
  BY <1>5, <1>7, <1>9

(* A request that arrives is checked by the current controller. *)
LEMMA ArriveKeepsInv ==
  ASSUME IInv, NEW r \in Requests, Arrive(r)
  PROVE  RequestInv' /\ PendingInv' /\ PendingBelongsToARequest'
<1>1. installed' = installed /\ pending' = pending /\ request[r].pc = "new"
  BY DEF Arrive, serverVars
<1>2. Current \in Nat /\ Current' = Current
  BY <1>1, CurrentIsNat DEF IInv, Current
<1>3. /\ \A q \in Requests \ {r} : request'[q] = request[q]
      /\ request'[r].pc \in {"check", "execute"}
      /\ request'[r].gen = Current
      /\ request'[r].checked = Current
  BY ArriveMoves DEF IInv
<1>4. RequestInv'
  BY <1>2, <1>3 DEF IInv, RequestInv, PCs
<1>5. PendingInv'
  BY <1>1, <1>2 DEF IInv, PendingInv
<1>6. PendingBelongsToARequest'
  <2> SUFFICES ASSUME NEW p \in pending, p.gen = Current
               PROVE  \E q \in Requests :
                        /\ Busy(q)' /\ TxOf(q)'.digest = p.digest
                        /\ request'[q].checked = Current
    BY <1>1, <1>2 DEF PendingBelongsToARequest
  <2>1. PICK q \in Requests :
          Busy(q) /\ TxOf(q).digest = p.digest /\ request[q].checked = Current
    BY DEF IInv, PendingBelongsToARequest
  <2>2. q # r
    BY <1>1, <2>1 DEF Busy
  <2> QED
    BY <1>3, <2>1, <2>2 DEF Busy, TxOf
<1> QED
  BY <1>4, <1>5, <1>6

(* A new controller: nothing is pending in it. *)
LEMMA InstallKeepsInv ==
  ASSUME IInv, NEW controller \in Start,
         installed' = Append(installed, controller),
         pending' \subseteq pending,
         \/ request' = request
         \/ \A q \in Requests :
              request'[q] = request[q] \/ request'[q].pc = "gone"
  PROVE  /\ installed' \in Seq(Start) /\ installed' # << >>
         /\ RequestInv' /\ PendingInv' /\ PendingBelongsToARequest'
<1>1. Current \in Nat /\ Current' = Current + 1
  BY CurrentIsNat DEF IInv, Current
<1>2. installed' \in Seq(Start) /\ installed' # << >>
  BY DEF IInv
<1>3. RequestInv'
  <2> SUFFICES ASSUME NEW q \in Requests
               PROVE  /\ request'[q].pc \in PCs
                      /\ request'[q].pc \in Checking =>
                           request'[q].gen = request'[q].checked
                      /\ request'[q].pc \notin {"new", "done", "gone"} =>
                           /\ request'[q].checked \in Nat
                           /\ request'[q].gen \in Nat
                           /\ request'[q].checked <= request'[q].gen
                           /\ request'[q].gen <= Current + 1
    BY <1>1 DEF RequestInv
  <2>1. CASE request'[q] = request[q]
    BY <1>1, <2>1 DEF IInv, RequestInv
  <2>2. CASE request'[q].pc = "gone"
    BY <2>2 DEF PCs, Checking
  <2> QED
    BY <2>1, <2>2
<1>4. PendingInv'
  BY <1>1 DEF IInv, PendingInv
<1>5. PendingBelongsToARequest'
  BY <1>1 DEF IInv, PendingInv, PendingBelongsToARequest
<1> QED
  BY <1>2, <1>3, <1>4, <1>5

LEMMA StartedControllers ==
  ASSUME NEW config \in Configs, NEW source \in Answers,
         Initializable(config, source)
  PROVE  Initialized(config, source) \in Start
<1> DEFINE cs == <<config, source>>
<1>1. cs \in Configs \X Answers /\ cs[1] = config /\ cs[2] = source
  OBVIOUS
<1> QED
  BY <1>1 DEF Start

LEMMA InitImpliesIInv == Init => IInv
<1> SUFFICES ASSUME Init PROVE IInv
  OBVIOUS
<1>1. PICK controller \in Start : installed = <<controller>>
  BY DEF Init
<1>2. installed \in Seq(Start) /\ installed # << >>
  BY <1>1
<1>3. request = [r \in Requests |-> Idle]
  BY DEF Init
<1>4. Records
  <2> DEFINE V == {"new", None, 0, 1}
  <2>1. Idle \in [Fields -> V]
    BY DEF Idle, Fields
  <2>2. request \in [Requests -> [Fields -> V]]
    BY <1>3, <2>1
  <2> QED
    BY <2>2 DEF Records
<1>5. RequestInv
  BY <1>3 DEF RequestInv, Idle, PCs, Checking
<1>6. pending = {} /\ reload = None
  BY DEF Init
<1> QED
  BY <1>2, <1>4, <1>5, <1>6 DEF IInv, PendingInv, PendingBelongsToARequest

LEMMA NextPreservesIInv == IInv /\ [Next]_vars => IInv'
<1> SUFFICES ASSUME IInv, [Next]_vars PROVE IInv'
  OBVIOUS
<1>1. ASSUME NEW r \in Requests, Arrive(r)
      PROVE  IInv'
  <2>1. installed' = installed /\ reload' = reload
    BY <1>1 DEF Arrive, serverVars
  <2> QED
    BY <1>1, <2>1, ArriveMoves, ArriveKeepsInv DEF IInv
<1>2. ASSUME NEW r \in Requests, RequestStep(r)
      PROVE  IInv'
  <2>1. installed' = installed /\ reload' = reload
    BY <1>2 DEF RequestStep, DefaultPolicy, EvaluateRule, RecordClaim,
                TakeAction, ExecuteOk, ExecuteErr, ConfirmTake, ConfirmUpdate,
                serverVars
  <2>2. CASE ConfirmTake(r) \/ ConfirmUpdate(r)
    BY <2>1, <2>2, ConfirmMoves, ConfirmKeepsInv DEF IInv, Moves
  <2>3. CASE \/ DefaultPolicy(r) \/ EvaluateRule(r) \/ RecordClaim(r)
             \/ TakeAction(r) \/ ExecuteOk(r) \/ ExecuteErr(r)
    <3>1. GoesOn(r)
      BY <2>3, GoesOnOf DEF IInv
    <3>2. RequestInv' /\ Records'
      BY <2>1, <3>1, GoingOnKeepsRequestInv DEF GoesOn, Moves
    <3>3. PendingInv' /\ PendingBelongsToARequest'
      <4>1. CASE RecordClaim(r)
        BY <4>1, RecordClaimKeepsPending
      <4>2. CASE ~RecordClaim(r)
        <5>1. pending' = pending
          BY <2>3, <4>2 DEF DefaultPolicy, EvaluateRule, TakeAction,
                            ExecuteOk, ExecuteErr
        <5> QED
          BY <2>1, <3>1, <5>1, GoingOnKeepsPending
      <4> QED
        BY <4>1, <4>2
    <3> QED
      BY <2>1, <3>2, <3>3 DEF IInv
  <2> QED
    BY <1>2, <2>2, <2>3 DEF RequestStep
<1>3. CASE ReloadBegin
  <2>1. /\ UNCHANGED <<installed, pending, request>>
        /\ reload' \in Configs
    BY <1>3 DEF ReloadBegin
  <2> QED
    BY <2>1 DEF IInv, Records, RequestInv, PendingInv,
                PendingBelongsToARequest, Current, Busy, TxOf
<1>4. CASE ReloadInitialize
  <2>1. PICK source \in Answers : InstallReload(source)
    BY <1>4 DEF ReloadInitialize
  <2>2. /\ UNCHANGED <<pending, request>> /\ reload' = None
        /\ reload \in Configs
    BY <1>4 DEF ReloadInitialize, IInv
  <2>3. CASE UNCHANGED installed
    BY <2>2, <2>3 DEF IInv, Records, RequestInv, PendingInv,
                      PendingBelongsToARequest, Current, Busy, TxOf
  <2>4. CASE /\ Initializable(reload, source)
             /\ installed' = Append(installed, Initialized(reload, source))
    <3>1. Initialized(reload, source) \in Start
      BY <2>2, <2>4, StartedControllers
    <3>2. Records'
      BY <2>2 DEF IInv, Records
    <3> QED
      BY <2>2, <2>4, <3>1, <3>2, InstallKeepsInv DEF IInv
  <2> QED
    BY <2>1, <2>3, <2>4 DEF InstallReload
<1>5. CASE Crash
  <2>1. PICK controller \in Start : installed' = Append(installed, controller)
    BY <1>5 DEF Crash
  <2>2. /\ pending' = {} /\ reload' = None
        /\ request' = [r \in Requests |->
             IF request[r].pc \in {"new", "done"} THEN request[r]
             ELSE [request[r] EXCEPT !.pc = "gone", !.entry = None]]
    BY <1>5 DEF Crash
  <2>3. PICK V : request \in [Requests -> [Fields -> V]]
    BY DEF IInv, Records
  <2>4. ASSUME NEW r \in Requests
        PROVE  /\ request'[r] \in [Fields -> V \cup {"gone", None}]
               /\ request'[r] = request[r] \/ request'[r].pc = "gone"
    <3>1. CASE request[r].pc \in {"new", "done"}
      BY <2>2, <2>3, <3>1
    <3>2. CASE request[r].pc \notin {"new", "done"}
      <4>1. request'[r] = [request[r] EXCEPT !.pc = "gone", !.entry = None]
        BY <2>2, <3>2
      <4>2. request[r] \in [Fields -> V \cup {"gone", None}]
        BY <2>3
      <4>3. /\ [request[r] EXCEPT !.pc = "gone", !.entry = None]
                 \in [Fields -> V \cup {"gone", None}]
            /\ [request[r] EXCEPT !.pc = "gone", !.entry = None].pc = "gone"
        BY <4>2 DEF Fields
      <4> QED
        BY <4>1, <4>3
    <3> QED
      BY <3>1, <3>2
  <2>5. Records'
    <3>1. request' \in [Requests -> [Fields -> V \cup {"gone", None}]]
      BY <2>2, <2>4
    <3> QED
      BY <3>1 DEF Records
  <2> QED
    BY <2>1, <2>2, <2>4, <2>5, InstallKeepsInv DEF IInv
<1>6. CASE TimePasses \/ UNCHANGED vars
  <2>1. UNCHANGED <<installed, reload, pending, request>>
    BY <1>6 DEF TimePasses, vars, serverVars
  <2> QED
    BY <2>1 DEF IInv, Records, RequestInv, PendingInv,
                PendingBelongsToARequest, Current, Busy, TxOf
<1> QED
  BY <1>1, <1>2, <1>3, <1>4, <1>5, <1>6 DEF Next

THEOREM InvariantHolds == Spec => []IInv
BY InitImpliesIInv, NextPreservesIInv, PTL DEF Spec

(* Whatever is checked, executed, reloaded and crashed in whatever order, the
   map of the controller in use has entries of transactions in flight only:
   every path of execute_tx_impl confirms what its check has left there. *)
THEOREM NothingStaysPending == Spec => []PendingBelongsToARequest
<1>1. IInv => PendingBelongsToARequest
  BY DEF IInv
<1> QED
  BY <1>1, InvariantHolds, PTL

(* Every controller that was ever in use had all its Rego policies loaded and
   its hook headers parsed: no start and no reload installs another. *)
THEOREM InstalledControllersAreLoaded == Spec => []InstalledRulesAreLoaded
<1>1. ASSUME NEW controller \in Start, NEW i \in DOMAIN controller.rules
      PROVE  /\ controller.rules[i].regoSource # None => controller.engines[i] # None
             /\ ActionInitializes(controller.rules[i].action)
  <2>1. PICK cs \in Configs \X Answers :
          Initializable(cs[1], cs[2]) /\ controller = Initialized(cs[1], cs[2])
    BY DEF Start
  <2> QED
    BY <2>1 DEF Initializable, Initialized
<1>2. IInv => InstalledRulesAreLoaded
  BY <1>1 DEF IInv, InstalledRulesAreLoaded
<1> QED
  BY <1>2, InvariantHolds, PTL

-----------------------------------------------------------------------------
(* What is in the records, and what the rules of a controller in use are. *)
EntryTyped(p) ==
  /\ p.request \in Requests
  /\ TxOf(p.request) \in Transactions
  /\ p.window \in Nat \ {0}

RequestTyped(r) ==
  /\ IF request[r].pc = "new" THEN TxOf(r) = None ELSE TxOf(r) \in Transactions
  /\ request[r].pc \notin {"new", "done", "gone"} => request[r].checked >= 1
  /\ request[r].rule \in Nat \ {0}
  /\ request[r].gas \in GasUsed \cup {None}
  /\ request[r].spent \in GasUsed \cup {0}
  /\ request[r].pc \in {"record", "action"} =>
       request[r].rule <= Len(Controller(r).rules)
  /\ request[r].pc = "record" => Rule(r).gasUsage # None
  /\ request[r].pc = "update" => EntryTyped(request[r].entry)

CountersTyped ==
  /\ now \in Nat
  /\ \A k \in DOMAIN counters :
       /\ counters[k].value \in MinI64 .. MaxI64
       /\ counters[k].expires = None
            \/ (counters[k].expires \in Nat /\ counters[k].expires > now)

TypedInv ==
  /\ \A r \in Requests : RequestTyped(r)
  /\ \A p \in pending : p.gen >= 1 /\ EntryTyped(p)
  /\ CountersTyped

-----------------------------------------------------------------------------
CheckedBy(r) == installed[request[r].checked]

(* What the predicates of rule i, all but its gas limit, say of a request. *)
Applies(r, i) ==
  LET c == CheckedBy(r)
  IN  /\ MatchesTransaction(c.rules[i], TxOf(r))
      /\ RegoMatches(c.rules[i], c.engines[i], TxOf(r))
      /\ ~RegoFails(c.rules[i], c.engines[i], TxOf(r))

ClaimMatches(k) == Matches(k.key.rule.gasUsage.value, AsU64(k.total))

(* A claim that should have denied its request. *)
DenyMatched(r) ==
  {k \in claims : k.request = r /\ k.key.rule.action.kind = "Deny" /\ ClaimMatches(k)}

(* Of the rules before n, none that has no limit denies the request. *)
Passed(r, n) ==
  \A j \in 1 .. n - 1 :
    CheckedBy(r).rules[j].gasUsage = None /\ CheckedBy(r).rules[j].action.kind = "Deny"
      => ~Applies(r, j)

RuleJustified(r) ==
  LET c == CheckedBy(r)
      n == request[r].rule
  IN  /\ request[r].pc = "new" =>
           n = 1 /\ \A k \in claims : k.request # r
      /\ request[r].pc = "check" => Passed(r, n) /\ DenyMatched(r) = {}
      /\ request[r].pc = "record" =>
           /\ Passed(r, n)
           /\ Applies(r, n)
           /\ \E k \in claims : /\ k.request = r
                                /\ k.key = KeyOf(c.rules[n], TxOf(r))
                                /\ k.total = request[r].total
           /\ \A k \in DenyMatched(r) : /\ k.key = KeyOf(c.rules[n], TxOf(r))
                                        /\ k.total = request[r].total
      /\ request[r].pc = "action" =>
           /\ Passed(r, n)
           /\ Decisive(r, n)
           /\ c.rules[n].action.kind # "Deny" => DenyMatched(r) = {}
      /\ request[r].pc = "execute" /\ ~IsDisabled(c) =>
           /\ DenyMatched(r) = {}
           /\ \/ /\ c.policy # "DenyAll"
                 /\ Passed(r, Len(c.rules) + 1)
              \/ \E i \in DOMAIN c.rules :
                   /\ Passed(r, i)
                   /\ Decisive(r, i)
                   /\ c.rules[i].action.kind # "Deny"

JustifiedInv == \A r \in Requests : RuleJustified(r)

-----------------------------------------------------------------------------
(* What each step of a request does to its record. *)
Others(r) == \A q \in Requests \ {r} : request'[q] = request[q]

Keeps(r, fields) == \A f \in fields : request'[r][f] = request[r][f]

LEMMA Domains ==
  ASSUME Records
  PROVE  DOMAIN request = Requests /\ \A r \in Requests : DOMAIN request[r] = Fields
BY DEF Records

LEMMA ArriveEffect ==
  ASSUME Records, NEW r \in Requests, Arrive(r)
  PROVE  /\ Others(r)
         /\ Keeps(r, {"rule", "total", "gas", "spent", "entry"})
         /\ request[r].pc = "new"
         /\ request'[r].pc = IF IsDisabled(installed[Current]) THEN "execute" ELSE "check"
         /\ request'[r].gen = Current /\ request'[r].checked = Current
         /\ request'[r].tx \in Transactions
         /\ UNCHANGED <<serverVars, pending, counters, now, events, historyVars>>
BY Domains DEF Arrive, Others, Keeps, Fields

LEMMA DefaultPolicyEffect ==
  ASSUME Records, NEW r \in Requests, DefaultPolicy(r)
  PROVE  /\ Others(r)
         /\ Keeps(r, {"tx", "checked", "rule", "total", "gas", "spent", "entry"})
         /\ request[r].pc = "check" /\ Applicable(r) = {}
         /\ IF Denies(Controller(r).policy)
            THEN request'[r].pc = "confirm" /\ request'[r].gen = Current
            ELSE request'[r].pc = "execute" /\ request'[r].gen = request[r].gen
         /\ UNCHANGED <<serverVars, pending, counters, now, events, historyVars>>
BY Domains DEF DefaultPolicy, Others, Keeps, Fields, Rejected, Accepted

RejectedTo(r) ==
  /\ request'[r].pc = "confirm" /\ request'[r].gen = Current
  /\ Keeps(r, {"rule", "total"})

Claim(r, i, key, total) ==
  [request |-> r, rule |-> i, key |-> key, total |-> total,
   window |-> counters'[key].expires]

(* The rule that is evaluated next, the counter of its limit, and the three
   things that may come of it. *)
NextLimited(r) == Controller(r).rules[NextRule(r)]
NextKey(r) == KeyOf(NextLimited(r), TxOf(r))
NextFails(r) == RegoFails(NextLimited(r), Controller(r).engines[NextRule(r)], TxOf(r))

EvaluationRejects(r) ==
  /\ RejectedTo(r)
  /\ UNCHANGED <<counters, claims>>
  /\ UNCHANGED events \/ Happens("trackerError")

EvaluationPasses(r) ==
  /\ ~NextFails(r)
  /\ NextLimited(r).gasUsage = None
  /\ request'[r].pc = "action" /\ request'[r].rule = NextRule(r)
  /\ Keeps(r, {"gen", "total"})
  /\ UNCHANGED <<counters, events, claims>>

EvaluationCounts(r, total) ==
  /\ ~NextFails(r)
  /\ NextLimited(r).gasUsage # None
  /\ UpdateAggr(NextKey(r), NextLimited(r).gasUsage.window, AsI64(TxOf(r).budget))
  /\ total \in Totals(NextKey(r), AsI64(TxOf(r).budget))
  /\ claims' = claims \cup {Claim(r, NextRule(r), NextKey(r), total)}
  /\ \/ /\ request'[r].pc = "record" /\ request'[r].rule = NextRule(r)
        /\ request'[r].total = total
        /\ Keeps(r, {"gen"})
        /\ UNCHANGED events
     \/ /\ Happens("trackerError")
        /\ RejectedTo(r)

LEMMA EvaluateRuleEffect ==
  ASSUME Records, NEW r \in Requests, EvaluateRule(r)
  PROVE  /\ Others(r)
         /\ Keeps(r, {"tx", "checked", "gas", "spent", "entry"})
         /\ request[r].pc = "check" /\ Applicable(r) # {}
         /\ UNCHANGED <<serverVars, pending, now, corrections>>
         /\ \/ EvaluationRejects(r)
            \/ EvaluationPasses(r)
            \/ \E total : EvaluationCounts(r, total)
<1> DEFINE i == NextRule(r)
           at == [request[r] EXCEPT !.rule = i]
           kept == {"tx", "checked", "gas", "spent", "entry"}
<1>1. ASSUME request' = [request EXCEPT ![r] = Rejected(r)]
      PROVE  RejectedTo(r) /\ Others(r) /\ Keeps(r, kept)
  BY <1>1, Domains DEF Rejected, Fields, RejectedTo, Keeps, Others
<1>2. ASSUME request' = [request EXCEPT ![r] = [at EXCEPT !.pc = "action"]]
      PROVE  /\ request'[r].pc = "action" /\ request'[r].rule = i
             /\ Keeps(r, {"gen", "total"}) /\ Others(r) /\ Keeps(r, kept)
  BY <1>2, Domains DEF Fields, Keeps, Others
<1>3. ASSUME NEW total,
             request' = [request EXCEPT ![r] = [at EXCEPT !.pc = "record", !.total = total]]
      PROVE  /\ request'[r].pc = "record" /\ request'[r].rule = i
             /\ request'[r].total = total
             /\ Keeps(r, {"gen"}) /\ Others(r) /\ Keeps(r, kept)
  BY <1>3, Domains DEF Fields, Keeps, Others
<1>4. /\ request[r].pc = "check" /\ Applicable(r) # {}
      /\ UNCHANGED <<serverVars, pending, now, corrections>>
  BY EvaluatesNextRule
<1>5. \/ /\ request' = [request EXCEPT ![r] = Rejected(r)]
         /\ UNCHANGED <<counters, claims>>
         /\ UNCHANGED events \/ Happens("trackerError")
      \/ /\ ~NextFails(r)
         /\ NextLimited(r).gasUsage = None
         /\ request' = [request EXCEPT ![r] = [at EXCEPT !.pc = "action"]]
         /\ UNCHANGED <<counters, events, claims>>
      \/ /\ ~NextFails(r)
         /\ NextLimited(r).gasUsage # None
         /\ UpdateAggr(NextKey(r), NextLimited(r).gasUsage.window, AsI64(TxOf(r).budget))
         /\ \E total \in Totals(NextKey(r), AsI64(TxOf(r).budget)) :
              /\ claims' = claims \cup {Claim(r, i, NextKey(r), total)}
              /\ \/ /\ request' = [request EXCEPT ![r] =
                          [at EXCEPT !.pc = "record", !.total = total]]
                    /\ UNCHANGED events
                 \/ /\ Happens("trackerError")
                    /\ request' = [request EXCEPT ![r] = Rejected(r)]
  BY EvaluatesNextRule DEF NextFails, NextLimited, NextKey, Claim
<1> HIDE DEF i, at, kept
<1>6. CASE /\ request' = [request EXCEPT ![r] = Rejected(r)]
           /\ UNCHANGED <<counters, claims>>
           /\ UNCHANGED events \/ Happens("trackerError")
  BY <1>1, <1>4, <1>6 DEF EvaluationRejects, kept
<1>7. CASE /\ ~NextFails(r)
           /\ NextLimited(r).gasUsage = None
           /\ request' = [request EXCEPT ![r] = [at EXCEPT !.pc = "action"]]
           /\ UNCHANGED <<counters, events, claims>>
  BY <1>2, <1>4, <1>7 DEF EvaluationPasses, kept, i
<1>8. CASE /\ ~NextFails(r)
           /\ NextLimited(r).gasUsage # None
           /\ UpdateAggr(NextKey(r), NextLimited(r).gasUsage.window, AsI64(TxOf(r).budget))
           /\ \E total \in Totals(NextKey(r), AsI64(TxOf(r).budget)) :
                /\ claims' = claims \cup {Claim(r, i, NextKey(r), total)}
                /\ \/ /\ request' = [request EXCEPT ![r] =
                            [at EXCEPT !.pc = "record", !.total = total]]
                      /\ UNCHANGED events
                   \/ /\ Happens("trackerError")
                      /\ request' = [request EXCEPT ![r] = Rejected(r)]
  <2>1. PICK total \in Totals(NextKey(r), AsI64(TxOf(r).budget)) :
              /\ claims' = claims \cup {Claim(r, i, NextKey(r), total)}
              /\ \/ /\ request' = [request EXCEPT ![r] =
                          [at EXCEPT !.pc = "record", !.total = total]]
                    /\ UNCHANGED events
                 \/ /\ Happens("trackerError")
                    /\ request' = [request EXCEPT ![r] = Rejected(r)]
    BY <1>8
  <2>2. EvaluationCounts(r, total)
    BY <1>1, <1>3, <1>8, <2>1 DEF EvaluationCounts, i
  <2>3. Others(r) /\ Keeps(r, kept)
    BY <1>1, <1>3, <2>1
  <2> QED
    BY <1>4, <2>2, <2>3 DEF kept
<1> QED
  BY <1>5, <1>6, <1>7, <1>8

LEMMA RecordClaimEffect ==
  ASSUME Records, NEW r \in Requests, RecordClaim(r)
  PROVE  /\ Others(r)
         /\ Keeps(r, {"tx", "gen", "checked", "gas", "spent", "entry"})
         /\ request[r].pc = "record"
         /\ pending' = (pending \ PendingOf(request[r].gen, TxOf(r).digest))
                         \cup {EntryOf(r)}
         /\ IF IsWithin(r)
            THEN request'[r].pc = "action" /\ Keeps(r, {"rule"})
            ELSE request'[r].pc = "check" /\ request'[r].rule = request[r].rule + 1
         /\ UNCHANGED <<serverVars, counters, now, events, historyVars>>
BY Domains DEF RecordClaim, Others, Keeps, Fields

LEMMA TakeActionEffect ==
  ASSUME Records, NEW r \in Requests, TakeAction(r)
  PROVE  /\ Others(r)
         /\ Keeps(r, {"tx", "checked", "total", "gas", "spent", "entry"})
         /\ request[r].pc = "action"
         /\ \/ /\ Rule(r).action.kind \in {"Allow", "HookAction"}
               /\ request'[r].pc = "execute"
               /\ Keeps(r, {"gen", "rule"})
            \/ RejectedTo(r)
            \/ /\ Rule(r).action.kind = "HookAction"
               /\ request'[r].pc = "check"
               /\ request'[r].rule = request[r].rule + 1
               /\ Keeps(r, {"gen"})
         /\ UNCHANGED <<serverVars, pending, counters, now, events, historyVars>>
<1> DEFINE kept == {"tx", "checked", "total", "gas", "spent", "entry"}
<1>1. ASSUME request' = [request EXCEPT ![r] = Rejected(r)]
      PROVE  RejectedTo(r) /\ Others(r) /\ Keeps(r, kept)
  BY <1>1, Domains DEF Rejected, Fields, RejectedTo, Keeps, Others
<1>2. ASSUME request' = [request EXCEPT ![r] = Accepted(r)]
      PROVE  /\ request'[r].pc = "execute" /\ Keeps(r, {"gen", "rule"})
             /\ Others(r) /\ Keeps(r, kept)
  BY <1>2, Domains DEF Accepted, Fields, Keeps, Others
<1>3. ASSUME request' = [request EXCEPT
               ![r] = [request[r] EXCEPT !.pc = "check", !.rule = @ + 1]]
      PROVE  /\ request'[r].pc = "check" /\ request'[r].rule = request[r].rule + 1
             /\ Keeps(r, {"gen"}) /\ Others(r) /\ Keeps(r, kept)
  BY <1>3, Domains DEF Fields, Keeps, Others
<1>4. \/ /\ Rule(r).action.kind \in {"Allow", "HookAction"}
         /\ request' = [request EXCEPT ![r] = Accepted(r)]
      \/ request' = [request EXCEPT ![r] = Rejected(r)]
      \/ /\ Rule(r).action.kind = "HookAction"
         /\ request' = [request EXCEPT
              ![r] = [request[r] EXCEPT !.pc = "check", !.rule = @ + 1]]
  BY DEF TakeAction, CallHook, Decided
<1>5. /\ request[r].pc = "action"
      /\ UNCHANGED <<serverVars, pending, counters, now, events, historyVars>>
  BY DEF TakeAction
<1> QED
  BY <1>1, <1>2, <1>3, <1>4, <1>5

(* What an execution has cost: the first to be charged pays, a later one of
   the same transaction is answered with what was paid; an answer is lost. *)
LEMMA ExecuteEffect ==
  ASSUME Records, NEW r \in Requests, ExecuteOk(r) \/ ExecuteErr(r)
  PROVE  /\ Others(r)
         /\ Keeps(r, {"tx", "checked", "rule", "total", "entry"})
         /\ request[r].pc = "execute"
         /\ request'[r].pc = "confirm" /\ request'[r].gen = Current
         /\ \/ \E gas \in GasUsed :
                 /\ Affordable(TxOf(r))
                 /\ request'[r].gas = gas
                 /\ UNCHANGED events
                 /\ \/ request'[r].spent = gas
                    \/ /\ request'[r].spent = request[r].spent
                       /\ Charged(TxOf(r)) # {}
            \/ Keeps(r, {"gas", "spent"}) /\ UNCHANGED events
            \/ \E gas \in GasUsed :
                 /\ Affordable(TxOf(r))
                 /\ Happens("lostAnswer")
                 /\ request'[r].spent = gas /\ Keeps(r, {"gas"})
         /\ UNCHANGED <<serverVars, pending, counters, now, historyVars>>
<1> DEFINE kept == {"tx", "checked", "rule", "total", "entry"}
<1>1. ASSUME NEW gas, request' = [request EXCEPT
                 ![r].pc = "confirm", ![r].gen = Current,
                 ![r].gas = gas, ![r].spent = gas]
      PROVE  /\ request'[r].pc = "confirm" /\ request'[r].gen = Current
             /\ request'[r].gas = gas /\ request'[r].spent = gas
             /\ Others(r) /\ Keeps(r, kept)
  BY <1>1, Domains DEF Fields, Keeps, Others
<1>2. ASSUME NEW gas, request' = [request EXCEPT
                 ![r].pc = "confirm", ![r].gen = Current, ![r].gas = gas]
      PROVE  /\ request'[r].pc = "confirm" /\ request'[r].gen = Current
             /\ request'[r].gas = gas /\ request'[r].spent = request[r].spent
             /\ Others(r) /\ Keeps(r, kept)
  BY <1>2, Domains DEF Fields, Keeps, Others
<1>3. ASSUME request' = [request EXCEPT ![r].pc = "confirm", ![r].gen = Current]
      PROVE  /\ request'[r].pc = "confirm" /\ request'[r].gen = Current
             /\ Keeps(r, {"gas", "spent"})
             /\ Others(r) /\ Keeps(r, kept)
  BY <1>3, Domains DEF Fields, Keeps, Others
<1>4. ASSUME NEW gas, request' = [request EXCEPT
                 ![r].pc = "confirm", ![r].gen = Current, ![r].spent = gas]
      PROVE  /\ request'[r].pc = "confirm" /\ request'[r].gen = Current
             /\ request'[r].spent = gas /\ Keeps(r, {"gas"})
             /\ Others(r) /\ Keeps(r, kept)
  BY <1>4, Domains DEF Fields, Keeps, Others
<1>5. CASE ExecuteOk(r)
  <2>1. PICK gas \in GasUsed :
          /\ Affordable(TxOf(r))
          /\ \/ request' = [request EXCEPT
                 ![r].pc = "confirm", ![r].gen = Current,
                 ![r].gas = gas, ![r].spent = gas]
             \/ /\ Charged(TxOf(r)) # {}
                /\ request' = [request EXCEPT
                     ![r].pc = "confirm", ![r].gen = Current, ![r].gas = gas]
    BY <1>5 DEF ExecuteOk
  <2>2. /\ request[r].pc = "execute"
        /\ UNCHANGED <<serverVars, pending, counters, now, events, historyVars>>
    BY <1>5 DEF ExecuteOk
  <2> QED
    BY <1>1, <1>2, <2>1, <2>2
<1>6. CASE ExecuteErr(r)
  <2>1. \/ /\ request' = [request EXCEPT ![r].pc = "confirm", ![r].gen = Current]
           /\ UNCHANGED events
        \/ /\ Happens("lostAnswer")
           /\ Affordable(TxOf(r))
           /\ \E gas \in GasUsed :
                request' = [request EXCEPT
                  ![r].pc = "confirm", ![r].gen = Current, ![r].spent = gas]
    BY <1>6 DEF ExecuteErr
  <2>2. /\ request[r].pc = "execute"
        /\ UNCHANGED <<serverVars, pending, counters, now, historyVars>>
    BY <1>6 DEF ExecuteErr
  <2> QED
    BY <1>3, <1>4, <2>1, <2>2
<1> QED
  BY <1>5, <1>6

LEMMA ConfirmTakeEffect ==
  ASSUME Records, NEW r \in Requests, ConfirmTake(r)
  PROVE  /\ Others(r)
         /\ Keeps(r, {"tx", "gen", "checked", "rule", "total", "gas", "spent"})
         /\ request[r].pc = "confirm"
         /\ \/ /\ PendingOf(request[r].gen, TxOf(r).digest) = {}
               /\ request'[r].pc = "done"
               /\ UNCHANGED pending
            \/ \E p \in PendingOf(request[r].gen, TxOf(r).digest) :
                 /\ pending' = pending \ {p}
                 /\ request'[r].pc = "update" /\ request'[r].entry = p
         /\ UNCHANGED <<serverVars, counters, now, events, historyVars>>
BY Domains DEF ConfirmTake, Others, Keeps, Fields

Correction(r) ==
  LET p == request[r].entry
  IN  [by |-> r, of |-> p.request, key |-> p.key,
       window |-> counters'[p.key].expires, gas |-> TakenBack(r)]

LEMMA ConfirmUpdateEffect ==
  ASSUME Records, NEW r \in Requests, ConfirmUpdate(r)
  PROVE  /\ Others(r)
         /\ Keeps(r, {"tx", "gen", "checked", "rule", "total", "gas", "spent"})
         /\ request[r].pc = "update" /\ request'[r].pc = "done"
         /\ \/ /\ UpdateAggr(request[r].entry.key, request[r].entry.window, -TakenBack(r))
               /\ corrections' = corrections \cup {Correction(r)}
               /\ UNCHANGED events \/ Happens("trackerError")
            \/ /\ Happens("trackerError")
               /\ UNCHANGED <<counters, corrections>>
         /\ UNCHANGED <<serverVars, pending, now, claims>>
<1>1. request' = [request EXCEPT ![r].pc = "done", ![r].entry = None]
  BY DEF ConfirmUpdate
<1>2. /\ Others(r)
      /\ Keeps(r, {"tx", "gen", "checked", "rule", "total", "gas", "spent"})
      /\ request'[r].pc = "done"
  BY <1>1, Domains DEF Others, Keeps, Fields
<1> QED
  BY <1>2 DEF ConfirmUpdate, Correction

(* A crash ends what is under way. *)
LEMMA CrashEffect ==
  ASSUME Records, Crash
  PROVE  /\ \A r \in Requests :
              \/ request[r].pc \in {"new", "done"} /\ request'[r] = request[r]
              \/ /\ request[r].pc \notin {"new", "done"}
                 /\ request'[r].pc = "gone"
                 /\ Keeps(r, Fields \ {"pc", "entry"})
         /\ pending' = {}
         /\ \E controller \in Start : installed' = Append(installed, controller)
         /\ Happens("crash")
         /\ UNCHANGED <<counters, now, historyVars>>
<1>1. request' = [r \in Requests |->
             IF request[r].pc \in {"new", "done"} THEN request[r]
             ELSE [request[r] EXCEPT !.pc = "gone", !.entry = None]]
  BY DEF Crash
<1> QED
  BY <1>1, Domains DEF Crash, Keeps, Fields

-----------------------------------------------------------------------------
(* The transaction of a request and a controller that is installed stay. *)
TransactionsStay ==
  \A q \in Requests : TxOf(q) \in Transactions => TxOf(q)' = TxOf(q)

InstalledStays ==
  \A g \in 1 .. Current :
    g \in 1 .. Len(installed)' /\ installed'[g] = installed[g]

LEMMA StepsKeep ==
  ASSUME IInv, TypedInv, [Next]_vars
  PROVE  TransactionsStay /\ InstalledStays
<1>1. ASSUME NEW r \in Requests, Others(r), TxOf(r)' = TxOf(r)
      PROVE  TransactionsStay
  BY <1>1 DEF TransactionsStay, Others, TxOf
<1>2. ASSUME installed' = installed PROVE InstalledStays
  BY <1>2 DEF InstalledStays, Current
<1>3. ASSUME NEW controller \in Start, installed' = Append(installed, controller)
      PROVE  InstalledStays
  BY <1>3 DEF InstalledStays, Current, IInv
<1>4. ASSUME request' = request PROVE TransactionsStay
  BY <1>4 DEF TransactionsStay, TxOf
<1>5. ASSUME NEW r \in Requests, Arrive(r)
      PROVE  TransactionsStay /\ InstalledStays
  <2>1. TxOf(r) \notin Transactions
    BY <1>5, ArriveEffect, ControllerAssumption DEF IInv, TypedInv, RequestTyped
  <2>2. Others(r) /\ installed' = installed
    BY <1>5, ArriveEffect DEF IInv, serverVars
  <2> QED
    BY <1>2, <2>1, <2>2 DEF TransactionsStay, Others, TxOf
<1>6. ASSUME NEW r \in Requests, RequestStep(r)
      PROVE  TransactionsStay /\ InstalledStays
  <2>1. Others(r) /\ TxOf(r)' = TxOf(r) /\ installed' = installed
    BY <1>6, DefaultPolicyEffect, EvaluateRuleEffect, RecordClaimEffect,
       TakeActionEffect, ExecuteEffect, ConfirmTakeEffect, ConfirmUpdateEffect
       DEF IInv, RequestStep, Keeps, TxOf, serverVars
  <2> QED
    BY <1>1, <1>2, <2>1
<1>7. CASE ReloadBegin \/ TimePasses \/ UNCHANGED vars
  BY <1>2, <1>4, <1>7 DEF ReloadBegin, TimePasses, vars, serverVars
<1>8. CASE ReloadInitialize
  <2>1. PICK answer \in Answers : InstallReload(answer)
    BY <1>8 DEF ReloadInitialize
  <2>2. request' = request /\ reload \in Configs
    BY <1>8 DEF ReloadInitialize, IInv
  <2> QED
    BY <1>2, <1>3, <1>4, <2>1, <2>2, StartedControllers DEF InstallReload
<1>9. CASE Crash
  <2>1. PICK controller \in Start : installed' = Append(installed, controller)
    BY <1>9, CrashEffect DEF IInv
  <2>2. \A r \in Requests : request'[r].tx = request[r].tx
    BY <1>9, CrashEffect DEF IInv, Keeps, Fields
  <2> QED
    BY <1>3, <2>1, <2>2 DEF TransactionsStay, TxOf
<1> QED
  BY <1>5, <1>6, <1>7, <1>8, <1>9 DEF Next

(* The rules of a controller in use are those of a configuration. *)
LEMMA StartedRules ==
  ASSUME NEW controller \in Start
  PROVE  /\ controller.rules \in Seq(AccessRule)
         /\ \A i \in DOMAIN controller.rules :
              controller.rules[i].gasUsage # None =>
                controller.rules[i].gasUsage.window \in Nat \ {0}
         /\ controller.policy \in AccessPolicy
<1>1. PICK cs \in Configs \X Answers :
        Initializable(cs[1], cs[2]) /\ controller = Initialized(cs[1], cs[2])
  BY DEF Start
<1>2. /\ controller.rules = cs[1].rules /\ controller.policy = cs[1].policy
      /\ cs[1] \in Configs
  BY <1>1 DEF Initialized
<1>3. /\ cs[1].rules \in Seq(AccessRule) /\ cs[1].policy \in AccessPolicy
      /\ \A i \in DOMAIN cs[1].rules :
            cs[1].rules[i].gasUsage # None => cs[1].rules[i].gasUsage.window > 0
  BY <1>2, ControllerAssumption
<1>4. ASSUME NEW i \in DOMAIN cs[1].rules, cs[1].rules[i].gasUsage # None
      PROVE  cs[1].rules[i].gasUsage.window \in Nat
  <2>1. cs[1].rules[i] \in AccessRule
    BY <1>3
  <2>2. cs[1].rules[i].gasUsage \in ValueAggregate
    BY <1>4, <2>1 DEF AccessRule
  <2> QED
    BY <2>2 DEF ValueAggregate
<1> QED
  BY <1>2, <1>3, <1>4

LEMMA CheckingControllers ==
  ASSUME IInv, TypedInv, NEW r \in Requests,
         request[r].pc \notin {"new", "done", "gone"}
  PROVE  /\ request[r].checked \in 1 .. Current /\ request[r].gen \in 1 .. Current
         /\ CheckedBy(r) \in Start /\ Controller(r) \in Start
         /\ request[r].pc \in Checking => CheckedBy(r) = Controller(r)
<1>1. request[r].checked \in 1 .. Current /\ request[r].gen \in 1 .. Current
  BY CurrentIsNat DEF IInv, TypedInv, RequestTyped, RequestInv
<1>2. \A g \in 1 .. Current : installed[g] \in Start
  BY DEF IInv, Current
<1> QED
  BY <1>1, <1>2 DEF CheckedBy, Controller, IInv, RequestInv

LEMMA CounterEffect ==
  ASSUME NEW key, NEW window, NEW amount, UpdateAggr(key, window, amount)
  PROVE  /\ DOMAIN counters' = DOMAIN counters \cup {key}
         /\ counters'[key] = UpdatedCounter(key, window, amount)
         /\ \A k \in DOMAIN counters \ {key} : counters'[k] = counters[k]
BY DEF UpdateAggr

LEMMA CountersStayTyped ==
  ASSUME CountersTyped, now' = now, NEW key, NEW window \in Nat \ {0},
         NEW amount \in Int, UpdateAggr(key, window, amount)
  PROVE  CountersTyped'
<1>1. MaxI64 \in Nat /\ MinI64 \in Int
  BY ControllerAssumption DEF MinI64
<1>2. counters'[key] = UpdatedCounter(key, window, amount)
  BY CounterEffect
<1>3. /\ counters'[key].value \in MinI64 .. MaxI64
      /\ counters'[key].expires = None
           \/ (counters'[key].expires \in Nat /\ counters'[key].expires > now)
  <2>1. CASE Overflows(key, amount)
    <3>1. UpdatedCounter(key, window, amount) = [value |-> MaxI64, expires |-> None]
      BY <2>1 DEF UpdatedCounter
    <3> QED
      BY <1>1, <1>2, <3>1 DEF MinI64
  <2>2. CASE ~Overflows(key, amount)
    <3>1. UpdatedCounter(key, window, amount) =
            [value |-> ValueOf(key) + amount, expires |-> WindowOf(key, window)]
      BY <2>2 DEF UpdatedCounter
    <3>2. ValueOf(key) + amount \in MinI64 .. MaxI64
      BY <2>2 DEF Overflows
    <3>3. WindowOf(key, window) = None
            \/ (WindowOf(key, window) \in Nat /\ WindowOf(key, window) > now)
      BY DEF WindowOf, CountersTyped
    <3> QED
      BY <1>2, <3>1, <3>2, <3>3
  <2> QED
    BY <2>1, <2>2
<1> QED
  BY <1>3, CounterEffect DEF CountersTyped, MinI64

LEMMA EntriesStayTyped ==
  ASSUME TransactionsStay, NEW p, EntryTyped(p)
  PROVE  EntryTyped(p)'
BY DEF EntryTyped, TransactionsStay

LEMMA OthersStayTyped ==
  ASSUME IInv, TypedInv, TransactionsStay, InstalledStays,
         NEW q \in Requests, request'[q] = request[q]
  PROVE  RequestTyped(q)'
<1>1. RequestTyped(q)
  BY DEF TypedInv
<1>2. TxOf(q)' = TxOf(q)
  BY DEF TxOf
<1>3. request[q].pc \in {"record", "action"} =>
        Controller(q)' = Controller(q) /\ Rule(q)' = Rule(q)
  <2>1. request[q].pc \in {"record", "action"} => request[q].gen \in 1 .. Current
    BY CheckingControllers
  <2> QED
    BY <2>1 DEF InstalledStays, Controller, Rule
<1>4. request[q].pc = "update" => EntryTyped(request[q].entry)'
  <2>1. PICK p : p = request[q].entry
    OBVIOUS
  <2>2. request[q].pc = "update" => EntryTyped(p)'
    BY <1>1, <2>1, EntriesStayTyped DEF RequestTyped
  <2>3. p = request'[q].entry
    BY <2>1
  <2>4. EntryTyped(p)' => EntryTyped(request[q].entry)'
    BY <2>3 DEF EntryTyped
  <2> QED
    BY <2>2, <2>4
<1> QED
  BY <1>1, <1>2, <1>3, <1>4 DEF RequestTyped

(* The rule that is evaluated is the first one that applies. *)
LEMMA NextRuleIsFirst ==
  ASSUME IInv, TypedInv, NEW r \in Requests, request[r].pc = "check",
         Applicable(r) # {}
  PROVE  /\ NextRule(r) \in Applicable(r)
         /\ NextRule(r) \in Nat /\ NextRule(r) >= request[r].rule
         /\ NextRule(r) \in 1 .. Len(Controller(r).rules)
         /\ NextRule(r) \in DOMAIN Controller(r).rules
         /\ \A j \in Applicable(r) : NextRule(r) <= j
         /\ NextLimited(r) \in AccessRule
         /\ NextLimited(r).gasUsage # None =>
              NextLimited(r).gasUsage.window \in Nat \ {0}
<1>1. request[r].rule \in Nat \ {0}
  BY DEF TypedInv, RequestTyped
<1>2. Controller(r).rules \in Seq(AccessRule)
  BY CheckingControllers, StartedRules
<1>3. Applicable(r) \subseteq request[r].rule .. Len(Controller(r).rules)
  BY DEF Applicable
<1>4. Len(Controller(r).rules) \in Nat /\ Applicable(r) \subseteq Nat
  BY <1>1, <1>2, <1>3
<1>5. PICK m \in Applicable(r) : \A j \in Applicable(r) : m <= j
  BY <1>4, LeastNatural
<1>6. NextRule(r) \in Applicable(r) /\ \A j \in Applicable(r) : NextRule(r) <= j
  BY <1>5 DEF NextRule, Min
<1>7. /\ NextRule(r) \in 1 .. Len(Controller(r).rules)
      /\ NextRule(r) \in Nat /\ NextRule(r) >= request[r].rule
  BY <1>1, <1>3, <1>4, <1>6
<1>8. NextRule(r) \in DOMAIN Controller(r).rules /\ NextLimited(r) \in AccessRule
  BY <1>2, <1>7 DEF NextLimited
<1>9. NextLimited(r).gasUsage # None =>
        NextLimited(r).gasUsage.window \in Nat \ {0}
  BY <1>8, CheckingControllers, StartedRules DEF NextLimited
<1> QED
  BY <1>6, <1>7, <1>8, <1>9

LEMMA BudgetsAreIntegers ==
  ASSUME NEW tx \in Transactions
  PROVE  /\ tx.budget \in Nat /\ tx.budget > 0 /\ tx.budget <= 2 * MaxI64 + 1
         /\ tx.sender \in Addresses
BY ControllerAssumption

(* An unsigned number, read as a signed one, is itself or negative. *)
LEMMA SignedNumbers ==
  ASSUME NEW u \in Nat, u <= 2 * MaxI64 + 1
  PROVE  /\ AsI64(u) \in Int /\ MinI64 \in Int /\ MaxI64 \in Nat
         /\ u <= MaxI64 => AsI64(u) = u /\ AsI64(u) # MinI64
         /\ u > MaxI64 => AsI64(u) < 0
<1>1. MaxI64 \in Nat
  BY ControllerAssumption
<1> QED
  BY <1>1 DEF AsI64, MinI64

(* What is left of a typed request by a step that keeps most of its fields. *)
LEMMA ArriveKeepsTyped ==
  ASSUME IInv, TypedInv, NEW r \in Requests, Arrive(r)
  PROVE  RequestTyped(r)'
<1>1. /\ Keeps(r, {"rule", "total", "gas", "spent", "entry"})
      /\ request'[r].pc \in {"execute", "check"}
      /\ request'[r].checked = Current
      /\ request'[r].tx \in Transactions
  BY ArriveEffect DEF IInv
<1>2. /\ request'[r].rule = request[r].rule /\ request'[r].gas = request[r].gas
      /\ request'[r].spent = request[r].spent
  BY <1>1 DEF Keeps
<1>3. Current >= 1
  BY CurrentIsNat DEF IInv
<1>4. RequestTyped(r)
  BY DEF TypedInv
<1> QED
  BY <1>1, <1>2, <1>3, <1>4 DEF RequestTyped, TxOf

LEMMA CheckKeepsTyped ==
  ASSUME IInv, TypedInv, NEW r \in Requests,
         \/ DefaultPolicy(r) \/ EvaluateRule(r) \/ RecordClaim(r) \/ TakeAction(r)
  PROVE  RequestTyped(r)'
<1>1. RequestTyped(r) /\ request[r].pc \in Checking
  BY DEF TypedInv, DefaultPolicy, EvaluateRule, RecordClaim, TakeAction, Checking
<1>2. /\ request'[r].tx = request[r].tx /\ request'[r].checked = request[r].checked
      /\ request'[r].gas = request[r].gas /\ request'[r].spent = request[r].spent
  BY DefaultPolicyEffect, EvaluateRuleEffect, RecordClaimEffect, TakeActionEffect
     DEF IInv, Keeps
<1>3. /\ TxOf(r)' \in Transactions /\ request'[r].checked >= 1
      /\ request'[r].gas \in GasUsed \cup {None}
      /\ request'[r].spent \in GasUsed \cup {0}
  BY <1>1, <1>2 DEF RequestTyped, TxOf, Checking
<1>4. installed' = installed
  BY DEF DefaultPolicy, EvaluateRule, RecordClaim, TakeAction, serverVars
<1>5. CASE /\ request'[r].pc \in {"check", "execute", "confirm"}
           /\ request'[r].rule \in Nat \ {0}
  BY <1>3, <1>5 DEF RequestTyped
<1>6. CASE DefaultPolicy(r)
  <2>1. request'[r].pc \in {"confirm", "execute"} /\ request'[r].rule = request[r].rule
    BY <1>6, DefaultPolicyEffect DEF IInv, Keeps
  <2> QED
    BY <1>1, <1>5, <2>1 DEF RequestTyped
<1>7. CASE EvaluateRule(r)
  <2>1. /\ NextRule(r) \in Nat \ {0}
        /\ NextRule(r) <= Len(Controller(r).rules)
    BY <1>7, NextRuleIsFirst, EvaluateRuleEffect DEF IInv
  <2>2. CASE RejectedTo(r)
    BY <1>1, <1>5, <2>2 DEF RejectedTo, Keeps, RequestTyped
  <2>3. CASE \/ EvaluationPasses(r)
             \/ \E total : EvaluationCounts(r, total) /\ ~RejectedTo(r)
    <3>1. /\ request'[r].gen = request[r].gen /\ request'[r].rule = NextRule(r)
          /\ \/ request'[r].pc = "action"
             \/ request'[r].pc = "record" /\ NextLimited(r).gasUsage # None
      BY <2>3 DEF EvaluationPasses, EvaluationCounts, Keeps
    <3>2. Controller(r)' = Controller(r) /\ Rule(r)' = NextLimited(r)
      BY <1>4, <3>1 DEF Controller, Rule, NextLimited
    <3> QED
      BY <1>3, <2>1, <3>1, <3>2 DEF RequestTyped
  <2>4. \/ RejectedTo(r)
        \/ EvaluationPasses(r)
        \/ \E total : EvaluationCounts(r, total) /\ ~RejectedTo(r)
    BY <1>7, EvaluateRuleEffect DEF IInv, EvaluationRejects, EvaluationCounts
  <2> QED
    BY <2>2, <2>3, <2>4
<1>8. CASE RecordClaim(r)
  <2>1. CASE request'[r].pc = "check" /\ request'[r].rule = request[r].rule + 1
    BY <1>1, <1>5, <2>1 DEF RequestTyped
  <2>2. CASE request'[r].pc = "action" /\ request'[r].rule = request[r].rule
    <3>1. Controller(r)' = Controller(r) /\ request[r].pc = "record"
      BY <1>4, <1>8, RecordClaimEffect DEF IInv, Keeps, Controller
    <3> QED
      BY <1>1, <1>3, <2>2, <3>1 DEF RequestTyped
  <2> QED
    BY <1>8, <2>1, <2>2, RecordClaimEffect DEF IInv, Keeps
<1>9. CASE TakeAction(r)
  <2>1. /\ request'[r].pc \in {"check", "execute", "confirm"}
        /\ request'[r].rule \in {request[r].rule, request[r].rule + 1}
    BY <1>9, TakeActionEffect DEF IInv, Keeps, RejectedTo
  <2> QED
    BY <1>1, <1>5, <2>1 DEF RequestTyped
<1> QED
  BY <1>6, <1>7, <1>8, <1>9

LEMMA ExecuteKeepsTyped ==
  ASSUME IInv, TypedInv, NEW r \in Requests, ExecuteOk(r) \/ ExecuteErr(r)
  PROVE  RequestTyped(r)'
<1>1. RequestTyped(r) /\ request[r].pc = "execute" /\ request'[r].pc = "confirm"
  BY ExecuteEffect DEF TypedInv, IInv
<1>2. /\ request'[r].tx = request[r].tx /\ request'[r].checked = request[r].checked
      /\ request'[r].rule = request[r].rule
      /\ request'[r].gas \in GasUsed \cup {request[r].gas}
      /\ request'[r].spent \in GasUsed \cup {request[r].spent}
  BY ExecuteEffect DEF IInv, Keeps
<1> QED
  BY <1>1, <1>2 DEF RequestTyped, TxOf

LEMMA ConfirmKeepsTyped ==
  ASSUME IInv, TypedInv, TransactionsStay,
         NEW r \in Requests, ConfirmTake(r) \/ ConfirmUpdate(r)
  PROVE  RequestTyped(r)'
<1>1. RequestTyped(r) /\ request[r].pc \in {"confirm", "update"}
  BY ConfirmTakeEffect, ConfirmUpdateEffect DEF TypedInv, IInv
<1>2. /\ request'[r].tx = request[r].tx /\ request'[r].checked = request[r].checked
      /\ request'[r].rule = request[r].rule /\ request'[r].gas = request[r].gas
      /\ request'[r].spent = request[r].spent
  BY ConfirmTakeEffect, ConfirmUpdateEffect DEF IInv, Keeps
<1>3. CASE request'[r].pc = "done"
  BY <1>1, <1>2, <1>3 DEF RequestTyped, TxOf
<1>4. ASSUME NEW p \in pending, request'[r].pc = "update", request'[r].entry = p
      PROVE  RequestTyped(r)'
  <2>1. EntryTyped(p)'
    BY EntriesStayTyped DEF TypedInv
  <2>2. EntryTyped(request[r].entry)'
    BY <1>4, <2>1 DEF EntryTyped
  <2> QED
    BY <1>1, <1>2, <1>4, <2>2 DEF RequestTyped, TxOf
<1> QED
  BY <1>3, <1>4, ConfirmTakeEffect, ConfirmUpdateEffect DEF IInv, PendingOf

LEMMA PendingStaysTyped ==
  ASSUME IInv, TypedInv, TransactionsStay,
         \/ pending' \subseteq pending
         \/ \E r \in Requests : RecordClaim(r)
  PROVE  \A p \in pending' : p.gen >= 1 /\ EntryTyped(p)'
<1>1. ASSUME NEW p \in pending PROVE p.gen >= 1 /\ EntryTyped(p)'
  BY EntriesStayTyped DEF TypedInv
<1>2. ASSUME NEW r \in Requests, RecordClaim(r)
      PROVE  \A p \in pending' : p.gen >= 1 /\ EntryTyped(p)'
  <2>1. PICK e : e = EntryOf(r)
    OBVIOUS
  <2>2. /\ request[r].pc = "record"
        /\ pending' = (pending \ PendingOf(request[r].gen, TxOf(r).digest)) \cup {e}
    BY <1>2, <2>1, RecordClaimEffect DEF IInv
  <2>3. RequestTyped(r)
    BY DEF TypedInv
  <2>4. /\ request[r].gen >= 1 /\ Controller(r) \in Start
        /\ request[r].rule \in DOMAIN Controller(r).rules
    <3>1. request[r].gen \in 1 .. Current /\ Controller(r) \in Start
      BY <2>2, CheckingControllers
    <3>2. Controller(r).rules \in Seq(AccessRule)
      BY <3>1, StartedRules
    <3> QED
      BY <2>2, <2>3, <3>1, <3>2 DEF RequestTyped
  <2>5. Rule(r).gasUsage.window \in Nat \ {0}
    BY <2>2, <2>3, <2>4, StartedRules DEF RequestTyped, Rule
  <2>6. e.gen >= 1 /\ EntryTyped(e)
    BY <2>1, <2>2, <2>3, <2>4, <2>5 DEF EntryOf, EntryTyped, RequestTyped
  <2>7. EntryTyped(e)'
    BY <2>6, EntriesStayTyped
  <2> QED
    BY <1>1, <2>2, <2>6, <2>7
<1> QED
  BY <1>1, <1>2

LEMMA ExcessIsNatural ==
  ASSUME IInv, TypedInv, NEW r \in Requests, request[r].pc = "update"
  PROVE  /\ TakenBack(r) \in Int
         /\ request[r].entry.window \in Nat \ {0}
         /\ request[r].entry.request \in Requests
         /\ TxOf(request[r].entry.request) \in Transactions
<1>1. RequestTyped(r)
  BY DEF TypedInv
<1>2. EntryTyped(request[r].entry)
  BY <1>1 DEF RequestTyped
<1>3. /\ TxOf(request[r].entry.request).budget \in Nat
      /\ TxOf(request[r].entry.request).budget <= 2 * MaxI64 + 1
      /\ MaxI64 \in Nat
  BY <1>2, BudgetsAreIntegers, ControllerAssumption DEF EntryTyped
<1>4. request[r].gas = None \/ request[r].gas \in Nat
  BY <1>1, ControllerAssumption DEF RequestTyped
<1>5. Excess(r) \in Nat /\ Excess(r) <= 2 * MaxI64 + 1
  BY <1>3, <1>4 DEF Excess
<1>6. AsI64(Excess(r)) \in Int /\ MinI64 \in Int
  BY <1>5, SignedNumbers
<1>7. TakenBack(r) \in Int
  BY <1>6 DEF TakenBack
<1> QED
  BY <1>2, <1>7 DEF EntryTyped

LEMMA CheckedBudget ==
  ASSUME IInv, TypedInv, NEW r \in Requests, request[r].pc = "check"
  PROVE  TxOf(r) \in Transactions /\ AsI64(TxOf(r).budget) \in Int
<1>1. TxOf(r) \in Transactions
  BY DEF TypedInv, RequestTyped
<1> QED
  BY <1>1, BudgetsAreIntegers, SignedNumbers

LEMMA RequestsKeepCountersTyped ==
  ASSUME IInv, TypedInv, NEW r \in Requests, RequestStep(r)
  PROVE  CountersTyped'
<1>1. CountersTyped
  BY DEF TypedInv
<1>2. CASE UNCHANGED <<counters, now>>
  BY <1>1, <1>2 DEF CountersTyped
<1>3. CASE EvaluateRule(r)
  <2>1. ASSUME NEW total, EvaluationCounts(r, total)
        PROVE  CountersTyped'
    <3>1. AsI64(TxOf(r).budget) \in Int
      BY <1>3, CheckedBudget, EvaluateRuleEffect DEF IInv
    <3>2. NextLimited(r).gasUsage.window \in Nat \ {0}
      BY <1>3, <2>1, NextRuleIsFirst, EvaluateRuleEffect DEF IInv, EvaluationCounts
    <3>3. UpdateAggr(NextKey(r), NextLimited(r).gasUsage.window, AsI64(TxOf(r).budget))
      BY <2>1 DEF EvaluationCounts
    <3>4. now' = now
      BY <1>3, EvaluateRuleEffect DEF IInv
    <3> QED
      BY <1>1, <3>1, <3>2, <3>3, <3>4, CountersStayTyped
  <2>2. EvaluationRejects(r) \/ EvaluationPasses(r) => UNCHANGED <<counters, now>>
    BY <1>3, EvaluateRuleEffect DEF IInv, EvaluationRejects, EvaluationPasses
  <2> QED
    BY <1>2, <1>3, <2>1, <2>2, EvaluateRuleEffect DEF IInv
<1>4. CASE ConfirmUpdate(r)
  <2>1. CASE UpdateAggr(request[r].entry.key, request[r].entry.window, -TakenBack(r))
    <3>1. request[r].entry.window \in Nat \ {0} /\ -TakenBack(r) \in Int
      BY <1>4, ExcessIsNatural, ConfirmUpdateEffect DEF IInv
    <3>2. now' = now
      BY <1>4, ConfirmUpdateEffect DEF IInv
    <3> QED
      BY <1>1, <2>1, <3>1, <3>2, CountersStayTyped
  <2> QED
    BY <1>2, <1>4, <2>1, ConfirmUpdateEffect DEF IInv
<1>5. CASE \/ DefaultPolicy(r) \/ RecordClaim(r) \/ TakeAction(r)
           \/ ExecuteOk(r) \/ ExecuteErr(r) \/ ConfirmTake(r)
  BY <1>2, <1>5 DEF DefaultPolicy, RecordClaim, TakeAction, ExecuteOk, ExecuteErr,
                    ConfirmTake
<1> QED
  BY <1>3, <1>4, <1>5 DEF RequestStep

LEMMA NextPreservesTypedInv ==
  ASSUME IInv, TypedInv, [Next]_vars
  PROVE  TypedInv'
<1>1. TransactionsStay /\ InstalledStays
  BY StepsKeep
<1>2. ASSUME NEW r \in Requests, Arrive(r)
      PROVE  TypedInv'
  <2>1. RequestTyped(r)' /\ Others(r) /\ UNCHANGED <<pending, counters, now>>
    BY <1>2, ArriveKeepsTyped, ArriveEffect DEF IInv
  <2>2. \A q \in Requests : RequestTyped(q)'
    BY <1>1, <2>1, OthersStayTyped DEF Others
  <2>3. \A p \in pending' : p.gen >= 1 /\ EntryTyped(p)'
    BY <1>1, <2>1, PendingStaysTyped
  <2> QED
    BY <2>1, <2>2, <2>3 DEF TypedInv, CountersTyped
<1>3. ASSUME NEW r \in Requests, RequestStep(r)
      PROVE  TypedInv'
  <2>1. RequestTyped(r)' /\ Others(r)
    <3>1. RequestTyped(r)'
      BY <1>1, <1>3, CheckKeepsTyped, ExecuteKeepsTyped, ConfirmKeepsTyped DEF RequestStep
    <3>2. Others(r)
      BY <1>3, DefaultPolicyEffect, EvaluateRuleEffect, RecordClaimEffect,
         TakeActionEffect, ExecuteEffect, ConfirmTakeEffect, ConfirmUpdateEffect
         DEF IInv, RequestStep
    <3> QED
      BY <3>1, <3>2
  <2>2. \A q \in Requests : RequestTyped(q)'
    BY <1>1, <2>1, OthersStayTyped DEF Others
  <2>3. \A p \in pending' : p.gen >= 1 /\ EntryTyped(p)'
    <3>1. RecordClaim(r) \/ pending' \subseteq pending
      BY <1>3, DefaultPolicyEffect, EvaluateRuleEffect, TakeActionEffect,
         ExecuteEffect, ConfirmTakeEffect, ConfirmUpdateEffect
         DEF IInv, RequestStep
    <3> QED
      BY <1>1, <3>1, PendingStaysTyped
  <2>4. CountersTyped'
    BY <1>3, RequestsKeepCountersTyped
  <2> QED
    BY <2>2, <2>3, <2>4 DEF TypedInv
<1>4. ASSUME UNCHANGED <<request, pending>>, CountersTyped'
      PROVE  TypedInv'
  <2>1. \A q \in Requests : RequestTyped(q)'
    BY <1>1, <1>4, OthersStayTyped
  <2>2. \A p \in pending' : p.gen >= 1 /\ EntryTyped(p)'
    BY <1>1, <1>4, PendingStaysTyped
  <2> QED
    BY <1>4, <2>1, <2>2 DEF TypedInv
<1>5. CASE ReloadBegin \/ ReloadInitialize \/ UNCHANGED vars
  <2>1. UNCHANGED <<request, pending, counters, now>>
    BY <1>5 DEF ReloadBegin, ReloadInitialize, vars, serverVars
  <2> QED
    BY <1>4, <2>1 DEF TypedInv, CountersTyped
<1>6. CASE TimePasses
  <2>1. UNCHANGED <<request, pending>> /\ now' = now + 1
    BY <1>6 DEF TimePasses
  <2>2. \A k \in DOMAIN counters' :
          /\ k \in DOMAIN counters /\ counters'[k] = counters[k]
          /\ counters[k].expires = None \/ now' < counters[k].expires
    BY <1>6 DEF TimePasses
  <2>3. CountersTyped'
    BY <2>1, <2>2 DEF TypedInv, CountersTyped, MinI64
  <2> QED
    BY <1>4, <2>1, <2>3
<1>7. CASE Crash
  <2>1. \A r \in Requests : RequestTyped(r)'
    <3> TAKE r \in Requests
    <3>1. CASE request'[r] = request[r]
      BY <1>1, <3>1, OthersStayTyped
    <3>2. CASE /\ request[r].pc \notin {"new", "done"}
               /\ request'[r].pc = "gone"
               /\ Keeps(r, Fields \ {"pc", "entry"})
      <4>1. RequestTyped(r)
        BY DEF TypedInv
      <4> QED
        BY <3>2, <4>1 DEF RequestTyped, Keeps, Fields, TxOf
    <3> QED
      BY <1>7, <3>1, <3>2, CrashEffect DEF IInv
  <2> QED
    BY <1>7, <2>1, CrashEffect DEF IInv, TypedInv, CountersTyped
<1> QED
  BY <1>2, <1>3, <1>5, <1>6, <1>7 DEF Next

LEMMA InitImpliesTypedInv ==
  ASSUME Init
  PROVE  TypedInv
<1>1. request = [r \in Requests |-> Idle] /\ pending = {} /\ now = 1
      /\ DOMAIN counters = {}
  BY DEF Init
<1>2. \A r \in Requests : RequestTyped(r)
  BY <1>1 DEF RequestTyped, Idle, TxOf
<1> QED
  BY <1>1, <1>2 DEF TypedInv, CountersTyped

(* Counters stay in the range of an i64, with a time to live that is not over
   or none; a request is in one of the states of its handler, with a controller
   that was installed; what is pending belongs to a request. *)
THEOREM ControllerIsTyped == Spec => []TypeOK
<1>1. IInv /\ TypedInv => TypeOK
  <2> SUFFICES ASSUME IInv, TypedInv PROVE TypeOK
    OBVIOUS
  <2>1. \A p \in pending : p.gen \in 1 .. Current /\ p.request \in Requests
    BY CurrentIsNat DEF IInv, PendingInv, TypedInv, EntryTyped
  <2>2. \A r \in Requests :
          /\ request[r].pc \in PCs
          /\ request[r].pc \notin {"new", "done", "gone"}
               => request[r].gen \in 1 .. Current
          /\ request[r].gas \in GasUsed \cup {None}
          /\ request[r].spent \in GasUsed \cup {0}
    <3> TAKE r \in Requests
    <3>1. request[r].pc \notin {"new", "done", "gone"} => request[r].gen \in 1 .. Current
      BY CheckingControllers
    <3>2. RequestTyped(r) /\ request[r].pc \in PCs
      BY DEF TypedInv, IInv, RequestInv
    <3> QED
      BY <3>1, <3>2 DEF RequestTyped
  <2>3. \A k \in DOMAIN counters :
          /\ counters[k].value \in MinI64 .. MaxI64
          /\ counters[k].expires = None \/ counters[k].expires > now
    BY DEF TypedInv, CountersTyped
  <2> QED
    BY <2>1, <2>2, <2>3 DEF TypeOK, IInv
<1>2. Init => TypedInv
  BY InitImpliesTypedInv
<1>3. IInv /\ TypedInv /\ [Next]_vars => TypedInv'
  BY NextPreservesTypedInv
<1> QED
  BY <1>1, <1>2, <1>3, InvariantHolds, PTL DEF Spec

-----------------------------------------------------------------------------
(* The rules judge a request by what does not change: its transaction and the
   controller it was checked by. *)
SameView(r) == CheckedBy(r)' = CheckedBy(r) /\ TxOf(r)' = TxOf(r)

SameClaims(r) == \A k : k.request = r => (k \in claims' <=> k \in claims)

LEMMA DecisiveIs ==
  ASSUME NEW r, NEW i
  PROVE  Decisive(r, i) <=>
           /\ Applies(r, i)
           /\ CheckedBy(r).rules[i].gasUsage = None \/
              \E k \in claims : /\ k.request = r
                                /\ k.key = KeyOf(CheckedBy(r).rules[i], TxOf(r))
                                /\ Matches(CheckedBy(r).rules[i].gasUsage.value, AsU64(k.total))
BY DEF Decisive, Applies, CheckedBy

LEMMA ViewStays ==
  ASSUME NEW r, SameView(r)
  PROVE  /\ \A i : Applies(r, i)' = Applies(r, i)
         /\ \A n : Passed(r, n)' <=> Passed(r, n)
<1>1. \A i : Applies(r, i)' = Applies(r, i)
  BY DEF SameView, Applies
<1>2. \A n : Passed(r, n)' <=> Passed(r, n)
  BY <1>1 DEF SameView, Passed
<1> QED
  BY <1>1, <1>2

LEMMA ClaimsStay ==
  ASSUME NEW r, SameView(r), SameClaims(r)
  PROVE  /\ DenyMatched(r)' = DenyMatched(r)
         /\ \A i : Decisive(r, i)' <=> Decisive(r, i)
<1>1. DenyMatched(r)' = DenyMatched(r)
  BY DEF DenyMatched, ClaimMatches, SameClaims
<1>2. ASSUME NEW i
      PROVE  Decisive(r, i)' <=> Decisive(r, i)
  <2>1. Applies(r, i)' = Applies(r, i)
    BY ViewStays
  <2>2. (\E k \in claims' : /\ k.request = r
                            /\ k.key = KeyOf(CheckedBy(r).rules[i], TxOf(r))
                            /\ Matches(CheckedBy(r).rules[i].gasUsage.value, AsU64(k.total)))
          <=> (\E k \in claims : /\ k.request = r
                            /\ k.key = KeyOf(CheckedBy(r).rules[i], TxOf(r))
                            /\ Matches(CheckedBy(r).rules[i].gasUsage.value, AsU64(k.total)))
    BY DEF SameClaims
  <2>3. Decisive(r, i)' <=>
           /\ Applies(r, i)
           /\ CheckedBy(r).rules[i].gasUsage = None \/
              \E k \in claims' : /\ k.request = r
                                /\ k.key = KeyOf(CheckedBy(r).rules[i], TxOf(r))
                                /\ Matches(CheckedBy(r).rules[i].gasUsage.value, AsU64(k.total))
    <3>1. Decisive(r, i)' <=>
           /\ Applies(r, i)'
           /\ CheckedBy(r)'.rules[i].gasUsage = None \/
              \E k \in claims' : /\ k.request = r
                                /\ k.key = KeyOf(CheckedBy(r)'.rules[i], TxOf(r)')
                                /\ Matches(CheckedBy(r)'.rules[i].gasUsage.value, AsU64(k.total))
      BY DEF Decisive, Applies, CheckedBy
    <3> QED
      BY <2>1, <3>1 DEF SameView
  <2> QED
    BY <2>2, <2>3, DecisiveIs
<1> QED
  BY <1>1, <1>2

(* The counter of a rule knows what the rule does and what its limit is. *)
LEMMA KeysKeep ==
  ASSUME NEW rule \in AccessRule, NEW tx
  PROVE  /\ KeyOf(rule, tx).rule.action = rule.action
         /\ KeyOf(rule, tx).rule.gasUsage = rule.gasUsage
BY DEF KeyOf, AccessRule

LEMMA CheckedRules ==
  ASSUME IInv, TypedInv, NEW r \in Requests,
         request[r].pc \in Checking \cup {"execute"}
  PROVE  /\ CheckedBy(r).rules \in Seq(AccessRule)
         /\ \A i \in DOMAIN CheckedBy(r).rules :
              /\ CheckedBy(r).rules[i] \in AccessRule
              /\ CheckedBy(r).rules[i].action.kind \in {"Allow", "Deny", "HookAction"}
<1>1. CheckedBy(r).rules \in Seq(AccessRule)
  BY CheckingControllers, StartedRules DEF Checking
<1>2. ASSUME NEW rule \in AccessRule
      PROVE  rule.action.kind \in {"Allow", "Deny", "HookAction"}
  <2>1. rule.action \in Action
    BY DEF AccessRule
  <2>2. Allow.kind = "Allow" /\ Deny.kind = "Deny"
    BY DEF Allow, Deny
  <2>3. \A u \in Urls : HookUrl(u).kind = "HookAction"
    BY DEF Allow, HookUrl
  <2>4. \A a \in [kind : {"HookAction"}, url : Urls, detailed : {TRUE},
                 headers : Headers \cup {None}] : a.kind = "HookAction"
    OBVIOUS
  <2> QED
    BY <2>1, <2>2, <2>3, <2>4, Zenon DEF Action
<1>3. \A i \in DOMAIN CheckedBy(r).rules : CheckedBy(r).rules[i] \in AccessRule
  BY <1>1
<1> QED
  BY <1>1, <1>2, <1>3

(* The fields that judge a request, and its claims, stay. *)
LEMMA JustifiedStays ==
  ASSUME IInv, TypedInv, InstalledStays, NEW r \in Requests, RuleJustified(r),
         Keeps(r, {"pc", "tx", "checked", "rule", "total"}), SameClaims(r)
  PROVE  RuleJustified(r)'
<1>1. /\ request'[r].pc = request[r].pc /\ request'[r].tx = request[r].tx
      /\ request'[r].checked = request[r].checked
      /\ request'[r].rule = request[r].rule /\ request'[r].total = request[r].total
  BY DEF Keeps
<1>2. CASE request[r].pc = "new"
  BY <1>1, <1>2 DEF RuleJustified, SameClaims
<1>3. CASE request[r].pc \in Checking \cup {"execute"}
  <2>1. SameView(r)
    <3>1. request[r].checked \in 1 .. Current
      BY <1>3, CheckingControllers DEF Checking
    <3> QED
      BY <1>1, <3>1 DEF SameView, InstalledStays, CheckedBy, TxOf
  <2>2. /\ \A i : Applies(r, i)' = Applies(r, i)
        /\ \A n : Passed(r, n)' <=> Passed(r, n)
        /\ DenyMatched(r)' = DenyMatched(r)
        /\ \A i : Decisive(r, i)' <=> Decisive(r, i)
    BY <2>1, ViewStays, ClaimsStay
  <2>3. CheckedBy(r)' = CheckedBy(r) /\ TxOf(r)' = TxOf(r)
    BY <2>1 DEF SameView
  <2>4. ASSUME NEW n, request[r].pc = "record",
               \E k \in claims : /\ k.request = r
                                 /\ k.key = KeyOf(CheckedBy(r).rules[n], TxOf(r))
                                 /\ k.total = request[r].total
        PROVE  \E k \in claims' : /\ k.request = r
                                  /\ k.key = KeyOf(CheckedBy(r).rules[n], TxOf(r))
                                  /\ k.total = request[r].total
    BY <2>4 DEF SameClaims
  <2>5. CASE request[r].pc = "record"
    BY <1>1, <2>2, <2>3, <2>4, <2>5 DEF RuleJustified
  <2>6. CASE request[r].pc \in {"check", "action"}
    BY <1>1, <2>2, <2>3, <2>6 DEF RuleJustified
  <2>7. CASE request[r].pc = "execute"
    BY <1>1, <2>2, <2>3, <2>7 DEF RuleJustified, IsDisabled
  <2> QED
    BY <1>3, <2>5, <2>6, <2>7 DEF Checking
<1>4. CASE request[r].pc \in PCs \ (Checking \cup {"execute", "new"})
  BY <1>1, <1>4 DEF RuleJustified, Checking
<1> QED
  BY <1>2, <1>3, <1>4 DEF IInv, RequestInv

LEMMA CheckedViewStays ==
  ASSUME IInv, TypedInv, InstalledStays, NEW r \in Requests,
         request[r].pc \in Checking \cup {"execute"}, Keeps(r, {"tx", "checked"})
  PROVE  SameView(r)
<1>1. request[r].checked \in 1 .. Current
  BY CheckingControllers DEF Checking
<1>2. request'[r].tx = request[r].tx /\ request'[r].checked = request[r].checked
  BY DEF Keeps
<1> QED
  BY <1>1, <1>2 DEF SameView, InstalledStays, CheckedBy, TxOf

LEMMA DefaultPolicyJustified ==
  ASSUME IInv, TypedInv, InstalledStays, NEW r \in Requests, RuleJustified(r),
         DefaultPolicy(r)
  PROVE  RuleJustified(r)'
<1>1. request[r].pc = "check" /\ Applicable(r) = {} /\ claims' = claims
      /\ Keeps(r, {"tx", "checked"})
  BY DefaultPolicyEffect DEF IInv, historyVars, Keeps
<1>2. CheckedBy(r) = Controller(r) /\ request[r].rule \in Nat \ {0}
  BY <1>1, CheckingControllers DEF Checking, TypedInv, RequestTyped
<1>3. SameView(r) /\ SameClaims(r)
  BY <1>1, CheckedViewStays DEF Checking, SameClaims
<1>4. Passed(r, request[r].rule) /\ DenyMatched(r) = {}
  BY <1>1 DEF RuleJustified
<1>5. Passed(r, Len(CheckedBy(r).rules) + 1)
  <2>1. Len(CheckedBy(r).rules) \in Nat
    BY <1>1, CheckedRules DEF Checking
  <2> SUFFICES ASSUME NEW j \in 1 .. Len(CheckedBy(r).rules),
                      CheckedBy(r).rules[j].gasUsage = None,
                      CheckedBy(r).rules[j].action.kind = "Deny"
               PROVE  ~Applies(r, j)
    BY <2>1 DEF Passed
  <2>2. CASE j < request[r].rule
    BY <1>2, <1>4, <2>1, <2>2 DEF Passed
  <2>3. CASE j >= request[r].rule
    <3>1. j \in request[r].rule .. Len(Controller(r).rules)
      BY <1>2, <2>1, <2>3
    <3> QED
      BY <1>1, <1>2, <3>1 DEF Applicable, Applies
  <2> QED
    BY <1>2, <2>1, <2>2, <2>3
<1>6. CASE request'[r].pc = "confirm"
  BY <1>6 DEF RuleJustified
<1>7. CASE request'[r].pc = "execute" /\ ~Denies(Controller(r).policy)
  BY <1>2, <1>3, <1>4, <1>5, <1>7, ViewStays, ClaimsStay
     DEF RuleJustified, SameView, Denies
<1> QED
  BY <1>6, <1>7, DefaultPolicyEffect DEF IInv

LEMMA EvaluateRuleJustified ==
  ASSUME IInv, TypedInv, InstalledStays, NEW r \in Requests, RuleJustified(r),
         EvaluateRule(r)
  PROVE  RuleJustified(r)'
<1> DEFINE n == request[r].rule
           i == NextRule(r)
<1>1. request[r].pc = "check" /\ Applicable(r) # {} /\ Keeps(r, {"tx", "checked"})
  BY EvaluateRuleEffect DEF IInv, Keeps
<1>2. CheckedBy(r) = Controller(r) /\ n \in Nat \ {0}
  BY <1>1, CheckingControllers DEF Checking, TypedInv, RequestTyped
<1>3. SameView(r)
  BY <1>1, CheckedViewStays DEF Checking
<1>4. Passed(r, n) /\ DenyMatched(r) = {}
  BY <1>1 DEF RuleJustified
<1>5. /\ i \in Applicable(r) /\ i \in Nat /\ i >= n
      /\ i \in 1 .. Len(CheckedBy(r).rules)
      /\ \A j \in Applicable(r) : i <= j
      /\ NextLimited(r) = CheckedBy(r).rules[i]
      /\ CheckedBy(r).rules[i] \in AccessRule
  BY <1>1, <1>2, NextRuleIsFirst DEF NextLimited
<1> HIDE DEF i, n
<1>6. Passed(r, i)
  <2>1. Len(CheckedBy(r).rules) \in Nat
    BY <1>1, CheckedRules DEF Checking
  <2> SUFFICES ASSUME NEW j \in 1 .. i - 1,
                      CheckedBy(r).rules[j].gasUsage = None,
                      CheckedBy(r).rules[j].action.kind = "Deny"
               PROVE  ~Applies(r, j)
    BY DEF Passed
  <2>2. CASE j < n
    BY <1>2, <1>4, <2>2 DEF Passed
  <2>3. CASE j >= n
    <3>1. j \in n .. Len(Controller(r).rules)
      BY <1>2, <1>5, <2>1, <2>3
    <3>2. j \notin Applicable(r)
      BY <1>5
    <3> QED
      BY <1>2, <3>1, <3>2 DEF Applicable, Applies, n
  <2> QED
    BY <1>2, <1>5, <2>1, <2>2, <2>3
<1>7. ~NextFails(r) => Applies(r, i)
  BY <1>2, <1>5 DEF NextFails, Applicable, Applies, NextLimited, i
<1>8. CASE RejectedTo(r)
  BY <1>8 DEF RejectedTo, RuleJustified
<1>9. CASE EvaluationPasses(r)
  <2>1. SameClaims(r)
    BY <1>9 DEF EvaluationPasses, SameClaims
  <2>2. request'[r].pc = "action" /\ request'[r].rule = i
    BY <1>9 DEF EvaluationPasses, i
  <2>3. Decisive(r, i)
    BY <1>5, <1>7, <1>9, DecisiveIs DEF EvaluationPasses
  <2>5. PICK k : k = i
    OBVIOUS
  <2>6. /\ request'[r].rule = k
        /\ Passed(r, k)' /\ Decisive(r, k)' /\ DenyMatched(r)' = {}
    BY <1>3, <1>4, <1>6, <2>1, <2>2, <2>3, <2>5, ViewStays, ClaimsStay
  <2> QED
    BY <2>2, <2>6 DEF RuleJustified
<1>10. ASSUME NEW total, EvaluationCounts(r, total), ~RejectedTo(r)
       PROVE  RuleJustified(r)'
  <2>1. PICK k : k = i
    OBVIOUS
  <2>2. PICK c : c = Claim(r, i, NextKey(r), total)
    OBVIOUS
  <2>3. /\ request'[r].pc = "record" /\ request'[r].rule = k
        /\ request'[r].total = total
        /\ claims' = claims \cup {c}
        /\ Applies(r, k) /\ Passed(r, k)
    BY <1>6, <1>7, <1>10, <2>1, <2>2 DEF EvaluationCounts, i
  <2>4. Applies(r, k)' /\ Passed(r, k)'
    BY <1>3, <2>3, ViewStays
  <2>5. /\ c.request = r /\ c.total = total
        /\ c.key = KeyOf(CheckedBy(r).rules[k], TxOf(r))
    BY <1>5, <2>1, <2>2 DEF Claim, NextKey
  <2>6. c.key = KeyOf(CheckedBy(r)'.rules[k], TxOf(r)')
    BY <1>3, <2>5 DEF SameView
  <2>7. DenyMatched(r)' \subseteq {c}
    <3> SUFFICES ASSUME NEW d \in DenyMatched(r)', d # c PROVE FALSE
      OBVIOUS
    <3>1. d \in DenyMatched(r)
      BY <2>3 DEF DenyMatched, ClaimMatches
    <3> QED
      BY <1>4, <3>1
  <2> QED
    BY <2>3, <2>4, <2>5, <2>6, <2>7 DEF RuleJustified
<1> QED
  BY <1>8, <1>9, <1>10, EvaluateRuleEffect DEF IInv, EvaluationRejects

LEMMA PassedOneMore ==
  ASSUME NEW r, NEW n \in Nat \ {0}, Passed(r, n),
         \/ CheckedBy(r).rules[n].gasUsage # None
         \/ CheckedBy(r).rules[n].action.kind # "Deny"
  PROVE  Passed(r, n + 1)
<1>1. \A j \in 1 .. (n + 1) - 1 : j \in 1 .. n - 1 \/ j = n
  OBVIOUS
<1> QED
  BY <1>1 DEF Passed

LEMMA RecordClaimJustified ==
  ASSUME IInv, TypedInv, InstalledStays, NEW r \in Requests, RuleJustified(r),
         RecordClaim(r)
  PROVE  RuleJustified(r)'
<1>1. PICK n : n = request[r].rule
  OBVIOUS
<1>2. request[r].pc = "record" /\ Keeps(r, {"tx", "checked"}) /\ SameClaims(r)
  BY RecordClaimEffect DEF IInv, Keeps, historyVars, SameClaims
<1>3. CheckedBy(r) = Controller(r) /\ n \in Nat \ {0}
  BY <1>1, <1>2, CheckingControllers DEF Checking, TypedInv, RequestTyped
<1>4. SameView(r)
  BY <1>2, CheckedViewStays DEF Checking
<1>5. Rule(r) = CheckedBy(r).rules[n] /\ Rule(r).gasUsage # None /\ Rule(r) \in AccessRule
  <2>1. CheckedBy(r).rules \in Seq(AccessRule)
    BY <1>2, CheckedRules DEF Checking
  <2>2. n <= Len(CheckedBy(r).rules) /\ Rule(r).gasUsage # None
    BY <1>1, <1>2, <1>3 DEF TypedInv, RequestTyped
  <2> QED
    BY <1>1, <1>3, <2>1, <2>2 DEF Rule
<1>6. /\ Passed(r, n)
      /\ Applies(r, n)
      /\ \E k \in claims : /\ k.request = r
                           /\ k.key = KeyOf(Rule(r), TxOf(r))
                           /\ k.total = request[r].total
      /\ \A k \in DenyMatched(r) : /\ k.key = KeyOf(Rule(r), TxOf(r))
                                   /\ k.total = request[r].total
  BY <1>1, <1>2, <1>5 DEF RuleJustified, CheckedBy
<1>7. /\ KeyOf(Rule(r), TxOf(r)).rule.action = Rule(r).action
      /\ KeyOf(Rule(r), TxOf(r)).rule.gasUsage = Rule(r).gasUsage
  BY <1>5, KeysKeep
<1>8. CASE IsWithin(r)
  <2>1. request'[r].pc = "action" /\ request'[r].rule = n
    BY <1>1, <1>8, RecordClaimEffect DEF IInv, Keeps
  <2>2. Decisive(r, n)
    BY <1>5, <1>6, <1>8, DecisiveIs DEF IsWithin
  <2>3. Rule(r).action.kind # "Deny" => DenyMatched(r) = {}
    BY <1>6, <1>7 DEF DenyMatched
  <2>4. Passed(r, n)' /\ Decisive(r, n)'
    BY <1>4, <1>2, <1>6, <2>2, ViewStays, ClaimsStay
  <2>5. CheckedBy(r)'.rules[n].action.kind # "Deny" => DenyMatched(r)' = {}
    BY <1>2, <1>4, <1>5, <2>3, ClaimsStay DEF SameView
  <2> QED
    BY <2>1, <2>4, <2>5 DEF RuleJustified, CheckedBy
<1>9. CASE ~IsWithin(r)
  <2>1. PICK m : m = n + 1
    OBVIOUS
  <2>2. request'[r].pc = "check" /\ request'[r].rule = m
    BY <1>1, <1>9, <2>1, RecordClaimEffect DEF IInv
  <2>3. Passed(r, m)
    BY <1>3, <1>5, <1>6, <2>1, PassedOneMore
  <2>4. DenyMatched(r) = {}
    <3> SUFFICES ASSUME NEW k \in DenyMatched(r) PROVE FALSE
      OBVIOUS
    <3>1. /\ k.key.rule.gasUsage = Rule(r).gasUsage /\ k.total = request[r].total
          /\ ClaimMatches(k)
      BY <1>6, <1>7 DEF DenyMatched
    <3> QED
      BY <1>9, <3>1 DEF ClaimMatches, IsWithin
  <2>5. Passed(r, m)' /\ DenyMatched(r)' = {}
    BY <1>2, <1>4, <2>3, <2>4, ViewStays, ClaimsStay
  <2> QED
    BY <2>2, <2>5 DEF RuleJustified
<1> QED
  BY <1>8, <1>9

LEMMA TakeActionJustified ==
  ASSUME IInv, TypedInv, InstalledStays, NEW r \in Requests, RuleJustified(r),
         TakeAction(r)
  PROVE  RuleJustified(r)'
<1>1. PICK n : n = request[r].rule
  OBVIOUS
<1>2. request[r].pc = "action" /\ Keeps(r, {"tx", "checked"}) /\ SameClaims(r)
  BY TakeActionEffect DEF IInv, Keeps, historyVars, SameClaims
<1>3. /\ CheckedBy(r) = Controller(r) /\ n \in Nat \ {0}
      /\ n <= Len(CheckedBy(r).rules)
  BY <1>1, <1>2, CheckingControllers DEF Checking, TypedInv, RequestTyped
<1>4. SameView(r)
  BY <1>2, CheckedViewStays DEF Checking
<1>5. Rule(r) = CheckedBy(r).rules[n] /\ n \in DOMAIN CheckedBy(r).rules
  <2>1. CheckedBy(r).rules \in Seq(AccessRule)
    BY <1>2, CheckedRules DEF Checking
  <2> QED
    BY <1>1, <1>3, <2>1 DEF Rule
<1>6. /\ Passed(r, n) /\ Decisive(r, n)
      /\ Rule(r).action.kind # "Deny" => DenyMatched(r) = {}
  BY <1>1, <1>2, <1>5 DEF RuleJustified, CheckedBy
<1>7. CASE Rule(r).action.kind \in {"Allow", "HookAction"} /\ request'[r].pc = "execute"
  <2>1. Passed(r, n)' /\ Decisive(r, n)' /\ DenyMatched(r)' = {}
    BY <1>2, <1>4, <1>6, <1>7, ViewStays, ClaimsStay
  <2>2. CheckedBy(r)'.rules[n].action.kind # "Deny" /\ n \in DOMAIN CheckedBy(r)'.rules
    BY <1>4, <1>5, <1>7 DEF SameView
  <2> QED
    BY <1>7, <2>1, <2>2 DEF RuleJustified, CheckedBy
<1>8. CASE RejectedTo(r)
  BY <1>8 DEF RejectedTo, RuleJustified
<1>9. CASE /\ Rule(r).action.kind = "HookAction"
           /\ request'[r].pc = "check"
           /\ request'[r].rule = request[r].rule + 1
  <2>1. PICK m : m = n + 1
    OBVIOUS
  <2>2. Passed(r, m)
    BY <1>3, <1>5, <1>6, <1>9, <2>1, PassedOneMore
  <2>3. Passed(r, m)' /\ DenyMatched(r)' = {}
    BY <1>2, <1>4, <1>6, <1>9, <2>2, ViewStays, ClaimsStay
  <2> QED
    BY <1>1, <1>9, <2>1, <2>3 DEF RuleJustified
<1> QED
  BY <1>7, <1>8, <1>9, TakeActionEffect DEF IInv

LEMMA NextPreservesJustified ==
  ASSUME IInv, TypedInv, JustifiedInv, [Next]_vars
  PROVE  JustifiedInv'
<1>1. InstalledStays
  BY StepsKeep
<1>2. ASSUME NEW q \in Requests, request'[q] = request[q], SameClaims(q)
      PROVE  RuleJustified(q)'
  <2>1. RuleJustified(q) /\ Keeps(q, {"pc", "tx", "checked", "rule", "total"})
    BY <1>2 DEF JustifiedInv, Keeps
  <2> QED
    BY <1>1, <1>2, <2>1, JustifiedStays
<1>3. ASSUME NEW r \in Requests, Arrive(r)
      PROVE  JustifiedInv'
  <2>1. /\ Others(r) /\ claims' = claims
        /\ request[r].pc = "new"
        /\ request'[r].pc = IF IsDisabled(installed[Current]) THEN "execute" ELSE "check"
        /\ request'[r].checked = Current
        /\ request'[r].rule = request[r].rule
        /\ installed' = installed
    BY <1>3, ArriveEffect DEF IInv, historyVars, Keeps, serverVars
  <2>2. request[r].rule = 1 /\ \A k \in claims : k.request # r
    BY <2>1 DEF JustifiedInv, RuleJustified
  <2>3. CASE request'[r].pc = "check"
    <3>1. request'[r].rule = 1 /\ \A k \in claims' : k.request # r
      BY <2>1, <2>2
    <3>2. Passed(r, 1)' /\ DenyMatched(r)' = {}
      BY <3>1 DEF Passed, DenyMatched
    <3> QED
      BY <1>2, <2>1, <2>3, <3>1, <3>2 DEF RuleJustified, JustifiedInv, Others, SameClaims
  <2>4. CASE request'[r].pc = "execute" /\ IsDisabled(installed[Current])
    <3>1. installed'[request'[r].checked] = installed[Current]
      BY <2>1
    <3>2. RuleJustified(r)'
      BY <2>4, <3>1 DEF RuleJustified, CheckedBy, IsDisabled
    <3> QED
      BY <1>2, <2>1, <3>2 DEF JustifiedInv, Others, SameClaims
  <2> QED
    BY <2>1, <2>3, <2>4
<1>4. ASSUME NEW r \in Requests, Others(r), RuleJustified(r)',
             \A k : k.request # r => (k \in claims' <=> k \in claims)
      PROVE  JustifiedInv'
  BY <1>2, <1>4 DEF JustifiedInv, Others, SameClaims
<1>5. ASSUME NEW r \in Requests, RequestStep(r)
      PROVE  JustifiedInv'
  <2>0. RuleJustified(r)
    BY DEF JustifiedInv
  <2>1. CASE DefaultPolicy(r) \/ RecordClaim(r) \/ TakeAction(r)
    <3>1. Others(r) /\ claims' = claims
      BY <2>1, DefaultPolicyEffect, RecordClaimEffect, TakeActionEffect
         DEF IInv, historyVars
    <3>2. RuleJustified(r)'
      BY <1>1, <2>0, <2>1, DefaultPolicyJustified, RecordClaimJustified,
         TakeActionJustified
    <3> QED
      BY <1>4, <3>1, <3>2
  <2>2. CASE EvaluateRule(r)
    <3>1. RuleJustified(r)' /\ Others(r)
      BY <1>1, <2>0, <2>2, EvaluateRuleJustified, EvaluateRuleEffect DEF IInv
    <3>2. claims' = claims \/ \E c : c.request = r /\ claims' = claims \cup {c}
      BY <2>2, EvaluateRuleEffect
         DEF IInv, EvaluationRejects, EvaluationPasses, EvaluationCounts, Claim
    <3> QED
      BY <1>4, <3>1, <3>2
  <2>3. CASE ExecuteOk(r) \/ ExecuteErr(r) \/ ConfirmTake(r) \/ ConfirmUpdate(r)
    <3>1. /\ Others(r) /\ claims' = claims
          /\ request'[r].pc \in {"confirm", "update", "done"}
      BY <2>3, ExecuteEffect, ConfirmTakeEffect, ConfirmUpdateEffect
         DEF IInv, historyVars
    <3>2. RuleJustified(r)'
      BY <3>1 DEF RuleJustified
    <3> QED
      BY <1>4, <3>1, <3>2
  <2> QED
    BY <1>5, <2>1, <2>2, <2>3 DEF RequestStep
<1>6. CASE ReloadBegin \/ ReloadInitialize \/ TimePasses \/ UNCHANGED vars
  <2>1. request' = request /\ claims' = claims
    BY <1>6 DEF ReloadBegin, ReloadInitialize, TimePasses, vars, historyVars
  <2> QED
    BY <1>2, <2>1 DEF JustifiedInv, SameClaims
<1>7. CASE Crash
  <2>1. claims' = claims
    BY <1>7, CrashEffect DEF IInv, historyVars
  <2>2. \A r \in Requests : request'[r] = request[r] \/ request'[r].pc = "gone"
    BY <1>7, CrashEffect DEF IInv
  <2> QED
    BY <1>2, <2>1, <2>2 DEF JustifiedInv, SameClaims, RuleJustified
<1> QED
  BY <1>3, <1>5, <1>6, <1>7 DEF Next

(* A transaction is executed only if the controller that checked its request
   says so: a rule that applies, with its limit judged by the request's own
   claim, lets it through before any other denies it, or the default does. *)
THEOREM ExecutionsAreJustified == Spec => []AccessIsJustified
<1>1. ASSUME IInv, TypedInv, JustifiedInv
      PROVE  AccessIsJustified
  <2> SUFFICES ASSUME NEW r \in Requests, request[r].pc = "execute",
                      ~IsDisabled(CheckedBy(r))
               PROVE  LET c == CheckedBy(r)
                          May(i) == Decisive(r, i) /\ c.rules[i].action.kind \in {"Allow", "HookAction"}
                          MustNot(i) == Decisive(r, i) /\ c.rules[i].action.kind = "Deny"
                      IN  /\ c.policy = "DenyAll" => \E i \in DOMAIN c.rules : May(i)
                          /\ \A j \in DOMAIN c.rules :
                               MustNot(j) => \E i \in 1 .. j - 1 : May(i)
    BY DEF AccessIsJustified, CheckedBy
  <2> DEFINE c == CheckedBy(r)
  <2>1. /\ DenyMatched(r) = {}
        /\ \/ c.policy # "DenyAll" /\ Passed(r, Len(c.rules) + 1)
           \/ \E i \in DOMAIN c.rules :
                Passed(r, i) /\ Decisive(r, i) /\ c.rules[i].action.kind # "Deny"
    BY <1>1 DEF JustifiedInv, RuleJustified, CheckedBy
  <2>2. /\ c.rules \in Seq(AccessRule)
        /\ \A i \in DOMAIN c.rules :
             /\ c.rules[i] \in AccessRule
             /\ c.rules[i].action.kind \in {"Allow", "Deny", "HookAction"}
    BY <1>1, CheckedRules
  <2>3. ASSUME NEW j \in DOMAIN c.rules, Decisive(r, j), c.rules[j].action.kind = "Deny"
        PROVE  c.rules[j].gasUsage = None /\ Applies(r, j)
    <3>1. ASSUME NEW k \in claims, k.request = r, k.key = KeyOf(c.rules[j], TxOf(r)),
                 Matches(c.rules[j].gasUsage.value, AsU64(k.total))
          PROVE  FALSE
      <4>1. /\ k.key.rule.action = c.rules[j].action
            /\ k.key.rule.gasUsage = c.rules[j].gasUsage
        BY <2>2, <3>1, KeysKeep
      <4>2. k \in DenyMatched(r)
        BY <2>3, <3>1, <4>1 DEF DenyMatched, ClaimMatches
      <4> QED
        BY <2>1, <4>2
    <3> QED
      BY <2>3, <3>1, DecisiveIs
  <2>4. CASE c.policy # "DenyAll" /\ Passed(r, Len(c.rules) + 1)
    <3>1. ASSUME NEW j \in DOMAIN c.rules, Decisive(r, j), c.rules[j].action.kind = "Deny"
          PROVE  FALSE
      <4>1. j \in 1 .. (Len(c.rules) + 1) - 1
        BY <2>2
      <4> QED
        BY <2>3, <2>4, <3>1, <4>1 DEF Passed
    <3> QED
      BY <2>4, <3>1
  <2>5. ASSUME NEW i \in DOMAIN c.rules,
               Passed(r, i), Decisive(r, i), c.rules[i].action.kind # "Deny"
        PROVE  /\ c.policy = "DenyAll" =>
                    \E k \in DOMAIN c.rules : /\ Decisive(r, k)
                                              /\ c.rules[k].action.kind \in {"Allow", "HookAction"}
               /\ \A j \in DOMAIN c.rules : Decisive(r, j) /\ c.rules[j].action.kind = "Deny" =>
                    \E k \in 1 .. j - 1 : /\ Decisive(r, k)
                                          /\ c.rules[k].action.kind \in {"Allow", "HookAction"}
    <3>1. c.rules[i].action.kind \in {"Allow", "HookAction"}
      BY <2>2, <2>5
    <3>2. ASSUME NEW j \in DOMAIN c.rules, Decisive(r, j), c.rules[j].action.kind = "Deny"
          PROVE  i \in 1 .. j - 1
      <4>1. j # i /\ i \in Nat /\ i >= 1 /\ j \in Nat /\ j >= 1
        BY <2>2, <2>5, <3>2
      <4>2. ~(j \in 1 .. i - 1)
        BY <2>3, <2>5, <3>2 DEF Passed
      <4> QED
        BY <4>1, <4>2
    <3> QED
      BY <2>5, <3>1, <3>2
  <2> QED
    BY <2>1, <2>4, <2>5
<1>2. Init => JustifiedInv
  <2> SUFFICES ASSUME Init, NEW r \in Requests PROVE RuleJustified(r)
    BY DEF JustifiedInv
  <2>1. request[r] = Idle /\ claims = {}
    BY DEF Init
  <2> QED
    BY <2>1 DEF RuleJustified, Idle
<1>3. IInv /\ TypedInv /\ JustifiedInv /\ [Next]_vars => JustifiedInv'
  BY NextPreservesJustified
<1>4. Init => TypedInv
  BY InitImpliesTypedInv
<1>5. IInv /\ TypedInv /\ [Next]_vars => TypedInv'
  BY NextPreservesTypedInv
<1> QED
  BY <1>1, <1>2, <1>3, <1>4, <1>5, InvariantHolds, PTL DEF Spec

-----------------------------------------------------------------------------
(* The claims and the corrections of one window of a counter. *)
ClaimsIn(key, window) == {c \in claims : c.key = key /\ c.window = window}
CorrectionsIn(key, window) ==
  {k \in corrections : k.key = key /\ k.window = window}

Amounts == [c \in claims |-> AsI64(TxOf(c.request).budget)]
Gases == [k \in corrections |-> k.gas]

(* A limit that some configuration sets. *)
Configured(limit) ==
  /\ limit # None
  /\ \E config \in Configs : \E i \in DOMAIN config.rules :
       limit = config.rules[i].gasUsage

ClaimTyped(c) ==
  /\ c.request \in Requests
  /\ request[c.request].pc # "new"
  /\ request[c.request].pc = "check" => c.rule < request[c.request].rule
  /\ request[c.request].pc \in {"record", "action"} =>
       c.rule <= request[c.request].rule
  /\ c.rule \in Nat
  /\ c.window \in Nat \cup {None}
  /\ c.total \in MinI64 .. MaxI64
  /\ c.window = None => c.total \in {MinI64, MaxI64}
  /\ Configured(c.key.rule.gasUsage)

CorrectionTyped(k) ==
  /\ k.by \in Requests /\ k.of \in Requests
  /\ request[k.by].pc = "done"
  /\ TxOf(k.of) \in Transactions
  /\ k.window \in Nat \cup {None}
  /\ k.gas \in Int

HistoryInv ==
  /\ IsFiniteSet(claims) /\ IsFiniteSet(corrections)
  /\ \A c \in claims : ClaimTyped(c)
  /\ \A k \in corrections : CorrectionTyped(k)
  /\ \A k, l \in corrections : k.by = l.by => k = l

(* A window that a counter starts is later than all that it had. *)
FreshInv ==
  \A c \in claims \cup corrections :
    IF c.window = None THEN c.key \in DOMAIN counters /\ counters[c.key].expires = None
    ELSE IF c.key \in DOMAIN counters
    THEN counters[c.key].expires = None \/ c.window <= counters[c.key].expires
    ELSE c.window <= now

AccountInv ==
  \A key \in DOMAIN counters :
    LET window == counters[key].expires
    IN  window # None =>
          counters[key].value =
            Total(Amounts, ClaimsIn(key, window)) - Total(Gases, CorrectionsIn(key, window))

AccountsInv == HistoryInv /\ FreshInv /\ AccountInv

-----------------------------------------------------------------------------
(* A step that leaves the clock and counts an amount by one key, or does not
   touch the counters. *)
LEMMA LimitsAreConfigured ==
  ASSUME IInv, TypedInv, NEW r \in Requests, request[r].pc = "check",
         Applicable(r) # {}, NextLimited(r).gasUsage # None
  PROVE  Configured(NextKey(r).rule.gasUsage)
<1>1. Controller(r) \in Start
  BY CheckingControllers
<1>2. PICK cs \in Configs \X Answers :
        Initializable(cs[1], cs[2]) /\ Controller(r) = Initialized(cs[1], cs[2])
  BY <1>1 DEF Start
<1>3. Controller(r).rules = cs[1].rules /\ cs[1] \in Configs
  BY <1>2 DEF Initialized
<1>4. NextRule(r) \in DOMAIN Controller(r).rules /\ NextLimited(r) \in AccessRule
  BY NextRuleIsFirst
<1>5. NextKey(r).rule.gasUsage = NextLimited(r).gasUsage
  BY <1>4, KeysKeep DEF NextKey
<1> QED
  BY <1>3, <1>4, <1>5 DEF Configured, NextLimited

(* What a counter holds before an amount is added, and the window it has then. *)
LEMMA WindowBefore ==
  ASSUME CountersTyped, AccountsInv, NEW key, NEW window \in Nat \ {0},
         NEW amount \in Int, UpdateAggr(key, window, amount),
         counters'[key].expires # None
  PROVE  /\ ~Overflows(key, amount)
         /\ counters'[key].value = ValueOf(key) + amount
         /\ ValueOf(key) \in Int
         /\ counters'[key].expires \in Nat
         /\ key \in DOMAIN counters => counters'[key].expires = counters[key].expires
         /\ key \notin DOMAIN counters => counters'[key].expires > now
         /\ ValueOf(key) = Total(Amounts, ClaimsIn(key, counters'[key].expires))
                             - Total(Gases, CorrectionsIn(key, counters'[key].expires))
<1>1. counters'[key] = UpdatedCounter(key, window, amount)
  BY CounterEffect
<1>2. ~Overflows(key, amount)
  <2> SUFFICES ASSUME Overflows(key, amount) PROVE FALSE
    OBVIOUS
  <2>1. counters'[key] = [value |-> MaxI64, expires |-> None]
    BY <1>1 DEF UpdatedCounter
  <2> QED
    BY <2>1
<1>3. /\ counters'[key].value = ValueOf(key) + amount
      /\ counters'[key].expires = WindowOf(key, window)
  BY <1>1, <1>2 DEF UpdatedCounter
<1>4. now \in Nat /\ MinI64 \in Int /\ MaxI64 \in Int
  BY ControllerAssumption DEF CountersTyped, MinI64
<1>5. CASE key \in DOMAIN counters
  <2>1. /\ WindowOf(key, window) = counters[key].expires
        /\ ValueOf(key) = counters[key].value
    BY <1>5 DEF WindowOf, ValueOf
  <2>2. counters[key].expires # None
    BY <1>3, <2>1
  <2>3. counters[key].value \in Int /\ counters[key].expires \in Nat
    BY <1>4, <1>5, <2>2 DEF CountersTyped
  <2>4. counters[key].value = Total(Amounts, ClaimsIn(key, counters[key].expires))
                             - Total(Gases, CorrectionsIn(key, counters[key].expires))
    BY <1>5, <2>2 DEF AccountsInv, AccountInv
  <2> QED
    BY <1>2, <1>3, <1>5, <2>1, <2>3, <2>4
<1>6. CASE key \notin DOMAIN counters
  <2>1. WindowOf(key, window) = now + window /\ ValueOf(key) = 0
    BY <1>6 DEF WindowOf, ValueOf
  <2>2. PICK e : e = counters'[key].expires
    OBVIOUS
  <2>3. e \in Nat /\ e > now /\ e # None
    BY <1>3, <1>4, <2>1, <2>2
  <2>4. ClaimsIn(key, e) = {} /\ CorrectionsIn(key, e) = {}
    <3> SUFFICES ASSUME NEW c \in claims \cup corrections, c.key = key, c.window = e
                 PROVE  FALSE
      BY DEF ClaimsIn, CorrectionsIn
    <3>1. e <= now
      BY <1>6, <2>3 DEF AccountsInv, FreshInv
    <3> QED
      BY <1>4, <2>3, <3>1
  <2>5. Total(Amounts, ClaimsIn(key, e)) = 0 /\ Total(Gases, CorrectionsIn(key, e)) = 0
    BY <2>4, TotalOfEmpty
  <2> QED
    BY <1>2, <1>3, <1>6, <2>1, <2>2, <2>3, <2>5
<1> QED
  BY <1>5, <1>6

(* Where the counter is stuck afterwards, the total is either end. *)
LEMMA StuckTotals ==
  ASSUME NEW key, NEW window \in Nat \ {0}, NEW amount \in Int, CountersTyped,
         UpdateAggr(key, window, amount), NEW total \in Totals(key, amount)
  PROVE  /\ total \in MinI64 .. MaxI64
         /\ counters'[key].expires = None => total \in {MinI64, MaxI64}
         /\ counters'[key].expires # None => total = counters'[key].value
         /\ counters'[key].expires \in Nat \cup {None}
<1>1. counters'[key] = UpdatedCounter(key, window, amount)
  BY CounterEffect
<1>2. MaxI64 \in Nat /\ MinI64 = -MaxI64 - 1
  BY ControllerAssumption DEF MinI64
<1>3. CASE Overflows(key, amount)
  <2>1. counters'[key] = [value |-> MaxI64, expires |-> None]
    BY <1>1, <1>3 DEF UpdatedCounter
  <2> QED
    BY <1>2, <1>3, <2>1 DEF Totals
<1>4. CASE ~Overflows(key, amount)
  <2>1. counters'[key] = [value |-> ValueOf(key) + amount,
                          expires |-> WindowOf(key, window)]
    BY <1>1, <1>4 DEF UpdatedCounter
  <2>2. total = ValueOf(key) + amount /\ total \in MinI64 .. MaxI64
    BY <1>4 DEF Totals, Overflows
  <2>3. WindowOf(key, window) \in Nat
    BY <1>4 DEF WindowOf, CountersTyped, Overflows, Stuck
  <2>4. counters'[key].expires \in Nat /\ counters'[key].expires # None
    BY <2>1, <2>3, ControllerAssumption
  <2> QED
    BY <2>1, <2>2, <2>4
<1> QED
  BY <1>3, <1>4

LEMMA FreshStays ==
  ASSUME CountersTyped, HistoryInv, FreshInv, now' = now,
         NEW key, NEW window \in Nat \ {0}, NEW amount \in Int,
         UpdateAggr(key, window, amount), NEW x,
         claims' \cup corrections' \subseteq (claims \cup corrections) \cup {x},
         x.key = key, x.window = counters'[key].expires,
         x.window \in Nat \cup {None}
  PROVE  FreshInv'
<1>1. /\ DOMAIN counters' = DOMAIN counters \cup {key}
      /\ counters'[key] = UpdatedCounter(key, window, amount)
      /\ \A k \in DOMAIN counters \ {key} : counters'[k] = counters[k]
  <2>1. UpdateAggr(key, window, amount)
    OBVIOUS
  <2> QED
    BY ONLY <2>1, CounterEffect
<1>2. \/ counters'[key].expires = None
      \/ counters'[key].expires = WindowOf(key, window) /\ ~Stuck(key)
  <2>1. CASE Overflows(key, amount)
    BY <1>1, <2>1 DEF UpdatedCounter
  <2>2. CASE ~Overflows(key, amount)
    BY <1>1, <2>2 DEF UpdatedCounter, Overflows
  <2> QED
    BY <2>1, <2>2
<1> SUFFICES ASSUME NEW c \in claims' \cup corrections'
             PROVE  IF c.window = None
                    THEN c.key \in DOMAIN counters' /\ counters'[c.key].expires = None
                    ELSE IF c.key \in DOMAIN counters'
                    THEN counters'[c.key].expires = None
                           \/ c.window <= counters'[c.key].expires
                    ELSE c.window <= now
  BY DEF FreshInv
<1>3. CASE c = x
  BY <1>1, <1>3
<1>4. CASE c \in claims \cup corrections
  <2>1. c.window \in Nat \cup {None}
    BY <1>4 DEF HistoryInv, ClaimTyped, CorrectionTyped
  <2>2. IF c.window = None
        THEN c.key \in DOMAIN counters /\ counters[c.key].expires = None
        ELSE IF c.key \in DOMAIN counters
        THEN counters[c.key].expires = None \/ c.window <= counters[c.key].expires
        ELSE c.window <= now
    BY <1>4 DEF FreshInv
  <2>3. CASE c.key # key
    BY <1>1, <2>2, <2>3
  <2>4. CASE c.key = key /\ counters'[key].expires = None
    BY <1>1, <2>4
  <2>5. CASE c.key = key /\ counters'[key].expires # None
    <3>1. counters'[key].expires = WindowOf(key, window) /\ ~Stuck(key)
      BY <1>2, <2>5
    <3>2. c.window # None /\ c.window \in Nat
      BY <2>1, <2>2, <2>5, <3>1 DEF Stuck
    <3>3. CASE key \in DOMAIN counters
      BY <1>1, <2>2, <2>5, <3>1, <3>2, <3>3 DEF Stuck, WindowOf
    <3>4. CASE key \notin DOMAIN counters
      <4>1. c.window <= now /\ now \in Nat
        BY <2>2, <2>5, <3>2, <3>4 DEF CountersTyped
      <4>2. counters'[key].expires = now + window
        BY <3>1, <3>4 DEF WindowOf
      <4> QED
        BY <1>1, <2>5, <3>2, <4>1, <4>2
    <3> QED
      BY <3>3, <3>4
  <2> QED
    BY <2>3, <2>4, <2>5
<1> QED
  BY <1>3, <1>4

LEMMA ClaimBudgets ==
  ASSUME IInv, TypedInv, HistoryInv, NEW c \in claims
  PROVE  /\ TxOf(c.request) \in Transactions
         /\ TxOf(c.request).budget \in Nat /\ TxOf(c.request).budget <= 2 * MaxI64 + 1
         /\ AsI64(TxOf(c.request).budget) \in Int
<1>1. c.request \in Requests /\ request[c.request].pc # "new"
  BY DEF HistoryInv, ClaimTyped
<1>2. TxOf(c.request) \in Transactions
  BY <1>1 DEF TypedInv, RequestTyped
<1> QED
  BY <1>2, BudgetsAreIntegers, SignedNumbers

(* What is counted already stays counted. *)
LEMMA OldTotals ==
  ASSUME IInv, TypedInv, HistoryInv, TransactionsStay,
         claims \subseteq claims', corrections \subseteq corrections'
  PROVE  /\ \A S \in SUBSET claims :
              IsFiniteSet(S) /\ Total(Amounts', S) = Total(Amounts, S)
                             /\ Total(Amounts, S) \in Int
         /\ \A S \in SUBSET corrections :
              IsFiniteSet(S) /\ Total(Gases', S) = Total(Gases, S)
                             /\ Total(Gases, S) \in Int
<1>1. \A c \in claims : Amounts'[c] = Amounts[c] /\ Amounts[c] \in Int
  <2> TAKE c \in claims
  <2>1. TxOf(c.request) \in Transactions /\ AsI64(TxOf(c.request).budget) \in Int
    BY ClaimBudgets
  <2>2. TxOf(c.request)' = TxOf(c.request)
    BY <2>1 DEF TransactionsStay, HistoryInv, ClaimTyped
  <2> QED
    BY <2>1, <2>2 DEF Amounts
<1>2. \A k \in corrections : Gases'[k] = Gases[k] /\ Gases[k] \in Int
  BY DEF Gases, HistoryInv, CorrectionTyped
<1>3. ASSUME NEW S \in SUBSET claims
      PROVE  IsFiniteSet(S) /\ Total(Amounts', S) = Total(Amounts, S)
                            /\ Total(Amounts, S) \in Int
  <2>1. IsFiniteSet(S)
    BY FS_Subset DEF HistoryInv
  <2> QED
    BY <1>1, <2>1, TotalCongruent, TotalType
<1>4. ASSUME NEW S \in SUBSET corrections
      PROVE  IsFiniteSet(S) /\ Total(Gases', S) = Total(Gases, S)
                            /\ Total(Gases, S) \in Int
  <2>1. IsFiniteSet(S)
    BY FS_Subset DEF HistoryInv
  <2> QED
    BY <1>2, <2>1, TotalCongruent, TotalType
<1> QED
  BY <1>3, <1>4

(* A claim is counted by its key, in the window the counter has afterwards. *)
LEMMA AccountOfClaim ==
  ASSUME IInv, TypedInv, AccountsInv, TransactionsStay,
         NEW c, c \notin claims, claims' = claims \cup {c}, corrections' = corrections,
         NEW window \in Nat \ {0}, NEW amount \in Int,
         amount = AsI64(TxOf(c.request)'.budget),
         UpdateAggr(c.key, window, amount), c.window = counters'[c.key].expires
  PROVE  AccountInv'
<1>1. /\ DOMAIN counters' = DOMAIN counters \cup {c.key}
      /\ \A k \in DOMAIN counters \ {c.key} : counters'[k] = counters[k]
  BY CounterEffect
<1>2. /\ \A S \in SUBSET claims :
           IsFiniteSet(S) /\ Total(Amounts', S) = Total(Amounts, S) /\ Total(Amounts, S) \in Int
      /\ \A S \in SUBSET corrections :
           IsFiniteSet(S) /\ Total(Gases', S) = Total(Gases, S) /\ Total(Gases, S) \in Int
  BY OldTotals DEF AccountsInv
<1> SUFFICES ASSUME NEW key \in DOMAIN counters', counters'[key].expires # None
             PROVE  counters'[key].value =
                      Total(Amounts', ClaimsIn(key, counters[key].expires)')
                        - Total(Gases', CorrectionsIn(key, counters[key].expires)')
  BY DEF AccountInv
<1>3. PICK e : e = counters'[key].expires
  OBVIOUS
<1>4. /\ ClaimsIn(key, counters[key].expires)' = ClaimsIn(key, e)'
      /\ CorrectionsIn(key, counters[key].expires)' = CorrectionsIn(key, e)
      /\ ClaimsIn(key, e) \in SUBSET claims
      /\ CorrectionsIn(key, e) \in SUBSET corrections
  BY <1>3 DEF ClaimsIn, CorrectionsIn
<1>5. CASE key # c.key
  <2>1. ClaimsIn(key, e)' = ClaimsIn(key, e)
    BY <1>5 DEF ClaimsIn
  <2>2. key \in DOMAIN counters /\ counters'[key] = counters[key]
    BY <1>1, <1>5
  <2>3. counters[key].value = Total(Amounts, ClaimsIn(key, e)) - Total(Gases, CorrectionsIn(key, e))
    BY <1>3, <2>2 DEF AccountsInv, AccountInv
  <2> QED
    BY <1>2, <1>4, <2>1, <2>2, <2>3
<1>6. CASE key = c.key
  <2>1. /\ counters'[key].value = ValueOf(key) + amount
        /\ ValueOf(key) = Total(Amounts, ClaimsIn(key, e)) - Total(Gases, CorrectionsIn(key, e))
    BY <1>3, <1>6, WindowBefore DEF TypedInv
  <2> DEFINE before == ClaimsIn(key, e)
  <2>2. ClaimsIn(key, e)' = before \cup {c} /\ c \notin before
    BY <1>3, <1>6 DEF ClaimsIn
  <2>3. Amounts'[c] = amount
    BY DEF Amounts
  <2>4. \A d \in claims : Amounts'[d] \in Int
    <3> TAKE d \in claims
    <3>1. TxOf(d.request) \in Transactions /\ AsI64(TxOf(d.request).budget) \in Int
      BY ClaimBudgets DEF AccountsInv
    <3>2. TxOf(d.request)' = TxOf(d.request)
      BY <3>1 DEF TransactionsStay, AccountsInv, HistoryInv, ClaimTyped
    <3> QED
      BY <3>1, <3>2 DEF Amounts
  <2>5. IsFiniteSet(before) /\ before \subseteq claims
    BY <1>2, <1>4
  <2>6. \A d \in before \cup {c} : Amounts'[d] \in Int
    BY <2>3, <2>4, <2>5
  <2> HIDE DEF before
  <2>7. Total(Amounts', before \cup {c}) = Total(Amounts', before) + Amounts'[c]
    BY <2>2, <2>5, <2>6, TotalAdd
  <2>8. /\ Total(Amounts', before) = Total(Amounts, before)
        /\ Total(Amounts, before) \in Int
        /\ Total(Gases', CorrectionsIn(key, e)) = Total(Gases, CorrectionsIn(key, e))
        /\ Total(Gases, CorrectionsIn(key, e)) \in Int
    BY <1>2, <1>4, <2>5
  <2>9. Total(Amounts', ClaimsIn(key, counters[key].expires)') = Total(Amounts, before) + amount
    BY <1>4, <2>2, <2>3, <2>7, <2>8, Zenon
  <2>10. Total(Gases', CorrectionsIn(key, counters[key].expires)')
           = Total(Gases, CorrectionsIn(key, e))
    BY <1>4, <2>8, Zenon
  <2>11. ValueOf(key) = Total(Amounts, before) - Total(Gases, CorrectionsIn(key, e))
    BY <2>1 DEF before
  <2> QED
    BY <2>1, <2>8, <2>9, <2>10, <2>11
<1> QED
  BY <1>5, <1>6

LEMMA AccountOfCorrection ==
  ASSUME IInv, TypedInv, AccountsInv, TransactionsStay,
         NEW x, x \notin corrections, corrections' = corrections \cup {x}, claims' = claims,
         NEW window \in Nat \ {0}, x.gas \in Int,
         UpdateAggr(x.key, window, -x.gas), x.window = counters'[x.key].expires
  PROVE  AccountInv'
<1>1. /\ DOMAIN counters' = DOMAIN counters \cup {x.key}
      /\ \A k \in DOMAIN counters \ {x.key} : counters'[k] = counters[k]
  BY CounterEffect
<1>2. /\ \A S \in SUBSET claims :
           IsFiniteSet(S) /\ Total(Amounts', S) = Total(Amounts, S) /\ Total(Amounts, S) \in Int
      /\ \A S \in SUBSET corrections :
           IsFiniteSet(S) /\ Total(Gases', S) = Total(Gases, S) /\ Total(Gases, S) \in Int
  BY OldTotals DEF AccountsInv
<1> SUFFICES ASSUME NEW key \in DOMAIN counters', counters'[key].expires # None
             PROVE  counters'[key].value =
                      Total(Amounts', ClaimsIn(key, counters[key].expires)')
                        - Total(Gases', CorrectionsIn(key, counters[key].expires)')
  BY DEF AccountInv
<1>3. PICK e : e = counters'[key].expires
  OBVIOUS
<1>4. /\ ClaimsIn(key, counters[key].expires)' = ClaimsIn(key, e)
      /\ CorrectionsIn(key, counters[key].expires)' = CorrectionsIn(key, e)'
      /\ ClaimsIn(key, e) \in SUBSET claims
      /\ CorrectionsIn(key, e) \in SUBSET corrections
  BY <1>3 DEF ClaimsIn, CorrectionsIn
<1>5. CASE key # x.key
  <2>1. CorrectionsIn(key, e)' = CorrectionsIn(key, e)
    BY <1>5 DEF CorrectionsIn
  <2>2. key \in DOMAIN counters /\ counters'[key] = counters[key]
    BY <1>1, <1>5
  <2>3. counters[key].value = Total(Amounts, ClaimsIn(key, e)) - Total(Gases, CorrectionsIn(key, e))
    BY <1>3, <2>2 DEF AccountsInv, AccountInv
  <2> QED
    BY <1>2, <1>4, <2>1, <2>2, <2>3
<1>6. CASE key = x.key
  <2>1. /\ counters'[key].value = ValueOf(key) + -x.gas
        /\ ValueOf(key) = Total(Amounts, ClaimsIn(key, e)) - Total(Gases, CorrectionsIn(key, e))
    <3>1. -x.gas \in Int
      OBVIOUS
    <3> QED
      BY <1>3, <1>6, <3>1, WindowBefore DEF TypedInv
  <2> DEFINE before == CorrectionsIn(key, e)
  <2>2. CorrectionsIn(key, e)' = before \cup {x} /\ x \notin before
    BY <1>3, <1>6 DEF CorrectionsIn
  <2>3. \A k \in corrections \cup {x} : Gases'[k] = k.gas /\ Gases'[k] \in Int
    BY DEF Gases, AccountsInv, HistoryInv, CorrectionTyped
  <2>5. IsFiniteSet(before) /\ before \subseteq corrections
    BY <1>2, <1>4
  <2>6. \A k \in before \cup {x} : Gases'[k] \in Int
    BY <2>3, <2>5
  <2> HIDE DEF before
  <2>7. Total(Gases', before \cup {x}) = Total(Gases', before) + Gases'[x]
    BY <2>2, <2>5, <2>6, TotalAdd
  <2>8. /\ Total(Gases', before) = Total(Gases, before)
        /\ Total(Gases, before) \in Int
        /\ Total(Amounts', ClaimsIn(key, e)) = Total(Amounts, ClaimsIn(key, e))
        /\ Total(Amounts, ClaimsIn(key, e)) \in Int
    BY <1>2, <1>4, <2>5
  <2>9. Total(Gases', CorrectionsIn(key, counters[key].expires)') = Total(Gases, before) + x.gas
    BY <1>4, <2>2, <2>3, <2>7, <2>8, Zenon
  <2>10. Total(Amounts', ClaimsIn(key, counters[key].expires)')
           = Total(Amounts, ClaimsIn(key, e))
    BY <1>4, <2>8, Zenon
  <2>11. ValueOf(key) = Total(Amounts, ClaimsIn(key, e)) - Total(Gases, before)
    BY <2>1 DEF before
  <2> QED
    BY <2>1, <2>8, <2>9, <2>10, <2>11
<1> QED
  BY <1>5, <1>6

-----------------------------------------------------------------------------
(* A request goes through the rules in their order, and once. *)
RuleMoves(q) ==
  /\ request[q].pc # "new" =>
       /\ request'[q].pc # "new"
       /\ request'[q].pc = "check" =>
            \/ request[q].pc = "check" /\ request'[q].rule = request[q].rule
            \/ /\ request[q].pc \in {"record", "action"}
               /\ request'[q].rule = request[q].rule + 1
       /\ request'[q].pc \in {"record", "action"} =>
            \/ /\ request[q].pc = "check"
               /\ request'[q].rule \in Nat /\ request'[q].rule >= request[q].rule
            \/ /\ request[q].pc \in {"record", "action"}
               /\ request'[q].rule = request[q].rule
  /\ request[q].pc = "done" => request'[q] = request[q]

LEMMA SameRuleMoves ==
  ASSUME TypedInv, NEW q \in Requests, request'[q] = request[q]
  PROVE  RuleMoves(q)
BY DEF RuleMoves, TypedInv, RequestTyped

LEMMA StepsMove ==
  ASSUME IInv, TypedInv, [Next]_vars
  PROVE  \A q \in Requests : RuleMoves(q)
<1>1. ASSUME NEW r \in Requests, Others(r), RuleMoves(r)
      PROVE  \A q \in Requests : RuleMoves(q)
  BY <1>1, SameRuleMoves DEF Others
<1>2. ASSUME request' = request
      PROVE  \A q \in Requests : RuleMoves(q)
  BY <1>2, SameRuleMoves
<1>3. ASSUME NEW r \in Requests, Arrive(r)
      PROVE  \A q \in Requests : RuleMoves(q)
  BY <1>1, <1>3, ArriveEffect DEF IInv, RuleMoves
<1>4. ASSUME NEW r \in Requests, RequestStep(r)
      PROVE  \A q \in Requests : RuleMoves(q)
  <2>1. CASE DefaultPolicy(r) \/ ExecuteOk(r) \/ ExecuteErr(r)
             \/ ConfirmTake(r) \/ ConfirmUpdate(r)
    <3>1. /\ Others(r) /\ request[r].pc \in {"check", "execute", "confirm", "update"}
          /\ request'[r].pc \in {"execute", "confirm", "update", "done"}
      BY <2>1, DefaultPolicyEffect, ExecuteEffect, ConfirmTakeEffect,
         ConfirmUpdateEffect DEF IInv
    <3> QED
      BY <1>1, <3>1 DEF RuleMoves
  <2>2. CASE EvaluateRule(r)
    <3>1. /\ Others(r) /\ request[r].pc = "check"
          /\ NextRule(r) \in Nat /\ NextRule(r) >= request[r].rule
      BY <2>2, EvaluateRuleEffect, NextRuleIsFirst DEF IInv
    <3>2. \/ request'[r].pc = "confirm"
          \/ request'[r].pc \in {"record", "action"} /\ request'[r].rule = NextRule(r)
      BY <2>2, EvaluateRuleEffect
         DEF IInv, EvaluationRejects, EvaluationPasses, EvaluationCounts, RejectedTo
    <3> QED
      BY <1>1, <3>1, <3>2 DEF RuleMoves
  <2>3. CASE RecordClaim(r) \/ TakeAction(r)
    <3>1. /\ Others(r) /\ request[r].pc \in {"record", "action"}
          /\ \/ request'[r].pc = "action" /\ request'[r].rule = request[r].rule
             \/ request'[r].pc = "check" /\ request'[r].rule = request[r].rule + 1
             \/ request'[r].pc \in {"execute", "confirm"}
      BY <2>3, RecordClaimEffect, TakeActionEffect DEF IInv, Keeps, RejectedTo
    <3> QED
      BY <1>1, <3>1 DEF RuleMoves
  <2> QED
    BY <1>4, <2>1, <2>2, <2>3 DEF RequestStep
<1>5. CASE ReloadBegin \/ ReloadInitialize \/ TimePasses \/ UNCHANGED vars
  BY <1>2, <1>5 DEF ReloadBegin, ReloadInitialize, TimePasses, vars
<1>6. CASE Crash
  <2> TAKE q \in Requests
  <2>1. CASE request'[q] = request[q]
    BY <2>1, SameRuleMoves
  <2>2. CASE request[q].pc \notin {"new", "done"} /\ request'[q].pc = "gone"
    BY <2>2 DEF RuleMoves
  <2> QED
    BY <1>6, <2>1, <2>2, CrashEffect DEF IInv
<1> QED
  BY <1>3, <1>4, <1>5, <1>6 DEF Next

(* What is in the histories stays there as it is. *)
LEMMA HistoryStaysTyped ==
  ASSUME TypedInv, HistoryInv, TransactionsStay, \A q \in Requests : RuleMoves(q)
  PROVE  /\ \A c \in claims : ClaimTyped(c)'
         /\ \A k \in corrections : CorrectionTyped(k)'
<1>1. ASSUME NEW c \in claims PROVE ClaimTyped(c)'
  <2>0. PICK q \in Requests : q = c.request
    BY DEF HistoryInv, ClaimTyped
  <2>1. ClaimTyped(c) /\ RuleMoves(q) /\ request[q].rule \in Nat /\ c.rule \in Nat
    BY <2>0 DEF HistoryInv, ClaimTyped, TypedInv, RequestTyped
  <2>2. /\ request[q].pc # "new"
        /\ request[q].pc = "check" => c.rule < request[q].rule
        /\ request[q].pc \in {"record", "action"} => c.rule <= request[q].rule
    BY <2>0, <2>1 DEF ClaimTyped
  <2>3. request'[q].pc # "new"
    BY <2>1, <2>2 DEF RuleMoves
  <2>4. ASSUME request'[q].pc = "check" PROVE c.rule < request'[q].rule
    BY <2>1, <2>2, <2>4 DEF RuleMoves
  <2>5. ASSUME request'[q].pc \in {"record", "action"} PROVE c.rule <= request'[q].rule
    <3>1. CASE /\ request[q].pc = "check"
               /\ request'[q].rule \in Nat /\ request'[q].rule >= request[q].rule
      BY <2>1, <2>2, <3>1
    <3>2. CASE request[q].pc \in {"record", "action"} /\ request'[q].rule = request[q].rule
      BY <2>1, <2>2, <3>2
    <3> QED
      BY <2>1, <2>2, <2>5, <3>1, <3>2 DEF RuleMoves
  <2> QED
    BY <2>0, <2>1, <2>3, <2>4, <2>5 DEF ClaimTyped
<1>2. ASSUME NEW k \in corrections PROVE CorrectionTyped(k)'
  <2>1. CorrectionTyped(k) /\ RuleMoves(k.by)
    BY DEF HistoryInv, CorrectionTyped
  <2> QED
    BY <2>1 DEF CorrectionTyped, TransactionsStay, RuleMoves
<1> QED
  BY <1>1, <1>2

(* The step that counts a budget, and the one that takes gas back. *)
LEMMA CountingStep ==
  ASSUME IInv, TypedInv, AccountsInv, NEW r \in Requests, EvaluateRule(r),
         NEW total, EvaluationCounts(r, total), TransactionsStay,
         \A q \in Requests : RuleMoves(q)
  PROVE  /\ AccountsInv'
         /\ \E c : /\ c \notin claims /\ claims' = claims \cup {c}
                   /\ c.request = r /\ c.total = total
                   /\ c.key = NextKey(r) /\ c.window = counters'[c.key].expires
                   /\ c.window # None => total = counters'[c.key].value
<1>1. PICK c : c = Claim(r, NextRule(r), NextKey(r), total)
  OBVIOUS
<1>2. PICK window : window = NextLimited(r).gasUsage.window
  OBVIOUS
<1>3. PICK budget : budget = AsI64(TxOf(r).budget)
  OBVIOUS
<1>4. /\ c.request = r /\ c.rule = NextRule(r) /\ c.key = NextKey(r) /\ c.total = total
      /\ c.window = counters'[c.key].expires
  BY <1>1 DEF Claim
<1>5. /\ request[r].pc = "check" /\ Applicable(r) # {}
      /\ Others(r) /\ Keeps(r, {"tx"})
      /\ UNCHANGED <<now, corrections>>
  BY EvaluateRuleEffect DEF IInv, Keeps
<1>6. /\ NextLimited(r).gasUsage # None /\ claims' = claims \cup {c}
      /\ UpdateAggr(c.key, window, budget) /\ total \in Totals(c.key, budget)
      /\ \/ request'[r].pc = "record" /\ request'[r].rule = NextRule(r)
         \/ request'[r].pc = "confirm"
  BY <1>1, <1>2, <1>3, <1>4 DEF EvaluationCounts, RejectedTo
<1>7. /\ window \in Nat \ {0} /\ budget \in Int /\ TxOf(r)' = TxOf(r)
      /\ NextRule(r) \in Nat /\ NextRule(r) >= request[r].rule
  BY <1>2, <1>3, <1>5, <1>6, NextRuleIsFirst, CheckedBudget DEF Keeps, TxOf
<1>8. /\ total \in MinI64 .. MaxI64
      /\ c.window = None => total \in {MinI64, MaxI64}
      /\ c.window # None => total = counters'[c.key].value
      /\ c.window \in Nat \cup {None}
  BY <1>4, <1>6, <1>7, StuckTotals DEF TypedInv
<1>9. c \notin claims
  <2> SUFFICES ASSUME c \in claims PROVE FALSE
    OBVIOUS
  <2>1. ClaimTyped(c) /\ request[r].rule \in Nat
    BY DEF AccountsInv, HistoryInv, TypedInv, RequestTyped
  <2> QED
    BY <1>4, <1>5, <1>7, <2>1 DEF ClaimTyped
<1>10. HistoryInv'
  <2>1. IsFiniteSet(claims') /\ IsFiniteSet(corrections')
    BY <1>5, <1>6, FS_AddElement DEF AccountsInv, HistoryInv
  <2>2. /\ \A d \in claims : ClaimTyped(d)'
        /\ \A k \in corrections : CorrectionTyped(k)'
    BY HistoryStaysTyped DEF AccountsInv
  <2>3. ClaimTyped(c)'
    <3>1. Configured(c.key.rule.gasUsage)
      BY <1>4, <1>5, <1>6, LimitsAreConfigured
    <3>2. c.request \in Requests /\ request'[c.request].pc # "new" /\ c.rule \in Nat
      BY <1>4, <1>6, <1>7
    <3>3. /\ request'[c.request].pc = "check" => c.rule < request'[c.request].rule
          /\ request'[c.request].pc \in {"record", "action"} =>
               c.rule <= request'[c.request].rule
      BY <1>4, <1>6, <1>7
    <3> QED
      BY <1>4, <1>8, <3>1, <3>2, <3>3 DEF ClaimTyped
  <2> QED
    BY <1>5, <1>6, <2>1, <2>2, <2>3 DEF AccountsInv, HistoryInv
<1>11. FreshInv'
  BY <1>4, <1>5, <1>6, <1>7, <1>8, FreshStays DEF TypedInv, AccountsInv
<1>12. AccountInv'
  BY <1>3, <1>4, <1>5, <1>6, <1>7, <1>9, AccountOfClaim
<1> QED
  BY <1>4, <1>6, <1>8, <1>9, <1>10, <1>11, <1>12 DEF AccountsInv

LEMMA CorrectingStep ==
  ASSUME IInv, TypedInv, AccountsInv, NEW r \in Requests, ConfirmUpdate(r),
         UpdateAggr(request[r].entry.key, request[r].entry.window, -TakenBack(r)),
         corrections' = corrections \cup {Correction(r)}, TransactionsStay,
         \A q \in Requests : RuleMoves(q)
  PROVE  AccountsInv' /\ Correction(r) \notin corrections
<1>1. PICK x : x = Correction(r)
  OBVIOUS
<1>2. PICK p : p = request[r].entry
  OBVIOUS
<1>3. /\ x.by = r /\ x.of = p.request /\ x.key = p.key /\ x.gas = TakenBack(r)
      /\ x.window = counters'[x.key].expires
  BY <1>1, <1>2 DEF Correction
<1>4. /\ request[r].pc = "update" /\ request'[r].pc = "done"
      /\ UNCHANGED <<now, claims>>
  BY ConfirmUpdateEffect DEF IInv
<1>5. /\ x.gas \in Int /\ p.window \in Nat \ {0}
      /\ p.request \in Requests /\ TxOf(p.request) \in Transactions
  BY <1>2, <1>3, <1>4, ExcessIsNatural
<1>6. UpdateAggr(x.key, p.window, -x.gas) /\ corrections' = corrections \cup {x}
  BY <1>1, <1>2, <1>3
<1>7. x.window \in Nat \cup {None}
  <2>1. PICK amount \in Int : amount = -x.gas
    BY <1>5
  <2>2. \E total : total \in Totals(x.key, amount)
    BY DEF Totals
  <2>3. UpdateAggr(x.key, p.window, amount)
    BY <1>6, <2>1
  <2> QED
    BY <1>3, <1>5, <2>2, <2>3, StuckTotals DEF TypedInv
<1>8. \A k \in corrections : k.by # r
  BY <1>4 DEF AccountsInv, HistoryInv, CorrectionTyped
<1>9. HistoryInv'
  <2>1. IsFiniteSet(claims') /\ IsFiniteSet(corrections')
    BY <1>4, <1>6, FS_AddElement DEF AccountsInv, HistoryInv
  <2>2. /\ \A d \in claims : ClaimTyped(d)'
        /\ \A k \in corrections : CorrectionTyped(k)'
    BY HistoryStaysTyped DEF AccountsInv
  <2>3. CorrectionTyped(x)'
    BY <1>3, <1>4, <1>5, <1>7 DEF CorrectionTyped, TransactionsStay
  <2>4. \A k, l \in corrections' : k.by = l.by => k = l
    BY <1>3, <1>6, <1>8 DEF AccountsInv, HistoryInv
  <2> QED
    BY <1>4, <1>6, <2>1, <2>2, <2>3, <2>4 DEF HistoryInv
<1>10. FreshInv'
  <2>1. PICK amount \in Int : amount = -x.gas
    BY <1>5
  <2>2. UpdateAggr(x.key, p.window, amount)
    BY <1>6, <2>1
  <2> QED
    BY <1>3, <1>4, <1>5, <1>6, <1>7, <2>2, FreshStays DEF TypedInv, AccountsInv
<1>11. AccountInv'
  BY <1>3, <1>4, <1>5, <1>6, <1>8, AccountOfCorrection
<1> QED
  BY <1>1, <1>3, <1>8, <1>9, <1>10, <1>11 DEF AccountsInv

(* A step that counts nothing and takes nothing back. *)
LEMMA AccountsStay ==
  ASSUME IInv, TypedInv, AccountsInv, TransactionsStay,
         \A q \in Requests : RuleMoves(q), UNCHANGED <<counters, now, claims, corrections>>
  PROVE  AccountsInv'
<1>1. HistoryInv'
  BY HistoryStaysTyped DEF AccountsInv, HistoryInv
<1>2. FreshInv'
  BY DEF AccountsInv, FreshInv
<1>3. /\ \A S \in SUBSET claims : Total(Amounts', S) = Total(Amounts, S)
      /\ \A S \in SUBSET corrections : Total(Gases', S) = Total(Gases, S)
  BY OldTotals DEF AccountsInv
<1>4. AccountInv'
  <2> SUFFICES ASSUME NEW key \in DOMAIN counters, counters[key].expires # None
               PROVE  counters[key].value =
                        Total(Amounts', ClaimsIn(key, counters[key].expires))
                          - Total(Gases', CorrectionsIn(key, counters[key].expires))
    BY DEF AccountInv, ClaimsIn, CorrectionsIn
  <2>1. /\ ClaimsIn(key, counters[key].expires) \in SUBSET claims
        /\ CorrectionsIn(key, counters[key].expires) \in SUBSET corrections
    BY DEF ClaimsIn, CorrectionsIn
  <2> QED
    BY <1>3, <2>1 DEF AccountsInv, AccountInv
<1> QED
  BY <1>1, <1>2, <1>4 DEF AccountsInv

(* A counter whose time is over disappears with its window. *)
LEMMA TimeKeepsAccounts ==
  ASSUME IInv, TypedInv, AccountsInv, TransactionsStay,
         \A q \in Requests : RuleMoves(q), TimePasses
  PROVE  AccountsInv'
<1>1. UNCHANGED <<claims, corrections, request>> /\ now' = now + 1 /\ now \in Nat
  BY DEF TimePasses, historyVars, TypedInv, CountersTyped
<1>2. /\ \A k \in DOMAIN counters' : k \in DOMAIN counters /\ counters'[k] = counters[k]
      /\ \A k \in DOMAIN counters \ DOMAIN counters' :
           counters[k].expires # None /\ ~(now' < counters[k].expires)
  BY DEF TimePasses
<1>3. HistoryInv'
  BY <1>1, HistoryStaysTyped DEF AccountsInv, HistoryInv
<1>4. FreshInv'
  <2> SUFFICES ASSUME NEW c \in claims \cup corrections
               PROVE  IF c.window = None
                      THEN c.key \in DOMAIN counters' /\ counters'[c.key].expires = None
                      ELSE IF c.key \in DOMAIN counters'
                      THEN counters'[c.key].expires = None
                             \/ c.window <= counters'[c.key].expires
                      ELSE c.window <= now'
    BY <1>1 DEF FreshInv
  <2>1. c.window \in Nat \cup {None}
    BY DEF AccountsInv, HistoryInv, ClaimTyped, CorrectionTyped
  <2>2. IF c.window = None
        THEN c.key \in DOMAIN counters /\ counters[c.key].expires = None
        ELSE IF c.key \in DOMAIN counters
        THEN counters[c.key].expires = None \/ c.window <= counters[c.key].expires
        ELSE c.window <= now
    BY DEF AccountsInv, FreshInv
  <2>3. CASE c.key \in DOMAIN counters'
    BY <1>2, <2>2, <2>3
  <2>4. CASE c.key \in DOMAIN counters \ DOMAIN counters'
    <3>1. /\ counters[c.key].expires # None /\ ~(now' < counters[c.key].expires)
          /\ c.window # None /\ c.window \in Nat
          /\ c.window <= counters[c.key].expires
      BY <1>2, <2>1, <2>2, <2>4
    <3>2. counters[c.key].expires \in Nat
      BY <2>4, <3>1 DEF TypedInv, CountersTyped
    <3> QED
      BY <1>1, <2>4, <3>1, <3>2
  <2>5. CASE c.key \notin DOMAIN counters
    <3>1. c.window \in Nat /\ c.window <= now
      BY <2>1, <2>2, <2>5
    <3> QED
      BY <1>1, <1>2, <2>2, <2>5, <3>1
  <2> QED
    BY <2>3, <2>4, <2>5
<1>5. /\ \A S \in SUBSET claims : Total(Amounts', S) = Total(Amounts, S)
      /\ \A S \in SUBSET corrections : Total(Gases', S) = Total(Gases, S)
  BY <1>1, OldTotals DEF AccountsInv
<1>6. AccountInv'
  <2> SUFFICES ASSUME NEW key \in DOMAIN counters', counters'[key].expires # None
               PROVE  counters'[key].value =
                        Total(Amounts', ClaimsIn(key, counters'[key].expires))
                          - Total(Gases', CorrectionsIn(key, counters'[key].expires))
    BY <1>1 DEF AccountInv, ClaimsIn, CorrectionsIn
  <2>1. key \in DOMAIN counters /\ counters'[key] = counters[key]
    BY <1>2
  <2>2. /\ ClaimsIn(key, counters[key].expires) \in SUBSET claims
        /\ CorrectionsIn(key, counters[key].expires) \in SUBSET corrections
    BY DEF ClaimsIn, CorrectionsIn
  <2> QED
    BY <1>5, <2>1, <2>2 DEF AccountsInv, AccountInv
<1> QED
  BY <1>3, <1>4, <1>6 DEF AccountsInv

LEMMA InitImpliesAccounts ==
  ASSUME Init
  PROVE  AccountsInv
<1>1. claims = {} /\ corrections = {} /\ DOMAIN counters = {}
  BY DEF Init
<1> QED
  BY <1>1, FS_EmptySet DEF AccountsInv, HistoryInv, FreshInv, AccountInv

LEMMA NextPreservesAccounts ==
  ASSUME IInv, TypedInv, AccountsInv, [Next]_vars
  PROVE  AccountsInv'
<1>1. TransactionsStay /\ \A q \in Requests : RuleMoves(q)
  BY StepsKeep, StepsMove
<1>2. CASE UNCHANGED <<counters, now, claims, corrections>>
  BY <1>1, <1>2, AccountsStay
<1>3. CASE TimePasses
  BY <1>1, <1>3, TimeKeepsAccounts
<1>4. ASSUME NEW r \in Requests, RequestStep(r),
             ~(UNCHANGED <<counters, now, claims, corrections>>)
      PROVE  AccountsInv'
  <2>1. EvaluateRule(r) \/ ConfirmUpdate(r)
    BY <1>4, DefaultPolicyEffect, RecordClaimEffect, TakeActionEffect, ExecuteEffect,
       ConfirmTakeEffect DEF IInv, RequestStep, historyVars
  <2>2. CASE EvaluateRule(r)
    <3>1. PICK total : EvaluationCounts(r, total)
      BY <1>4, <2>2, EvaluateRuleEffect DEF IInv, EvaluationRejects, EvaluationPasses
    <3> QED
      BY <1>1, <2>2, <3>1, CountingStep
  <2>3. CASE ConfirmUpdate(r)
    <3>1. /\ UpdateAggr(request[r].entry.key, request[r].entry.window, -TakenBack(r))
          /\ corrections' = corrections \cup {Correction(r)}
      BY <1>4, <2>3, ConfirmUpdateEffect DEF IInv
    <3> QED
      BY <1>1, <2>3, <3>1, CorrectingStep
  <2> QED
    BY <2>1, <2>2, <2>3
<1>5. ASSUME NEW r \in Requests, Arrive(r)
      PROVE  UNCHANGED <<counters, now, claims, corrections>>
  BY <1>5, ArriveEffect DEF IInv, historyVars
<1>6. CASE ReloadBegin \/ ReloadInitialize \/ Crash \/ UNCHANGED vars
  BY <1>2, <1>6 DEF ReloadBegin, ReloadInitialize, Crash, vars, historyVars
<1> QED
  BY <1>2, <1>3, <1>4, <1>5, <1>6 DEF Next

-----------------------------------------------------------------------------
(* What a request has cost, and what the ones of one window have. *)
Gain(k) == IF k.gas > 0 THEN k.gas ELSE 0

Off(c) ==
  LET amount == AsI64(TxOf(c.request).budget) IN IF amount < 0 THEN -amount ELSE 0

(* The budget of a request, where it counts as positive. *)
Counted(r) == IF Affordable(TxOf(r)) THEN TxOf(r).budget ELSE 0

SpendingInv ==
  /\ \A r \in Requests :
       /\ request[r].pc \in Checking \cup {"new", "execute"} =>
            request[r].gas = None /\ request[r].spent = 0
       /\ request[r].gas # None => /\ Affordable(TxOf(r))
                                   /\ request[r].spent \in {0, request[r].gas}
       /\ request[r].spent # 0 => Affordable(TxOf(r))
  /\ \A k \in corrections :
       Regular(k) => Gain(k) <= Counted(k.of) - CostOf(k.of)

RegularIn(key, window) == {k \in CorrectionsIn(key, window) : Regular(k)}
IrregularIn(key, window) == {k \in CorrectionsIn(key, window) : ~Regular(k)}

(* What a request has taken back of a claim of its own, and what the claim may
   still cost. *)
Returning(c) ==
  {k \in corrections :
     Regular(k) /\ k.by = c.request /\ k.key = c.key /\ k.window = c.window}

Returns ==
  [c \in claims |->
     IF Returning(c) = {} THEN 0 ELSE Gain(CHOOSE k \in Returning(c) : TRUE)]

Budgets == [c \in claims |-> Counted(c.request)]
Offs == [c \in claims |-> Off(c)]
Gains == [k \in corrections |-> Gain(k)]

Potentials == [c \in claims |-> Budgets[c] - Returns[c]]

Spents == [c \in claims |-> CostOf(c.request)]

LetThroughIn(key, window) == {c \in ClaimsIn(key, window) : LetThrough(c)}

CeilingOf(key) == Ceiling(key.rule.gasUsage.value)

BoundInv ==
  \A c \in claims : LetThrough(c) =>
    Total(Potentials, LetThroughIn(c.key, c.window))
      <= CeilingOf(c.key) + Total(Gains, IrregularIn(c.key, c.window))
           + Total(Offs, ClaimsIn(c.key, c.window))

(* A limit of 2^63 - 1 or more lets the number of a counter through that is
   stuck. *)
LimitsFit ==
  \A config \in Configs : \A i \in DOMAIN config.rules :
    config.rules[i].gasUsage # None => Ceiling(config.rules[i].gasUsage.value) < MaxI64

LEMMA LimitFits ==
  ASSUME LimitsFit, NEW c, Configured(c.key.rule.gasUsage)
  PROVE  CeilingOf(c.key) \in Int /\ CeilingOf(c.key) < MaxI64
<1>1. PICK config \in Configs : \E i \in DOMAIN config.rules :
        /\ c.key.rule.gasUsage = config.rules[i].gasUsage
        /\ config.rules[i].gasUsage # None
  BY DEF Configured
<1>2. PICK i \in DOMAIN config.rules :
        /\ c.key.rule.gasUsage = config.rules[i].gasUsage
        /\ config.rules[i].gasUsage # None
  BY <1>1
<1>3. config.rules[i] \in AccessRule
  BY <1>2, ControllerAssumption
<1>4. c.key.rule.gasUsage.value.number \in Nat
  BY <1>2, <1>3 DEF AccessRule, ValueAggregate, ValueNumber
<1> QED
  BY <1>2, <1>4 DEF LimitsFit, CeilingOf, Ceiling

(* A total that is read as a number below 2^63 - 1 is that number. *)
LEMMA SmallTotals ==
  ASSUME NEW i \in MinI64 .. MaxI64, NEW n \in Int, n < MaxI64, AsU64(i) <= n
  PROVE  i >= 0 /\ i <= n /\ i < MaxI64
<1>1. MaxI64 \in Nat /\ MaxI64 > 0 /\ MinI64 = -MaxI64 - 1 /\ i \in Int
  BY ControllerAssumption DEF MinI64
<1> DEFINE m == 2 * (MaxI64 + 1)
           q == i \div m
<1>2. m \in Nat /\ m > 0 /\ q \in Int
  BY <1>1
<1>3. i = (m * q) + (i % m) /\ i % m >= 0 /\ i % m < m /\ i % m \in Int
  BY <1>1, <1>2
<1>4. CASE i >= 0
  <2>1. i % m = i
    <3>1. i < m
      BY <1>1, <1>4
    <3> HIDE DEF m
    <3> QED
      BY <1>1, <1>2, <1>4, <3>1
  <2> QED
    BY <1>1, <1>4, <2>1 DEF AsU64
<1>5. CASE i < 0
  <2>1. i + m >= 0 /\ i + m < m /\ i + m >= MaxI64
    BY <1>1, <1>5
  <2>2. i % m = (i + m) % m /\ (i + m) % m = i + m
    <3> HIDE DEF m
    <3> QED
      BY <1>1, <1>2, <2>1
  <2> QED
    BY <1>1, <2>1, <2>2 DEF AsU64
<1> QED
  BY <1>1, <1>4, <1>5

-----------------------------------------------------------------------------
(* What the history says of a claim and of its request. *)
LEMMA ClaimAmounts ==
  ASSUME IInv, TypedInv, HistoryInv, SpendingInv, NEW c \in claims
  PROVE  /\ Budgets[c] \in Nat /\ Returns[c] \in Nat
         /\ Spents[c] \in Nat
         /\ Spents[c] <= Potentials[c] /\ Potentials[c] \in Nat
         /\ Potentials[c] = Budgets[c] - Returns[c]
         /\ Amounts[c] \in Int /\ Offs[c] \in Nat
         /\ Offs[c] = Off(c)
         /\ Budgets[c] = Amounts[c] + Offs[c]
<1>1. PICK r \in Requests : r = c.request
  BY DEF HistoryInv, ClaimTyped
<1>2. /\ TxOf(r) \in Transactions /\ TxOf(r).budget \in Nat
      /\ TxOf(r).budget <= 2 * MaxI64 + 1 /\ MaxI64 \in Nat
  BY <1>1, ClaimBudgets, ControllerAssumption DEF HistoryInv, ClaimTyped
<1>3. request[r].spent \in Nat
  <2>1. request[r].spent \in GasUsed \cup {0}
    BY DEF TypedInv, RequestTyped
  <2> QED
    BY <2>1, ControllerAssumption
<1>4. /\ Spents[c] = CostOf(r) /\ Spents[c] \in Nat
      /\ Budgets[c] = Counted(r) /\ Budgets[c] \in Nat
      /\ Spents[c] <= Budgets[c]
  <2>1. request[r].spent # 0 => Affordable(TxOf(r))
    BY DEF SpendingInv
  <2> QED
    BY <1>1, <1>2, <1>3, <2>1 DEF Spents, Budgets, CostOf, Counted
<1>5. Returns[c] \in Nat /\ Spents[c] <= Budgets[c] - Returns[c]
  <2>1. CASE Returning(c) = {}
    <3>1. Returns[c] = 0
      BY <2>1 DEF Returns
    <3> QED
      BY <1>4, <3>1
  <2>2. CASE Returning(c) # {}
    <3>1. PICK k \in Returning(c) : Returns[c] = Gain(k)
      BY <2>2 DEF Returns
    <3>2. Regular(k) /\ k.by = r /\ k.of = r /\ k \in corrections
      BY <1>1, <3>1 DEF Returning, Regular
    <3>3. k.gas \in Int /\ Gain(k) <= Counted(r) - CostOf(r)
      BY <3>2 DEF SpendingInv, HistoryInv, CorrectionTyped
    <3>4. Gain(k) \in Nat
      BY <3>3 DEF Gain
    <3> QED
      BY <1>4, <3>1, <3>3, <3>4
  <2> QED
    BY <2>1, <2>2
<1>6. /\ Amounts[c] \in Int /\ Offs[c] \in Nat /\ Offs[c] = Off(c)
      /\ Budgets[c] = Amounts[c] + Offs[c]
  <2>1. PICK amount : amount = AsI64(TxOf(r).budget)
    OBVIOUS
  <2>2. /\ amount \in Int
        /\ TxOf(r).budget <= MaxI64 => amount = TxOf(r).budget
        /\ TxOf(r).budget > MaxI64 => amount < 0
    BY <1>2, <2>1, SignedNumbers
  <2>3. /\ Amounts[c] = amount /\ Offs[c] = Off(c)
        /\ Off(c) = IF amount < 0 THEN -amount ELSE 0
    BY <1>1, <2>1 DEF Amounts, Offs, Off
  <2> QED
    BY <1>2, <1>4, <2>2, <2>3 DEF Counted, Affordable
<1> QED
  BY <1>4, <1>5, <1>6 DEF Potentials

LEMMA CorrectionAmounts ==
  ASSUME HistoryInv, NEW key, NEW window
  PROVE  /\ IsFiniteSet(CorrectionsIn(key, window))
         /\ IsFiniteSet(RegularIn(key, window)) /\ IsFiniteSet(IrregularIn(key, window))
         /\ CorrectionsIn(key, window) = RegularIn(key, window) \cup IrregularIn(key, window)
         /\ RegularIn(key, window) \cap IrregularIn(key, window) = {}
         /\ \A k \in CorrectionsIn(key, window) :
              /\ Gases[k] = k.gas /\ Gases[k] \in Int
              /\ Gains[k] = Gain(k) /\ Gains[k] \in Nat /\ Gases[k] <= Gains[k]
<1>1. IsFiniteSet(CorrectionsIn(key, window))
  BY FS_Subset DEF HistoryInv, CorrectionsIn
<1>2. IsFiniteSet(RegularIn(key, window)) /\ IsFiniteSet(IrregularIn(key, window))
  BY <1>1, FS_Subset DEF RegularIn, IrregularIn
<1>3. \A k \in CorrectionsIn(key, window) :
        /\ Gases[k] = k.gas /\ Gases[k] \in Int
        /\ Gains[k] = Gain(k) /\ Gains[k] \in Nat /\ Gases[k] <= Gains[k]
  BY DEF CorrectionsIn, Gases, Gains, Gain, HistoryInv, CorrectionTyped
<1> QED
  BY <1>1, <1>2, <1>3 DEF RegularIn, IrregularIn

(* All regular corrections of a window take something back of its claims. *)
LEMMA RegularGasIsReturned ==
  ASSUME IInv, TypedInv, HistoryInv, SpendingInv, NEW key, NEW window
  PROVE  Total(Gains, RegularIn(key, window)) <= Total(Returns, ClaimsIn(key, window))
<1> DEFINE K == RegularIn(key, window)
           C == ClaimsIn(key, window)
           h == [k \in K |-> CHOOSE c \in C : c.request = k.of]
<1>1. ASSUME NEW k \in K
      PROVE  h[k] \in C /\ h[k].request = k.by /\ Returns[h[k]] = Gains[k]
  <2>1. k \in corrections /\ k.key = key /\ k.window = window /\ Regular(k)
    BY DEF RegularIn, CorrectionsIn
  <2>2. \E c \in C : c.request = k.of
    BY <2>1 DEF Regular, ClaimsIn
  <2>3. h[k] \in C /\ h[k].request = k.of /\ k.of = k.by
    BY <2>1, <2>2 DEF Regular
  <2>4. PICK c \in C : c = h[k]
    BY <2>3
  <2>5. c \in claims /\ c.key = key /\ c.window = window
    BY DEF ClaimsIn
  <2>6. Returning(c) = {k}
    BY <2>1, <2>3, <2>4, <2>5 DEF Returning, HistoryInv
  <2>7. Returns[c] = Gain(k)
    BY <2>5, <2>6 DEF Returns
  <2> QED
    BY <2>1, <2>3, <2>4, <2>7 DEF Gains
<1>2. \A k, l \in K : h[k] = h[l] => k = l
  <2>1. \A k, l \in K : k.by = l.by => k = l
    BY DEF RegularIn, CorrectionsIn, HistoryInv
  <2> QED
    BY <1>1, <2>1
<1>3. IsFiniteSet(K) /\ \A k \in K : Gains[k] \in Int
  <2>1. K \subseteq CorrectionsIn(key, window)
    BY DEF RegularIn
  <2> QED
    BY <2>1, CorrectionAmounts
<1>4. IsFiniteSet(C) /\ \A c \in C : Returns[c] \in Nat
  BY FS_Subset, ClaimAmounts DEF ClaimsIn, HistoryInv
<1> HIDE DEF K, C, h
<1>5. Total(Returns, {h[k] : k \in K}) = Total(Gains, K)
  <2>1. \A k \in K : Gains[k] \in Int /\ Returns[h[k]] = Gains[k]
    BY <1>1, <1>3
  <2> QED
    BY ONLY <1>2, <1>3, <2>1, TotalReindexed, SMTT(30)
<1>6. {h[k] : k \in K} \in SUBSET C
  BY <1>1
<1>7. Total(Returns, {h[k] : k \in K}) <= Total(Returns, C)
  BY <1>4, <1>6, TotalOfSubset
<1> QED
  BY <1>5, <1>7 DEF K, C

(* What the counter holds of a window bounds what its claims may still cost,
   but for what does not belong. *)
LEMMA CountedBoundsPotential ==
  ASSUME IInv, TypedInv, HistoryInv, SpendingInv, NEW key, NEW window
  PROVE  /\ Total(Potentials, LetThroughIn(key, window))
              <= Total(Amounts, ClaimsIn(key, window))
                   - Total(Gases, CorrectionsIn(key, window))
                   + Total(Gains, IrregularIn(key, window))
                   + Total(Offs, ClaimsIn(key, window))
         /\ Total(Potentials, LetThroughIn(key, window)) \in Int
         /\ Total(Gains, IrregularIn(key, window)) \in Nat
         /\ Total(Offs, ClaimsIn(key, window)) \in Nat
<1> DEFINE C == ClaimsIn(key, window)
           L == LetThroughIn(key, window)
           K == CorrectionsIn(key, window)
           R == RegularIn(key, window)
           I == IrregularIn(key, window)
<1>1. IsFiniteSet(C) /\ L \in SUBSET C
  BY FS_Subset DEF ClaimsIn, HistoryInv, LetThroughIn
<1>2. \A c \in C : /\ Budgets[c] \in Int /\ Returns[c] \in Int /\ Potentials[c] \in Nat
                   /\ Budgets[c] = Potentials[c] + Returns[c]
                   /\ Amounts[c] \in Int /\ Offs[c] \in Int /\ Offs[c] \in Nat
                   /\ Budgets[c] = Amounts[c] + Offs[c]
  BY ClaimAmounts DEF ClaimsIn
<1>3. /\ IsFiniteSet(R) /\ IsFiniteSet(I) /\ K = R \cup I /\ R \cap I = {}
      /\ IsFiniteSet(K)
      /\ \A k \in K : /\ Gains[k] \in Int /\ Gains[k] \in Nat
                      /\ Gases[k] \in Int /\ Gases[k] <= Gains[k]
  BY CorrectionAmounts
<1>4. Total(Gains, R) <= Total(Returns, C)
  BY RegularGasIsReturned
<1> HIDE DEF C, L, K, R, I
<1>5. Total(Potentials, L) <= Total(Potentials, C)
  BY <1>1, <1>2, TotalOfSubset
<1>6. Total(Budgets, C) = Total(Potentials, C) + Total(Returns, C)
  BY <1>1, <1>2, TotalOfSums
<1>7. Total(Budgets, C) = Total(Amounts, C) + Total(Offs, C)
  BY <1>1, <1>2, TotalOfSums
<1>8. Total(Gains, K) = Total(Gains, R) + Total(Gains, I)
  <2>1. Total(Gains, R \cup I) = Total(Gains, R) + Total(Gains, I)
    BY <1>3, TotalOfUnion
  <2> QED
    BY <1>3, <2>1
<1>9. Total(Gases, K) <= Total(Gains, K)
  BY <1>3, TotalIsMonotone
<1>10. IsFiniteSet(L) /\ \A c \in L : Potentials[c] \in Int
  BY <1>1, <1>2, FS_Subset
<1>11. /\ Total(Potentials, L) \in Int /\ Total(Potentials, C) \in Int
       /\ Total(Returns, C) \in Int /\ Total(Amounts, C) \in Int
  BY <1>1, <1>2, <1>10, TotalType
<1>12. Total(Gains, R) \in Int /\ Total(Gases, K) \in Int
  BY <1>3, TotalType
<1>13. Total(Gains, I) \in Nat
  BY <1>3, TotalIsNatural
<1>14. Total(Offs, C) \in Nat
  BY <1>1, <1>2, TotalIsNatural
<1> QED
  BY <1>4, <1>5, <1>6, <1>7, <1>8, <1>9, <1>11, <1>12, <1>13, <1>14 DEF C, L, K, R, I

(* Both, of the state that a step leads to. *)
ClaimsAreBounded ==
  /\ \A c \in claims : /\ Budgets[c] \in Nat /\ Returns[c] \in Nat
                       /\ Potentials[c] = Budgets[c] - Returns[c]
                       /\ Potentials[c] \in Nat
                       /\ Offs[c] \in Nat
  /\ \A key, window :
       /\ Total(Potentials, LetThroughIn(key, window))
            <= Total(Amounts, ClaimsIn(key, window))
                 - Total(Gases, CorrectionsIn(key, window))
                 + Total(Gains, IrregularIn(key, window))
                 + Total(Offs, ClaimsIn(key, window))
       /\ Total(Potentials, LetThroughIn(key, window)) \in Int
       /\ Total(Gains, IrregularIn(key, window)) \in Nat
       /\ Total(Offs, ClaimsIn(key, window)) \in Nat
       /\ IsFiniteSet(IrregularIn(key, window))
       /\ \A k \in IrregularIn(key, window) : Gains[k] \in Nat

LEMMA BoundsHold == IInv /\ TypedInv /\ HistoryInv /\ SpendingInv => ClaimsAreBounded
<1> SUFFICES ASSUME IInv, TypedInv, HistoryInv, SpendingInv PROVE ClaimsAreBounded
  OBVIOUS
<1>1. \A c \in claims : /\ Budgets[c] \in Nat /\ Returns[c] \in Nat
                        /\ Potentials[c] = Budgets[c] - Returns[c]
                        /\ Potentials[c] \in Nat
                        /\ Offs[c] \in Nat
  BY ClaimAmounts
<1>2. ASSUME NEW key, NEW window
      PROVE  /\ Total(Potentials, LetThroughIn(key, window))
                  <= Total(Amounts, ClaimsIn(key, window))
                       - Total(Gases, CorrectionsIn(key, window))
                       + Total(Gains, IrregularIn(key, window))
                       + Total(Offs, ClaimsIn(key, window))
             /\ Total(Potentials, LetThroughIn(key, window)) \in Int
             /\ Total(Gains, IrregularIn(key, window)) \in Nat
             /\ Total(Offs, ClaimsIn(key, window)) \in Nat
             /\ IsFiniteSet(IrregularIn(key, window))
             /\ \A k \in IrregularIn(key, window) : Gains[k] \in Nat
  <2>1. IrregularIn(key, window) \subseteq CorrectionsIn(key, window)
    BY DEF IrregularIn
  <2> QED
    BY <2>1, CountedBoundsPotential, CorrectionAmounts
<1> QED
  BY <1>1, <1>2 DEF ClaimsAreBounded

LEMMA BoundsHoldNext ==
  IInv' /\ TypedInv' /\ HistoryInv' /\ SpendingInv' => ClaimsAreBounded'
BY BoundsHold, PTL

-----------------------------------------------------------------------------
(* The histories grow: by claims of requests under way, and by corrections of
   requests that make no other. *)
HistoryGrows ==
  /\ claims \subseteq claims' /\ corrections \subseteq corrections'
  /\ \A c \in claims' \ claims :
       c.request \in Requests /\ request[c.request].pc = "check"
  /\ \A k \in corrections' \ corrections :
       k.by \in Requests /\ request[k.by].pc = "update"

LEMMA StepsGrowHistory ==
  ASSUME IInv, TypedInv, [Next]_vars
  PROVE  HistoryGrows
<1>1. CASE claims' = claims /\ corrections' = corrections
  BY <1>1 DEF HistoryGrows
<1>2. ASSUME NEW r \in Requests, RequestStep(r)
      PROVE  HistoryGrows
  <2>1. CASE EvaluateRule(r)
    <3>1. request[r].pc = "check" /\ corrections' = corrections
      BY <2>1, EvaluateRuleEffect DEF IInv
    <3>2. claims' = claims \/ \E c : c.request = r /\ claims' = claims \cup {c}
      BY <2>1, EvaluateRuleEffect
         DEF IInv, EvaluationRejects, EvaluationPasses, EvaluationCounts, Claim
    <3> QED
      BY <3>1, <3>2 DEF HistoryGrows
  <2>2. CASE ConfirmUpdate(r)
    <3>1. /\ request[r].pc = "update" /\ claims' = claims
          /\ \/ corrections' = corrections
             \/ corrections' = corrections \cup {Correction(r)}
      BY <2>2, ConfirmUpdateEffect DEF IInv
    <3>2. Correction(r).by = r
      BY DEF Correction
    <3> QED
      BY <3>1, <3>2 DEF HistoryGrows
  <2>3. CASE ~EvaluateRule(r) /\ ~ConfirmUpdate(r)
    BY <1>1, <1>2, <2>3, DefaultPolicyEffect, RecordClaimEffect, TakeActionEffect,
       ExecuteEffect, ConfirmTakeEffect DEF IInv, RequestStep, historyVars
  <2> QED
    BY <2>1, <2>2, <2>3
<1>3. ASSUME NEW r \in Requests, Arrive(r)
      PROVE  HistoryGrows
  BY <1>1, <1>3, ArriveEffect DEF IInv, historyVars
<1>4. CASE ReloadBegin \/ ReloadInitialize \/ Crash \/ TimePasses \/ UNCHANGED vars
  BY <1>1, <1>4 DEF ReloadBegin, ReloadInitialize, Crash, TimePasses, vars, historyVars
<1> QED
  BY <1>2, <1>3, <1>4 DEF Next

(* What belongs stays so: the request that has made a correction is done. *)
LEMMA RegularStays ==
  ASSUME TypedInv, HistoryInv, TransactionsStay, \A q \in Requests : RuleMoves(q),
         HistoryGrows, NEW k \in corrections
  PROVE  /\ Regular(k)' <=> Regular(k)
         /\ Regular(k) => /\ request'[k.of] = request[k.of]
                          /\ TxOf(k.of)' = TxOf(k.of)
<1>1. CASE k.by # k.of
  BY <1>1 DEF Regular
<1>2. CASE k.by = k.of
  <2>1. PICK q \in Requests : q = k.of
    BY DEF HistoryInv, CorrectionTyped
  <2>2. request[q].pc = "done" /\ TxOf(q) \in Transactions /\ RuleMoves(q)
    BY <1>2, <2>1 DEF HistoryInv, CorrectionTyped
  <2>3. request'[q] = request[q] /\ TxOf(q)' = TxOf(q)
    BY <2>2 DEF RuleMoves, TransactionsStay
  <2>4. \A c : c.request = q => (c \in claims' <=> c \in claims)
    BY <2>2 DEF HistoryGrows
  <2>5. Invertible(q)' <=> Invertible(q)
    BY <2>3 DEF Invertible
  <2> QED
    BY <1>2, <2>1, <2>3, <2>4, <2>5 DEF Regular
<1> QED
  BY <1>1, <1>2

LEMMA PotentialsFall ==
  ASSUME IInv, TypedInv, HistoryInv, SpendingInv, TransactionsStay,
         \A q \in Requests : RuleMoves(q), HistoryGrows, ClaimsAreBounded',
         NEW c \in claims
  PROVE  /\ Potentials[c] \in Int /\ Potentials'[c] \in Int
         /\ Potentials'[c] <= Potentials[c]
         /\ corrections' = corrections => Potentials'[c] = Potentials[c]
<1>1. /\ Budgets[c] \in Nat /\ Returns[c] \in Nat /\ Potentials[c] = Budgets[c] - Returns[c]
  BY ClaimAmounts
<1>2. /\ c \in claims'
      /\ Budgets'[c] \in Nat /\ Returns'[c] \in Nat
      /\ Potentials'[c] = Budgets'[c] - Returns'[c]
  BY DEF ClaimsAreBounded, HistoryGrows
<1>3. Budgets'[c] = Budgets[c]
  <2>1. TxOf(c.request) \in Transactions /\ c.request \in Requests
    BY ClaimBudgets DEF HistoryInv, ClaimTyped
  <2>2. TxOf(c.request)' = TxOf(c.request)
    BY <2>1 DEF TransactionsStay
  <2> QED
    BY <1>2, <2>2 DEF Budgets, Counted
<1>4. ASSUME corrections' = corrections \/ Returning(c) # {}
      PROVE  Returning(c)' = Returning(c)
  <2>1. ASSUME NEW k \in corrections
        PROVE  k \in Returning(c)' <=> k \in Returning(c)
    BY <2>1, RegularStays DEF Returning, HistoryGrows
  <2>2. ASSUME NEW k \in corrections' \ corrections
        PROVE  k \notin Returning(c)'
    <3>1. PICK l \in Returning(c) : TRUE
      BY <1>4
    <3>2. l.by = c.request /\ request[l.by].pc = "done"
      BY <3>1 DEF Returning, HistoryInv, CorrectionTyped
    <3>3. request[k.by].pc = "update"
      BY DEF HistoryGrows
    <3> QED
      BY <3>2, <3>3 DEF Returning
  <2>3. Returning(c) \subseteq corrections /\ Returning(c)' \subseteq corrections'
    BY DEF Returning
  <2>4. corrections \subseteq corrections'
    BY DEF HistoryGrows
  <2> QED
    BY <2>1, <2>2, <2>3, <2>4
<1>5. ASSUME corrections' = corrections \/ Returning(c) # {}
      PROVE  Returns'[c] = Returns[c]
  BY <1>2, <1>4, <1>5 DEF Returns
<1>6. Returning(c) = {} => Returns[c] = 0
  BY DEF Returns
<1> QED
  BY <1>1, <1>2, <1>3, <1>5, <1>6

(* Only a transaction that can be paid for costs something, which is settled before it
   makes its correction. *)
Spending(r) ==
  /\ request[r].pc \in Checking \cup {"new", "execute"} =>
       request[r].gas = None /\ request[r].spent = 0
  /\ request[r].gas # None => /\ Affordable(TxOf(r))
                              /\ request[r].spent \in {0, request[r].gas}
  /\ request[r].spent # 0 => Affordable(TxOf(r))

LEMMA RequestsKeepSpending ==
  ASSUME IInv, TypedInv, \A r \in Requests : Spending(r), TransactionsStay, [Next]_vars
  PROVE  \A r \in Requests : Spending(r)'
<1>1. ASSUME NEW q \in Requests, request'[q] = request[q]
      PROVE  Spending(q)'
  BY <1>1 DEF Spending, TxOf
<1>2. ASSUME NEW q \in Requests, Keeps(q, {"tx", "gas", "spent"}),
             \/ request[q].pc \in Checking \cup {"execute"}
             \/ /\ request[q].pc # "new"
                /\ request'[q].pc \notin Checking \cup {"new", "execute"}
      PROVE  Spending(q)'
  BY <1>2 DEF Spending, Keeps, TxOf, Checking
<1>3. ASSUME NEW r \in Requests, Others(r), Spending(r)'
      PROVE  \A q \in Requests : Spending(q)'
  BY <1>1, <1>3 DEF Others
<1>4. ASSUME NEW r \in Requests, Arrive(r)
      PROVE  \A q \in Requests : Spending(q)'
  <2>1. /\ Others(r) /\ Keeps(r, {"gas", "spent"}) /\ request[r].pc = "new"
        /\ request'[r].tx \in Transactions
    BY <1>4, ArriveEffect DEF IInv, Keeps
  <2>2. request'[r].gas = None /\ request'[r].spent = 0
    BY <2>1 DEF Spending, Keeps
  <2> QED
    BY <1>3, <2>1, <2>2 DEF Spending
<1>5. ASSUME NEW r \in Requests, RequestStep(r)
      PROVE  \A q \in Requests : Spending(q)'
  <2>1. CASE DefaultPolicy(r) \/ EvaluateRule(r) \/ RecordClaim(r) \/ TakeAction(r)
             \/ ConfirmTake(r) \/ ConfirmUpdate(r)
    <3>1. /\ Others(r) /\ Keeps(r, {"tx", "gas", "spent"})
          /\ \/ request[r].pc \in Checking
             \/ /\ request[r].pc \in {"confirm", "update"}
                /\ request'[r].pc \in {"update", "done"}
      BY <2>1, DefaultPolicyEffect, EvaluateRuleEffect, RecordClaimEffect,
         TakeActionEffect, ConfirmTakeEffect, ConfirmUpdateEffect
         DEF IInv, Keeps, Checking
    <3>2. Spending(r)'
      BY <1>2, <3>1 DEF Checking
    <3> QED
      BY <1>3, <3>1, <3>2
  <2>2. CASE ExecuteOk(r) \/ ExecuteErr(r)
    <3>1. /\ Others(r) /\ TxOf(r)' = TxOf(r)
          /\ request[r].pc = "execute" /\ request'[r].pc = "confirm"
          /\ \/ \E gas \in GasUsed :
                  /\ Affordable(TxOf(r)) /\ request'[r].gas = gas
                  /\ request'[r].spent = gas \/ request'[r].spent = request[r].spent
             \/ Keeps(r, {"gas", "spent"})
             \/ \E gas \in GasUsed :
                  /\ Affordable(TxOf(r))
                  /\ request'[r].spent = gas /\ Keeps(r, {"gas"})
      BY <2>2, ExecuteEffect DEF IInv, Keeps, TxOf
    <3>2. request[r].gas = None /\ request[r].spent = 0
      BY <3>1 DEF Spending
    <3>3. Spending(r)'
      BY <3>1, <3>2 DEF Spending, Keeps, Checking
    <3> QED
      BY <1>3, <3>1, <3>3
  <2> QED
    BY <1>5, <2>1, <2>2 DEF RequestStep
<1>6. CASE ReloadBegin \/ ReloadInitialize \/ TimePasses \/ UNCHANGED vars
  BY <1>1, <1>6 DEF ReloadBegin, ReloadInitialize, TimePasses, vars
<1>7. CASE Crash
  <2>1. \A q \in Requests :
          \/ request'[q] = request[q]
          \/ /\ request[q].pc # "new" /\ request'[q].pc = "gone"
             /\ Keeps(q, {"tx", "gas", "spent"})
    BY <1>7, CrashEffect DEF IInv, Keeps, Fields
  <2> QED
    BY <1>1, <1>2, <2>1 DEF Checking
<1> QED
  BY <1>4, <1>5, <1>6, <1>7 DEF Next

(* What a confirmation takes back of the request's own claim. *)
LEMMA TakenBackIs ==
  ASSUME IInv, TypedInv, NEW r \in Requests, request[r].pc = "update",
         request[r].entry.request = r, Spending(r), Invertible(r)
  PROVE  /\ TxOf(r).budget \in Nat /\ request[r].spent \in Nat
         /\ request[r].gas = None => TakenBack(r) = AsI64(TxOf(r).budget)
         /\ request[r].gas # None =>
              /\ TxOf(r).budget <= MaxI64
              /\ request[r].gas \in Nat
              /\ TakenBack(r) = IF request[r].gas > TxOf(r).budget THEN 0
                               ELSE TxOf(r).budget - request[r].gas
<1>1. RequestTyped(r)
  BY DEF TypedInv
<1>2. TxOf(r) \in Transactions
  BY <1>1 DEF RequestTyped
<1>3. TxOf(r).budget \in Nat /\ TxOf(r).budget <= 2 * MaxI64 + 1 /\ MaxI64 \in Nat
  BY <1>2, BudgetsAreIntegers, ControllerAssumption
<1>4. request[r].gas = None \/ request[r].gas \in Nat
  BY <1>1, ControllerAssumption DEF RequestTyped
<1>5. request[r].spent \in Nat
  <2>1. request[r].spent \in GasUsed \cup {0}
    BY <1>1 DEF RequestTyped
  <2> QED
    BY <2>1, ControllerAssumption
<1>6. ASSUME request[r].gas = None
      PROVE  TakenBack(r) = AsI64(TxOf(r).budget)
  BY <1>6 DEF TakenBack, Excess, Invertible
<1>7. ASSUME request[r].gas # None
      PROVE  /\ TxOf(r).budget <= MaxI64
             /\ TakenBack(r) = IF request[r].gas > TxOf(r).budget THEN 0
                              ELSE TxOf(r).budget - request[r].gas
  <2>1. TxOf(r).budget <= MaxI64 /\ request[r].gas \in Nat
    BY <1>4, <1>7 DEF Spending, Affordable
  <2>2. Excess(r) = IF request[r].gas > TxOf(r).budget THEN 0
                    ELSE TxOf(r).budget - request[r].gas
    BY <1>7 DEF Excess
  <2>3. Excess(r) \in Nat /\ Excess(r) <= MaxI64
    BY <1>3, <2>1, <2>2
  <2>4. AsI64(Excess(r)) = Excess(r) /\ AsI64(Excess(r)) # MinI64
    BY <1>3, <2>3, SignedNumbers
  <2> QED
    BY <2>1, <2>2, <2>4 DEF TakenBack
<1> QED
  BY <1>3, <1>4, <1>5, <1>6, <1>7

LEMMA GainIsBounded ==
  ASSUME IInv, TypedInv, NEW r \in Requests, request[r].pc = "update",
         request[r].entry.request = r, Spending(r), Invertible(r),
         request[r].gas = None => request[r].spent = 0
  PROVE  (IF TakenBack(r) > 0 THEN TakenBack(r) ELSE 0) <= Counted(r) - CostOf(r)
<1>1. MaxI64 \in Nat
  BY ControllerAssumption
<1>2. TxOf(r).budget <= 2 * MaxI64 + 1
  BY BudgetsAreIntegers DEF TypedInv, RequestTyped
<1>3. TxOf(r).budget \in Nat /\ request[r].spent \in Nat
  BY TakenBackIs
<1>4. CASE request[r].gas = None
  <2>1. TakenBack(r) = AsI64(TxOf(r).budget) /\ request[r].spent = 0
    BY <1>4, TakenBackIs
  <2>2. CostOf(r) = 0
    BY <1>3, <2>1 DEF CostOf
  <2> QED
    BY <1>1, <1>2, <1>3, <2>1, <2>2, SignedNumbers DEF Counted, Affordable
<1>5. CASE request[r].gas # None
  <2>1. /\ TxOf(r).budget <= MaxI64 /\ request[r].gas \in Nat
        /\ TakenBack(r) = IF request[r].gas > TxOf(r).budget THEN 0
                         ELSE TxOf(r).budget - request[r].gas
        /\ request[r].spent \in {0, request[r].gas}
    BY <1>5, TakenBackIs DEF Spending
  <2>2. Counted(r) = TxOf(r).budget
    BY <2>1 DEF Counted, Affordable
  <2> QED
    BY <1>3, <2>1, <2>2 DEF CostOf
<1> QED
  BY <1>4, <1>5

LEMMA NextPreservesSpending ==
  ASSUME IInv, TypedInv, AccountsInv, SpendingInv, [Next]_vars
  PROVE  SpendingInv'
<1>1. TransactionsStay /\ HistoryGrows /\ \A q \in Requests : RuleMoves(q)
  BY StepsKeep, StepsMove, StepsGrowHistory
<1>2. \A r \in Requests : Spending(r)
  BY DEF SpendingInv, Spending
<1>3. \A r \in Requests : Spending(r)'
  BY <1>1, <1>2, RequestsKeepSpending
<1>4. ASSUME NEW k \in corrections, Regular(k)'
      PROVE  Gain(k) <= Counted(k.of)' - CostOf(k.of)'
  <2>1. /\ Regular(k) /\ request'[k.of] = request[k.of] /\ TxOf(k.of)' = TxOf(k.of)
    BY <1>1, <1>4, RegularStays DEF AccountsInv
  <2> QED
    BY <2>1 DEF SpendingInv, Counted, CostOf
<1>5. ASSUME NEW k \in corrections' \ corrections, Regular(k)'
      PROVE  Gain(k) <= Counted(k.of)' - CostOf(k.of)'
  <2>1. PICK r \in Requests : ConfirmUpdate(r) /\ k = Correction(r)
    <3>1. \A r \in Requests : ~Arrive(r)
      BY <1>5, ArriveEffect DEF IInv, historyVars
    <3>2. ~(ReloadBegin \/ ReloadInitialize \/ Crash \/ TimePasses \/ UNCHANGED vars)
      BY <1>5 DEF ReloadBegin, ReloadInitialize, Crash, TimePasses, vars, historyVars
    <3>3. PICK r \in Requests : RequestStep(r)
      BY <3>1, <3>2 DEF Next
    <3>4. ConfirmUpdate(r)
      BY <1>5, <3>3, DefaultPolicyEffect, EvaluateRuleEffect, RecordClaimEffect,
         TakeActionEffect, ExecuteEffect, ConfirmTakeEffect DEF IInv, RequestStep, historyVars
    <3> QED
      BY <1>5, <3>4, ConfirmUpdateEffect DEF IInv
  <2>2. /\ request[r].pc = "update" /\ Keeps(r, {"tx", "gas", "spent"})
    BY <2>1, ConfirmUpdateEffect DEF IInv, Keeps
  <2>3. /\ k.by = r /\ k.of = r /\ request[r].entry.request = r /\ k.gas = TakenBack(r)
        /\ request'[r].gas = None => request'[r].spent = 0
        /\ Invertible(r)'
    BY <1>5, <2>1 DEF Regular, Correction
  <2>4. /\ TxOf(r)' = TxOf(r)
        /\ request'[r].spent = request[r].spent /\ request'[r].gas = request[r].gas
    BY <2>2 DEF Keeps, TxOf
  <2>5. Invertible(r)
    BY <2>3, <2>4 DEF Invertible
  <2>6. Gain(k) <= Counted(r) - CostOf(r)
    BY <1>2, <2>2, <2>3, <2>4, <2>5, GainIsBounded DEF Gain
  <2> QED
    BY <2>3, <2>4, <2>6 DEF Counted, CostOf
<1> QED
  BY <1>3, <1>4, <1>5 DEF SpendingInv, Spending

LEMMA NewClaims ==
  ASSUME IInv, TypedInv, AccountsInv, [Next]_vars, NEW d \in claims' \ claims
  PROVE  /\ claims' = claims \cup {d}
         /\ d.key \in DOMAIN counters' /\ d.window = counters'[d.key].expires
         /\ d.window # None => d.total = counters'[d.key].value
<1>1. PICK r \in Requests : EvaluateRule(r)
  <2>1. \A r \in Requests : ~Arrive(r)
    BY ArriveEffect DEF IInv, historyVars
  <2>2. ~(ReloadBegin \/ ReloadInitialize \/ Crash \/ TimePasses \/ UNCHANGED vars)
    BY DEF ReloadBegin, ReloadInitialize, Crash, TimePasses, vars, historyVars
  <2>3. PICK r \in Requests : RequestStep(r)
    BY <2>1, <2>2 DEF Next
  <2> QED
    BY <2>3, DefaultPolicyEffect, RecordClaimEffect, TakeActionEffect, ExecuteEffect,
       ConfirmTakeEffect, ConfirmUpdateEffect DEF IInv, RequestStep, historyVars
<1>2. PICK total : EvaluationCounts(r, total)
  BY <1>1, EvaluateRuleEffect DEF IInv, EvaluationRejects, EvaluationPasses
<1>3. TransactionsStay /\ \A q \in Requests : RuleMoves(q)
  BY StepsKeep, StepsMove
<1>4. PICK c : /\ c \notin claims /\ claims' = claims \cup {c}
               /\ c.request = r /\ c.total = total
               /\ c.key = NextKey(r) /\ c.window = counters'[c.key].expires
               /\ c.window # None => total = counters'[c.key].value
  BY <1>1, <1>2, <1>3, CountingStep
<1>5. c = d
  BY <1>4
<1>6. NextKey(r) \in DOMAIN counters'
  BY <1>2, CounterEffect DEF EvaluationCounts
<1> QED
  BY <1>4, <1>5, <1>6

LEMMA NextPreservesBound ==
  ASSUME LimitsFit, IInv, TypedInv, AccountsInv, SpendingInv, BoundInv, [Next]_vars,
         AccountsInv', ClaimsAreBounded'
  PROVE  BoundInv'
<1>1. TransactionsStay /\ HistoryGrows /\ \A q \in Requests : RuleMoves(q)
  BY StepsKeep, StepsMove, StepsGrowHistory
<1> SUFFICES ASSUME NEW c \in claims', LetThrough(c)
             PROVE  Total(Potentials', LetThroughIn(c.key, c.window)')
                      <= CeilingOf(c.key) + Total(Gains', IrregularIn(c.key, c.window)')
                           + Total(Offs', ClaimsIn(c.key, c.window)')
  BY DEF BoundInv
<1>2. PICK key : key = c.key
  OBVIOUS
<1>3. PICK w : w = c.window
  OBVIOUS
<1>4. \A d \in claims' : ClaimTyped(d)'
  BY DEF AccountsInv, HistoryInv
<1>5. CeilingOf(key) \in Int /\ CeilingOf(key) < MaxI64
  BY <1>2, <1>4, LimitFits DEF ClaimTyped
<1>6. ASSUME NEW d \in claims' \ claims, d.key = key, d.window = w, LetThrough(d)
      PROVE  Total(Potentials', LetThroughIn(key, w)')
               <= CeilingOf(key) + Total(Gains', IrregularIn(key, w)')
                    + Total(Offs', ClaimsIn(key, w)')
  <2>1. ClaimTyped(d)' /\ AsU64(d.total) <= CeilingOf(key)
    BY <1>4, <1>6 DEF LetThrough, CeilingOf
  <2>2. d.total >= 0 /\ d.total <= CeilingOf(key) /\ d.total < MaxI64 /\ d.total \in Int
    BY <1>5, <2>1, SmallTotals, ControllerAssumption DEF ClaimTyped, MinI64
  <2>3. w # None
    BY <1>6, <2>1, <2>2, ControllerAssumption DEF ClaimTyped, MinI64
  <2>4. /\ key \in DOMAIN counters' /\ w = counters'[key].expires
        /\ d.total = counters'[key].value
    BY <1>6, <2>3, NewClaims
  <2>5. counters'[key].value = Total(Amounts', ClaimsIn(key, w)')
                                 - Total(Gases', CorrectionsIn(key, w)')
    <3>1. counters'[key].value =
            Total(Amounts', ClaimsIn(key, counters[key].expires)')
              - Total(Gases', CorrectionsIn(key, counters[key].expires)')
      BY <2>3, <2>4 DEF AccountsInv, AccountInv
    <3>2. /\ ClaimsIn(key, counters[key].expires)' = ClaimsIn(key, w)'
          /\ CorrectionsIn(key, counters[key].expires)' = CorrectionsIn(key, w)'
      BY <2>4 DEF ClaimsIn, CorrectionsIn
    <3> QED
      BY <3>1, <3>2
  <2>6. /\ Total(Potentials', LetThroughIn(key, w)')
             <= Total(Amounts', ClaimsIn(key, w)')
                  - Total(Gases', CorrectionsIn(key, w)')
                  + Total(Gains', IrregularIn(key, w)')
                  + Total(Offs', ClaimsIn(key, w)')
        /\ Total(Potentials', LetThroughIn(key, w)') \in Int
        /\ Total(Gains', IrregularIn(key, w)') \in Nat
        /\ Total(Offs', ClaimsIn(key, w)') \in Nat
    BY DEF ClaimsAreBounded
  <2> QED
    BY <1>5, <2>2, <2>4, <2>5, <2>6
<1>7. ASSUME \A d \in claims' \ claims : ~(d.key = key /\ d.window = w /\ LetThrough(d))
      PROVE  Total(Potentials', LetThroughIn(key, w)')
               <= CeilingOf(key) + Total(Gains', IrregularIn(key, w)')
                    + Total(Offs', ClaimsIn(key, w)')
  <2> DEFINE L == LetThroughIn(key, w)
             C == ClaimsIn(key, w)
             D == ClaimsIn(key, w)'
             I == IrregularIn(key, w)
             J == IrregularIn(key, w)'
  <2>1. LetThroughIn(key, w)' = L /\ c \in claims
    BY <1>1, <1>2, <1>3, <1>7 DEF LetThroughIn, ClaimsIn, HistoryGrows
  <2>2. Total(Potentials, L) <= CeilingOf(key) + Total(Gains, I) + Total(Offs, C)
    BY <1>2, <1>3, <2>1 DEF BoundInv
  <2>3. IsFiniteSet(L) /\ L \subseteq claims
    BY FS_Subset DEF LetThroughIn, ClaimsIn, AccountsInv, HistoryInv
  <2>4. \A d \in L : /\ Potentials[d] \in Int /\ Potentials'[d] \in Int
                     /\ Potentials'[d] <= Potentials[d]
    BY <1>1, <2>3, PotentialsFall DEF AccountsInv
  <2>5. I \in SUBSET J
    <3> SUFFICES ASSUME NEW k \in I PROVE k \in J
      OBVIOUS
    <3>1. k \in corrections /\ ~Regular(k) /\ k.key = key /\ k.window = w
      BY DEF IrregularIn, CorrectionsIn
    <3>2. ~Regular(k)' /\ k \in corrections'
      BY <1>1, <3>1, RegularStays DEF AccountsInv, HistoryGrows
    <3> QED
      BY <3>1, <3>2 DEF IrregularIn, CorrectionsIn
  <2>6. IsFiniteSet(J) /\ \A k \in J : Gains'[k] \in Nat
    BY DEF ClaimsAreBounded
  <2>7. IsFiniteSet(I) /\ \A k \in I : Gains'[k] = Gains[k] /\ Gains[k] \in Int
    <3>1. I \subseteq corrections /\ I \subseteq CorrectionsIn(key, w)
      BY DEF IrregularIn, CorrectionsIn
    <3>2. IsFiniteSet(I) /\ \A k \in I : Gains[k] = Gain(k) /\ Gains[k] \in Nat
      BY <3>1, CorrectionAmounts DEF AccountsInv
    <3>3. \A k \in I : Gains'[k] = Gain(k)
      BY <1>1, <3>1 DEF Gains, HistoryGrows
    <3> QED
      BY <3>2, <3>3
  <2>13. /\ C \in SUBSET D /\ IsFiniteSet(C) /\ IsFiniteSet(D)
         /\ \A d \in D : Offs'[d] \in Nat
         /\ \A d \in C : Offs'[d] = Offs[d] /\ Offs[d] \in Int
    <3>1. C \in SUBSET D /\ C \subseteq claims /\ D \subseteq claims'
      BY <1>1 DEF ClaimsIn, HistoryGrows
    <3>2. IsFiniteSet(C) /\ IsFiniteSet(D)
      BY <3>1, FS_Subset DEF AccountsInv, HistoryInv
    <3>3. \A d \in D : Offs'[d] \in Nat
      BY <3>1 DEF ClaimsAreBounded
    <3>4. ASSUME NEW d \in C PROVE Offs'[d] = Offs[d] /\ Offs[d] \in Int
      <4>1. d \in claims /\ d \in claims' /\ d.request \in Requests
        BY <3>1 DEF AccountsInv, HistoryInv, ClaimTyped
      <4>2. TxOf(d.request)' = TxOf(d.request)
        BY <1>1, <4>1, ClaimBudgets DEF TransactionsStay, AccountsInv
      <4>3. Offs[d] \in Nat
        BY <4>1, ClaimAmounts DEF AccountsInv
      <4> QED
        BY <4>1, <4>2, <4>3 DEF Offs, Off
    <3> HIDE DEF C, D
    <3> QED
      BY <3>1, <3>2, <3>3, <3>4
  <2>8. Total(Potentials', LetThroughIn(key, w)') = Total(Potentials', L)
    BY <2>1, Zenon
  <2> HIDE DEF L, I, J, C, D
  <2>9. Total(Potentials', L) <= Total(Potentials, L)
    BY <2>3, <2>4, TotalIsMonotone
  <2>10. Total(Gains', I) = Total(Gains, I)
    BY <2>7, TotalCongruent
  <2>11. Total(Gains', I) <= Total(Gains', J)
    BY <2>5, <2>6, TotalOfSubset
  <2>12. /\ Total(Potentials', L) \in Int /\ Total(Potentials, L) \in Int
         /\ Total(Gains, I) \in Int /\ Total(Gains', J) \in Int
    BY <2>3, <2>4, <2>6, <2>7, TotalType
  <2>14. Total(Offs', C) = Total(Offs, C)
    BY <2>13, TotalCongruent
  <2>15. Total(Offs', C) <= Total(Offs', D)
    BY <2>13, TotalOfSubset
  <2>16. Total(Offs, C) \in Int /\ Total(Offs', D) \in Int
    BY <2>13, TotalType
  <2> QED
    BY <1>5, <2>2, <2>8, <2>9, <2>10, <2>11, <2>12, <2>14, <2>15, <2>16 DEF J, D
<1> QED
  BY <1>2, <1>3, <1>6, <1>7

-----------------------------------------------------------------------------
(* The sums of the property. *)
LEMMA SpentIsTotal ==
  ASSUME NEW S, IsFiniteSet(S), S \subseteq claims
  PROVE  SpentUnder(S) = Total(Spents, S)
<1> DEFINE Value(x) == CostOf(x.request)
           Def(g) == g = [s \in SUBSET S |->
                            IF s = {} THEN 0
                            ELSE Value(Taken(s)) + g[s \ {Taken(s)}]]
           sum == CHOOSE g : Def(g)
<1>1. SpentUnder(S) = sum[S]
  BY DEF SpentUnder, MapThenSumSet, MapThenFoldSet, Taken
<1>2. ASSUME NEW s \in SUBSET S, s # {}
      PROVE  Value(Taken(s)) = Spents[Taken(s)]
  BY <1>2 DEF Taken, Spents
<1> HIDE DEF Value
<1>3. \A g : Def(g) <=> Sums(g, Spents, S)
  <2> TAKE g
  <2>1. [s \in SUBSET S |->
           IF s = {} THEN 0 ELSE Value(Taken(s)) + g[s \ {Taken(s)}]]
          = [s \in SUBSET S |->
               IF s = {} THEN 0 ELSE Spents[Taken(s)] + g[s \ {Taken(s)}]]
    BY <1>2
  <2> QED
    BY <2>1 DEF Sums
<1>4. \E g : Def(g)
  <2>1. \E g : Sums(g, Spents, S)
    BY SumsExist
  <2> QED
    BY <1>3, <2>1
<1>5. Sums(sum, Spents, S)
  BY <1>3, <1>4
<1> HIDE DEF sum
<1> QED
  BY <1>1, <1>5, TotalIsUnique

LEMMA GasIsTotal ==
  ASSUME NEW S, IsFiniteSet(S), S \subseteq corrections
  PROVE  GasOf(S) = Total(Gases, S)
<1> DEFINE Value(x) == x.gas
           Def(g) == g = [s \in SUBSET S |->
                            IF s = {} THEN 0
                            ELSE Value(Taken(s)) + g[s \ {Taken(s)}]]
           sum == CHOOSE g : Def(g)
<1>1. GasOf(S) = sum[S]
  BY DEF GasOf, MapThenSumSet, MapThenFoldSet, Taken
<1>2. ASSUME NEW s \in SUBSET S, s # {}
      PROVE  Value(Taken(s)) = Gases[Taken(s)]
  BY <1>2 DEF Taken, Gases
<1> HIDE DEF Value
<1>3. \A g : Def(g) <=> Sums(g, Gases, S)
  <2> TAKE g
  <2>1. [s \in SUBSET S |->
           IF s = {} THEN 0 ELSE Value(Taken(s)) + g[s \ {Taken(s)}]]
          = [s \in SUBSET S |->
               IF s = {} THEN 0 ELSE Gases[Taken(s)] + g[s \ {Taken(s)}]]
    BY <1>2
  <2> QED
    BY <2>1 DEF Sums
<1>4. \E g : Def(g)
  <2>1. \E g : Sums(g, Gases, S)
    BY SumsExist
  <2> QED
    BY <1>3, <2>1
<1>5. Sums(sum, Gases, S)
  BY <1>3, <1>4
<1> HIDE DEF sum
<1> QED
  BY <1>1, <1>5, TotalIsUnique

LEMMA LoweredByCorrectionsIsTotal ==
  ASSUME NEW S, IsFiniteSet(S), S \subseteq corrections
  PROVE  LoweredByCorrections(S) = Total(Gains, S)
<1> DEFINE Value(x) == IF x.gas > 0 THEN x.gas ELSE 0
           Def(g) == g = [s \in SUBSET S |->
                            IF s = {} THEN 0
                            ELSE Value(Taken(s)) + g[s \ {Taken(s)}]]
           sum == CHOOSE g : Def(g)
<1>1. LoweredByCorrections(S) = sum[S]
  BY DEF LoweredByCorrections, MapThenSumSet, MapThenFoldSet, Taken
<1>2. ASSUME NEW s \in SUBSET S, s # {}
      PROVE  Value(Taken(s)) = Gains[Taken(s)]
  BY <1>2 DEF Taken, Gains, Gain
<1> HIDE DEF Value
<1>3. \A g : Def(g) <=> Sums(g, Gains, S)
  <2> TAKE g
  <2>1. [s \in SUBSET S |->
           IF s = {} THEN 0 ELSE Value(Taken(s)) + g[s \ {Taken(s)}]]
          = [s \in SUBSET S |->
               IF s = {} THEN 0 ELSE Gains[Taken(s)] + g[s \ {Taken(s)}]]
    BY <1>2
  <2> QED
    BY <2>1 DEF Sums
<1>4. \E g : Def(g)
  <2>1. \E g : Sums(g, Gains, S)
    BY SumsExist
  <2> QED
    BY <1>3, <2>1
<1>5. Sums(sum, Gains, S)
  BY <1>3, <1>4
<1> HIDE DEF sum
<1> QED
  BY <1>1, <1>5, TotalIsUnique

LEMMA LoweredByClaimsIsTotal ==
  ASSUME NEW S, IsFiniteSet(S), S \subseteq claims
  PROVE  LoweredByClaims(S) = Total(Offs, S)
<1> DEFINE Value(x) == LET amount == AsI64(TxOf(x.request).budget)
                       IN  IF amount < 0 THEN -amount ELSE 0
           Def(g) == g = [s \in SUBSET S |->
                            IF s = {} THEN 0
                            ELSE Value(Taken(s)) + g[s \ {Taken(s)}]]
           sum == CHOOSE g : Def(g)
<1>1. LoweredByClaims(S) = sum[S]
  BY DEF LoweredByClaims, MapThenSumSet, MapThenFoldSet, Taken
<1>2. ASSUME NEW s \in SUBSET S, s # {}
      PROVE  Value(Taken(s)) = Offs[Taken(s)]
  BY <1>2 DEF Taken, Offs, Off
<1> HIDE DEF Value
<1>3. \A g : Def(g) <=> Sums(g, Offs, S)
  <2> TAKE g
  <2>1. [s \in SUBSET S |->
           IF s = {} THEN 0 ELSE Value(Taken(s)) + g[s \ {Taken(s)}]]
          = [s \in SUBSET S |->
               IF s = {} THEN 0 ELSE Offs[Taken(s)] + g[s \ {Taken(s)}]]
    BY <1>2
  <2> QED
    BY <2>1 DEF Sums
<1>4. \E g : Def(g)
  <2>1. \E g : Sums(g, Offs, S)
    BY SumsExist
  <2> QED
    BY <1>3, <2>1
<1>5. Sums(sum, Offs, S)
  BY <1>3, <1>4
<1> HIDE DEF sum
<1> QED
  BY <1>1, <1>5, TotalIsUnique

(* What has been let through in a window costs no more than it may. *)
LEMMA BoundImpliesLimit ==
  ASSUME LimitsFit, IInv, TypedInv, HistoryInv, SpendingInv, BoundInv
  PROVE  LimitHolds
<1> SUFFICES ASSUME NEW c \in claims, LetThrough(c)
             PROVE  SpentUnder(LetThroughIn(c.key, c.window))
                      <= CeilingOf(c.key)
                           + LoweredByCorrections(IrregularIn(c.key, c.window))
                           + LoweredByClaims(ClaimsIn(c.key, c.window))
  <2>1. \A c \in claims :
          /\ {d \in ClaimsIn(c.key, c.window) : LetThrough(d)}
               = LetThroughIn(c.key, c.window)
          /\ {k \in corrections : k.key = c.key /\ k.window = c.window /\ ~Regular(k)}
               = IrregularIn(c.key, c.window)
    BY DEF LetThroughIn, IrregularIn, CorrectionsIn
  <2> QED
    BY <2>1 DEF LimitHolds, CeilingOf, ClaimsIn
<1> DEFINE L == LetThroughIn(c.key, c.window)
           C == ClaimsIn(c.key, c.window)
           I == IrregularIn(c.key, c.window)
<1>1. IsFiniteSet(L) /\ L \subseteq claims /\ IsFiniteSet(C) /\ C \subseteq claims
  BY FS_Subset DEF LetThroughIn, ClaimsIn, HistoryInv
<1>2. /\ IsFiniteSet(I) /\ I \subseteq corrections
      /\ Total(Gains, I) \in Nat /\ Total(Offs, C) \in Nat
  <2>1. IsFiniteSet(I)
    BY CorrectionAmounts
  <2>2. Total(Gains, I) \in Nat /\ Total(Offs, C) \in Nat
    BY CountedBoundsPotential
  <2> QED
    BY <2>1, <2>2 DEF IrregularIn, CorrectionsIn
<1>3. \A d \in L : /\ Spents[d] \in Int /\ Potentials[d] \in Int
                   /\ Spents[d] <= Potentials[d]
  BY <1>1, ClaimAmounts
<1>4. CeilingOf(c.key) \in Int
  BY LimitFits DEF HistoryInv, ClaimTyped
<1>5. Total(Potentials, L) <= CeilingOf(c.key) + Total(Gains, I) + Total(Offs, C)
  BY DEF BoundInv
<1> HIDE DEF L, I, C
<1>6. Total(Spents, L) <= Total(Potentials, L)
  BY <1>1, <1>3, TotalIsMonotone
<1>7. Total(Spents, L) \in Int /\ Total(Potentials, L) \in Int
  BY <1>1, <1>3, TotalType
<1>8. /\ SpentUnder(L) = Total(Spents, L)
      /\ LoweredByCorrections(I) = Total(Gains, I)
      /\ LoweredByClaims(C) = Total(Offs, C)
  BY <1>1, <1>2, SpentIsTotal, LoweredByCorrectionsIsTotal, LoweredByClaimsIsTotal
<1> QED
  BY <1>2, <1>4, <1>5, <1>6, <1>7, <1>8 DEF L, I, C

LEMMA InitImpliesBound ==
  ASSUME Init
  PROVE  SpendingInv /\ BoundInv
<1>1. claims = {} /\ corrections = {} /\ \A r \in Requests : request[r] = Idle
  BY DEF Init
<1> QED
  BY <1>1 DEF SpendingInv, BoundInv, Idle

(* What the requests that a limit let through in one window have cost stays
   below it, whatever their number and order, but for corrections that do not
   belong and claims of budgets that count as negative: provided that no limit
   is 2^63 - 1 or more, which is the number of a counter that is stuck. *)
THEOREM UsageStaysLimited ==
  ASSUME LimitsFit
  PROVE  Spec => []LimitHolds
<1> DEFINE Inv == IInv /\ TypedInv /\ AccountsInv /\ SpendingInv /\ BoundInv
<1>1. Init => Inv
  BY InitImpliesIInv, InitImpliesTypedInv, InitImpliesAccounts, InitImpliesBound
<1>2. Inv /\ [Next]_vars => Inv'
  <2> SUFFICES ASSUME Inv, [Next]_vars PROVE Inv'
    OBVIOUS
  <2>1. IInv' /\ TypedInv' /\ AccountsInv' /\ SpendingInv'
    BY NextPreservesIInv, NextPreservesTypedInv, NextPreservesAccounts,
       NextPreservesSpending
  <2>2. ClaimsAreBounded'
    BY <2>1, BoundsHoldNext DEF AccountsInv
  <2> QED
    BY <2>1, <2>2, NextPreservesBound
<1>3. Inv => LimitHolds
  BY BoundImpliesLimit DEF AccountsInv
<1> QED
  BY <1>1, <1>2, <1>3, PTL DEF Spec

-----------------------------------------------------------------------------
(* The way of the one claim of a request that nothing disturbs: it is pending
   in the controller that checked the request, until the request takes it out
   and takes back what it has not cost. *)
Alone(r) == "trackerError" \notin events /\ \A q \in Requests \ {r} : TxOf(q) # TxOf(r)

ClaimsOf(r) == {d \in claims : d.request = r}

PendingFor(r, key) ==
  \E p \in pending : /\ p.gen = request[r].checked
                     /\ p.digest = TxOf(r).digest
                     /\ p.request = r
                     /\ p.key = key

Settled(r, key) ==
  \E k \in corrections : /\ k.by = r /\ k.of = r /\ k.key = key
                         /\ "lostAnswer" \notin events /\ Invertible(r) =>
                              k.gas = AsI64(TxOf(r).budget) - CostOf(r)

Follows(r, key) ==
  /\ request[r].pc = "record" => key = KeyOf(Rule(r), TxOf(r))
  /\ request[r].pc \in {"check", "action", "execute"} => PendingFor(r, key)
  /\ request[r].gen = request[r].checked =>
       /\ request[r].pc = "confirm" => PendingFor(r, key)
       /\ request[r].pc = "update" =>
            request[r].entry.request = r /\ request[r].entry.key = key
       /\ request[r].pc = "done" => Settled(r, key)

FollowedInv ==
  \A c \in claims :
    Alone(c.request) /\ ClaimsOf(c.request) = {c} => Follows(c.request, c.key)

(* Nobody else can have paid for its transaction, and no answer is lost. *)
CostKnown(r) ==
  Alone(r) /\ "lostAnswer" \notin events /\ request[r].pc \in {"confirm", "update", "done"} =>
    IF request[r].gas = None THEN request[r].spent = 0
    ELSE request[r].spent = request[r].gas

(* A correction of a request's own claim is never of an earlier window. *)
OrderInv ==
  \A c \in claims, k \in corrections :
    k.by = k.of /\ k.of = c.request /\ k.key = c.key =>
      k.window = None \/ (c.window \in Nat /\ c.window <= k.window)

SettleInv ==
  /\ FollowedInv
  /\ \A r \in Requests : CostKnown(r)
  /\ OrderInv

-----------------------------------------------------------------------------
EventsStay == events \subseteq events'

LEMMA StepsKeepEvents ==
  ASSUME IInv, [Next]_vars
  PROVE  EventsStay
<1>1. ASSUME NEW e, Happens(e) PROVE EventsStay
  BY <1>1 DEF Happens, EventsStay
<1>2. ASSUME UNCHANGED events PROVE EventsStay
  BY <1>2 DEF EventsStay
<1>3. ASSUME NEW r \in Requests, Arrive(r) \/ RequestStep(r) PROVE EventsStay
  <2>1. UNCHANGED events \/ Happens("trackerError") \/ Happens("lostAnswer")
    BY <1>3 DEF Arrive, RequestStep, DefaultPolicy, EvaluateRule, RecordClaim, TakeAction,
       ExecuteOk, ExecuteErr, ConfirmTake, ConfirmUpdate
  <2> QED
    BY <1>1, <1>2, <2>1
<1>4. CASE ReloadBegin \/ ReloadInitialize \/ Crash \/ TimePasses \/ UNCHANGED vars
  BY <1>1, <1>2, <1>4 DEF ReloadBegin, ReloadInitialize, Crash, TimePasses, vars
<1> QED
  BY <1>3, <1>4 DEF Next

(* A request that has its transaction for itself had it before. *)
LEMMA AloneBefore ==
  ASSUME TransactionsStay, EventsStay, NEW r \in Requests, TxOf(r) \in Transactions,
         \A q \in Requests : TxOf(q) \in Transactions \cup {None}, Alone(r)'
  PROVE  Alone(r)
<1>1. TxOf(r)' = TxOf(r) /\ TxOf(r) # None
  BY ControllerAssumption DEF TransactionsStay
<1>2. ASSUME NEW q \in Requests \ {r} PROVE TxOf(q) # TxOf(r)
  <2>1. TxOf(q)' # TxOf(r)'
    BY DEF Alone
  <2> QED
    BY <1>1, <2>1 DEF TransactionsStay
<1> QED
  BY <1>2 DEF Alone, EventsStay

(* An entry of a request that is alone stays until that request takes it. *)
LEMMA EntryStays ==
  ASSUME IInv, TypedInv, NEW r \in Requests, Alone(r), TxOf(r) \in Transactions,
         NEW p \in pending, p.digest = TxOf(r).digest,
         [Next]_vars, ~RecordClaim(r), ~ConfirmTake(r), ~Crash
  PROVE  p \in pending'
<1>1. CASE pending' = pending
  BY <1>1
<1>2. ASSUME NEW q \in Requests, q # r, TxOf(q) \in Transactions, NEW g
      PROVE  p \notin PendingOf(g, TxOf(q).digest)
  BY <1>2, ControllerAssumption DEF PendingOf, Alone
<1>3. ASSUME NEW q \in Requests, RequestStep(q)
      PROVE  p \in pending'
  <2>1. CASE RecordClaim(q)
    <3>1. q # r /\ TxOf(q) \in Transactions
      BY <2>1, RecordClaimEffect DEF IInv, TypedInv, RequestTyped
    <3>2. p \notin PendingOf(request[q].gen, TxOf(q).digest)
      BY <1>2, <3>1
    <3> QED
      BY <2>1, <3>2, RecordClaimEffect DEF IInv
  <2>2. CASE ConfirmTake(q)
    <3>1. q # r /\ TxOf(q) \in Transactions
      BY <2>2, ConfirmTakeEffect DEF IInv, TypedInv, RequestTyped
    <3>2. p \notin PendingOf(request[q].gen, TxOf(q).digest)
      BY <1>2, <3>1
    <3>3. \/ pending' = pending
          \/ \E o \in PendingOf(request[q].gen, TxOf(q).digest) : pending' = pending \ {o}
      BY <2>2, ConfirmTakeEffect DEF IInv
    <3> QED
      BY <3>2, <3>3
  <2>3. CASE ~RecordClaim(q) /\ ~ConfirmTake(q)
    BY <1>1, <1>3, <2>3, DefaultPolicyEffect, EvaluateRuleEffect, TakeActionEffect,
       ExecuteEffect, ConfirmUpdateEffect DEF IInv, RequestStep
  <2> QED
    BY <2>1, <2>2, <2>3
<1>4. ASSUME NEW q \in Requests, Arrive(q)
      PROVE  p \in pending'
  BY <1>1, <1>4, ArriveEffect DEF IInv
<1>5. CASE ReloadBegin \/ ReloadInitialize \/ TimePasses \/ UNCHANGED vars
  BY <1>1, <1>5 DEF ReloadBegin, ReloadInitialize, TimePasses, vars
<1> QED
  BY <1>3, <1>4, <1>5 DEF Next

LEMMA PendingForStays ==
  ASSUME IInv, TypedInv, NEW r \in Requests, Alone(r), TxOf(r) \in Transactions,
         TransactionsStay, request'[r].checked = request[r].checked,
         NEW key, PendingFor(r, key),
         [Next]_vars, ~RecordClaim(r), ~ConfirmTake(r), ~Crash
  PROVE  PendingFor(r, key)'
<1>1. PICK p \in pending : /\ p.gen = request[r].checked
                           /\ p.digest = TxOf(r).digest
                           /\ p.request = r
                           /\ p.key = key
  BY DEF PendingFor
<1>2. p \in pending'
  BY <1>1, EntryStays
<1>3. TxOf(r)' = TxOf(r)
  BY DEF TransactionsStay
<1> QED
  BY <1>1, <1>2, <1>3 DEF PendingFor

LEMMA SettledStays ==
  ASSUME TransactionsStay, HistoryGrows, EventsStay, NEW r \in Requests,
         TxOf(r) \in Transactions, request'[r].spent = request[r].spent,
         NEW key, Settled(r, key)
  PROVE  Settled(r, key)'
<1>1. TxOf(r)' = TxOf(r)
  BY DEF TransactionsStay
<1>2. CostOf(r)' = CostOf(r) /\ (Invertible(r)' <=> Invertible(r))
  BY <1>1 DEF CostOf, Invertible
<1> QED
  BY <1>1, <1>2 DEF Settled, HistoryGrows, EventsStay

LEMMA FollowsStays ==
  ASSUME IInv, TypedInv, NEW r \in Requests, Alone(r), TxOf(r) \in Transactions,
         TransactionsStay, InstalledStays, HistoryGrows, EventsStay,
         request'[r] = request[r], NEW key, Follows(r, key), [Next]_vars, ~Crash
  PROVE  Follows(r, key)'
<1>1. ~RecordClaim(r) /\ ~ConfirmTake(r)
  BY RecordClaimEffect, ConfirmTakeEffect DEF IInv
<1>2. PendingFor(r, key) => PendingFor(r, key)'
  BY <1>1, PendingForStays
<1>3. Settled(r, key) => Settled(r, key)'
  BY SettledStays
<1>4. request[r].pc = "record" => Rule(r)' = Rule(r) /\ TxOf(r)' = TxOf(r)
  <2>1. request[r].pc = "record" => request[r].gen \in 1 .. Current
    BY CheckingControllers
  <2> QED
    BY <2>1 DEF InstalledStays, Controller, Rule, TxOf
<1> QED
  BY <1>2, <1>3, <1>4 DEF Follows

(* Its own steps, on the way to the confirmation. *)
LEMMA CheckFollows ==
  ASSUME IInv, TypedInv, NEW r \in Requests, Alone(r), TxOf(r) \in Transactions,
         TransactionsStay, NEW key, Follows(r, key), [Next]_vars,
         \/ DefaultPolicy(r)
         \/ EvaluateRule(r) /\ (EvaluationRejects(r) \/ EvaluationPasses(r))
         \/ TakeAction(r) \/ ExecuteOk(r) \/ ExecuteErr(r)
  PROVE  Follows(r, key)'
<1>1. /\ request'[r].checked = request[r].checked
      /\ request[r].pc \in {"check", "action", "execute"}
      /\ request'[r].pc \in {"check", "action", "execute", "confirm"}
  <2>1. CASE DefaultPolicy(r)
    BY <2>1, DefaultPolicyEffect DEF IInv, Keeps
  <2>2. CASE EvaluateRule(r) /\ (EvaluationRejects(r) \/ EvaluationPasses(r))
    BY <2>2, EvaluateRuleEffect
       DEF IInv, Keeps, EvaluationRejects, EvaluationPasses, RejectedTo
  <2>3. CASE TakeAction(r)
    BY <2>3, TakeActionEffect DEF IInv, Keeps, RejectedTo
  <2>4. CASE ExecuteOk(r) \/ ExecuteErr(r)
    BY <2>4, ExecuteEffect DEF IInv, Keeps
  <2> QED
    BY <2>1, <2>2, <2>3, <2>4
<1>2. ~RecordClaim(r) /\ ~ConfirmTake(r) /\ ~Crash
  <2>1. ~RecordClaim(r) /\ ~ConfirmTake(r)
    BY <1>1, RecordClaimEffect, ConfirmTakeEffect DEF IInv
  <2>2. ~Crash
    BY <1>1, CrashEffect DEF IInv
  <2> QED
    BY <2>1, <2>2
<1>3. PendingFor(r, key)
  BY <1>1 DEF Follows
<1>4. PendingFor(r, key)'
  BY <1>1, <1>2, <1>3, PendingForStays
<1> QED
  BY <1>1, <1>4 DEF Follows

LEMMA RecordFollows ==
  ASSUME IInv, TypedInv, NEW r \in Requests, NEW key, Follows(r, key), RecordClaim(r)
  PROVE  Follows(r, key)'
<1>1. /\ request[r].pc = "record" /\ request'[r].pc \in {"check", "action"}
      /\ EntryOf(r) \in pending'
      /\ request'[r].checked = request[r].checked /\ TxOf(r)' = TxOf(r)
  BY RecordClaimEffect DEF IInv, Keeps, TxOf
<1>2. request[r].gen = request[r].checked /\ key = KeyOf(Rule(r), TxOf(r))
  BY <1>1 DEF IInv, RequestInv, Checking, Follows
<1>3. PICK p \in pending' : p = EntryOf(r)
  BY <1>1
<1>4. /\ p.gen = request[r].gen /\ p.digest = TxOf(r).digest
      /\ p.request = r /\ p.key = key
  BY <1>2, <1>3 DEF EntryOf
<1>5. PendingFor(r, key)'
  BY <1>1, <1>2, <1>4 DEF PendingFor
<1> QED
  BY <1>1, <1>5 DEF Follows

LEMMA TakeFollows ==
  ASSUME IInv, TypedInv, NEW r \in Requests, NEW key, Follows(r, key), ConfirmTake(r)
  PROVE  Follows(r, key)'
<1>1. /\ request[r].pc = "confirm" /\ request'[r].pc \in {"update", "done"}
      /\ request'[r].checked = request[r].checked /\ request'[r].gen = request[r].gen
  BY ConfirmTakeEffect DEF IInv, Keeps
<1>2. CASE request[r].gen # request[r].checked
  BY <1>1, <1>2 DEF Follows
<1>3. CASE request[r].gen = request[r].checked
  <2>1. PICK p \in pending : /\ p.gen = request[r].gen
                             /\ p.digest = TxOf(r).digest
                             /\ p.request = r
                             /\ p.key = key
    BY <1>1, <1>3 DEF Follows, PendingFor
  <2>2. p \in PendingOf(request[r].gen, TxOf(r).digest)
    BY <2>1 DEF PendingOf
  <2>3. PICK o \in PendingOf(request[r].gen, TxOf(r).digest) :
          request'[r].pc = "update" /\ request'[r].entry = o
    BY <2>2, ConfirmTakeEffect DEF IInv
  <2>4. o = p
    BY <2>1, <2>3 DEF IInv, PendingInv, PendingOf
  <2> QED
    BY <2>1, <2>3, <2>4 DEF Follows
<1> QED
  BY <1>2, <1>3

LEMMA UpdateFollows ==
  ASSUME IInv, TypedInv, SpendingInv, NEW r \in Requests, CostKnown(r), Alone(r), Alone(r)',
         NEW key, Follows(r, key), ConfirmUpdate(r), EventsStay
  PROVE  Follows(r, key)'
<1>1. /\ request[r].pc = "update" /\ request'[r].pc = "done"
      /\ Keeps(r, {"tx", "gen", "checked", "gas", "spent"})
      /\ corrections' = corrections \cup {Correction(r)}
  <2>1. ~Happens("trackerError")
    BY DEF Alone, Happens
  <2> QED
    BY <2>1, ConfirmUpdateEffect DEF IInv, Keeps
<1>2. CASE request[r].gen # request[r].checked
  BY <1>1, <1>2 DEF Follows, Keeps
<1>3. CASE request[r].gen = request[r].checked
  <2>1. request[r].entry.request = r /\ request[r].entry.key = key
    BY <1>1, <1>3 DEF Follows
  <2>2. PICK k : k = Correction(r)
    OBVIOUS
  <2>3. /\ k.by = r /\ k.of = r /\ k.key = key /\ k.gas = TakenBack(r)
        /\ k \in corrections'
    BY <1>1, <2>1, <2>2 DEF Correction
  <2>4. TxOf(r)' = TxOf(r) /\ CostOf(r)' = CostOf(r) /\ (Invertible(r)' <=> Invertible(r))
    BY <1>1 DEF Keeps, TxOf, CostOf, Invertible
  <2>5. ASSUME "lostAnswer" \notin events', Invertible(r)
        PROVE  k.gas = AsI64(TxOf(r).budget) - CostOf(r)
    <3>1. "lostAnswer" \notin events
      BY <2>5 DEF EventsStay
    <3>2. IF request[r].gas = None THEN request[r].spent = 0
          ELSE request[r].spent = request[r].gas
      BY <1>1, <3>1 DEF CostKnown
    <3>3. Spending(r)
      BY DEF SpendingInv, Spending
    <3>4. TxOf(r).budget \in Nat /\ TxOf(r).budget <= 2 * MaxI64 + 1
      BY <1>1, BudgetsAreIntegers DEF TypedInv, RequestTyped
    <3>5. CASE request[r].gas = None
      <4>1. TakenBack(r) = AsI64(TxOf(r).budget)
        BY <1>1, <2>1, <2>5, <3>3, <3>5, TakenBackIs
      <4>2. CostOf(r) = 0
        BY <3>2, <3>4, <3>5 DEF CostOf
      <4> QED
        BY <2>3, <3>4, <4>1, <4>2, SignedNumbers
    <3>6. CASE request[r].gas # None
      <4>1. /\ TxOf(r).budget <= MaxI64 /\ request[r].gas \in Nat
            /\ TakenBack(r) = IF request[r].gas > TxOf(r).budget THEN 0
                             ELSE TxOf(r).budget - request[r].gas
        BY <1>1, <2>1, <2>5, <3>3, <3>6, TakenBackIs
      <4>2. AsI64(TxOf(r).budget) = TxOf(r).budget
        BY <3>4, <4>1, SignedNumbers
      <4> QED
        BY <2>3, <3>2, <3>4, <3>6, <4>1, <4>2 DEF CostOf
    <3> QED
      BY <3>5, <3>6
  <2>6. Settled(r, key)'
    BY <2>3, <2>4, <2>5 DEF Settled
  <2> QED
    BY <1>1, <2>6 DEF Follows
<1> QED
  BY <1>2, <1>3

LEMMA CrashFollows ==
  ASSUME IInv, TypedInv, NEW r \in Requests, TxOf(r) \in Transactions,
         TransactionsStay, HistoryGrows, EventsStay, NEW key, Follows(r, key), Crash
  PROVE  Follows(r, key)'
<1>1. request[r].pc # "new"
  BY ControllerAssumption DEF TypedInv, RequestTyped
<1>2. \/ request[r].pc = "done" /\ request'[r] = request[r]
      \/ request'[r].pc = "gone"
  BY <1>1, CrashEffect DEF IInv
<1>3. CASE request[r].pc = "done" /\ request'[r] = request[r]
  <2>1. Settled(r, key) => Settled(r, key)'
    BY <1>3, SettledStays
  <2> QED
    BY <1>3, <2>1 DEF Follows
<1> QED
  BY <1>2, <1>3 DEF Follows

(* A request that has claims has its transaction, and has had it when the
   claim was made. *)
LEMMA ClaimantsAreKnown ==
  ASSUME IInv, TypedInv, AccountsInv, [Next]_vars, NEW c \in claims'
  PROVE  /\ c.request \in Requests
         /\ request[c.request].pc # "new"
         /\ TxOf(c.request) \in Transactions
         /\ c \notin claims => request[c.request].pc = "check"
<1>1. c.request \in Requests /\ request[c.request].pc # "new"
      /\ (c \notin claims => request[c.request].pc = "check")
  <2>1. CASE c \in claims
    BY <2>1 DEF AccountsInv, HistoryInv, ClaimTyped
  <2>2. CASE c \notin claims
    BY <2>2, StepsGrowHistory DEF HistoryGrows
  <2> QED
    BY <2>1, <2>2
<1> QED
  BY <1>1 DEF TypedInv, RequestTyped

LEMMA NewClaimFollows ==
  ASSUME IInv, TypedInv, AccountsInv, TransactionsStay, InstalledStays, [Next]_vars,
         \A q \in Requests : RuleMoves(q), NEW c \in claims' \ claims, Alone(c.request)'
  PROVE  Follows(c.request, c.key)'
<1>1. PICK r \in Requests : r = c.request
  BY ClaimantsAreKnown
<1>2. request[r].pc = "check"
  BY <1>1, ClaimantsAreKnown
<1>3. PICK q \in Requests : EvaluateRule(q)
  <2>1. \A q \in Requests : ~Arrive(q)
    BY ArriveEffect DEF IInv, historyVars
  <2>2. ~(ReloadBegin \/ ReloadInitialize \/ Crash \/ TimePasses \/ UNCHANGED vars)
    BY DEF ReloadBegin, ReloadInitialize, Crash, TimePasses, vars, historyVars
  <2>3. PICK q \in Requests : RequestStep(q)
    BY <2>1, <2>2 DEF Next
  <2> QED
    BY <2>3, DefaultPolicyEffect, RecordClaimEffect, TakeActionEffect, ExecuteEffect,
       ConfirmTakeEffect, ConfirmUpdateEffect DEF IInv, RequestStep, historyVars
<1>4. PICK total : EvaluationCounts(q, total)
  BY <1>3, EvaluateRuleEffect DEF IInv, EvaluationRejects, EvaluationPasses
<1>5. q = r /\ c.key = NextKey(r)
  BY <1>1, <1>4 DEF EvaluationCounts, Claim
<1>6. request'[r].pc = "record" /\ request'[r].rule = NextRule(r) /\ request'[r].gen = request[r].gen
  <2>1. ~Happens("trackerError")
    BY DEF Alone, Happens
  <2> QED
    BY <1>4, <1>5, <2>1 DEF EvaluationCounts, Keeps
<1>7. TxOf(r)' = TxOf(r) /\ request[r].gen \in 1 .. Current
  BY <1>2, CheckingControllers DEF TransactionsStay, TypedInv, RequestTyped
<1>8. Rule(r)' = NextLimited(r)
  <2>1. Controller(r)' = Controller(r)
    BY <1>6, <1>7 DEF Controller, InstalledStays
  <2> QED
    BY <1>6, <2>1 DEF Rule, NextLimited
<1>9. c.key = KeyOf(Rule(r)', TxOf(r)')
  BY <1>5, <1>7, <1>8 DEF NextKey
<1> QED
  BY <1>1, <1>6, <1>9 DEF Follows

LEMMA NextPreservesFollowed ==
  ASSUME IInv, TypedInv, AccountsInv, SpendingInv, SettleInv, [Next]_vars
  PROVE  FollowedInv'
<1>1. /\ TransactionsStay /\ InstalledStays /\ HistoryGrows /\ EventsStay
      /\ \A q \in Requests : RuleMoves(q)
  BY StepsKeep, StepsMove, StepsGrowHistory, StepsKeepEvents
<1> SUFFICES ASSUME NEW c \in claims', Alone(c.request)', ClaimsOf(c.request)' = {c}
             PROVE  Follows(c.request, c.key)'
  BY DEF FollowedInv
<1>2. PICK r \in Requests : r = c.request
  BY ClaimantsAreKnown
<1>3. PICK key : key = c.key
  OBVIOUS
<1>4. request[r].pc # "new" /\ TxOf(r) \in Transactions
  BY <1>2, ClaimantsAreKnown
<1>5. Alone(r)'
  BY <1>2
<1>6. Alone(r)
  <2>1. \A q \in Requests : TxOf(q) \in Transactions \cup {None}
    BY DEF TypedInv, RequestTyped
  <2> QED
    BY <1>1, <1>4, <1>5, <2>1, AloneBefore
<1>7. CASE c \notin claims
  BY <1>1, <1>7, NewClaimFollows
<1>8. CASE c \in claims
  <2>1. ClaimsOf(r) = {c}
    BY <1>1, <1>2, <1>8 DEF ClaimsOf, HistoryGrows
  <2>2. Follows(r, key)
    BY <1>2, <1>3, <1>6, <1>8, <2>1 DEF SettleInv, FollowedInv
  <2>3. CASE Crash
    BY <1>1, <1>2, <1>3, <1>4, <2>2, <2>3, CrashFollows
  <2>4. CASE request'[r] = request[r] /\ ~Crash
    BY <1>1, <1>2, <1>3, <1>4, <1>6, <2>2, <2>4, FollowsStays
  <2>5. CASE RequestStep(r)
    <3>1. CASE RecordClaim(r)
      BY <1>2, <1>3, <2>2, <3>1, RecordFollows
    <3>2. CASE ConfirmTake(r)
      BY <1>2, <1>3, <2>2, <3>2, TakeFollows
    <3>3. CASE ConfirmUpdate(r)
      BY <1>1, <1>2, <1>3, <1>5, <1>6, <2>2, <3>3, UpdateFollows DEF SettleInv
    <3>4. CASE DefaultPolicy(r) \/ TakeAction(r) \/ ExecuteOk(r) \/ ExecuteErr(r)
      BY <1>1, <1>2, <1>3, <1>4, <1>6, <2>2, <3>4, CheckFollows
    <3>5. CASE EvaluateRule(r)
      <4>1. ASSUME NEW total, EvaluationCounts(r, total)
            PROVE  FALSE
        <5>1. PICK d : d \notin claims /\ claims' = claims \cup {d} /\ d.request = r
          BY <1>1, <3>5, <4>1, CountingStep
        <5> QED
          BY <1>2, <1>8, <5>1 DEF ClaimsOf
      <4>2. EvaluationRejects(r) \/ EvaluationPasses(r)
        BY <3>5, <4>1, EvaluateRuleEffect DEF IInv
      <4> QED
        BY <1>1, <1>2, <1>3, <1>4, <1>6, <2>2, <3>5, <4>2, CheckFollows
    <3> QED
      BY <2>5, <3>1, <3>2, <3>3, <3>4, <3>5 DEF RequestStep
  <2>6. \/ Crash \/ RequestStep(r) \/ request'[r] = request[r]
    <3>1. \A q \in Requests : Arrive(q) \/ RequestStep(q) => Others(q)
      BY ArriveEffect, DefaultPolicyEffect, EvaluateRuleEffect, RecordClaimEffect,
         TakeActionEffect, ExecuteEffect, ConfirmTakeEffect, ConfirmUpdateEffect
         DEF IInv, RequestStep
    <3>2. ~Arrive(r)
      BY <1>4, ArriveEffect DEF IInv
    <3>3. ReloadBegin \/ ReloadInitialize \/ TimePasses \/ UNCHANGED vars
            => request' = request
      BY DEF ReloadBegin, ReloadInitialize, TimePasses, vars
    <3> QED
      BY <3>1, <3>2, <3>3 DEF Next, Others
  <2> QED
    BY <2>3, <2>4, <2>5, <2>6
<1> QED
  BY <1>7, <1>8

LEMMA NextPreservesCost ==
  ASSUME IInv, TypedInv, SpendingInv, \A q \in Requests : CostKnown(q), [Next]_vars,
         NEW r \in Requests
  PROVE  CostKnown(r)'
<1>1. TransactionsStay /\ EventsStay
  BY StepsKeep, StepsKeepEvents
<1> SUFFICES ASSUME Alone(r)', "lostAnswer" \notin events',
                    request'[r].pc \in {"confirm", "update", "done"}
             PROVE  IF request'[r].gas = None THEN request'[r].spent = 0
                    ELSE request'[r].spent = request'[r].gas
  BY DEF CostKnown
<1>2. "lostAnswer" \notin events
  BY <1>1 DEF EventsStay
<1>3. ASSUME TxOf(r) \in Transactions PROVE Alone(r)
  <2>1. \A q \in Requests : TxOf(q) \in Transactions \cup {None}
    BY DEF TypedInv, RequestTyped
  <2> QED
    BY <1>1, <1>3, <2>1, AloneBefore
<1>4. ASSUME request[r].pc \in {"confirm", "update", "done"}, Keeps(r, {"gas", "spent"})
      PROVE  IF request'[r].gas = None THEN request'[r].spent = 0
             ELSE request'[r].spent = request'[r].gas
  <2>1. TxOf(r) \in Transactions
    BY <1>4 DEF TypedInv, RequestTyped
  <2> QED
    BY <1>2, <1>3, <1>4, <2>1 DEF CostKnown, Keeps
<1>5. ASSUME request[r].pc \in Checking, Keeps(r, {"gas", "spent"})
      PROVE  IF request'[r].gas = None THEN request'[r].spent = 0
             ELSE request'[r].spent = request'[r].gas
  BY <1>5 DEF SpendingInv, Keeps
<1>6. CASE request'[r] = request[r]
  BY <1>4, <1>6 DEF Keeps
<1>7. CASE RequestStep(r)
  <2>1. CASE DefaultPolicy(r) \/ EvaluateRule(r) \/ RecordClaim(r) \/ TakeAction(r)
             \/ ConfirmTake(r) \/ ConfirmUpdate(r)
    <3>1. /\ request[r].pc \in Checking \cup {"confirm", "update", "done"}
          /\ Keeps(r, {"gas", "spent"})
      BY <2>1, DefaultPolicyEffect, EvaluateRuleEffect, RecordClaimEffect,
         TakeActionEffect, ConfirmTakeEffect, ConfirmUpdateEffect
         DEF IInv, Keeps, Checking
    <3> QED
      BY <1>4, <1>5, <3>1
  <2>2. CASE ExecuteOk(r) \/ ExecuteErr(r)
    <3>1. /\ request[r].pc = "execute"
          /\ \/ \E gas \in GasUsed :
                  /\ request'[r].gas = gas
                  /\ \/ request'[r].spent = gas
                     \/ /\ request'[r].spent = request[r].spent
                        /\ Charged(TxOf(r)) # {}
             \/ Keeps(r, {"gas", "spent"})
             \/ Happens("lostAnswer")
      BY <2>2, ExecuteEffect DEF IInv
    <3>2. request[r].gas = None /\ request[r].spent = 0
      BY <3>1 DEF SpendingInv
    <3>3. Charged(TxOf(r)) = {}
      <4>1. TxOf(r) \in Transactions
        BY <3>1 DEF TypedInv, RequestTyped
      <4>2. \A q \in Requests \ {r} : TxOf(q) # TxOf(r)
        BY <1>3, <4>1 DEF Alone
      <4> QED
        BY <3>2, <4>2 DEF Charged
    <3>4. ~Happens("lostAnswer")
      BY DEF Happens
    <3>5. \A gas \in GasUsed : gas # None
      BY ControllerAssumption
    <3> QED
      BY <3>1, <3>2, <3>3, <3>4, <3>5 DEF Keeps
  <2> QED
    BY <1>7, <2>1, <2>2 DEF RequestStep
<1>8. CASE Crash
  BY <1>6, <1>8, CrashEffect DEF IInv
<1>9. \/ Crash \/ RequestStep(r) \/ request'[r] = request[r]
  <2>1. \A q \in Requests : Arrive(q) \/ RequestStep(q) => Others(q)
    BY ArriveEffect, DefaultPolicyEffect, EvaluateRuleEffect, RecordClaimEffect,
       TakeActionEffect, ExecuteEffect, ConfirmTakeEffect, ConfirmUpdateEffect
       DEF IInv, RequestStep
  <2>2. ~Arrive(r)
    BY ArriveEffect DEF IInv
  <2>3. ReloadBegin \/ ReloadInitialize \/ TimePasses \/ UNCHANGED vars
          => request' = request
    BY DEF ReloadBegin, ReloadInitialize, TimePasses, vars
  <2> QED
    BY <2>1, <2>2, <2>3 DEF Next, Others
<1> QED
  BY <1>6, <1>7, <1>8, <1>9

LEMMA NewCorrections ==
  ASSUME IInv, TypedInv, [Next]_vars, NEW k \in corrections' \ corrections
  PROVE  /\ k.key \in DOMAIN counters' /\ k.window = counters'[k.key].expires
         /\ claims' = claims
<1>1. PICK r \in Requests : ConfirmUpdate(r)
  <2>1. \A r \in Requests : ~Arrive(r)
    BY ArriveEffect DEF IInv, historyVars
  <2>2. ~(ReloadBegin \/ ReloadInitialize \/ Crash \/ TimePasses \/ UNCHANGED vars)
    BY DEF ReloadBegin, ReloadInitialize, Crash, TimePasses, vars, historyVars
  <2>3. PICK r \in Requests : RequestStep(r)
    BY <2>1, <2>2 DEF Next
  <2> QED
    BY <2>3, DefaultPolicyEffect, EvaluateRuleEffect, RecordClaimEffect,
       TakeActionEffect, ExecuteEffect, ConfirmTakeEffect DEF IInv, RequestStep, historyVars
<1>2. /\ UpdateAggr(request[r].entry.key, request[r].entry.window, -TakenBack(r))
      /\ k = Correction(r) /\ claims' = claims
  BY <1>1, ConfirmUpdateEffect DEF IInv
<1>3. k.key = request[r].entry.key /\ k.window = counters'[k.key].expires
  BY <1>2 DEF Correction
<1>4. request[r].entry.key \in DOMAIN counters'
  BY <1>2 DEF UpdateAggr
<1> QED
  BY <1>2, <1>3, <1>4

LEMMA NextPreservesOrder ==
  ASSUME IInv, TypedInv, AccountsInv, OrderInv, [Next]_vars, AccountsInv'
  PROVE  OrderInv'
<1> SUFFICES ASSUME NEW c \in claims', NEW k \in corrections',
                    k.by = k.of, k.of = c.request, k.key = c.key, k.window # None
             PROVE  c.window \in Nat /\ c.window <= k.window
  BY DEF OrderInv
<1>1. CASE k \notin corrections
  <2>1. k.key \in DOMAIN counters' /\ k.window = counters'[k.key].expires
    BY <1>1, NewCorrections
  <2>2. c.window \in Nat \cup {None}
    BY DEF AccountsInv, HistoryInv, ClaimTyped
  <2>3. IF c.window = None
        THEN c.key \in DOMAIN counters' /\ counters'[c.key].expires = None
        ELSE IF c.key \in DOMAIN counters'
        THEN counters'[c.key].expires = None \/ c.window <= counters'[c.key].expires
        ELSE c.window <= now'
    BY DEF AccountsInv, FreshInv
  <2> QED
    BY <2>1, <2>2, <2>3
<1>2. CASE k \in corrections /\ c \notin claims
  <2>1. request[c.request].pc = "check"
    BY <1>2, ClaimantsAreKnown
  <2>2. request[k.by].pc = "done"
    BY <1>2 DEF AccountsInv, HistoryInv, CorrectionTyped
  <2> QED
    BY <2>1, <2>2
<1>3. CASE k \in corrections /\ c \in claims
  BY <1>3 DEF OrderInv
<1> QED
  BY <1>1, <1>2, <1>3

LEMMA NextPreservesSettle ==
  ASSUME IInv, TypedInv, AccountsInv, SpendingInv, SettleInv, [Next]_vars, AccountsInv'
  PROVE  SettleInv'
<1>1. FollowedInv'
  BY NextPreservesFollowed
<1>2. \A r \in Requests : CostKnown(r)'
  BY NextPreservesCost DEF SettleInv
<1>3. OrderInv'
  BY NextPreservesOrder DEF SettleInv
<1> QED
  BY <1>1, <1>2, <1>3 DEF SettleInv

LEMMA InitImpliesSettle ==
  ASSUME Init
  PROVE  SettleInv
<1>1. claims = {} /\ corrections = {} /\ \A r \in Requests : request[r] = Idle
  BY DEF Init
<1> QED
  BY <1>1 DEF SettleInv, FollowedInv, CostKnown, OrderInv, Idle

-----------------------------------------------------------------------------
(* The claims of a window whose requests are all through and undisturbed, and
   the corrections of that window that belong, go together. *)
LEMMA SettledClaims ==
  ASSUME IInv, TypedInv, AccountsInv, SpendingInv, SettleInv,
         NEW key \in DOMAIN counters, NEW window, window = counters[key].expires,
         window # None, "lostAnswer" \notin events,
         NEW c \in ClaimsIn(key, window),
         request[c.request].pc = "done", Undisturbed(c.request)
  PROVE  /\ ClaimsOf(c.request) = {c}
         /\ \E k \in RegularIn(key, window) :
              k.by = c.request /\ k.gas = Amounts[c] - Spents[c]
<1>1. PICK r \in Requests : r = c.request
  BY DEF ClaimsIn, AccountsInv, HistoryInv, ClaimTyped
<1>2. c \in claims /\ c.key = key /\ c.window = window
  BY DEF ClaimsIn
<1>3. ClaimsOf(r) = {c}
  <2>1. IsFiniteSet(ClaimsOf(r)) /\ c \in ClaimsOf(r)
    BY <1>1, <1>2, FS_Subset DEF ClaimsOf, AccountsInv, HistoryInv
  <2>2. Cardinality(ClaimsOf(r)) = 1
    BY <1>1 DEF ClaimsOf, Undisturbed
  <2> QED
    BY <2>1, <2>2, FS_Singleton
<1>4. Alone(r) /\ request[r].gen = request[r].checked
  BY <1>1 DEF Undisturbed, Alone
<1>5. Settled(r, key)
  BY <1>1, <1>2, <1>3, <1>4 DEF SettleInv, FollowedInv, Follows
<1>6. PICK k \in corrections : /\ k.by = r /\ k.of = r /\ k.key = key
                               /\ k.gas = AsI64(TxOf(r).budget) - CostOf(r)
  BY <1>1, <1>5 DEF Settled, Undisturbed
<1>7. k.window = window
  <2>1. k.window = None \/ (window \in Nat /\ window <= k.window)
    BY <1>1, <1>2, <1>6 DEF SettleInv, OrderInv
  <2>2. k.window \in Nat \cup {None}
    BY DEF AccountsInv, HistoryInv, CorrectionTyped
  <2>3. IF k.window = None
        THEN k.key \in DOMAIN counters /\ counters[k.key].expires = None
        ELSE IF k.key \in DOMAIN counters
        THEN counters[k.key].expires = None \/ k.window <= counters[k.key].expires
        ELSE k.window <= now
    BY DEF AccountsInv, FreshInv
  <2>4. k.window # None /\ k.window <= window
    BY <1>6, <2>3
  <2> QED
    BY <2>1, <2>2, <2>4
<1>8. request[r].gas = None => request[r].spent = 0
  BY <1>1, <1>4 DEF SettleInv, CostKnown
<1>9. Regular(k)
  BY <1>1, <1>2, <1>6, <1>7, <1>8 DEF Regular, Undisturbed
<1>10. k.gas = Amounts[c] - Spents[c]
  BY <1>1, <1>2, <1>6 DEF Amounts, Spents
<1>11. k \in RegularIn(key, window)
  BY <1>6, <1>7, <1>9 DEF RegularIn, CorrectionsIn
<1> QED
  BY <1>1, <1>3, <1>6, <1>10, <1>11

LEMMA SettleImpliesCounters ==
  ASSUME IInv, TypedInv, AccountsInv, SpendingInv, SettleInv
  PROVE  CountersSettle
<1> SUFFICES ASSUME NEW key \in DOMAIN counters, NEW window,
                    window = counters[key].expires, window # None,
                    "lostAnswer" \notin events,
                    \A c \in ClaimsIn(key, window) :
                      request[c.request].pc = "done" /\ Undisturbed(c.request)
             PROVE  counters[key].value = SpentUnder(ClaimsIn(key, window))
                                            - GasOf(IrregularIn(key, window))
  BY DEF CountersSettle, ClaimsIn, IrregularIn, CorrectionsIn
<1> DEFINE C == ClaimsIn(key, window)
           K == CorrectionsIn(key, window)
           R == RegularIn(key, window)
           I == IrregularIn(key, window)
           Rest == [c \in claims |-> Amounts[c] - Spents[c]]
           h == [c \in C |-> CHOOSE k \in R : k.by = c.request /\ k.gas = Rest[c]]
<1>1. IsFiniteSet(C) /\ C \subseteq claims
  BY FS_Subset DEF ClaimsIn, AccountsInv, HistoryInv
<1>2. \A c \in C : Amounts[c] \in Int /\ Spents[c] \in Int /\ Rest[c] \in Int
                   /\ Amounts[c] = Spents[c] + Rest[c]
  BY <1>1, ClaimAmounts DEF AccountsInv
<1>3. /\ IsFiniteSet(R) /\ IsFiniteSet(I) /\ K = R \cup I /\ R \cap I = {}
      /\ \A k \in R \cup I : Gases[k] = k.gas /\ Gases[k] \in Int
      /\ I \subseteq corrections
  <2>1. /\ IsFiniteSet(R) /\ IsFiniteSet(I) /\ K = R \cup I /\ R \cap I = {}
        /\ \A k \in K : Gases[k] = k.gas /\ Gases[k] \in Int
    BY CorrectionAmounts DEF AccountsInv
  <2>2. I \subseteq corrections
    BY DEF IrregularIn, CorrectionsIn
  <2> HIDE DEF K, R, I
  <2> QED
    BY <2>1, <2>2
<1>4. counters[key].value = Total(Amounts, C) - Total(Gases, K)
  BY DEF AccountsInv, AccountInv
<1>5. \A c \in C : h[c] \in R /\ h[c].by = c.request /\ Gases[h[c]] = Rest[c]
  <2> SUFFICES ASSUME NEW c \in C
               PROVE  h[c] \in R /\ h[c].by = c.request /\ Gases[h[c]] = Rest[c]
    OBVIOUS
  <2>1. \E k \in R : k.by = c.request /\ k.gas = Rest[c]
    BY <1>1, SettledClaims
  <2> QED
    BY <1>3, <2>1
<1> HIDE DEF h
<1>6. \A c, d \in C : h[c] = h[d] => c = d
  <2> SUFFICES ASSUME NEW c \in C, NEW d \in C, h[c] = h[d] PROVE c = d
    OBVIOUS
  <2>1. c.request = d.request
    BY <1>5
  <2>2. ASSUME NEW e \in C PROVE ClaimsOf(e.request) = {e}
    <3>1. request[e.request].pc = "done" /\ Undisturbed(e.request)
      OBVIOUS
    <3> QED
      BY <3>1, SettledClaims
  <2>3. {c} = {d}
    BY <2>1, <2>2
  <2> QED
    BY <2>3
<1>7. {h[c] : c \in C} = R
  <2>1. ASSUME NEW k \in R PROVE \E c \in C : h[c] = k
    <3>1. PICK c \in C : c.request = k.by
      BY DEF RegularIn, CorrectionsIn, Regular, ClaimsIn
    <3>2. h[c] \in R /\ h[c].by = k.by
      BY <1>5, <3>1
    <3>3. \A l \in R : l \in corrections
      BY DEF RegularIn, CorrectionsIn
    <3>4. h[c] = k
      BY <3>2, <3>3 DEF AccountsInv, HistoryInv
    <3> QED
      BY <3>4
  <2>2. \A c \in C : h[c] \in R
    BY <1>5
  <2> HIDE DEF C, R
  <2> QED
    BY <2>1, <2>2
<1>8. SpentUnder(C) = Total(Spents, C) /\ GasOf(I) = Total(Gases, I)
  BY <1>1, <1>3, SpentIsTotal, GasIsTotal
<1> HIDE DEF C, K, R, I, Rest
<1>9. Total(Gases, R) = Total(Rest, C)
  <2>1. \A c \in C : Rest[c] \in Int /\ Gases[h[c]] = Rest[c]
    BY <1>2, <1>5
  <2>2. Total(Gases, {h[c] : c \in C}) = Total(Rest, C)
    BY ONLY <1>1, <1>6, <2>1, TotalReindexed
  <2> QED
    BY <1>7, <2>2
<1>10. Total(Amounts, C) = Total(Spents, C) + Total(Rest, C)
  BY <1>1, <1>2, TotalOfSums
<1>11. Total(Gases, K) = Total(Gases, R) + Total(Gases, I)
  <2>1. Total(Gases, R \cup I) = Total(Gases, R) + Total(Gases, I)
    BY <1>3, TotalOfUnion
  <2> QED
    BY <1>3, <2>1
<1>12. /\ Total(Spents, C) \in Int /\ Total(Rest, C) \in Int
       /\ Total(Gases, R) \in Int /\ Total(Gases, I) \in Int
  BY <1>1, <1>2, <1>3, TotalType
<1> QED
  BY <1>4, <1>8, <1>9, <1>10, <1>11, <1>12 DEF C, I

(* Once the requests counted in a window are through, and nothing has come
   between a check and its confirmation, the counter tells the gas they have
   used, or the budgets of those that used more, for every number of requests
   and rules. *)
THEOREM CountersComeToTheCost == Spec => []CountersSettle
<1> DEFINE Inv == IInv /\ TypedInv /\ AccountsInv /\ SpendingInv /\ SettleInv
<1>1. Init => Inv
  BY InitImpliesIInv, InitImpliesTypedInv, InitImpliesAccounts, InitImpliesBound,
     InitImpliesSettle
<1>2. Inv /\ [Next]_vars => Inv'
  <2> SUFFICES ASSUME Inv, [Next]_vars PROVE Inv'
    OBVIOUS
  <2>1. IInv' /\ TypedInv' /\ AccountsInv' /\ SpendingInv'
    BY NextPreservesIInv, NextPreservesTypedInv, NextPreservesAccounts,
       NextPreservesSpending
  <2> QED
    BY <2>1, NextPreservesSettle
<1>3. Inv => CountersSettle
  BY SettleImpliesCounters
<1> QED
  BY <1>1, <1>2, <1>3, PTL DEF Spec
=============================================================================
