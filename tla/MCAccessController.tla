------------------------- MODULE MCAccessController -------------------------
(* Two configurations.  The first denies all but sender a up to a gas usage of
   3 per two ticks, and leaves the others to a hook behind a Rego policy; the
   second allows all but senders above 3 gas a tick, counted by sender and
   header, and budgets of 3 of sender b.  Budgets of 2 and 4 pass the limit
   together and overflow the counters, which end at 4; one of 9 counts as -1,
   which lets the 4 pass after it.  A transaction may use more than its budget
   of 2, when a rebate pays for it. *)
EXTENDS AccessController

LOCAL INSTANCE SequencesExt

CONSTANTS r1, r2

Than(operator, number) == [operator |-> operator, number |-> number]

Denying ==
  [policy |-> "DenyAll",
   rules |-> <<WithGasLimit(DefaultRule, NewAggregate(2, Than(OP_LE, 3))),
               [WithAction(WithRegoExpression(DefaultRule, NewHttp("policy", "rule")),
                           HookOf("u", None))
                  EXCEPT !.movePackages = WithPackage(None, "p")]>>]

Allowing ==
  [policy |-> "AllowAll",
   rules |-> <<WithAction(
                 WithGasLimit(DefaultRule,
                   WithCountBy(NewAggregate(1, Than(OP_GT, 3)),
                               <<CountBySender, CountByHeader("n")>>)),
                 Deny),
               [WithAction(WithGasBudget(DefaultRule, Than(OP_GE, 3)), Deny)
                  EXCEPT !.senderAddress = WithAddress(Single("a"), "b")]>>]

MCNames == {"n", "no name"}
MCValidNames == {"n"}
MCValues == {"v"}

(* Its hook has a header that cannot be sent. *)
Broken ==
  [Denying EXCEPT !.rules[2].action =
     HookOf("u", [n \in MCNames |-> <<"v">>])]

MCConfigs == {Denying, Allowing, Broken}
MCAddresses == {"a", "b", "p"}
MCUrls == {"u"}
MCPlaces == {"policy", "rule"}
(* These rules, with all forms of locations and addresses, are read back. *)
ASSUME RulesAreReadBack ==
  \A c \in MCConfigs : \A i \in DOMAIN c.rules :
    \A l \in {NewFile("policy", "rule"), NewRedis("policy", "rule", "policy"),
             NewHttp("policy", "rule")} :
      \A a \in {List(<< >>), NewAddresses(<<"a", "b">>)} :
        LET rule == [WithCommandCount(WithRegoExpression(c.rules[i], l), Than(OP_NE, 2))
                       EXCEPT !.movePackages = a]
        IN  ReadRule(RuleText(rule)) = {rule}

Tx(digest, sender, budget) ==
  NewContext([digest |-> digest, sender |-> sender, budget |-> budget,
              programmable |-> TRUE, commands |-> <<"p", None>>],
             [n \in {"n"} |-> "v"])

(* bcs.decode_typed, with bytes of two bits: what was encoded is decoded, and
   what is decoded has no other bytes; by a layout, bytes that do not fit may
   come back as they are. *)
Bcs == INSTANCE BcsDecoder WITH
         Radix <- 4, AddressLength <- 2, Utf8 <- {<< >>, <<1>>, <<2, 1>>}

Bytes(n, width) == [i \in 1 .. width |-> (n \div 4 ^ (i - 1)) % 4]

EncodedLength(n) == IF n < 2 THEN <<n>> ELSE <<2 + (n % 2), n \div 2>>

Encoded(type, v) ==
  CASE "bool" = type -> <<IF v.bool THEN 1 ELSE 0>>
    [] "address" = type -> v.address
    [] "string" = type -> EncodedLength(Len(v.string)) \o v.string
    [] OTHER -> Bytes(v.number, Bcs!Width[type])

EncodedValue(type, v) ==
  IF type \in DOMAIN Bcs!ElementOf
  THEN FoldLeft(LAMBDA s, e : s \o Encoded(Bcs!ElementOf[type], e),
                EncodedLength(Len(v.array)), v.array)
  ELSE Encoded(type, v)

Samples(type) ==
  CASE "bool" = type -> {[bool |-> b] : b \in BOOLEAN}
    [] "address" = type -> {[address |-> <<3, 0>>], [address |-> <<1, 2>>]}
    [] "string" = type -> {[string |-> s] : s \in {<< >>, <<1>>, <<2, 1>>}}
    [] OTHER -> {[number |-> n] : n \in {0, 1, 4 ^ Bcs!Width[type] - 1}}

SampleValues(type) ==
  IF type \in DOMAIN Bcs!ElementOf
  THEN {[array |-> a] : a \in UNION {[1 .. n -> Samples(Bcs!ElementOf[type])] : n \in 0 .. 3}}
  ELSE Samples(type)

ASSUME EncodedIsDecoded ==
  \A type \in Bcs!BcsDataType : \A v \in SampleValues(type) :
    Bcs!BcsDecodeTyped(<<EncodedValue(type, v), type>>) = {v}

Raw(s) == [array |-> [i \in DOMAIN s |-> [number |-> s[i]]]]

ASSUME DecodedWasEncoded ==
  \A n \in 0 .. 5 : \A s \in [1 .. n -> 0 .. 3] : \A type \in Bcs!BcsDataType :
    LET outcomes == Bcs!BcsDecodeTyped(<<s, type>>)
    IN  \/ outcomes = {Bcs!Error}
        \/ type \in {"bool", "vector_bool", "vector_address"}
              /\ outcomes = {Bcs!Error, Raw(s)}
        \/ \E v \in outcomes : outcomes = {v} /\ EncodedValue(type, v) = s

(* One value of each width and kind, written out. *)
ASSUME WidthsAsExpected ==
  \A c \in {<<"vector_u8", <<1, 3>>, 3>>, <<"vector_u16", <<1, 1, 2>>, 9>>,
               <<"vector_u32", <<1, 1, 2, 0, 1>>, 73>>,
               <<"vector_u64", <<1, 1, 2, 0, 0, 0, 0, 0, 0>>, 9>>} :
    Bcs!BcsDecodeTyped(<<c[2], c[1]>>) = {[array |-> <<[number |-> c[3]]>>]}

ASSUME UnknownIsRefused ==
  /\ Bcs!BcsDecodeTyped(<<<<1>>, "u128">>) = {Bcs!Error}
  /\ Bcs!BcsDecodeTyped(<<<<4>>, "u8">>) = {Bcs!Error}
  /\ Bcs!BcsDecodeTyped(<<<<1>>>>) = {Bcs!Error}

MCRequests == {r1, r2}
MCTransactions ==
  {Tx("d1", "a", 2), Tx("d2", "b", 4), Tx("d3", "a", 9)}
MCGasUsed == {1, 5}

(* It accepts what a sends and fails on what b sends. *)
MCRegoPolicies ==
  {[accepts |-> {RegoInput(tx) : tx \in {t \in MCTransactions : t.sender = "a"}},
    fails |-> {RegoInput(tx) : tx \in {t \in MCTransactions : t.sender = "b"}}]}
=============================================================================
