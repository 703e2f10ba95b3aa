----------------------------- MODULE MCStartup -----------------------------
(* Two gas stations, two coins and three targets, of which no pool can be
   built for the last. *)
EXTENDS Startup

LOCAL INSTANCE TLC

CONSTANTS c1, c2, p1, p2

TwoCoins == {c1, c2}
OneProcess == {p1}
TwoProcesses == {p1, p2}
MCTargets == {1, 2, 3}
MCTooSmall == {3}
MCFlags == {{}, {"allow-reinit", "ignore-locks"},
            {"allow-reinit", "delete-coin-registry"}}

(* The consistency check, against divergences that are known: pages add up, the
   order of the values does not matter, a fifth is within the threshold. *)
Check == INSTANCE ConsistencyCheck WITH None <- Missing

CoinsOf(n, balance) == [i \in 1 .. n |-> [balance |-> balance]]

ASSUME WarningsAsExpected ==
  /\ Check!AggregateCoinStats(<<CoinsOf(2, 3), << >>, CoinsOf(1, 5)>>)
       = [count |-> 3, balance |-> 11]
  /\ \A a, b \in 0 .. 25 :
       /\ Check!Warnings([count |-> a, balance |-> 2 * a], <<CoinsOf(b, 2)>>)
            = IF 5 * a < 4 * b \/ 5 * b < 4 * a THEN {"balance", "coin count"} ELSE {}
       /\ Check!Warnings([count |-> a, balance |-> 2 * b], <<CoinsOf(b, 2)>>)
            = IF 5 * a < 4 * b \/ 5 * b < 4 * a THEN {"coin count"} ELSE {}
       /\ Check!DivergesBy(a, b, 0) <=> a # b
       /\ ~Check!DivergesBy(a, b, 100)

(* The names of keys: stations of other networks or sponsors, the earlier
   version, the gas counters and the cold parameters lose no key to a cleanup.
   The path of a url makes no difference, and a station whose node has an
   address in brackets cleans up nothing. *)
Named == INSTANCE Namespaces WITH NoPort <- 0, Bracketed <- {"[::1]"}

Nodes == [scheme : {"http", "https"}, host : {"a", "b", "[::1]"}, port : {0, 80},
          path : {"x", "y"}]
NamespacePrefixes == {Named!GetStorageNamespace(u, s) : u \in Nodes, s \in {"0x1", "0x2"}}

KeysOf(prefix) ==
  {Append(Named!GenerateNamespace(prefix), k) :
     k \in {"init_lock", "maintenance_lock", "initialized", "1"}}
OtherKeys(prefix) ==
  {Append(Named!GetTrackerNamespace(prefix), "sum"), Named!GetColdParamsKey(prefix),
   Append(Named!OldNamespace(prefix[2]), "1")}
AllKeys == UNION {KeysOf(p) \cup OtherKeys(p) : p \in NamespacePrefixes}

ASSUME CleanUpStaysAtHome ==
  /\ Cardinality(NamespacePrefixes) = 3 * 2 * 2
  /\ \A p \in NamespacePrefixes :
       LET registry == Named!GenerateNamespace(p)
           cleaned == Named!CleanedUp(registry, AllKeys)
       IN  IF p[1][1] = "[::1]" THEN cleaned = {}
           ELSE cleaned = {Append(registry, k) : k \in {"initialized", "1"}}

Symmetric == Permutations(Processes) \cup Permutations(Coins)
=============================================================================
