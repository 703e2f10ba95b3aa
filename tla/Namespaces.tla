---------------------------- MODULE Namespaces ----------------------------
(***************************************************************************)
(* The names of the keys in a Redis that several stations may share        *)
(* (storage/mod.rs, storage/redis/mod.rs, tracker, command.rs).  A name is *)
(* the sequence of the parts that colons separate.                         *)
(***************************************************************************)
EXTENDS Integers, Sequences

CONSTANTS
  NoPort,     \* a url that names no port, or the default one of its scheme
  Bracketed   \* hosts written in brackets: addresses of IPv6

(* The path of the url is not part of the prefix, nor is its scheme but for the
   port. *)
Port(url) ==
  IF url.port # NoPort THEN url.port
  ELSE IF url.scheme = "https" THEN 443 ELSE 80

GetStorageNamespace(url, sponsor) == <<<<url.host, Port(url)>>, sponsor>>

GenerateNamespace(prefix) == Append(prefix, "registry")

GetTrackerNamespace(prefix) == Append(prefix, "tracker")

GetColdParamsKey(prefix) == Append(prefix, "cold_params")

(* The earlier version's keys were named by the sponsor alone. *)
OldNamespace(sponsor) == <<sponsor>>

IsIn(namespace, key) ==
  /\ Len(key) > Len(namespace)
  /\ SubSeq(key, 1, Len(namespace)) = namespace

(* What clean_up_coin_registry.lua finds with "<namespace>:*", which SCAN takes
   for a pattern: the brackets of a host stand for one character there, so the
   keys of such a namespace do not match it. *)
Matching(namespace, keys) ==
  {k \in keys : IsIn(namespace, k) /\ namespace[1][1] \notin Bracketed}

CleanedUp(namespace, keys) ==
  Matching(namespace, keys)
    \ {Append(namespace, "maintenance_lock"), Append(namespace, "init_lock")}
=============================================================================
