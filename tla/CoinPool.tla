----------------------------- MODULE CoinPool -----------------------------
(***************************************************************************)
(* What the storage promises of the gas coins (storage/mod.rs:24-30), with *)
(* no list, no queue and no clock: every coin has one owner at a time.  A  *)
(* reservation takes pooled coins, one agent takes over all coins of a     *)
(* reservation, and an agent gives its coins back to the pool or gives     *)
(* them up.  A coin nobody owns has left the pool for good.                *)
(***************************************************************************)
CONSTANTS
  Coins,
  Reservations,  \* the owners that are reservations
  Agents,        \* the owners that are tasks
  Pool, Nobody   \* the two other owners

VARIABLE owner   \* who has a coin

Owners == Reservations \cup Agents \cup {Pool, Nobody}

Init == owner = [c \in Coins |-> Pool]

(* Coins move from an owner in From to one in To, or stay. *)
Transfer(From, To) ==
  /\ owner' \in [Coins -> Owners]
  /\ \A c \in Coins :
       owner'[c] # owner[c] => owner[c] \in From /\ owner'[c] \in To

OwnsNothing(o) == \A c \in Coins : owner[c] # o

(* A caller gets coins that no other caller has. *)
Reserve(r) ==
  /\ OwnsNothing(r)
  /\ Transfer({Pool}, {r})

(* A reservation ends as a whole, and with one agent. *)
TakeOver(a) ==
  /\ OwnsNothing(a)
  /\ Transfer(Reservations, {a})
  /\ \A c, d \in Coins : owner[c] = owner[d] => owner'[c] = owner'[d]

(* An agent that is done keeps nothing. *)
GiveBack(a) ==
  /\ Transfer({a}, {Pool, Nobody})
  /\ \A c \in Coins : owner'[c] # a

(* Agents that stop take their coins with them. *)
Stop == Transfer(Agents, {Nobody})

Next ==
  \/ \E r \in Reservations : Reserve(r)
  \/ \E a \in Agents : TakeOver(a) \/ GiveBack(a)
  \/ Stop

Spec == Init /\ [][Next]_owner
=============================================================================
