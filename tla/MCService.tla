------------------------------ MODULE MCService --------------------------------
(***************************************************************************)
(* Service for TLC.                                                        *)
(***************************************************************************)
EXTENDS Service, TLC

CONSTANTS o1, o2

Opening(a, n) == [kind |-> "create", account |-> a, amount |-> n]
TwoOpen == (o1 :> Opening(1, 2)) @@ (o2 :> Opening(2, 1))
EquityIDs == [cur \in Currencies |-> IF cur = "EUR" THEN 90 ELSE 91]
LastUSD == [a \in Accounts |-> IF a = 4 THEN "USD" ELSE "EUR"]
Owners == [a \in AllAccounts |-> IF a \in {1, 4} THEN "alice" ELSE IF a \in {2, 3} THEN "bob" ELSE "system"]
AllScopes == {"alice", "bob"} \X {"k1", "k2"}
NewCalls == Permutations(Calls \ PastCalls)

Request(actor, role, body, key, input) ==
  [actor |-> actor, role |-> role, body |-> body, key |-> key, input |-> input]
Payment(f, t, n) == [kind |-> "transfer", from |-> f, to |-> t, amount |-> n, description |-> "d"]
Pays(actor, role, key, f, t, n) == Request(actor, role, "ok", key, Payment(f, t, n))

(* Alice and Bob pay each other with the same keys, spend the same money   *)
(* twice, name accounts that are opened meanwhile, that are not theirs, of *)
(* another currency or of the system, and exceed the limit; an auditor and *)
(* an operator look and open accounts; bodies do not decode.               *)
Traffic ==
  { Pays("alice", "customer", "k1", 1, 2, 2), Pays("alice", "customer", "k1", 1, 2, 1),
    Pays("bob", "customer", "k1", 1, 2, 2), Pays("bob", "operator", "k1", 1, 2, 2),
    Pays("bob", "customer", "k1", 2, 1, 1),
    Pays("alice", "customer", "k2", 1, 3, 1), Pays("alice", "customer", "k2", 4, 1, 1),
    Pays("alice", "customer", "k2", 90, 1, 1), Pays("alice", "customer", "k2", 1, 2, 3),
    Pays("bob", "auditor", "k1", 2, 1, 1),
    Request("alice", "customer", "unsupported_media", "k1", Payment(1, 2, 2)),
    Request("bob", "operator", "ok", "", Opening(3, 0)),
    Request("bob", "operator", "ok", "", Opening(4, 1)),
    Request("bob", "customer", "ok", "", Opening(3, 0)),
    Request("bob", "customer", "ok", "", [kind |-> "get", account |-> 1]),
    Request("alice", "customer", "ok", "", [kind |-> "list", limit |-> 1]),
    Request("bob", "auditor", "ok", "", [kind |-> "list", limit |-> 1]),
    Request("bob", "auditor", "ok", "", [kind |-> "list", limit |-> 0]) }

===============================================================================
