---------------------------- MODULE MCMemoryStore ------------------------------
(***************************************************************************)
(* MemoryStore for TLC.                                                    *)
(***************************************************************************)
EXTENDS MemoryStore, TLC

CONSTANTS o1, o2, c1, c2, c3   \* o1 and o2 opened the accounts of Past

Intent(s, f, t, n) ==
  [kind |-> "transfer", scope |-> s, from |-> f, to |-> t, amount |-> n,
   description |-> "d"]
Opening(a, n) == [kind |-> "create", account |-> a, amount |-> n]

EquityIDs == [cur \in Currencies |-> IF cur = "EUR" THEN 90 ELSE 91]
LastTwoUSD == [a \in Accounts |-> IF a >= 3 THEN "USD" ELSE "EUR"]
TwoOpen == (o1 :> Opening(1, 3)) @@ (o2 :> Opening(2, 2))

(* Fresh identifiers for every call, as the service draws them, except     *)
(* that c3 gets some of c2's, and the risk event of c1.                    *)
CollidingIDs ==
  LET fresh == [c \in Calls |-> [transaction |-> c, postings |-> <<<<c, 1>>, <<c, 2>>>>,
                                audit |-> c, risk |-> c]]
  IN [fresh EXCEPT ![c3] = [transaction |-> c2, postings |-> <<<<c3, 1>>, <<c2, 2>>>>,
                            audit |-> c2, risk |-> c1]]

(* Payments and openings that run into every refusal: funds, overflow,     *)
(* currency, a missing account, a reused key, and a system account that    *)
(* cannot fund both 3 and 4.                                               *)
Business ==
  { Intent("k1", 1, 2, 2), Intent("k1", 1, 3, 1), Intent("k1", 1, 1, 1),
    Intent("k2", 1, 2, 2), Intent("k2", 2, 1, 2), Opening(3, 0), Opening(3, 2), Opening(4, 4) }

===============================================================================
