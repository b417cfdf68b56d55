--------------------------- MODULE MCPostgresStore ----------------------------
(***************************************************************************)
(* PostgresStore for TLC: the databases the runs start on and the requests *)
(* they send.                                                              *)
(***************************************************************************)
EXTENDS PostgresStore, Reconcile, TLC

CONSTANTS o1, o2, o3, o4   \* the calls that opened the accounts of Past

Intent(s, f, t, n) ==
  [kind |-> "transfer", scope |-> s, from |-> f, to |-> t, amount |-> n,
   description |-> "d"]
Opening(a, n) == [kind |-> "create", account |-> a, amount |-> n]

EquityIDs == [cur \in Currencies |-> IF cur = "EUR" THEN 90 ELSE 91]
AllEUR == [a \in Accounts |-> "EUR"]

(* Calls are interchangeable, except for those that opened the accounts.   *)
NewCalls == Permutations(Calls \ PastCalls)

(* Payments that collide: keys reused with another amount or between other *)
(* accounts, money spent twice, a ring 1, 2, 3 of payers, an account that  *)
(* is almost full, and 3 to 4, which shares no account with 1 to 2.        *)
FourOpen ==
  (o1 :> Opening(1, 2)) @@ (o2 :> Opening(2, 0)) @@ (o3 :> Opening(3, 2)) @@ (o4 :> Opening(4, 0))
Payments ==
  { Intent("k1", 1, 2, 1), Intent("k1", 1, 2, 2), Intent("k1", 3, 4, 1), Intent("k1", 1, 1, 2),
    Intent("k2", 2, 1, 1), Intent("k2", 2, 3, 1), Intent("k2", 3, 1, 1), Intent("k2", 1, 3, 2) }

(* Accounts are opened while transfers name them; 3 and 4 are the first    *)
(* ones in their currency, and its system account can fund both only just, *)
(* or not.  Includes requests that validation refuses.  All transfers      *)
(* debit account 1, so that no two of them race for a key without meeting  *)
(* at its row.                                                             *)
OneOpen == o1 :> Opening(1, 1)
TwoCurrencies == [a \in Accounts |-> IF a \in {3, 4} THEN "USD" ELSE "EUR"]
Arrivals ==
  {Opening(2, 1), Opening(3, 0), Opening(3, 2), Opening(3, -1), Opening(4, 1), Opening(4, 2)}
  \cup {Intent(s, 1, t, 1) : s \in Scopes, t \in {1, 2, 3}}
  \cup {Intent(s, 1, 2, 0) : s \in Scopes}

(* At every instant a reconciliation of the committed tables finds every   *)
(* journal transaction balanced and every stored balance equal to the sum  *)
(* of its postings (cmd/secureledger-reconcile reports no difference).     *)
ReconciliationClean ==
  Clean(Report([accounts |-> accounts, balance |-> balance, postings |-> postings,
                transactions |-> {t.id : t \in journal} \cup openings]))

===============================================================================
