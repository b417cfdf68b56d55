---------------------------- MODULE MCLedgerOutbox -----------------------------
(***************************************************************************)
(* LedgerOutbox for TLC.                                                   *)
(***************************************************************************)
EXTENDS LedgerOutbox, TLC

CONSTANTS o1, o2

Opening(a, n) == [kind |-> "create", account |-> a, amount |-> n]
TwoOpen == (o1 :> Opening(1, 2)) @@ (o2 :> Opening(2, 1))
Equity == [cur \in Currencies |-> 90]
OneCurrency == [a \in Accounts |-> "EUR"]
OneScope == {<<"alice", "k1">>}

(* A flagged transfer, a repetition of it, and another with its key.       *)
Flaggings ==
  [kind : {"transfer"}, scope : OneScope, from : {1}, to : {2}, amount : {1, 2}, description : {"d"}]

===============================================================================
