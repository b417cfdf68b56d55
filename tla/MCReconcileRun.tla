---------------------------- MODULE MCReconcileRun -----------------------------
(***************************************************************************)
(* ReconcileRun for TLC.                                                   *)
(***************************************************************************)
EXTENDS ReconcileRun, TLC

CONSTANTS o1, o2

Opening(a, n) == [kind |-> "create", account |-> a, amount |-> n]
TwoOpen == (o1 :> Opening(1, 2)) @@ (o2 :> Opening(2, 1))
Equity == [cur \in Currencies |-> 90]
OneCurrency == [a \in Accounts |-> "EUR"]
OneScope == {<<"alice", "k1">>, <<"alice", "k2">>}

(* Two transfers in opposite directions and a funded account.              *)
Work ==
  { [kind |-> "transfer", scope |-> <<"alice", "k1">>, from |-> 1, to |-> 2, amount |-> 1,
     description |-> "d"],
    [kind |-> "transfer", scope |-> <<"alice", "k2">>, from |-> 2, to |-> 1, amount |-> 1,
     description |-> "d"],
    Opening(3, 1) }

===============================================================================
