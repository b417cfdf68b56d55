------------------------------- MODULE MCServer --------------------------------
(***************************************************************************)
(* Server for TLC.                                                         *)
(***************************************************************************)
EXTENDS Server, MCService

(* Transfers of Alice that take the whole balance, share a key or would    *)
(* need the money again, and one of Bob's; all of them raise a risk event. *)
RetryTraffic ==
  { Pays("alice", "customer", "k1", 1, 2, 2), Pays("alice", "customer", "k1", 1, 2, 1),
    Pays("bob", "customer", "k1", 2, 1, 1) }

===============================================================================
