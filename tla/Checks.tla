-------------------------------- MODULE Checks ---------------------------------
(***************************************************************************)
(* A function that validates its input returns at the first check that     *)
(* fails: a sequence of checks, and the status it leads to.                *)
(***************************************************************************)
EXTENDS Sequences

Check(fails, status) == [fails |-> fails, status |-> status]

Verdict(checks) ==
  LET failed == SelectSeq(checks, LAMBDA k : k.fails)
  IN IF failed = <<>> THEN "ok" ELSE Head(failed).status

===============================================================================
