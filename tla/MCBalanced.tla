------------------------------ MODULE MCBalanced -------------------------------
(***************************************************************************)
(* ValidateBalanced against what it is meant to decide, on every list of   *)
(* at most MaxLength postings: the lists are the states.                   *)
(***************************************************************************)
EXTENDS Balanced
LOCAL INSTANCE SequencesExt

CONSTANTS MaxLength, Currencies

VARIABLE list

Exact(ps) == FoldLeft(LAMBDA sum, p : sum + p.amount, 0, ps)

Init == list = <<>>

Grow ==
  /\ Len(list) < MaxLength
  /\ \E n \in MinInt64 .. MaxInt64, cur \in Currencies :
       list' = Append(list, [amount |-> n, currency |-> cur])

Full == Len(list) = MaxLength /\ UNCHANGED list

Next == Grow \/ Full

Spec == Init /\ [][Next]_list

(* ValidateBalanced accepts a list exactly when it has two or more         *)
(* postings, none of them zero, all of one currency, whose sum over the    *)
(* integers, not modulo 2^64, is zero, provided no partial sum leaves the  *)
(* int64 range.  In particular what it accepts balances exactly.           *)
AcceptsExactlyBalanced ==
  ValidateBalanced(list) = "ok" <=>
    /\ Len(list) >= 2
    /\ \A i \in DOMAIN list : list[i].amount # 0 /\ list[i].currency = list[1].currency
    /\ \A i \in DOMAIN list : Exact(SubSeq(list, 1, i)) \in MinInt64 .. MaxInt64
    /\ Exact(list) = 0

===============================================================================
