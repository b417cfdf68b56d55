------------------------------- MODULE Balanced --------------------------------
(***************************************************************************)
(* ValidateBalanced of internal/domain/model.go: one pass over the         *)
(* postings of a transaction with a running int64 sum.  Empty identifiers  *)
(* and malformed currencies never get here and are not represented.        *)
(***************************************************************************)
EXTENDS Integers, Checks
LOCAL INSTANCE SequencesExt

CONSTANT MaxInt64   \* stands for 2^63 - 1

MinInt64 == -MaxInt64 - 1

(* int64 addition wraps around.                                            *)
Add(m, n) == ((m + n - MinInt64) % (2 * (MaxInt64 + 1))) + MinInt64

(* Fault: the sum may wrap around.                                         *)
StepWithoutOverflowCheck(scan, p) ==
  LET status == Verdict(<<
        Check(p.amount = 0, "invalid_input"),
        Check(p.currency # scan.currency, "currency_mismatch")>>)
  IN IF scan.status # "ok" THEN scan
     ELSE [scan EXCEPT !.status = status,
                       !.sum = IF status = "ok" THEN Add(@, p.amount) ELSE @]

(* The body of the loop.                                                   *)
Step(scan, p) ==
  LET status == Verdict(<<
        Check(p.amount = 0, "invalid_input"),
        Check(p.currency # scan.currency, "currency_mismatch"),
        Check(\/ p.amount > 0 /\ scan.sum > MaxInt64 - p.amount
              \/ p.amount < 0 /\ scan.sum < MinInt64 - p.amount, "invalid_input")>>)
  IN IF scan.status # "ok" THEN scan
     ELSE [scan EXCEPT !.status = status,
                       !.sum = IF status = "ok" THEN Add(@, p.amount) ELSE @]

ValidateBalanced(ps) ==
  IF Len(ps) < 2 THEN "invalid_input"
  ELSE LET scan == FoldLeft(Step, [sum |-> 0, status |-> "ok", currency |-> ps[1].currency], ps)
       IN Verdict(<<Check(scan.status # "ok", scan.status),
                    Check(scan.sum # 0, "invalid_input")>>)

===============================================================================
