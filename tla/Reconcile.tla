------------------------------- MODULE Reconcile -------------------------------
(***************************************************************************)
(* The two queries of internal/store/postgres/reconcile.go, as functions   *)
(* of the tables they read.                                                *)
(***************************************************************************)
EXTENDS Domain, FiniteSets
LOCAL INSTANCE FiniteSetsExt

SumAmounts(ps) == MapThenSumSet(LAMBDA p : p.amount, ps)

(* Journal transactions without exactly two postings (expected_postings)   *)
(* that add up to zero.  ids are the rows of journal_transactions.         *)
UnbalancedTransactions(ids, ps) ==
  {i \in ids :
     LET own == {p \in ps : p.transaction = i}
     IN Cardinality(own) # 2 \/ SumAmounts(own) # 0}

(* Accounts whose stored balance is not the sum of their postings.         *)
BalanceDifferences(ids, stored, ps) ==
  {a \in ids : stored[a] # SumAmounts({p \in ps : p.account = a})}

(* The report on a state of the tables: the counts and the differences.    *)
Report(db) ==
  [checked |-> Cardinality(db.accounts),
   unbalanced |-> Cardinality(UnbalancedTransactions(db.transactions, db.postings)),
   differences |-> BalanceDifferences(db.accounts, db.balance, db.postings)]

(* ReconciliationReport.Clean                                              *)
Clean(report) == report.unbalanced = 0 /\ report.differences = {}

===============================================================================
