----------------------------- MODULE ReconcileRun ------------------------------
(***************************************************************************)
(* One run of cmd/secureledger-reconcile beside a working ledger: the      *)
(* transaction of Reconcile query by query, and the exit status.           *)
(*                                                                         *)
(* The transaction is REPEATABLE READ: its first query takes the snapshot  *)
(* that all of them read.  The ledger is any repository that keeps the     *)
(* contract, or keeps it but for Misreport; besides, a statement from      *)
(* outside may change a stored balance, which is what the command exists   *)
(* to find (docs/adr/0006).                                                *)
(***************************************************************************)
EXTENDS Reconcile

VARIABLES
  accounts, balance, journal, openings, postings, audits, risks, req, reply, missing,
  phase,      \* the query that comes next
  snapshot,   \* the database the transaction sees
  report,     \* the report so far
  exit,       \* "none", "clean", "differences" or "error"
  truths,     \* history: correct reports on the databases since the run began
  tampered    \* history: whether a balance was changed from outside

ledger == <<accounts, balance, journal, openings, postings, audits, risks, req, reply, missing>>
command == <<phase, snapshot, report, exit>>
vars == <<ledger, command, truths, tampered>>

Repo == INSTANCE Ledger

Database ==
  [accounts |-> accounts, balance |-> balance, postings |-> postings,
   transactions |-> {t.id : t \in journal} \cup openings]

EmptyReport == [checked |-> 0, unbalanced |-> 0, differences |-> {}]

Init ==
  /\ Repo!Init
  /\ phase = "count"
  /\ snapshot = Database
  /\ report = EmptyReport
  /\ exit = "none"
  /\ truths = {Report(Database)}
  /\ tampered = FALSE

-------------------------------------------------------------------------------
Serve ==
  /\ Repo!WeakNext
  /\ UNCHANGED <<command, tampered>>

Tamper ==
  /\ ~tampered
  /\ tampered' = TRUE
  /\ \E a \in accounts : balance' = [balance EXCEPT ![a] = 0]
  /\ UNCHANGED <<accounts, journal, openings, postings, audits, risks, req, reply, missing, command>>

Query(from, to) ==
  /\ phase = from
  /\ phase' = to
  /\ UNCHANGED <<ledger, exit, tampered>>

(* BEGIN, and the number of accounts.                                      *)
CountAccounts ==
  /\ Query("count", "journal")
  /\ snapshot' = Database
  /\ report' = [report EXCEPT !.checked = Cardinality(accounts)]

CheckJournal ==
  /\ Query("journal", "balances")
  /\ report' = [report EXCEPT !.unbalanced =
                  Cardinality(UnbalancedTransactions(snapshot.transactions, snapshot.postings))]
  /\ UNCHANGED snapshot

(* Faults: READ COMMITTED; balances kept from the snapshot, postings not.  *)
CompareReadCommitted ==
  /\ Query("balances", "commit")
  /\ report' = [report EXCEPT !.differences = BalanceDifferences(accounts, balance, postings)]
  /\ UNCHANGED snapshot

CompareMixed ==
  /\ Query("balances", "commit")
  /\ report' = [report EXCEPT !.differences =
                  BalanceDifferences(snapshot.accounts, snapshot.balance, postings)]
  /\ UNCHANGED snapshot

CompareBalances ==
  /\ Query("balances", "commit")
  /\ report' = [report EXCEPT !.differences =
                  BalanceDifferences(snapshot.accounts, snapshot.balance, snapshot.postings)]
  /\ UNCHANGED snapshot

End(status) ==
  /\ phase # "exited"
  /\ phase' = "exited"
  /\ exit' = status
  /\ UNCHANGED <<ledger, snapshot, report, tampered>>

(* COMMIT, the report is written and decides the exit status.              *)
Commit == phase = "commit" /\ End(IF Clean(report) THEN "clean" ELSE "differences")

(* The database, a query, the COMMIT or the output fails, or the 30        *)
(* seconds are over.                                                       *)
Fail == End("error")

Exited == phase = "exited" /\ UNCHANGED vars

(* Keeps the history variable while the command runs.                      *)
Observe == truths' = IF phase = "exited" THEN truths ELSE truths \cup {Report(Database)'}

Next ==
  \/ (Serve \/ Tamper \/ CountAccounts \/ CheckJournal \/ CompareBalances \/ Commit \/ Fail) /\ Observe
  \/ Exited

Spec == Init /\ [][Next]_vars

-------------------------------------------------------------------------------
(***************************************************************************)
(* Properties.                                                             *)
(***************************************************************************)

(* Although its figures come from three queries, a finished report is true *)
(* of one database the run saw, whatever is transferred, opened or         *)
(* tampered with meanwhile.                                                *)
ReportIsOneInstant ==
  exit \in {"clean", "differences"} => report \in truths

(* "concurrent transfers do not create a mixed-snapshot false positive"    *)
(* (docs/adr/0006): the command reports differences only if a balance was  *)
(* changed from outside.                                                   *)
NoFalseAlarm ==
  exit = "differences" => tampered

===============================================================================
