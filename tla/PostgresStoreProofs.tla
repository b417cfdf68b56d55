-------------------------- MODULE PostgresStoreProofs -------------------------
(***************************************************************************)
(* The safety properties of PostgresStore, proved for any number of calls, *)
(* accounts, keys and retries.  IInv is inductive; everything else follows *)
(* from it.                                                                *)
(***************************************************************************)
EXTENDS PostgresStoreSteps, PostgresStoreTransfer, PostgresStoreAccount

(* lockAccounts asks for a row it does not hold, the smaller id first.     *)
LEMMA NextRowIsLeast ==
  ASSUME TypeOK, NEW c \in Calls, req[c] # NoRequest, IsTransfer(c), Unlocked(c) # {}
  PROVE  /\ NextRow(c) \in Unlocked(c)
         /\ NextRow(c) \in {req[c].from, req[c].to} \cap snap[c].accounts
         /\ NextRow(c) \in AllAccounts
         /\ \A b \in Unlocked(c) : NextRow(c) <= b
  <1>1. /\ Unlocked(c) \subseteq {req[c].from, req[c].to} \cap snap[c].accounts
        /\ req[c].from \in AllAccounts /\ req[c].to \in AllAccounts
        /\ req[c].from \in Nat /\ req[c].to \in Nat
    BY RequestKinds, AccountIDs DEF Unlocked, Visible
  <1>2. \E a \in Unlocked(c) : \A b \in Unlocked(c) : a <= b
    BY <1>1
  <1>3. NextRow(c) \in Unlocked(c) /\ \A b \in Unlocked(c) : NextRow(c) <= b
    BY <1>2 DEF NextRow
  <1> QED
    BY <1>1, <1>3

(* The end of the loop body preserves the invariant, whichever way it goes.*)
LEMMA RetryOrReturnPreserves ==
  ASSUME IInv, NEW c \in Calls, pc[c] \in Running,
         NEW status \in {"invalid_input", "error"}, RetryOrReturn(c, status)
  PROVE  IInv'
  BY LeavePreserves DEF RetryOrReturn, Statuses

(* Every step preserves the inductive invariant.                           *)
LEMMA NextPreserves == IInv /\ [Next]_vars => IInv'
  <1> SUFFICES ASSUME IInv, [Next]_vars PROVE IInv'
    OBVIOUS
  <1>t. TypeOK /\ \A c \in Calls : CallInv(c)
    BY DEF IInv, CallInv
  <1>r. \A c \in Calls : pc[c] \in Running => req[c] # NoRequest
    BY <1>t DEF CallInv, PhaseInv, Running, InTransaction
  <1>1. ASSUME NEW c \in Calls, NEW r \in Requests, Invoke(c, r)
        PROVE  IInv'
    BY <1>1, InvokePreserves
  <1>2. ASSUME NEW c \in Calls, RejectInvalid(c)
        PROVE  IInv'
    BY <1>2, LeavePreserves DEF RejectInvalid, Statuses, Running
  <1>3. ASSUME NEW c \in Calls, FindIdempotentTransfer(c)
        PROVE  IInv'
    <2>1. pc[c] = "begin" /\ IsTransfer(c) /\ ValidRequest(req[c])
      BY <1>3 DEF FindIdempotentTransfer
    <2>2. CASE \E t \in Stored(c) : /\ SameIntent(t, req[c])
                                    /\ TakeSnapshot(c, "commit")
                                    /\ result' = [result EXCEPT ![c] = t.id]
      BY <2>1, <2>2, SnapshotPreserves DEF InTransaction
    <2>3. CASE Refuse(c, "idempotency_conflict") \/ Refuse(c, "invalid_input")
      BY <2>1, <2>3, LeavePreserves DEF Statuses, Running
    <2>4. CASE Stored(c) = {} /\ req[c].from # req[c].to /\ TakeSnapshot(c, "lock") /\ UNCHANGED result
      BY <2>1, <2>4, SnapshotPreserves DEF InTransaction
    <2> QED
      BY <1>3, <2>2, <2>3, <2>4 DEF FindIdempotentTransfer
  <1>4. ASSUME NEW c \in Calls, LockAccount(c)
        PROVE  IInv'
    <2>1. pc[c] = "lock" /\ pc[c] \in Running /\ Unlocked(c) # {} /\ rowLock[NextRow(c)] = NoCall
      BY <1>4 DEF LockAccount, Running, InTransaction
    <2>2. /\ NextRow(c) \in {req[c].from, req[c].to} \cap snap[c].accounts
          /\ NextRow(c) \in AllAccounts
      BY <1>t, <1>r, <2>1, NextRowIsLeast DEF CallInv, PhaseInv
    <2>3. CASE RetryOrReturn(c, "error")
      BY <2>1, <2>3, RetryOrReturnPreserves
    <2>4. CASE /\ version[NextRow(c)] = snap[c].version[NextRow(c)]
               /\ Lock(c, NextRow(c), "lock") /\ UNCHANGED result
      BY <2>1, <2>2, <2>4, LockPreserves
    <2> QED
      BY <1>4, <2>3, <2>4 DEF LockAccount
  <1>5. ASSUME NEW c \in Calls, CheckAccounts(c)
        PROVE  IInv'
    <2>1. pc[c] = "lock" /\ pc[c] \in Running /\ Unlocked(c) = {}
      BY <1>5 DEF CheckAccounts, Running, InTransaction
    <2>2. CASE TransferVerdict(c) # "ok" /\ Refuse(c, TransferVerdict(c))
      <3>1. TransferVerdict(c) \in Statuses \ {"none", "ok"}
        BY <2>2 DEF TransferVerdict, Statuses
      <3> QED
        BY <2>1, <2>2, <3>1, LeavePreserves
    <2>3. CASE /\ TransferVerdict(c) = "ok"
               /\ pc' = [pc EXCEPT ![c] = "key"]
               /\ UNCHANGED <<tables, locks, req, reply, attempt, snap, read, result>>
      BY <2>1, <2>3, CheckPreserves
    <2> QED
      BY <1>5, <2>2, <2>3 DEF CheckAccounts
  <1>6. ASSUME NEW c \in Calls, InsertJournalTransaction(c)
        PROVE  IInv'
    <2>1. pc[c] = "key" /\ pc[c] \in Running /\ keyLock[req[c].scope] = NoCall
      BY <1>6 DEF InsertJournalTransaction, Running, InTransaction
    <2>2. CASE \E status \in {"invalid_input", "error"} : RetryOrReturn(c, status)
      BY <2>1, <2>2, RetryOrReturnPreserves
    <2>3. CASE /\ Stored(c) = {}
               /\ keyLock' = [keyLock EXCEPT ![req[c].scope] = c]
               /\ result' = [result EXCEPT ![c] = c]
               /\ pc' = [pc EXCEPT ![c] = "commit"]
               /\ UNCHANGED <<tables, rowLock, req, reply, attempt, snap, read>>
      BY <2>1, <2>3, InsertKeyPreserves
    <2> QED
      BY <1>6, <2>2, <2>3 DEF InsertJournalTransaction
  <1>7. ASSUME NEW c \in Calls, InsertAccount(c)
        PROVE  IInv'
    <2>1. /\ pc[c] = "begin" /\ IsCreate(c) /\ ValidRequest(req[c]) /\ UNCHANGED result
          /\ TakeSnapshot(c, IF req[c].amount > 0 THEN "equity" ELSE "commit")
      BY <1>7 DEF InsertAccount
    <2>2. CASE req[c].amount > 0
      BY <2>1, <2>2, SnapshotPreserves DEF InTransaction
    <2>3. CASE ~(req[c].amount > 0)
      BY <2>1, <2>3, SnapshotPreserves DEF InTransaction
    <2> QED
      BY <2>2, <2>3
  <1>8. ASSUME NEW c \in Calls, LockEquity(c)
        PROVE  IInv'
    <2>1. pc[c] = "equity" /\ pc[c] \in Running /\ rowLock[Equity(c)] = NoCall
      BY <1>8 DEF LockEquity, Running, InTransaction
    <2>2. Equity(c) \in AllAccounts
      BY <1>t, <1>r, <2>1, RequestKinds, AccountIDs DEF CallInv, PhaseInv
    <2>3. CASE RetryOrReturn(c, "error")
      BY <2>1, <2>3, RetryOrReturnPreserves
    <2>4. CASE Refuse(c, "invalid_input")
      BY <2>1, <2>4, LeavePreserves DEF Statuses
    <2>5. CASE /\ version[Equity(c)] = snap[c].version[Equity(c)]
               /\ balance[Equity(c)] >= MinInt64 + req[c].amount
               /\ Lock(c, Equity(c), "commit") /\ UNCHANGED result
      BY <2>1, <2>2, <2>5, LockPreserves
    <2> QED
      BY <1>8, <2>3, <2>4, <2>5 DEF LockEquity
  <1>9. ASSUME NEW c \in Calls, Commit(c) \/ CommitUnacknowledged(c)
        PROVE  IInv'
    <2>1. /\ pc[c] = "commit" /\ Write(c)
          /\ Return(c, "ok", result[c]) \/ Return(c, "error", NoCall)
      BY <1>9 DEF Commit, CommitUnacknowledged
    <2>2. CASE IsCreate(c) /\ WriteAccount(c)
      BY <2>1, <2>2, AccountCommitPreserves
    <2>3. CASE IsTransfer(c) /\ result[c] = c /\ WriteTransfer(c)
      BY <2>1, <2>3, TransferCommitPreserves
    <2>4. CASE IsTransfer(c) /\ result[c] # c /\ UNCHANGED tables
      BY <2>1, <2>4, ReplayCommitPreserves
    <2> QED
      BY <2>1, <2>2, <2>3, <2>4 DEF Write
  <1>10. ASSUME NEW c \in Calls, NextAttempt(c)
         PROVE  IInv'
    BY <1>10, NextAttemptPreserves
  <1>11. ASSUME NEW c \in Calls, SerializationFailure(c)
         PROVE  IInv'
    BY <1>11, RetryOrReturnPreserves DEF SerializationFailure, Running
  <1>12. ASSUME NEW c \in Calls, Abandon(c)
         PROVE  IInv'
    BY <1>12, LeavePreserves DEF Abandon, Statuses
  <1>13. CASE UNCHANGED vars
    <2>1. UNCHANGED <<tables, locks, req, reply, pc, attempt, snap, read, result>>
      BY <1>13 DEF vars, callVars
    <2>2. TypeOK'
      BY <1>t, <2>1 DEF TypeOK, tables, locks
    <2>3. ASSUME NEW c \in Calls PROVE CallInv(c)'
      BY <1>t, <2>1, OthersUndisturbed DEF locks
    <2>4. \A c \in Calls : FreshInv(c)'
      BY <2>1 DEF IInv, FreshInv, tables, IsCreate
    <2>5. NoOverdraft' /\ OneTransferPerKey' /\ StoredWhole' /\ RefusedLeavesNoTrace' /\ AcknowledgedIsStored'
      BY <2>1 DEF IInv, NoOverdraft, OneTransferPerKey, StoredWhole, RefusedLeavesNoTrace,
                  AcknowledgedIsStored, IsTransfer, tables
    <2> QED
      BY <2>2, <2>3, <2>4, <2>5 DEF IInv, CallInv
  <1> QED
    BY <1>1, <1>2, <1>3, <1>4, <1>5, <1>6, <1>7, <1>8, <1>9, <1>10, <1>11, <1>12, <1>13
    DEF Next, Step, Quiescent

(* The inductive invariant holds in every behaviour of the store, for any  *)
(* number of calls, accounts and keys and any bound on the retries.        *)
THEOREM InvariantHolds == Spec => []IInv
  BY InitIInv, NextPreserves, PTL DEF Spec

(* Every variable keeps its type; balances stay in int64 because the       *)
(* checks of applyTransferTx and createAccountTx see current balances.     *)
THEOREM TypeCorrect == Spec => []TypeOK
  <1>1. IInv => TypeOK
    BY DEF IInv
  <1> QED
    BY <1>1, InvariantHolds, PTL

(* No interleaving of transfers and account openings overdraws a customer  *)
(* account.                                                                *)
THEOREM NoOverdraftHolds == Spec => []NoOverdraft
  <1>1. IInv => NoOverdraft
    BY DEF IInv
  <1> QED
    BY <1>1, InvariantHolds, PTL

(* The balances a transaction writes are computed from committed balances: *)
(* it still holds the row locks under which it read them.                  *)
THEOREM NoLostUpdateHolds == Spec => []NoLostUpdate
  <1>1. IInv => NoLostUpdate
    <2> SUFFICES ASSUME IInv, NEW c \in Calls
                 PROVE  /\ pc[c] = "key" \/ (pc[c] = "commit" /\ result[c] = c) =>
                             \A a \in {req[c].from, req[c].to} : read[c][a] = balance[a]
                        /\ pc[c] = "commit" /\ IsCreate(c) /\ req[c].amount > 0 =>
                             read[c][Equity(c)] = balance[Equity(c)]
      BY DEF NoLostUpdate
    <2>1. TypeOK /\ PhaseInv(c) /\ RowLockInv(c) /\ (pc[c] \in {"key", "commit"} => req[c] # NoRequest)
      BY DEF IInv, PhaseInv
    <2>2. CASE pc[c] = "key" \/ (pc[c] = "commit" /\ result[c] = c)
      <3>1. Writing(c) /\ IsTransfer(c)
        BY <2>1, <2>2, RequestKinds, DomainAssumption DEF PhaseInv, Writing
      <3>2. req[c].from \in AllAccounts /\ req[c].to \in AllAccounts
        BY <2>1, <3>1, RequestKinds, AccountIDs DEF Writing
      <3> QED
        BY <2>1, <2>2, <3>1, <3>2, RequestKinds DEF PhaseInv, RowLockInv, Writing
    <2>3. CASE pc[c] = "commit" /\ IsCreate(c) /\ req[c].amount > 0
      <3>1. Equity(c) \in AllAccounts /\ result[c] # c
        BY <2>1, <2>3, RequestKinds, AccountIDs, DomainAssumption DEF PhaseInv
      <3> QED
        BY <2>1, <2>3, <3>1 DEF PhaseInv, RowLockInv
    <2> QED
      BY <2>2, <2>3
  <1> QED
    BY <1>1, InvariantHolds, PTL

(* However many calls with one key run, are retried or lose the answer of  *)
(* their COMMIT, one transfer is stored for it.                            *)
THEOREM OneTransferPerKeyHolds == Spec => []OneTransferPerKey
  <1>1. IInv => OneTransferPerKey
    BY DEF IInv
  <1> QED
    BY <1>1, InvariantHolds, PTL

(* A call that reports success names a stored transfer with its own key    *)
(* and intent.                                                             *)
THEOREM AcknowledgedIsStoredHolds == Spec => []AcknowledgedIsStored
  <1>1. IInv => AcknowledgedIsStored
    BY DEF IInv
  <1> QED
    BY <1>1, InvariantHolds, PTL

(* A refused or unanswered call has left nothing in any table.             *)
THEOREM RefusedLeavesNoTraceHolds == Spec => []RefusedLeavesNoTrace
  <1>1. IInv => RefusedLeavesNoTrace
    BY DEF IInv
  <1> QED
    BY <1>1, InvariantHolds, PTL

(* A stored transfer has its two postings, its audit record and, from the  *)
(* threshold on, its risk row.                                             *)
THEOREM StoredWholeHolds == Spec => []StoredWhole
  <1>1. IInv => StoredWhole
    BY DEF IInv
  <1> QED
    BY <1>1, InvariantHolds, PTL

(* An insert loses its key only to a request with another intent: a stored *)
(* transfer with the same intent would have changed a row that this call   *)
(* holds unchanged since its snapshot.                                     *)
THEOREM RaceMeansConflictHolds == Spec => []RaceMeansConflict
  <1>1. IInv => RaceMeansConflict
    <2> SUFFICES ASSUME IInv, NEW c \in Calls, pc[c] = "key", NEW t \in Stored(c),
                        SameIntent(t, req[c])
                 PROVE  FALSE
      BY DEF RaceMeansConflict
    <2>1. /\ TypeOK /\ PhaseInv(c) /\ RowLockInv(c) /\ SnapshotInv(c)
          /\ req[c] # NoRequest /\ IsTransfer(c) /\ Writing(c)
      BY DEF IInv, PhaseInv, Writing
    <2>2. req[c].from \in AllAccounts /\ t.from = req[c].from
      BY <2>1, RequestKinds, AccountIDs DEF SameIntent
    <2>3. version[t.from] = snap[c].version[t.from]
      BY <2>1, <2>2 DEF PhaseInv, RowLockInv
    <2>4. snap[c].version[t.from] < version[t.from]
      BY <2>1 DEF SnapshotInv
    <2>5. version[t.from] \in Nat
      BY <2>1, <2>2 DEF TypeOK
    <2> QED
      BY <2>3, <2>4, <2>5
  <1> QED
    BY <1>1, InvariantHolds, PTL

===============================================================================
