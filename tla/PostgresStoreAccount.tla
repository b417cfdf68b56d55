------------------------- MODULE PostgresStoreAccount -------------------------
(***************************************************************************)
(* The COMMIT of a new account preserves the inductive invariant.          *)
(***************************************************************************)
EXTENDS PostgresStoreFacts

(* COMMIT of a new account: nobody else can hold or have seen its row, and *)
(* the system account is still as this transaction locked it.              *)
LEMMA AccountCommitPreserves ==
  ASSUME IInv, NEW c \in Calls, pc[c] = "commit", IsCreate(c),
         WriteAccount(c),
         Return(c, "ok", result[c]) \/ Return(c, "error", NoCall)
  PROVE  IInv'
  <1> DEFINE r == req[c]
             s == Equity(c)
             funded == r.amount > 0
  <1>t. TypeOK /\ CallInv(c) /\ (\A d \in Calls : FreshInv(d))
    BY DEF IInv, CallInv
  <1>1. /\ ~IsTransfer(c)
        /\ r.account \in Accounts /\ r.account \in AllAccounts
        /\ s \in SystemAccounts /\ s \in AllAccounts /\ s # r.account
        /\ r.amount \in Int64 /\ r.amount \in Int /\ r.amount >= 0
        /\ result[c] = NoCall
        /\ SystemAccount[Currency[r.account]] = s
    BY <1>t, RequestKinds, AccountIDs, Int64Bounds
    DEF CallInv, PhaseInv, ValidRequest, InTransaction, Int64, IsCreate, Equity
  <1>2. /\ r.account \notin accounts
        /\ funded => /\ rowLock[s] = c
                     /\ read[c][s] = balance[s]
                     /\ balance[s] >= MinInt64 + r.amount
    BY <1>t, <1>1 DEF CallInv, PhaseInv, RowLockInv, FreshInv, Running, InTransaction
  <1>3. PICK status \in {"ok", "error"} : Return(c, status, NoCall)
    BY <1>1
  <1>4. /\ accounts' = IF funded THEN accounts \cup {r.account, s} ELSE accounts \cup {r.account}
        /\ balance' = IF funded THEN [balance EXCEPT ![r.account] = r.amount,
                                                     ![s] = read[c][s] - r.amount]
                      ELSE [balance EXCEPT ![r.account] = 0]
        /\ version' = IF funded THEN [version EXCEPT ![s] = @ + 1] ELSE version
        /\ openings' = IF funded THEN openings \cup {c} ELSE openings
        /\ postings' = postings \cup OpeningPostings(c, r)
        /\ audits' = audits \cup {c}
        /\ UNCHANGED <<journal, risks>>
    BY DEF WriteAccount
  <1>5. \A a \in AllAccounts : balance[a] \in Int64 /\ balance[a] \in Int /\ version[a] \in Nat
    BY <1>t, Int64Bounds DEF TypeOK, Int64
  <1>6. /\ balance' \in [AllAccounts -> Int64]
        /\ balance'[r.account] >= 0
        /\ \A a \in AllAccounts \ {r.account, s} : balance'[a] = balance[a]
        /\ ~funded => balance'[s] = balance[s]
    <2>1. CASE funded
      <3>1. balance[s] - r.amount \in Int64
        <4>1. balance[s] \in Int64 /\ balance[s] >= MinInt64 + r.amount
          BY <1>1, <1>2, <1>5, <2>1
        <4> QED
          BY <1>1, <4>1, DebitInRange
      <3>2. balance' = [balance EXCEPT ![r.account] = r.amount, ![s] = balance[s] - r.amount]
        BY <1>2, <1>4, <2>1
      <3> QED
        BY <1>t, <1>1, <2>1, <3>1, <3>2 DEF TypeOK
    <2>2. CASE ~funded
      <3>1. 0 \in Int64
        BY Int64Bounds
      <3>2. balance \in [AllAccounts -> Int64] /\ balance' = [balance EXCEPT ![r.account] = 0]
        BY <1>t, <1>4, <2>2 DEF TypeOK
      <3>3. balance' \in [AllAccounts -> Int64] /\ balance'[r.account] = 0
        BY <1>1, <3>1, <3>2
      <3>4. \A a \in AllAccounts \ {r.account} : balance'[a] = balance[a]
        BY <3>2
      <3>5. s \in AllAccounts \ {r.account}
        BY <1>1
      <3> QED
        BY <2>2, <3>3, <3>4, <3>5
    <2> QED
      BY <2>1, <2>2
  <1>7. /\ version' \in [AllAccounts -> Nat]
        /\ \A a \in AllAccounts \ {s} : version'[a] = version[a]
        /\ ~funded => version'[s] = version[s]
        /\ \A a \in AllAccounts : version'[a] \in Nat /\ version[a] <= version'[a]
    <2>0. version[s] \in Nat
      BY <1>1, <1>5
    <2>1. version[s] + 1 \in Nat
      BY <2>0
    <2>2. /\ version' \in [AllAccounts -> Nat]
          /\ \A a \in AllAccounts \ {s} : version'[a] = version[a]
          /\ version'[s] = IF funded THEN version[s] + 1 ELSE version[s]
      BY <1>t, <1>1, <1>4, <2>1 DEF TypeOK
    <2>3. ASSUME NEW a \in AllAccounts PROVE version'[a] \in Nat /\ version[a] <= version'[a]
      <3>1. CASE a = s
        BY <1>5, <2>2, <3>1
      <3>2. CASE a # s
        BY <1>5, <2>2, <3>2
      <3> QED
        BY <3>1, <3>2
    <2> QED
      BY <2>2, <2>3
  <1>8. OpeningPostings(c, r) \subseteq Postings /\ \A p \in OpeningPostings(c, r) : p.transaction = c
    <2>1. -r.amount \in Int
      BY <1>1
    <2>2. Posting(c, 1, r.account, r.amount) \in Postings /\ Posting(c, 2, s, -r.amount) \in Postings
      BY <1>1, <2>1, PostingType
    <2> QED
      BY <1>1, <2>2 DEF OpeningPostings, Posting
  <1>9. /\ pc' \in [Calls -> {"idle", "done"} \cup Running]
        /\ snap' \in [Calls -> Snapshots]
        /\ reply' \in [Calls -> Replies]
        /\ attempt' \in [Calls -> 0 .. MaxRetries - 1]
        /\ req' = req
        /\ pc'[c] = "done" /\ snap'[c] = NoSnapshot
        /\ reply'[c].status \in {"ok", "error"}
        /\ \A d \in Calls \ {c} :
             /\ pc'[d] = pc[d] /\ reply'[d] = reply[d]
             /\ snap'[d] = snap[d] /\ attempt'[d] = attempt[d]
    <2>1. status \in Statuses
      BY DEF Statuses
    <2> QED
      BY <1>t, <1>3, <2>1, Returned
  <1>10. EndTransaction(c)
    BY <1>3 DEF Return
  <1>11. TypeOK'
    <2>1. /\ accounts' \subseteq AllAccounts /\ openings' \subseteq Calls
          /\ journal' \subseteq Transfers /\ postings' \subseteq Postings
          /\ audits' \subseteq Calls /\ risks' \subseteq Calls
      BY <1>t, <1>1, <1>4, <1>8 DEF TypeOK
    <2>2. version' \in [AllAccounts -> Nat] /\ balance' \in [AllAccounts -> Int64]
      BY <1>6, <1>7
    <2>3. req' \in [Calls -> CreateRequests \cup TransferRequests \cup {NoRequest}]
      BY <1>t, <1>9 DEF TypeOK
    <2> QED
      BY <1>t, <1>9, <1>10, <2>1, <2>2, <2>3, LocksReleased DEF TypeOK
  <1>12. reply[c].status = "none"
    <2>1. reply[c] = NoReply
      BY <1>t DEF CallInv, PhaseInv
    <2> QED
      BY <2>1 DEF NoReply, Reply
  <1>13. ASSUME NEW d \in Calls \ {c}
         PROVE  CallInv(d)'
    <2>0. CallInv(d) /\ d # c
      BY DEF IInv, CallInv
    <2>1. /\ pc'[d] = pc[d] /\ req' = req /\ reply'[d] = reply[d]
          /\ snap'[d] = snap[d] /\ attempt'[d] = attempt[d]
          /\ read'[d] = read[d] /\ result'[d] = result[d]
          /\ \A a \in AllAccounts : rowLock'[a] = d <=> rowLock[a] = d
          /\ \A x \in Scopes : keyLock'[x] = d <=> keyLock[x] = d
      <3>1. /\ read'[d] = read[d] /\ result'[d] = result[d]
            /\ \A a \in AllAccounts : rowLock'[a] = d <=> rowLock[a] = d
            /\ \A x \in Scopes : keyLock'[x] = d <=> keyLock[x] = d
        BY <1>t, <1>10, LocksReleased
      <3> QED
        BY <1>9, <3>1
    <2>2. pc[d] # "idle" => req[d] # NoRequest
      BY <2>0 DEF CallInv, PhaseInv
    <2>3. ASSUME NEW a \in AllAccounts, rowLock[a] = d
          PROVE  balance'[a] = balance[a] /\ version'[a] = version[a]
      <3>1. req[d] # NoRequest
        BY <2>0, <2>2, <2>3 DEF CallInv, RowLockInv
      <3>2. IsTransfer(d) => a \in accounts
        BY <2>0, <2>3 DEF CallInv, RowLockInv, SnapshotInv
      <3>3. IsCreate(d) => a \in SystemAccounts
        BY <1>t, <2>0, <2>3, <3>1, RequestKinds DEF CallInv, RowLockInv
      <3>4. a # r.account
        BY <1>t, <1>1, <1>2, <3>1, <3>2, <3>3, RequestKinds, AccountIDs
      <3>5. funded => a # s
        BY <1>2, <2>0, <2>3
      <3> QED
        BY <1>6, <1>7, <2>3, <3>4, <3>5
    <2>4. Stored(d)' = Stored(d)
      BY <1>4, <2>1 DEF Stored
    <2>5. PhaseInv(d)'
      <3>1. PhaseInv(d) /\ Stored(d) \subseteq Stored(d)'
        BY <2>0, <2>4 DEF CallInv
      <3> QED
        BY <1>t, <2>1, <2>3, <3>1, PhaseUndisturbed
    <2>6. RowLockInv(d)'
      BY <2>0, <2>1, <2>3 DEF CallInv, RowLockInv, IsTransfer, IsCreate, Equity
    <2>7. KeyLockInv(d)'
      BY <2>0, <2>1, <2>4 DEF CallInv, KeyLockInv, IsTransfer
    <2>8. SnapshotInv(d)'
      <3>1. \A a \in AllAccounts : snap[d].version[a] \in Nat
        <4>1. snap[d] \in Snapshots
          BY <1>t DEF TypeOK
        <4> QED
          BY <4>1 DEF Snapshots
      <3>2. \A a \in AllAccounts : snap[d].version[a] <= version'[a]
        BY <1>5, <1>7, <2>0, <3>1 DEF CallInv, SnapshotInv
      <3>3. ASSUME pc[d] \in {"lock", "key"}, NEW t \in Stored(d)
            PROVE  snap[d].version[t.from] < version'[t.from]
        <4>1. t.from \in AllAccounts /\ snap[d].version[t.from] < version[t.from]
          BY <1>t, <2>0, <3>3, AccountIDs DEF CallInv, SnapshotInv, Stored, TypeOK, Transfers
        <4> QED
          BY <1>5, <1>7, <3>1, <4>1
      <3> QED
        BY <1>4, <2>0, <2>1, <2>4, <3>2, <3>3 DEF CallInv, SnapshotInv
    <2> QED
      BY <2>5, <2>6, <2>7, <2>8 DEF CallInv
  <1>14. CallInv(c)'
    <2>1. PhaseInv(c)'
      BY <1>t, <1>9, <1>10, LocksReleased DEF CallInv, PhaseInv, InTransaction, Writing
    <2>2. RowLockInv(c)' /\ KeyLockInv(c)'
      BY <1>t, <1>10, LocksReleased DEF RowLockInv, KeyLockInv
    <2>3. SnapshotInv(c)'
      <3>1. \A a \in AllAccounts : 0 <= version'[a]
        BY <1>7
      <3> QED
        BY <1>9, <3>1, NoSnapshotType DEF SnapshotInv
    <2> QED
      BY <2>1, <2>2, <2>3 DEF CallInv
  <1>15. ASSUME NEW d \in Calls
         PROVE  FreshInv(d)'
    <2> SUFFICES ASSUME pc'[d] \in Running, IsCreate(d)'
                 PROVE  /\ req[d].account \notin accounts'
                        /\ \A e \in Calls \ {d} :
                             pc'[e] \in Running /\ IsCreate(e)' => req[e].account # req[d].account
      BY <1>9 DEF FreshInv
    <2>1. d # c /\ pc[d] \in Running /\ IsCreate(d) /\ pc[d] # "idle"
      BY <1>9 DEF Running, InTransaction, IsCreate
    <2>2. req[d].account # r.account /\ req[d].account \notin accounts
      BY <1>t, <2>1 DEF FreshInv, Running, InTransaction
    <2>3. req[d].account \in Accounts
      BY <1>t, <2>1, RequestKinds DEF IInv, PhaseInv
    <2>4. req[d].account \notin accounts'
      BY <1>1, <1>4, <2>2, <2>3, AccountIDs
    <2>5. ASSUME NEW e \in Calls \ {d}, pc'[e] \in Running, IsCreate(e)'
          PROVE  req[e].account # req[d].account
      <3>1. pc[e] \in Running /\ IsCreate(e)
        BY <1>9, <2>5 DEF Running, InTransaction, IsCreate
      <3> QED
        BY <1>t, <2>1, <3>1 DEF FreshInv
    <2> QED
      BY <2>4, <2>5
  <1>16. NoOverdraft'
    <2>1. ASSUME NEW a \in Accounts PROVE balance'[a] >= 0
      <3>1. a \in AllAccounts /\ a # s
        BY <1>1, AccountIDs
      <3> QED
        BY <1>6, <3>1 DEF IInv, NoOverdraft
    <2> QED
      BY <2>1 DEF NoOverdraft
  <1>17. OneTransferPerKey'
    BY <1>4 DEF IInv, OneTransferPerKey
  <1>18. AcknowledgedIsStored'
    BY <1>1, <1>4, <1>9 DEF IInv, AcknowledgedIsStored, IsTransfer
  <1>19. RefusedLeavesNoTrace'
    BY <1>4, <1>8, <1>9 DEF IInv, RefusedLeavesNoTrace
  <1>20. StoredWhole'
    <2>1. \A t \in journal : t.id # c
      BY <1>12 DEF IInv, RefusedLeavesNoTrace
    <2>2. \A t \in journal : {p \in postings' : p.transaction = t.id} = {p \in postings : p.transaction = t.id}
      BY <1>4, <1>8, <2>1
    <2> QED
      BY <1>4, <2>2 DEF IInv, StoredWhole
  <1> QED
    BY <1>11, <1>13, <1>14, <1>15, <1>16, <1>17, <1>18, <1>19, <1>20 DEF IInv, CallInv

===============================================================================
