------------------------ MODULE PostgresStoreTransfer -------------------------
(***************************************************************************)
(* The COMMIT of a new transfer preserves the inductive invariant.         *)
(***************************************************************************)
EXTENDS PostgresStoreFacts

(* COMMIT of a new transfer.  The rows it writes are locked by c, so no    *)
(* other call has read them; its key is held by c, so no other call can    *)
(* commit it.                                                              *)
LEMMA TransferCommitPreserves ==
  ASSUME IInv, NEW c \in Calls, pc[c] = "commit", IsTransfer(c), result[c] = c,
         WriteTransfer(c),
         Return(c, "ok", c) \/ Return(c, "error", NoCall)
  PROVE  IInv'
  <1> DEFINE r == req[c]
  <1>t. TypeOK /\ CallInv(c) /\ (\A d \in Calls : FreshInv(d))
    BY DEF IInv, CallInv
  <1>1. /\ r \in TransferRequests /\ ~IsCreate(c)
        /\ r.from \in Accounts /\ r.to \in Accounts
        /\ r.from \in AllAccounts /\ r.to \in AllAccounts
        /\ r.scope \in Scopes /\ r.amount \in Int64 /\ r.description \in Descriptions
        /\ r.amount \in Int /\ r.amount > 0
        /\ r.from # r.to
    BY <1>t, RequestKinds, AccountIDs, Int64Bounds
    DEF CallInv, PhaseInv, ValidRequest, InTransaction, Writing, Int64, IsTransfer
  <1>2. /\ rowLock[r.from] = c /\ rowLock[r.to] = c
        /\ read[c][r.from] = balance[r.from] /\ read[c][r.to] = balance[r.to]
        /\ balance[r.from] >= r.amount
        /\ balance[r.to] <= MaxInt64 - r.amount
        /\ keyLock[r.scope] = c
        /\ Stored(c) = {}
    BY <1>t, <1>1 DEF CallInv, PhaseInv, RowLockInv, KeyLockInv, Writing
  <1>3. PICK status \in {"ok", "error"}, answer \in Calls \cup {NoCall} :
          Return(c, status, answer) /\ (status = "ok" => answer = c)
    OBVIOUS
  <1>4. /\ balance' = [balance EXCEPT ![r.from] = read[c][r.from] - r.amount,
                                      ![r.to] = read[c][r.to] + r.amount]
        /\ version' = [version EXCEPT ![r.from] = @ + 1, ![r.to] = @ + 1]
        /\ journal' = journal \cup {Transfer(c, r)}
        /\ postings' = postings \cup TransferPostings(c, r)
        /\ audits' = audits \cup {c}
        /\ risks' = IF Flagged(r) THEN risks \cup {c} ELSE risks
        /\ UNCHANGED <<accounts, openings>>
    BY DEF WriteTransfer
  <1>5. \A a \in AllAccounts : balance[a] \in Int64 /\ balance[a] \in Int /\ version[a] \in Nat
    BY <1>t, Int64Bounds DEF TypeOK, Int64
  <1>6. /\ balance' \in [AllAccounts -> Int64]
        /\ balance'[r.from] = balance[r.from] - r.amount
        /\ balance'[r.to] = balance[r.to] + r.amount
        /\ \A a \in AllAccounts \ {r.from, r.to} : balance'[a] = balance[a]
    <2>1. /\ balance[r.from] - r.amount \in Int64
          /\ balance[r.to] + r.amount \in Int64
          /\ balance[r.from] - r.amount >= 0
      <3>1. balance[r.from] \in Int64 /\ balance[r.from] \in Int /\ balance[r.to] \in Int64
        BY <1>1, <1>5
      <3>2. balance[r.from] >= MinInt64 + r.amount /\ balance[r.from] - r.amount >= 0
        BY <1>1, <1>2, <3>1, Int64Bounds
      <3> QED
        BY <1>1, <1>2, <3>1, <3>2, DebitInRange, CreditInRange
    <2> QED
      BY <1>t, <1>1, <1>2, <1>4, <2>1 DEF TypeOK
  <1>7. /\ version' \in [AllAccounts -> Nat]
        /\ version'[r.from] = version[r.from] + 1
        /\ version'[r.to] = version[r.to] + 1
        /\ \A a \in AllAccounts \ {r.from, r.to} : version'[a] = version[a]
        /\ \A a \in AllAccounts : version'[a] \in Nat /\ version[a] <= version'[a]
    <2>1. version[r.from] + 1 \in Nat /\ version[r.to] + 1 \in Nat
      BY <1>1, <1>5
    <2>2. /\ version' \in [AllAccounts -> Nat]
          /\ version'[r.from] = version[r.from] + 1
          /\ version'[r.to] = version[r.to] + 1
          /\ \A a \in AllAccounts \ {r.from, r.to} : version'[a] = version[a]
      BY <1>t, <1>1, <1>4, <2>1 DEF TypeOK
    <2>3. ASSUME NEW a \in AllAccounts PROVE version'[a] \in Nat /\ version[a] <= version'[a]
      BY <1>5, <2>2
    <2> QED
      BY <2>2, <2>3
  <1>8. /\ Transfer(c, r) \in Transfers
        /\ Transfer(c, r).id = c /\ Transfer(c, r).scope = r.scope
        /\ Transfer(c, r).from = r.from /\ Transfer(c, r).amount = r.amount
        /\ SameIntent(Transfer(c, r), r)
        /\ TransferPostings(c, Transfer(c, r)) = TransferPostings(c, r)
        /\ Flagged(Transfer(c, r)) <=> Flagged(r)
    BY <1>1 DEF Transfer, Transfers, SameIntent, TransferPostings, Flagged
  <1>9. TransferPostings(c, r) \subseteq Postings /\ \A p \in TransferPostings(c, r) : p.transaction = c
    <2>1. -r.amount \in Int
      BY <1>1
    <2>2. Posting(c, 1, r.from, -r.amount) \in Postings /\ Posting(c, 2, r.to, r.amount) \in Postings
      BY <1>1, <2>1, PostingType
    <2> QED
      BY <2>2 DEF TransferPostings, Posting
  <1>10. /\ pc' \in [Calls -> {"idle", "done"} \cup Running]
         /\ snap' \in [Calls -> Snapshots]
         /\ reply' \in [Calls -> Replies]
         /\ attempt' \in [Calls -> 0 .. MaxRetries - 1]
         /\ req' = req
         /\ pc'[c] = "done" /\ snap'[c] = NoSnapshot
         /\ reply'[c].status = status /\ reply'[c].transfer = answer
         /\ \A d \in Calls \ {c} :
              /\ pc'[d] = pc[d] /\ reply'[d] = reply[d]
              /\ snap'[d] = snap[d] /\ attempt'[d] = attempt[d]
    <2>1. status \in Statuses
      BY DEF Statuses
    <2> QED
      BY <1>t, <1>3, <2>1, Returned
  <1>11. EndTransaction(c)
    BY <1>3 DEF Return
  <1>12. TypeOK'
    <2>1. /\ accounts' \subseteq AllAccounts /\ openings' \subseteq Calls
          /\ journal' \subseteq Transfers /\ postings' \subseteq Postings
          /\ audits' \subseteq Calls /\ risks' \subseteq Calls
      BY <1>t, <1>4, <1>8, <1>9 DEF TypeOK
    <2>2. version' \in [AllAccounts -> Nat] /\ balance' \in [AllAccounts -> Int64]
      BY <1>6, <1>7
    <2>3. req' \in [Calls -> CreateRequests \cup TransferRequests \cup {NoRequest}]
      BY <1>t, <1>10 DEF TypeOK
    <2> QED
      BY <1>t, <1>10, <1>11, <2>1, <2>2, <2>3, LocksReleased DEF TypeOK
  <1>13. \A t \in journal : t.id # c
    <2>1. reply[c].status = "none"
      <3>1. reply[c] = NoReply
        BY <1>t DEF CallInv, PhaseInv
      <3> QED
        BY <3>1 DEF NoReply, Reply
    <2> QED
      BY <2>1 DEF IInv, RefusedLeavesNoTrace
  <1>14. ASSUME NEW d \in Calls \ {c}
         PROVE  CallInv(d)'
    <2>0. CallInv(d) /\ d # c
      BY DEF IInv, CallInv
    <2>1. /\ pc'[d] = pc[d] /\ req' = req /\ reply'[d] = reply[d]
          /\ snap'[d] = snap[d] /\ attempt'[d] = attempt[d]
          /\ read'[d] = read[d] /\ result'[d] = result[d]
          /\ \A a \in AllAccounts : rowLock'[a] = d <=> rowLock[a] = d
          /\ \A s \in Scopes : keyLock'[s] = d <=> keyLock[s] = d
      <3>1. /\ read'[d] = read[d] /\ result'[d] = result[d]
            /\ \A a \in AllAccounts : rowLock'[a] = d <=> rowLock[a] = d
            /\ \A x \in Scopes : keyLock'[x] = d <=> keyLock[x] = d
        BY <1>t, <1>11, LocksReleased
      <3> QED
        BY <1>10, <3>1
    <2>2. \A a \in AllAccounts : rowLock[a] = d => balance'[a] = balance[a] /\ version'[a] = version[a]
      BY <1>2, <1>6, <1>7
    <2>3. \A a \in SystemAccounts : a \in AllAccounts /\ balance'[a] = balance[a]
      BY <1>1, <1>6, AccountIDs
    <2>4. Stored(d) \subseteq Stored(d)'
      BY <1>4, <2>1 DEF Stored
    <2>5. pc[d] # "idle" => req[d] # NoRequest
      BY <2>0 DEF CallInv, PhaseInv
    <2>6. PhaseInv(d)'
      <3>1. PhaseInv(d)
        BY <2>0 DEF CallInv
      <3> QED
        BY <1>t, <2>1, <2>2, <2>4, <3>1, PhaseUndisturbed
    <2>7. RowLockInv(d)'
      BY <2>0, <2>1, <2>2 DEF CallInv, RowLockInv, IsTransfer, IsCreate, Equity
    <2>8. KeyLockInv(d)'
      <3>1. \A s \in Scopes : keyLock[s] = d => s # r.scope
        BY <1>2, <2>0
      <3> QED
        BY <1>4, <1>8, <2>0, <2>1, <3>1 DEF CallInv, KeyLockInv, IsTransfer, Stored
    <2>9. SnapshotInv(d)'
      <3>1. \A a \in AllAccounts : version[a] <= version'[a] /\ snap[d].version[a] \in Nat
        <4>1. snap[d] \in Snapshots
          BY <1>t DEF TypeOK
        <4>2. \A a \in AllAccounts : snap[d].version[a] \in Nat
          BY <4>1 DEF Snapshots
        <4> QED
          BY <1>7, <4>2
      <3>2. \A a \in AllAccounts : snap[d].version[a] <= version'[a]
        BY <1>5, <1>7, <2>0, <3>1 DEF CallInv, SnapshotInv
      <3>3. snap[d].version[r.from] < version'[r.from]
        BY <1>1, <1>5, <1>7, <2>0, <3>1 DEF CallInv, SnapshotInv
      <3>4. ASSUME pc[d] \in {"lock", "key"}, NEW t \in Stored(d)'
            PROVE  snap[d].version[t.from] < version'[t.from]
        <4>1. CASE t = Transfer(c, r)
          BY <1>8, <3>3, <4>1
        <4>2. CASE t \in Stored(d)
          <5>1. t.from \in AllAccounts /\ snap[d].version[t.from] < version[t.from]
            BY <1>t, <2>0, <3>4, <4>2, AccountIDs DEF CallInv, SnapshotInv, Stored, TypeOK, Transfers
          <5> QED
            BY <1>5, <1>7, <3>1, <5>1
        <4> QED
          BY <1>4, <2>1, <4>1, <4>2 DEF Stored
      <3> QED
        BY <1>4, <2>0, <2>1, <3>2, <3>4 DEF CallInv, SnapshotInv
    <2> QED
      BY <2>6, <2>7, <2>8, <2>9 DEF CallInv
  <1>15. CallInv(c)'
    <2>1. PhaseInv(c)'
      BY <1>t, <1>10, <1>11, LocksReleased DEF CallInv, PhaseInv, InTransaction, Writing
    <2>2. RowLockInv(c)' /\ KeyLockInv(c)'
      BY <1>t, <1>11, LocksReleased DEF RowLockInv, KeyLockInv
    <2>3. SnapshotInv(c)'
      <3>1. \A a \in AllAccounts : 0 <= version'[a]
        BY <1>7
      <3> QED
        BY <1>10, <3>1, NoSnapshotType DEF SnapshotInv
    <2> QED
      BY <2>1, <2>2, <2>3 DEF CallInv
  <1>16. \A d \in Calls : FreshInv(d)'
    BY <1>t, <1>4, <1>10, StillFresh DEF Running, InTransaction
  <1>17. NoOverdraft'
    <2>1. balance'[r.from] >= 0 /\ balance'[r.to] >= 0
      BY <1>1, <1>2, <1>5, <1>6 DEF IInv, NoOverdraft
    <2> QED
      BY <1>6, <2>1, AccountIDs DEF IInv, NoOverdraft
  <1>18. OneTransferPerKey'
    <2>1. \A t \in journal : t.scope # Transfer(c, r).scope
      BY <1>2, <1>8 DEF Stored
    <2>2. \A t, u \in journal : t.scope = u.scope => t = u
      BY DEF IInv, OneTransferPerKey
    <2>3. journal' = journal \cup {Transfer(c, r)}
      BY <1>4
    <2> QED
      BY <2>1, <2>2, <2>3 DEF OneTransferPerKey
  <1>19. AcknowledgedIsStored'
    <2>1. ASSUME NEW d \in Calls, reply'[d].status = "ok", IsTransfer(d)'
          PROVE  \E t \in journal' : /\ t.id = reply'[d].transfer
                                     /\ t.scope = req'[d].scope
                                     /\ SameIntent(t, req'[d])
      <3>1. CASE d = c
        BY <1>3, <1>4, <1>8, <1>10, <2>1, <3>1
      <3>2. CASE d # c
        BY <1>4, <1>10, <2>1, <3>2 DEF IInv, AcknowledgedIsStored, IsTransfer
      <3> QED
        BY <3>1, <3>2
    <2> QED
      BY <2>1 DEF AcknowledgedIsStored
  <1>20. RefusedLeavesNoTrace'
    <2>1. reply'[c].status \in {"ok", "error"}
      BY <1>3, <1>10
    <2> QED
      BY <1>4, <1>8, <1>9, <1>10, <2>1 DEF IInv, RefusedLeavesNoTrace
  <1>21. StoredWhole'
    <2>1. /\ \A p \in postings : p.transaction # c
          /\ c \notin risks
      <3>1. reply[c].status = "none"
        BY <1>t DEF CallInv, PhaseInv, NoReply, Reply
      <3> QED
        BY <3>1 DEF IInv, RefusedLeavesNoTrace
    <2>2. ASSUME NEW t \in journal'
          PROVE  /\ {p \in postings' : p.transaction = t.id} = TransferPostings(t.id, t)
                 /\ t.id \in audits'
                 /\ t.id \in risks' <=> Flagged(t)
      <3>1. CASE t = Transfer(c, r)
        BY <1>4, <1>8, <1>9, <2>1, <3>1
      <3>2. CASE t \in journal
        BY <1>4, <1>9, <1>13, <3>2 DEF IInv, StoredWhole
      <3> QED
        BY <1>4, <3>1, <3>2
    <2>3. risks' \subseteq {t.id : t \in journal'}
      BY <1>4, <1>8 DEF IInv, StoredWhole
    <2> QED
      BY <2>2, <2>3 DEF StoredWhole
  <1> QED
    BY <1>12, <1>14, <1>15, <1>16, <1>17, <1>18, <1>19, <1>20, <1>21 DEF IInv, CallInv

===============================================================================
