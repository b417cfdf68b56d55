-------------------------- MODULE PostgresStoreFacts --------------------------
(***************************************************************************)
(* Facts about PostgresStore that the proofs of its steps share: types,    *)
(* the initial state, what ending a transaction does, and when a step of   *)
(* one call leaves what is known of the others alone.                      *)
(***************************************************************************)
EXTENDS PostgresStore, TLAPS

(* A call that was made is a well-formed request of one of the two kinds.  *)
LEMMA RequestKinds ==
  ASSUME TypeOK, NEW c \in Calls, req[c] # NoRequest
  PROVE  /\ IsCreate(c) => /\ req[c] \in CreateRequests
                           /\ ~IsTransfer(c)
                           /\ req[c].account \in Accounts
                           /\ req[c].amount \in Int64
                           /\ Equity(c) \in SystemAccounts
         /\ IsTransfer(c) => /\ req[c] \in TransferRequests
                             /\ ~IsCreate(c)
                             /\ req[c].from \in Accounts
                             /\ req[c].to \in Accounts
                             /\ req[c].scope \in Scopes
                             /\ req[c].amount \in Int64
                             /\ req[c].description \in Descriptions
         /\ IsCreate(c) \/ IsTransfer(c)
  BY DomainAssumption
  DEF TypeOK, IsCreate, IsTransfer, CreateRequests, TransferRequests, Equity, SystemAccounts

(* Account ids are numbers; no system account is a customer account.       *)
LEMMA AccountIDs ==
  /\ Accounts \subseteq AllAccounts
  /\ SystemAccounts \subseteq AllAccounts
  /\ AllAccounts \subseteq Nat
  /\ \A a \in Accounts : a \notin SystemAccounts
  BY DomainAssumption DEF AllAccounts, SystemAccounts

(* The bounds of int64.                                                    *)
LEMMA Int64Bounds ==
  /\ MaxInt64 \in Nat
  /\ MinInt64 \in Int
  /\ MinInt64 < 0
  /\ \A n \in Int : n \in Int64 <=> MinInt64 <= n /\ n <= MaxInt64
  BY DomainAssumption DEF Int64, MinInt64

(* The underflow check of createAccountTx keeps a debit in int64.          *)
LEMMA DebitInRange ==
  ASSUME NEW n \in Int64, NEW m \in Int64, m >= 0, n >= MinInt64 + m
  PROVE  n - m \in Int64
  BY DomainAssumption DEF Int64, MinInt64

(* The overflow check of applyTransferTx keeps a credit in int64.          *)
LEMMA CreditInRange ==
  ASSUME NEW n \in Int64, NEW m \in Int64, m >= 0, n <= MaxInt64 - m
  PROVE  n + m \in Int64
  BY DomainAssumption DEF Int64, MinInt64

(* Postings made from well-typed parts are well typed.                     *)
LEMMA PostingType ==
  ASSUME NEW c \in Calls, NEW i \in {1, 2}, NEW a \in AllAccounts, NEW n \in Int
  PROVE  Posting(c, i, a, n) \in Postings
  <1>1. <<c, i>> \in Calls \X {1, 2}
    OBVIOUS
  <1> QED
    BY <1>1 DEF Posting, Postings

(* Replies and the empty snapshot are well typed.                          *)
LEMMA ReplyType ==
  ASSUME NEW status \in Statuses, NEW t \in Calls \cup {NoCall}
  PROVE  /\ Reply(status, t) \in Replies
         /\ Reply(status, t).status = status
         /\ Reply(status, t).transfer = t
  BY DEF Reply, Replies

(* The snapshot of a call that is in no transaction.                       *)
LEMMA NoSnapshotType ==
  /\ NoSnapshot \in Snapshots
  /\ NoSnapshot.accounts = {}
  /\ \A a \in AllAccounts : NoSnapshot.version[a] = 0
  BY DEF NoSnapshot, Snapshots

(* The database a process finds when it starts is well typed.              *)
LEMMA InitTypeOK == Init => TypeOK
  <1> SUFFICES ASSUME Init PROVE TypeOK
    OBVIOUS
  <1>1. accounts \subseteq AllAccounts
    BY DomainAssumption DEF Init, InitialAccounts, AllAccounts, SystemAccounts, CreateRequests
  <1>2. postings \subseteq Postings
    <2> SUFFICES ASSUME NEW c \in PastCalls PROVE OpeningPostings(c, Past[c]) \subseteq Postings
      BY DEF Init, InitialPostings
    <2>1. /\ c \in Calls
          /\ Past[c].account \in Accounts
          /\ Past[c].amount \in Int
      BY DomainAssumption, Int64Bounds DEF CreateRequests, Int64
    <2>2. SystemAccount[Currency[Past[c].account]] \in AllAccounts
      BY <2>1, DomainAssumption DEF AllAccounts, SystemAccounts
    <2>3. /\ Posting(c, 1, Past[c].account, Past[c].amount) \in Postings
          /\ Posting(c, 2, SystemAccount[Currency[Past[c].account]], -Past[c].amount) \in Postings
      <3>1. Past[c].account \in AllAccounts
        BY <2>1 DEF AllAccounts
      <3>2. -Past[c].amount \in Int
        BY <2>1
      <3> QED
        BY <2>1, <2>2, <3>1, <3>2, PostingType
    <2> QED
      BY <2>3 DEF OpeningPostings
  <1>3. openings \subseteq Calls /\ audits \subseteq Calls
    BY DomainAssumption DEF Init, Funded
  <1>4. req \in [Calls -> CreateRequests \cup TransferRequests \cup {NoRequest}]
    BY DomainAssumption DEF Init
  <1>5. reply \in [Calls -> Replies]
    BY ReplyType DEF Init, NoReply, Statuses
  <1>6. snap \in [Calls -> Snapshots]
    BY NoSnapshotType DEF Init
  <1>7. read \in [Calls -> [AllAccounts -> Int64]]
    BY Int64Bounds DEF Init, NothingRead
  <1>8. attempt \in [Calls -> 0 .. MaxRetries - 1]
    BY MaxRetriesAssumption DEF Init
  <1>9. balance \in [AllAccounts -> Int64]
    BY DomainAssumption DEF Init
  <1> QED
    BY <1>1, <1>2, <1>3, <1>4, <1>5, <1>6, <1>7, <1>8, <1>9 DEF Init, TypeOK, Running

(* The inductive invariant holds when the process starts.                  *)
LEMMA InitIInv == Init => IInv
  <1> SUFFICES ASSUME Init PROVE IInv
    OBVIOUS
  <1>1. TypeOK
    BY InitTypeOK
  <1>2. ASSUME NEW c \in Calls
        PROVE PhaseInv(c) /\ RowLockInv(c) /\ KeyLockInv(c) /\ SnapshotInv(c) /\ FreshInv(c)
    <2>1. PhaseInv(c)
      BY DomainAssumption DEF Init, PhaseInv, InTransaction, Writing, NoReply
    <2>2. RowLockInv(c)
      BY DomainAssumption DEF Init, RowLockInv
    <2>3. KeyLockInv(c)
      BY DomainAssumption DEF Init, KeyLockInv
    <2>4. SnapshotInv(c)
      BY DEF Init, SnapshotInv, NoSnapshot
    <2>5. FreshInv(c)
      BY DEF Init, FreshInv, Running, InTransaction
    <2> QED
      BY <2>1, <2>2, <2>3, <2>4, <2>5
  <1>3. NoOverdraft
    BY DomainAssumption DEF Init, NoOverdraft
  <1>4. OneTransferPerKey /\ StoredWhole
    BY DEF Init, OneTransferPerKey, StoredWhole
  <1>5. AcknowledgedIsStored
    BY DomainAssumption DEF Init, AcknowledgedIsStored, NoReply, Reply, IsTransfer, CreateRequests
  <1>6. RefusedLeavesNoTrace
    BY DomainAssumption DEF Init, RefusedLeavesNoTrace, Reply, NoReply, Funded,
        InitialPostings, OpeningPostings, Posting
  <1> QED
    BY <1>1, <1>2, <1>3, <1>4, <1>5, <1>6 DEF IInv

-------------------------------------------------------------------------------
(* A transaction that ends gives up its own locks and no others.           *)
LEMMA LocksReleased ==
  ASSUME TypeOK, NEW c \in Calls, EndTransaction(c)
  PROVE  /\ rowLock' \in [AllAccounts -> Calls \cup {NoCall}]
         /\ keyLock' \in [Scopes -> Calls \cup {NoCall}]
         /\ read' \in [Calls -> [AllAccounts -> Int64]]
         /\ result' \in [Calls -> Calls \cup {NoCall}]
         /\ result'[c] = NoCall
         /\ \A a \in AllAccounts : rowLock'[a] # c
         /\ \A s \in Scopes : keyLock'[s] # c
         /\ \A d \in Calls \ {c} :
              /\ \A a \in AllAccounts : rowLock'[a] = d <=> rowLock[a] = d
              /\ \A s \in Scopes : keyLock'[s] = d <=> keyLock[s] = d
              /\ read'[d] = read[d]
              /\ result'[d] = result[d]
  <1>1. NothingRead \in [AllAccounts -> Int64]
    BY Int64Bounds DEF NothingRead
  <1>2. /\ rowLock' \in [AllAccounts -> Calls \cup {NoCall}]
        /\ \A a \in AllAccounts : rowLock'[a] # c
        /\ \A d \in Calls \ {c} : \A a \in AllAccounts : rowLock'[a] = d <=> rowLock[a] = d
    BY DomainAssumption DEF TypeOK, EndTransaction
  <1>3. /\ keyLock' \in [Scopes -> Calls \cup {NoCall}]
        /\ \A s \in Scopes : keyLock'[s] # c
        /\ \A d \in Calls \ {c} : \A s \in Scopes : keyLock'[s] = d <=> keyLock[s] = d
    BY DomainAssumption DEF TypeOK, EndTransaction
  <1>4. /\ read' \in [Calls -> [AllAccounts -> Int64]]
        /\ result' \in [Calls -> Calls \cup {NoCall}]
        /\ result'[c] = NoCall
        /\ \A d \in Calls \ {c} : read'[d] = read[d] /\ result'[d] = result[d]
    BY <1>1 DEF TypeOK, EndTransaction
  <1> QED
    BY <1>2, <1>3, <1>4

(* What is known of a call, apart from the freshness of its account.       *)
CallInv(c) == PhaseInv(c) /\ RowLockInv(c) /\ KeyLockInv(c) /\ SnapshotInv(c)

(* What a return changes: the caller has its answer, the locks are free.   *)
LEMMA Returned ==
  ASSUME TypeOK, NEW c \in Calls, NEW status \in Statuses, NEW t \in Calls \cup {NoCall},
         Return(c, status, t)
  PROVE  /\ pc' \in [Calls -> {"idle", "done"} \cup Running]
         /\ reply' \in [Calls -> Replies]
         /\ attempt' \in [Calls -> 0 .. MaxRetries - 1]
         /\ snap' \in [Calls -> Snapshots]
         /\ req' = req
         /\ pc'[c] = "done" /\ snap'[c] = NoSnapshot
         /\ reply'[c].status = status /\ reply'[c].transfer = t
         /\ \A d \in Calls \ {c} :
              /\ pc'[d] = pc[d] /\ reply'[d] = reply[d]
              /\ snap'[d] = snap[d] /\ attempt'[d] = attempt[d]
  <1>1. /\ pc' = [pc EXCEPT ![c] = "done"]
        /\ attempt' = [attempt EXCEPT ![c] = 0]
        /\ snap' = [snap EXCEPT ![c] = NoSnapshot]
        /\ reply' = [reply EXCEPT ![c] = Reply(status, t)]
        /\ req' = req
    BY DEF Return
  <1>2. /\ Reply(status, t) \in Replies
        /\ Reply(status, t).status = status /\ Reply(status, t).transfer = t
    BY ReplyType
  <1>3. attempt' \in [Calls -> 0 .. MaxRetries - 1]
    BY <1>1, MaxRetriesAssumption DEF TypeOK
  <1> QED
    BY <1>1, <1>2, <1>3, NoSnapshotType DEF TypeOK

(* What is known of d's phase survives a step of other calls that keeps    *)
(* the rows d has locked and the transfers stored under d's key.           *)
LEMMA PhaseUndisturbed ==
  ASSUME TypeOK, NEW d \in Calls, PhaseInv(d),
         pc'[d] = pc[d], req'[d] = req[d], reply'[d] = reply[d], attempt'[d] = attempt[d],
         result'[d] = result[d],
         \A a \in AllAccounts : rowLock'[a] = d <=> rowLock[a] = d,
         \A s \in Scopes : keyLock'[s] = d <=> keyLock[s] = d,
         \A a \in AllAccounts : rowLock[a] = d => balance'[a] = balance[a],
         Stored(d) \subseteq Stored(d)'
  PROVE  PhaseInv(d)'
  <1>1. pc[d] # "idle" => req[d] # NoRequest
    BY DEF PhaseInv
  <1>2. /\ IsTransfer(d)' = IsTransfer(d) /\ IsCreate(d)' = IsCreate(d)
        /\ Writing(d)' = Writing(d) /\ Equity(d)' = Equity(d)
    BY DEF IsTransfer, IsCreate, Writing, Equity
  <1>3. /\ pc'[d] = "idle" <=> req'[d] = NoRequest
        /\ pc'[d] # "done" => reply'[d] = NoReply
        /\ pc'[d] # "commit" => result'[d] = NoCall
        /\ pc'[d] = "backoff" => attempt'[d] < MaxRetries - 1
        /\ pc'[d] \in InTransaction => ValidRequest(req'[d])
        /\ pc'[d] \in {"lock", "key"} => IsTransfer(d)' /\ req'[d].from # req'[d].to
        /\ pc'[d] = "equity" => IsCreate(d)' /\ req'[d].amount > 0
        /\ pc'[d] = "commit" /\ IsCreate(d)' => result'[d] = NoCall
    BY <1>2 DEF PhaseInv
  <1>4. ASSUME pc[d] = "commit", IsCreate(d), req[d].amount > 0
        PROVE  rowLock'[Equity(d)] = d /\ balance'[Equity(d)] >= MinInt64 + req[d].amount
    <2>1. Equity(d) \in AllAccounts
      BY <1>1, <1>4, RequestKinds, AccountIDs
    <2>2. rowLock[Equity(d)] = d /\ balance[Equity(d)] >= MinInt64 + req[d].amount
      BY <1>4 DEF PhaseInv
    <2> QED
      BY <2>1, <2>2
  <1>5. ASSUME pc[d] = "commit", IsTransfer(d), result[d] # d
        PROVE  \E t \in Stored(d)' : t.id = result[d] /\ SameIntent(t, req[d])
    <2>1. \E t \in Stored(d) : t.id = result[d] /\ SameIntent(t, req[d])
      BY <1>5 DEF PhaseInv
    <2> QED
      BY <2>1
  <1>6. ASSUME Writing(d)
        PROVE  /\ req[d].from # req[d].to
               /\ rowLock'[req[d].from] = d /\ rowLock'[req[d].to] = d
               /\ balance'[req[d].from] >= req[d].amount
               /\ balance'[req[d].to] <= MaxInt64 - req[d].amount
    <2>1. req[d].from \in AllAccounts /\ req[d].to \in AllAccounts
      <3>1. req[d] # NoRequest /\ IsTransfer(d)
        BY <1>1, <1>6 DEF PhaseInv, Writing
      <3> QED
        BY <3>1, RequestKinds, AccountIDs
    <2>2. /\ req[d].from # req[d].to
          /\ rowLock[req[d].from] = d /\ rowLock[req[d].to] = d
          /\ balance[req[d].from] >= req[d].amount
          /\ balance[req[d].to] <= MaxInt64 - req[d].amount
      BY <1>6 DEF PhaseInv
    <2> QED
      BY <2>1, <2>2
  <1>7. ASSUME pc[d] = "commit", IsTransfer(d), result[d] = d
        PROVE  keyLock'[req[d].scope] = d
    <2>1. req[d].scope \in Scopes /\ keyLock[req[d].scope] = d
      BY <1>1, <1>7, RequestKinds DEF PhaseInv
    <2> QED
      BY <2>1
  <1> QED
    BY <1>2, <1>3, <1>4, <1>5, <1>6, <1>7 DEF PhaseInv

(* A step of other calls that leaves the tables alone, and the locks of d, *)
(* does not disturb what is known of d.                                    *)
LEMMA OthersUndisturbed ==
  ASSUME TypeOK, NEW d \in Calls, CallInv(d),
         UNCHANGED tables,
         pc'[d] = pc[d], req'[d] = req[d], reply'[d] = reply[d], attempt'[d] = attempt[d],
         snap'[d] = snap[d], read'[d] = read[d], result'[d] = result[d],
         \A a \in AllAccounts : rowLock'[a] = d <=> rowLock[a] = d,
         \A s \in Scopes : keyLock'[s] = d <=> keyLock[s] = d
  PROVE  CallInv(d)'
  <1>1. PhaseInv(d)'
    <2>1. Stored(d) \subseteq Stored(d)'
      BY DEF Stored, tables
    <2>2. balance' = balance /\ PhaseInv(d)
      BY DEF tables, CallInv
    <2> QED
      BY <2>1, <2>2, PhaseUndisturbed
  <1>2. RowLockInv(d)'
    BY DEF CallInv, RowLockInv, tables, IsTransfer, IsCreate, Equity
  <1>3. KeyLockInv(d)'
    BY DEF CallInv, KeyLockInv, tables, IsTransfer, Stored
  <1>4. SnapshotInv(d)'
    BY DEF CallInv, SnapshotInv, tables, Stored
  <1> QED
    BY <1>1, <1>2, <1>3, <1>4 DEF CallInv

(* A call that gives up its transaction, to try again or to report an      *)
(* error, leaves the invariant intact.                                     *)
LEMMA LeavePreserves ==
  ASSUME IInv, NEW c \in Calls, pc[c] \in Running,
         \/ attempt[c] < MaxRetries - 1 /\ Backoff(c)
         \/ \E status \in Statuses \ {"none", "ok"} : Refuse(c, status)
  PROVE  IInv'
  <1>0. EndTransaction(c) /\ UNCHANGED <<tables, req>>
    BY DEF Backoff, Refuse, Return
  <1>t. TypeOK
    BY DEF IInv
  <1>1. PICK status \in Statuses \ {"none", "ok"} :
          \/ /\ pc' = [pc EXCEPT ![c] = "backoff"]
             /\ UNCHANGED <<reply, attempt, snap>>
             /\ attempt[c] < MaxRetries - 1
          \/ /\ pc' = [pc EXCEPT ![c] = "done"]
             /\ attempt' = [attempt EXCEPT ![c] = 0]
             /\ snap' = [snap EXCEPT ![c] = NoSnapshot]
             /\ reply' = [reply EXCEPT ![c] = Reply(status, NoCall)]
    BY DEF Backoff, Refuse, Return, Statuses
  <1>2. /\ pc' \in [Calls -> {"idle", "done"} \cup Running]
        /\ pc'[c] \in {"backoff", "done"}
        /\ snap' \in [Calls -> Snapshots]
        /\ snap'[c] = snap[c] \/ snap'[c] = NoSnapshot
        /\ reply' \in [Calls -> Replies]
        /\ reply'[c] = reply[c] \/ reply'[c].status = status
        /\ pc'[c] = "backoff" => reply'[c] = reply[c] /\ attempt'[c] < MaxRetries - 1
        /\ \A d \in Calls \ {c} :
             /\ pc'[d] = pc[d] /\ reply'[d] = reply[d]
             /\ snap'[d] = snap[d] /\ attempt'[d] = attempt[d]
    <2>1. Reply(status, NoCall) \in Replies /\ Reply(status, NoCall).status = status
      BY <1>1, ReplyType
    <2>2. pc \in [Calls -> {"idle", "done"} \cup Running] /\ {"backoff", "done"} \subseteq {"idle", "done"} \cup Running
      BY <1>t DEF TypeOK, Running
    <2>3. CASE /\ pc' = [pc EXCEPT ![c] = "backoff"]
               /\ UNCHANGED <<reply, attempt, snap>>
               /\ attempt[c] < MaxRetries - 1
      BY <1>t, <2>2, <2>3 DEF TypeOK
    <2>4. CASE /\ pc' = [pc EXCEPT ![c] = "done"]
               /\ attempt' = [attempt EXCEPT ![c] = 0]
               /\ snap' = [snap EXCEPT ![c] = NoSnapshot]
               /\ reply' = [reply EXCEPT ![c] = Reply(status, NoCall)]
      BY <1>t, <2>1, <2>2, <2>4, NoSnapshotType DEF TypeOK
    <2> QED
      BY <1>1, <2>3, <2>4
  <1>3. attempt' \in [Calls -> 0 .. MaxRetries - 1]
    BY <1>t, <1>1, MaxRetriesAssumption DEF TypeOK
  <1>4. TypeOK'
    BY <1>t, <1>0, <1>2, <1>3, LocksReleased DEF TypeOK, tables
  <1>5. ASSUME NEW d \in Calls
        PROVE (PhaseInv(d) /\ RowLockInv(d) /\ KeyLockInv(d) /\ SnapshotInv(d) /\ FreshInv(d))'
    <2>0. PhaseInv(d) /\ RowLockInv(d) /\ KeyLockInv(d) /\ SnapshotInv(d) /\ FreshInv(d)
      BY DEF IInv
    <2>1. CASE d = c
      <3>1. PhaseInv(d)'
        BY <1>t, <1>0, <1>2, <2>0, <2>1, LocksReleased
        DEF PhaseInv, Running, InTransaction, Writing, IsTransfer
      <3>2. RowLockInv(d)' /\ KeyLockInv(d)'
        BY <1>t, <1>0, <2>1, LocksReleased DEF RowLockInv, KeyLockInv
      <3>3. SnapshotInv(d)'
        <4>1. UNCHANGED <<accounts, version>> /\ \A a \in AllAccounts : 0 <= version[a]
          BY <1>t, <1>0 DEF TypeOK, tables
        <4>2. pc'[c] \notin {"lock", "key"}
          BY <1>2
        <4>3. CASE snap'[c] = snap[c]
          BY <2>0, <2>1, <4>1, <4>2, <4>3 DEF SnapshotInv
        <4>4. CASE snap'[c] = NoSnapshot
          BY <2>1, <4>1, <4>2, <4>4, NoSnapshotType DEF SnapshotInv
        <4> QED
          BY <1>2, <4>3, <4>4
      <3>4. FreshInv(d)'
        BY <1>0, <1>2, <2>0, <2>1 DEF FreshInv, tables, Running, InTransaction, IsCreate
      <3> QED
        BY <3>1, <3>2, <3>3, <3>4
    <2>2. CASE d # c
      <3>1. /\ pc'[d] = pc[d] /\ req' = req /\ reply'[d] = reply[d]
            /\ snap'[d] = snap[d] /\ attempt'[d] = attempt[d]
            /\ UNCHANGED tables
        BY <1>0, <1>2, <2>2
      <3>2. /\ read'[d] = read[d] /\ result'[d] = result[d]
            /\ \A a \in AllAccounts : rowLock'[a] = d <=> rowLock[a] = d
            /\ \A s \in Scopes : keyLock'[s] = d <=> keyLock[s] = d
        BY <1>t, <1>0, <2>2, LocksReleased
      <3>3. CallInv(d)
        BY <2>0 DEF CallInv
      <3>4. CallInv(d)'
        BY <1>t, <3>1, <3>2, <3>3, OthersUndisturbed
      <3>5. FreshInv(d)'
        BY <1>0, <1>2, <2>0, <3>1 DEF FreshInv, tables, IsCreate, Running, InTransaction
      <3> QED
        BY <3>4, <3>5 DEF CallInv
    <2> QED
      BY <2>1, <2>2
  <1>6. NoOverdraft' /\ OneTransferPerKey' /\ StoredWhole'
    BY <1>0 DEF IInv, NoOverdraft, OneTransferPerKey, StoredWhole, tables
  <1>7. ASSUME NEW d \in Calls
        PROVE  /\ reply'[d].status = "ok" => reply[d] = reply'[d]
               /\ reply'[d].status \notin {"ok", "error"} => reply[d].status \notin {"ok", "error"}
    <2>1. reply[c].status = "none"
      BY DEF IInv, PhaseInv, NoReply, Reply, Running, InTransaction
    <2>2. CASE d = c
      BY <1>2, <2>1, <2>2
    <2>3. CASE d # c
      BY <1>2, <2>3
    <2> QED
      BY <2>2, <2>3
  <1>8. AcknowledgedIsStored'
    BY <1>0, <1>7 DEF IInv, AcknowledgedIsStored, tables, IsTransfer
  <1>9. RefusedLeavesNoTrace'
    BY <1>0, <1>7 DEF IInv, RefusedLeavesNoTrace, tables
  <1> QED
    BY <1>4, <1>5, <1>6, <1>8, <1>9 DEF IInv

(* Accounts under creation stay fresh while calls only move on.            *)
LEMMA StillFresh ==
  ASSUME \A d \in Calls : FreshInv(d),
         accounts' = accounts, req' = req,
         \A d \in Calls : pc'[d] \in Running => pc[d] \in Running
  PROVE  \A d \in Calls : FreshInv(d)'
  BY DEF FreshInv, IsCreate

(* A step of c that neither writes the tables nor answers preserves the    *)
(* invariant if it preserves what is known of c and leaves others alone.   *)
LEMMA LocalPreserves ==
  ASSUME IInv, NEW c \in Calls,
         UNCHANGED <<tables, reply>>,
         req'[c] = req[c] \/ reply[c] = NoReply,
         TypeOK', CallInv(c)', \A d \in Calls : FreshInv(d)',
         \A d \in Calls \ {c} :
           /\ pc'[d] = pc[d] /\ req'[d] = req[d]
           /\ snap'[d] = snap[d] /\ attempt'[d] = attempt[d]
           /\ read'[d] = read[d] /\ result'[d] = result[d]
           /\ \A a \in AllAccounts : rowLock'[a] = d <=> rowLock[a] = d
           /\ \A s \in Scopes : keyLock'[s] = d <=> keyLock[s] = d
  PROVE  IInv'
  <1>1. ASSUME NEW d \in Calls PROVE CallInv(d)'
    <2>1. TypeOK /\ CallInv(d)
      BY DEF IInv, CallInv
    <2>2. CASE d = c
      BY <2>2
    <2>3. CASE d # c
      BY <2>1, <2>3, OthersUndisturbed
    <2> QED
      BY <2>2, <2>3
  <1>2. NoOverdraft' /\ OneTransferPerKey' /\ StoredWhole' /\ RefusedLeavesNoTrace'
    BY DEF IInv, NoOverdraft, OneTransferPerKey, StoredWhole, RefusedLeavesNoTrace, tables
  <1>3. NoReply.status = "none"
    BY DEF NoReply, Reply
  <1>4. \A d \in Calls : reply[d].status = "ok" => req'[d] = req[d]
    BY <1>3
  <1>5. AcknowledgedIsStored'
    BY <1>4 DEF IInv, AcknowledgedIsStored, tables, IsTransfer
  <1> QED
    BY <1>1, <1>2, <1>5 DEF IInv, CallInv

===============================================================================
