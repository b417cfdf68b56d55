-------------------------- MODULE PostgresStoreSteps --------------------------
(***************************************************************************)
(* The steps of a call up to its COMMIT, and the COMMIT of a replay,       *)
(* preserve the inductive invariant: none of them writes the tables.       *)
(***************************************************************************)
EXTENDS PostgresStoreFacts

(* A call that starts.                                                     *)
LEMMA InvokePreserves ==
  ASSUME IInv, NEW c \in Calls, NEW r \in Requests, Invoke(c, r)
  PROVE  IInv'
  <1>t. TypeOK /\ CallInv(c) /\ (\A d \in Calls : FreshInv(d))
    BY DEF IInv, CallInv
  <1>1. /\ pc[c] = "idle" /\ req[c] = NoRequest /\ reply[c] = NoReply
        /\ pc' = [pc EXCEPT ![c] = "begin"]
        /\ req' = [req EXCEPT ![c] = r]
        /\ UNCHANGED <<tables, locks, reply, attempt, snap, read, result>>
        /\ FreshIDs(r)
    BY <1>t DEF Invoke, CallInv, PhaseInv
  <1>2. r \in CreateRequests \cup TransferRequests /\ r # NoRequest
    BY DomainAssumption
  <1>3. TypeOK'
    <2>1. /\ pc' \in [Calls -> {"idle", "done"} \cup Running]
          /\ req' \in [Calls -> CreateRequests \cup TransferRequests \cup {NoRequest}]
      BY <1>t, <1>1, <1>2 DEF TypeOK, Running
    <2> QED
      BY <1>t, <1>1, <2>1 DEF TypeOK, tables, locks
  <1>4. pc'[c] = "begin" /\ req'[c] = r
    BY <1>t, <1>1 DEF TypeOK
  <1>5. /\ \A a \in AllAccounts : rowLock[a] # c
        /\ \A s \in Scopes : keyLock[s] # c
    BY <1>t, <1>1 DEF CallInv, RowLockInv, KeyLockInv
  <1>6. CallInv(c)'
    BY <1>t, <1>1, <1>2, <1>4, <1>5
    DEF CallInv, PhaseInv, RowLockInv, KeyLockInv, SnapshotInv, InTransaction, Writing, tables, locks
  <1>7. ASSUME NEW d \in Calls PROVE FreshInv(d)'
    <2>1. \A e \in Calls : pc[e] \in Running => req[e] # NoRequest
      BY DEF IInv, PhaseInv, Running, InTransaction
    <2>2. \A e \in Calls \ {c} : pc'[e] = pc[e] /\ req'[e] = req[e]
      BY <1>t, <1>1 DEF TypeOK
    <2>3. UNCHANGED accounts
      BY <1>1 DEF tables
    <2>4. r.kind = "create" =>
            /\ r.account \notin accounts
            /\ \A e \in Calls : pc[e] \in Running /\ IsCreate(e) => req[e].account # r.account
      BY <1>1, <2>1 DEF FreshIDs
    <2>5. CASE d = c
      BY <1>4, <2>2, <2>3, <2>4, <2>5 DEF FreshInv, IsCreate
    <2>6. CASE d # c
      BY <1>t, <1>4, <2>2, <2>3, <2>4, <2>6 DEF FreshInv, IsCreate
    <2> QED
      BY <2>5, <2>6
  <1> QED
    BY <1>t, <1>1, <1>3, <1>6, <1>7, LocalPreserves DEF TypeOK, locks

(* waitForRetry ends.                                                      *)
LEMMA NextAttemptPreserves ==
  ASSUME IInv, NEW c \in Calls, NextAttempt(c)
  PROVE  IInv'
  <1>t. TypeOK /\ CallInv(c) /\ (\A d \in Calls : FreshInv(d))
    BY DEF IInv, CallInv
  <1>1. /\ pc[c] = "backoff" /\ attempt[c] < MaxRetries - 1
        /\ pc' = [pc EXCEPT ![c] = "begin"]
        /\ attempt' = [attempt EXCEPT ![c] = @ + 1]
        /\ UNCHANGED <<tables, locks, req, reply, snap, read, result>>
    BY <1>t DEF NextAttempt, CallInv, PhaseInv
  <1>2. TypeOK'
    <2>1. pc' \in [Calls -> {"idle", "done"} \cup Running]
      BY <1>t, <1>1 DEF TypeOK, Running
    <2>2. attempt' \in [Calls -> 0 .. MaxRetries - 1]
      BY <1>t, <1>1, MaxRetriesAssumption DEF TypeOK
    <2> QED
      BY <1>t, <1>1, <2>1, <2>2 DEF TypeOK, tables, locks
  <1>3. pc'[c] = "begin" /\ \A d \in Calls \ {c} : pc'[d] = pc[d] /\ attempt'[d] = attempt[d]
    BY <1>t, <1>1 DEF TypeOK
  <1>4. CallInv(c)'
    BY <1>t, <1>1, <1>3
    DEF CallInv, PhaseInv, RowLockInv, KeyLockInv, SnapshotInv, InTransaction, Writing, tables, locks
  <1>5. \A d \in Calls : FreshInv(d)'
    BY <1>t, <1>1, <1>3, StillFresh DEF tables, Running
  <1> QED
    BY <1>1, <1>2, <1>3, <1>4, <1>5, LocalPreserves DEF locks

(* BEGIN and the first statement.  What the statement found decides where  *)
(* the call goes on and whether it has a transfer to replay.               *)
LEMMA SnapshotPreserves ==
  ASSUME IInv, NEW c \in Calls, NEW next \in InTransaction,
         pc[c] = "begin", ValidRequest(req[c]), TakeSnapshot(c, next),
         \/ next = "lock" /\ IsTransfer(c) /\ req[c].from # req[c].to /\ Stored(c) = {}
            /\ UNCHANGED result
         \/ next = "equity" /\ IsCreate(c) /\ req[c].amount > 0 /\ UNCHANGED result
         \/ next = "commit" /\ IsCreate(c) /\ ~(req[c].amount > 0) /\ UNCHANGED result
         \/ next = "commit" /\ IsTransfer(c) /\ \E t \in Stored(c) :
              SameIntent(t, req[c]) /\ result' = [result EXCEPT ![c] = t.id]
  PROVE  IInv'
  <1>t. TypeOK /\ CallInv(c) /\ (\A d \in Calls : FreshInv(d))
    BY DEF IInv, CallInv
  <1>1. /\ pc' = [pc EXCEPT ![c] = next]
        /\ snap' = [snap EXCEPT ![c] = [accounts |-> accounts, version |-> version]]
        /\ UNCHANGED <<tables, locks, req, reply, attempt, read>>
    BY DEF TakeSnapshot
  <1>2. req[c] # NoRequest /\ reply[c] = NoReply /\ result[c] = NoCall
    BY <1>t DEF CallInv, PhaseInv
  <1>3. /\ \A a \in AllAccounts : rowLock[a] # c
        /\ \A s \in Scopes : keyLock[s] # c
    BY <1>t DEF CallInv, RowLockInv, KeyLockInv
  <1>4. [accounts |-> accounts, version |-> version] \in Snapshots
    BY <1>t DEF TypeOK, Snapshots
  <1>5. \A t \in journal : t.id \in Calls /\ t.id # c
    <2>1. reply[c].status = "none"
      BY <1>2 DEF NoReply, Reply
    <2> QED
      BY <2>1, <1>t DEF IInv, RefusedLeavesNoTrace, TypeOK, Transfers
  <1>6. /\ result' \in [Calls -> Calls \cup {NoCall}]
        /\ \A d \in Calls \ {c} : result'[d] = result[d]
        /\ next # "commit" \/ IsCreate(c) => result'[c] = NoCall
        /\ result'[c] # c
        /\ next = "commit" /\ IsTransfer(c) =>
             \E t \in Stored(c) : t.id = result'[c] /\ SameIntent(t, req[c])
    <2>1. NoCall # c /\ ~(IsCreate(c) /\ IsTransfer(c))
      BY <1>t, <1>2, RequestKinds, DomainAssumption
    <2>2. result \in [Calls -> Calls \cup {NoCall}]
      BY <1>t DEF TypeOK
    <2>3. CASE /\ UNCHANGED result
               /\ next \in {"lock", "equity"} \/ IsCreate(c)
      BY <1>2, <2>1, <2>2, <2>3
    <2>4. CASE /\ next = "commit" /\ IsTransfer(c)
               /\ \E t \in Stored(c) : SameIntent(t, req[c]) /\ result' = [result EXCEPT ![c] = t.id]
      BY <1>5, <2>1, <2>2, <2>4 DEF Stored
    <2> QED
      BY <2>3, <2>4
  <1>7. /\ pc' \in [Calls -> {"idle", "done"} \cup Running]
        /\ pc'[c] = next
        /\ snap' \in [Calls -> Snapshots]
        /\ snap'[c].accounts = accounts /\ snap'[c].version = version
        /\ \A d \in Calls \ {c} : pc'[d] = pc[d] /\ snap'[d] = snap[d]
    BY <1>t, <1>1, <1>4 DEF TypeOK, Running
  <1>8. TypeOK'
    BY <1>t, <1>1, <1>6, <1>7 DEF TypeOK, tables, locks
  <1>9. CallInv(c)'
    <2>1. PhaseInv(c)'
      BY <1>t, <1>1, <1>2, <1>6, <1>7, RequestKinds
      DEF CallInv, PhaseInv, InTransaction, Writing, tables, IsCreate, IsTransfer, Stored
    <2>2. RowLockInv(c)' /\ KeyLockInv(c)'
      BY <1>1, <1>3 DEF RowLockInv, KeyLockInv, locks
    <2>3. SnapshotInv(c)'
      <3>1. next \in {"lock", "key"} => Stored(c) = {}
        OBVIOUS
      <3>2. UNCHANGED <<accounts, version, journal>> /\ version \in [AllAccounts -> Nat] /\ req' = req
        BY <1>t, <1>1 DEF tables, TypeOK
      <3>3. next \in {"lock", "key"} => Stored(c)' = {}
        BY <3>1, <3>2 DEF Stored
      <3>4. /\ snap'[c].accounts \subseteq accounts'
            /\ \A a \in AllAccounts : snap'[c].version[a] <= version'[a]
        BY <1>7, <3>2
      <3> QED
        BY <1>7, <3>3, <3>4 DEF SnapshotInv
    <2> QED
      BY <2>1, <2>2, <2>3 DEF CallInv
  <1>10. \A d \in Calls : FreshInv(d)'
    BY <1>t, <1>1, <1>7, StillFresh DEF tables, Running
  <1> QED
    BY <1>1, <1>6, <1>7, <1>8, <1>9, <1>10, LocalPreserves DEF locks

(* SELECT ... FOR UPDATE of a free row that did not change since the       *)
(* snapshot.                                                               *)
LEMMA LockPreserves ==
  ASSUME IInv, NEW c \in Calls, NEW a \in AllAccounts, NEW next \in {"lock", "commit"},
         rowLock[a] = NoCall, version[a] = snap[c].version[a],
         Lock(c, a, next), UNCHANGED result,
         \/ /\ pc[c] = "lock" /\ next = "lock"
            /\ a \in {req[c].from, req[c].to} \cap snap[c].accounts
         \/ /\ pc[c] = "equity" /\ next = "commit" /\ a = Equity(c)
            /\ balance[a] >= MinInt64 + req[c].amount
  PROVE  IInv'
  <1>t. TypeOK /\ CallInv(c) /\ (\A d \in Calls : FreshInv(d))
    BY DEF IInv, CallInv
  <1>1. /\ rowLock' = [rowLock EXCEPT ![a] = c]
        /\ read' = [read EXCEPT ![c][a] = balance[a]]
        /\ pc' = [pc EXCEPT ![c] = next]
        /\ UNCHANGED <<tables, keyLock, req, reply, attempt, snap, result>>
    BY DEF Lock
  <1>2. /\ req[c] # NoRequest
        /\ pc[c] = "lock" => IsTransfer(c) /\ ~IsCreate(c)
        /\ pc[c] = "equity" => IsCreate(c) /\ ~IsTransfer(c) /\ req[c].amount > 0
    BY <1>t, RequestKinds DEF CallInv, PhaseInv
  <1>3. /\ rowLock' \in [AllAccounts -> Calls \cup {NoCall}]
        /\ rowLock'[a] = c
        /\ \A b \in AllAccounts \ {a} : rowLock'[b] = rowLock[b]
        /\ \A d \in Calls \ {c} : \A b \in AllAccounts : rowLock'[b] = d <=> rowLock[b] = d
    BY <1>t, <1>1, DomainAssumption DEF TypeOK
  <1>4. /\ read' \in [Calls -> [AllAccounts -> Int64]]
        /\ read'[c][a] = balance[a]
        /\ \A b \in AllAccounts \ {a} : read'[c][b] = read[c][b]
        /\ \A d \in Calls \ {c} : read'[d] = read[d]
    BY <1>t, <1>1 DEF TypeOK
  <1>5. /\ pc' \in [Calls -> {"idle", "done"} \cup Running]
        /\ pc'[c] = next
        /\ \A d \in Calls \ {c} : pc'[d] = pc[d]
    BY <1>t, <1>1 DEF TypeOK, Running, InTransaction
  <1>6. TypeOK'
    BY <1>t, <1>1, <1>3, <1>4, <1>5 DEF TypeOK, tables
  <1>7. CallInv(c)'
    <2>1. PhaseInv(c)'
      BY <1>t, <1>1, <1>2, <1>3, <1>5
      DEF CallInv, PhaseInv, InTransaction, Writing, tables, IsCreate, IsTransfer, Equity
    <2>2. ASSUME NEW b \in AllAccounts, rowLock'[b] = c
          PROVE  /\ pc'[c] \in {"lock", "key", "commit"}
                 /\ IsTransfer(c)' => b \in {req[c].from, req[c].to} \cap snap[c].accounts
                 /\ IsCreate(c)' => pc'[c] = "commit" /\ req[c].amount > 0 /\ b = Equity(c)
                 /\ version[b] = snap[c].version[b]
                 /\ read'[c][b] = balance[b]
      <3>1. CASE b = a
        BY <1>1, <1>2, <1>4, <1>5, <3>1 DEF IsCreate, IsTransfer
      <3>2. CASE b # a
        BY <1>t, <1>1, <1>2, <1>3, <1>4, <1>5, <2>2, <3>2 DEF CallInv, RowLockInv, IsCreate, IsTransfer
      <3> QED
        BY <3>1, <3>2
    <2>3. RowLockInv(c)'
      BY <1>1, <2>2 DEF RowLockInv, tables, Equity
    <2>4. KeyLockInv(c)'
      BY <1>t, <1>1, <1>2 DEF CallInv, KeyLockInv
    <2>5. SnapshotInv(c)'
      BY <1>t, <1>1, <1>2, <1>5 DEF CallInv, SnapshotInv, tables, Stored
    <2> QED
      BY <2>1, <2>3, <2>4, <2>5 DEF CallInv
  <1>8. \A d \in Calls : FreshInv(d)'
    BY <1>t, <1>1, <1>5, StillFresh DEF tables, Running, InTransaction
  <1> QED
    BY <1>1, <1>3, <1>4, <1>5, <1>6, <1>7, <1>8, LocalPreserves

(* Both rows are locked and the checks passed.                             *)
LEMMA CheckPreserves ==
  ASSUME IInv, NEW c \in Calls, pc[c] = "lock", Unlocked(c) = {}, TransferVerdict(c) = "ok",
         pc' = [pc EXCEPT ![c] = "key"],
         UNCHANGED <<tables, locks, req, reply, attempt, snap, read, result>>
  PROVE  IInv'
  <1>t. TypeOK /\ CallInv(c) /\ (\A d \in Calls : FreshInv(d))
    BY DEF IInv, CallInv
  <1>1. /\ req[c] # NoRequest /\ IsTransfer(c) /\ ~IsCreate(c)
        /\ req[c].from \in AllAccounts /\ req[c].to \in AllAccounts
    BY <1>t, RequestKinds, AccountIDs DEF CallInv, PhaseInv
  <1>2. /\ req[c].from \in Visible(c) /\ req[c].to \in Visible(c)
        /\ ~(read[c][req[c].from] < req[c].amount)
        /\ ~(read[c][req[c].to] > MaxInt64 - req[c].amount)
    BY DEF TransferVerdict
  <1>3. rowLock[req[c].from] = c /\ rowLock[req[c].to] = c
    BY <1>2 DEF Unlocked
  <1>4. read[c][req[c].from] = balance[req[c].from] /\ read[c][req[c].to] = balance[req[c].to]
    BY <1>t, <1>1, <1>3 DEF CallInv, RowLockInv
  <1>5. /\ balance[req[c].from] \in Int /\ balance[req[c].to] \in Int
        /\ req[c].amount \in Int /\ MaxInt64 \in Int
    <2>1. balance[req[c].from] \in Int64 /\ balance[req[c].to] \in Int64
      BY <1>t, <1>1 DEF TypeOK
    <2>2. req[c].amount \in Int64
      BY <1>t, <1>1, RequestKinds
    <2> QED
      BY <2>1, <2>2, Int64Bounds DEF Int64
  <1>6. /\ balance[req[c].from] >= req[c].amount
        /\ balance[req[c].to] <= MaxInt64 - req[c].amount
    BY <1>2, <1>4, <1>5
  <1>7. /\ pc' \in [Calls -> {"idle", "done"} \cup Running]
        /\ pc'[c] = "key"
        /\ \A d \in Calls \ {c} : pc'[d] = pc[d]
    BY <1>t DEF TypeOK, Running, InTransaction
  <1>8. TypeOK'
    BY <1>t, <1>7 DEF TypeOK, tables, locks
  <1>9. CallInv(c)'
    BY <1>t, <1>1, <1>3, <1>6, <1>7
    DEF CallInv, PhaseInv, RowLockInv, KeyLockInv, SnapshotInv, InTransaction, Writing, tables,
        locks, IsCreate, IsTransfer, Stored
  <1>10. \A d \in Calls : FreshInv(d)'
    BY <1>t, <1>7, StillFresh DEF tables, Running, InTransaction
  <1> QED
    BY <1>7, <1>8, <1>9, <1>10, LocalPreserves DEF locks

(* The insert of a key nobody holds or has stored.                         *)
LEMMA InsertKeyPreserves ==
  ASSUME IInv, NEW c \in Calls, pc[c] = "key",
         keyLock[req[c].scope] = NoCall, Stored(c) = {},
         keyLock' = [keyLock EXCEPT ![req[c].scope] = c],
         result' = [result EXCEPT ![c] = c],
         pc' = [pc EXCEPT ![c] = "commit"],
         UNCHANGED <<tables, rowLock, req, reply, attempt, snap, read>>
  PROVE  IInv'
  <1>t. TypeOK /\ CallInv(c) /\ (\A d \in Calls : FreshInv(d))
    BY DEF IInv, CallInv
  <1>1. req[c] # NoRequest /\ IsTransfer(c) /\ ~IsCreate(c) /\ req[c].scope \in Scopes
    BY <1>t, RequestKinds DEF CallInv, PhaseInv
  <1>2. /\ keyLock' \in [Scopes -> Calls \cup {NoCall}]
        /\ keyLock'[req[c].scope] = c
        /\ \A s \in Scopes : keyLock'[s] = c => s = req[c].scope
        /\ \A d \in Calls \ {c} : \A s \in Scopes : keyLock'[s] = d <=> keyLock[s] = d
    <2>1. \A s \in Scopes : keyLock[s] # c
      BY <1>t DEF CallInv, KeyLockInv
    <2> QED
      BY <1>t, <1>1, <2>1, DomainAssumption DEF TypeOK
  <1>3. /\ pc' \in [Calls -> {"idle", "done"} \cup Running]
        /\ pc'[c] = "commit"
        /\ result' \in [Calls -> Calls \cup {NoCall}]
        /\ result'[c] = c
        /\ \A d \in Calls \ {c} : pc'[d] = pc[d] /\ result'[d] = result[d]
    BY <1>t DEF TypeOK, Running, InTransaction
  <1>4. TypeOK'
    BY <1>t, <1>2, <1>3 DEF TypeOK, tables
  <1>5. CallInv(c)'
    <2>1. PhaseInv(c)'
      BY <1>t, <1>1, <1>2, <1>3
      DEF CallInv, PhaseInv, InTransaction, Writing, tables, IsCreate, IsTransfer
    <2>2. RowLockInv(c)' /\ SnapshotInv(c)'
      BY <1>t, <1>1, <1>3
      DEF CallInv, RowLockInv, SnapshotInv, tables, IsCreate, IsTransfer
    <2>3. KeyLockInv(c)'
      <3>1. Stored(c)' = {} /\ IsTransfer(c)' /\ req' = req
        BY <1>1 DEF tables, IsTransfer, Stored
      <3> QED
        BY <1>2, <1>3, <3>1 DEF KeyLockInv
    <2> QED
      BY <2>1, <2>2, <2>3 DEF CallInv
  <1>6. \A d \in Calls : FreshInv(d)'
    BY <1>t, <1>3, StillFresh DEF tables, Running, InTransaction
  <1> QED
    BY <1>2, <1>3, <1>4, <1>5, <1>6, LocalPreserves

(* COMMIT of a replay answers with the stored transfer and writes nothing. *)
LEMMA ReplayCommitPreserves ==
  ASSUME IInv, NEW c \in Calls, pc[c] = "commit", IsTransfer(c), result[c] # c,
         UNCHANGED tables,
         Return(c, "ok", result[c]) \/ Return(c, "error", NoCall)
  PROVE  IInv'
  <1>t. TypeOK /\ CallInv(c)
    BY DEF IInv, CallInv
  <1>0. CASE Return(c, "error", NoCall)
    BY <1>0, LeavePreserves DEF Refuse, Statuses, Running, InTransaction
  <1> SUFFICES ASSUME Return(c, "ok", result[c]) PROVE IInv'
    BY <1>0
  <1>1. PICK t \in journal : t.scope = req[c].scope /\ t.id = result[c] /\ SameIntent(t, req[c])
    BY <1>t DEF CallInv, PhaseInv, Stored
  <1>2. /\ EndTransaction(c)
        /\ pc' = [pc EXCEPT ![c] = "done"]
        /\ attempt' = [attempt EXCEPT ![c] = 0]
        /\ snap' = [snap EXCEPT ![c] = NoSnapshot]
        /\ req' = req
        /\ reply' = [reply EXCEPT ![c] = Reply("ok", result[c])]
    BY DEF Return
  <1>3. /\ pc' \in [Calls -> {"idle", "done"} \cup Running]
        /\ pc'[c] = "done"
        /\ snap' \in [Calls -> Snapshots]
        /\ snap'[c] = NoSnapshot
        /\ reply' \in [Calls -> Replies]
        /\ reply'[c].status = "ok" /\ reply'[c].transfer = result[c]
        /\ \A d \in Calls \ {c} :
             /\ pc'[d] = pc[d] /\ reply'[d] = reply[d]
             /\ snap'[d] = snap[d] /\ attempt'[d] = attempt[d]
    <2>1. result[c] \in Calls \cup {NoCall} /\ "ok" \in Statuses
      BY <1>t DEF TypeOK, Statuses
    <2> QED
      BY <1>t, <2>1, Returned
  <1>4. attempt' \in [Calls -> 0 .. MaxRetries - 1]
    BY <1>t, <1>2, MaxRetriesAssumption DEF TypeOK
  <1>5. TypeOK'
    BY <1>t, <1>2, <1>3, <1>4, LocksReleased DEF TypeOK, tables
  <1>6. ASSUME NEW d \in Calls PROVE CallInv(d)'
    <2>1. CASE d = c
      <3>1. PhaseInv(c)'
        BY <1>t, <1>2, <1>3, LocksReleased DEF CallInv, PhaseInv, InTransaction, Writing
      <3>2. RowLockInv(c)' /\ KeyLockInv(c)'
        BY <1>t, <1>2, LocksReleased DEF RowLockInv, KeyLockInv
      <3>3. \A a \in AllAccounts : 0 <= version'[a]
        BY <1>t DEF TypeOK, tables
      <3>4. SnapshotInv(c)'
        BY <1>3, <3>3, NoSnapshotType DEF SnapshotInv
      <3> QED
        BY <2>1, <3>1, <3>2, <3>4 DEF CallInv
    <2>2. CASE d # c
      <3>1. CallInv(d) /\ UNCHANGED <<tables, req>>
        BY <1>2 DEF IInv, CallInv
      <3>2. /\ read'[d] = read[d] /\ result'[d] = result[d]
            /\ \A a \in AllAccounts : rowLock'[a] = d <=> rowLock[a] = d
            /\ \A s \in Scopes : keyLock'[s] = d <=> keyLock[s] = d
        BY <1>t, <1>2, <2>2, LocksReleased
      <3>3. /\ pc'[d] = pc[d] /\ req'[d] = req[d] /\ reply'[d] = reply[d]
            /\ snap'[d] = snap[d] /\ attempt'[d] = attempt[d]
        BY <1>2, <1>3, <2>2
      <3> QED
        BY <1>t, <3>1, <3>2, <3>3, OthersUndisturbed
    <2> QED
      BY <2>1, <2>2
  <1>7. \A d \in Calls : FreshInv(d)'
    <2>1. (\A d \in Calls : FreshInv(d)) /\ accounts' = accounts
      BY DEF IInv, tables
    <2> QED
      BY <1>2, <1>3, <2>1, StillFresh DEF Running, InTransaction
  <1>8. NoOverdraft' /\ OneTransferPerKey' /\ StoredWhole'
    BY DEF IInv, NoOverdraft, OneTransferPerKey, StoredWhole, tables
  <1>9. AcknowledgedIsStored'
    <2>1. UNCHANGED <<journal, req>>
      BY <1>2 DEF tables
    <2>2. ASSUME NEW d \in Calls, reply'[d].status = "ok", IsTransfer(d)'
          PROVE  \E u \in journal : /\ u.id = reply'[d].transfer
                                    /\ u.scope = req[d].scope
                                    /\ SameIntent(u, req[d])
      <3>1. CASE d = c
        BY <1>1, <1>3, <3>1
      <3>2. CASE d # c
        BY <1>3, <2>1, <2>2, <3>2 DEF IInv, AcknowledgedIsStored, IsTransfer
      <3> QED
        BY <3>1, <3>2
    <2> QED
      BY <2>1, <2>2 DEF AcknowledgedIsStored
  <1>10. RefusedLeavesNoTrace'
    BY <1>3 DEF IInv, RefusedLeavesNoTrace, tables
  <1> QED
    BY <1>5, <1>6, <1>7, <1>8, <1>9, <1>10 DEF IInv, CallInv

===============================================================================
