---------------------------- MODULE PostgresStore -----------------------------
(***************************************************************************)
(* The PostgreSQL repository (internal/store/postgres/store.go): calls of  *)
(* CreateAccount and ApplyTransfer run concurrently, each as a loop of at  *)
(* most MaxRetries SERIALIZABLE transactions.                              *)
(*                                                                         *)
(* One action is one statement that other transactions can notice: the     *)
(* first statement (it takes the snapshot), each row lock, the insert into *)
(* the unique (actor, key) index, COMMIT.  What a transaction writes is    *)
(* invisible until it commits, so its writes are applied by Commit.        *)
(*                                                                         *)
(* Of PostgreSQL itself (external) the model takes: a row lock and a       *)
(* unique-index entry make others wait until their holder ends; locking a  *)
(* row that changed after the snapshot fails with 40001; inserting a key   *)
(* that was committed meanwhile fails with 23505 or 40001; serializable    *)
(* certification may abort any transaction at any time with 40001.         *)
(* Nothing below relies on such an abort happening.                        *)
(***************************************************************************)
EXTENDS Domain

CONSTANT MaxRetries   \* Store.maxRetries; defaultMaxRetries = 4

ASSUME MaxRetriesAssumption == MaxRetries \in Nat \ {0}

VARIABLES
  \* the database, as committed
  accounts,  \* ids of the rows of table accounts
  balance,   \* balance_minor of each row
  version,   \* version of each row: UPDATE increments it
  journal,   \* journal_transactions of kind 'transfer' with their transfer_intents
  openings,  \* journal_transactions of kind 'opening'
  postings,
  audits,    \* audit_records, by the call that wrote them
  risks,     \* risk_events, by the call that wrote them
  \* what transactions in progress hold
  rowLock,   \* holder of each row of accounts
  keyLock,   \* holder of each uncommitted entry of UNIQUE (actor_id, idempotency_key)
  \* each call
  req,       \* its input
  reply,     \* what it returned
  pc,        \* where it is
  attempt,   \* loop variable of the retry loop
  snap,      \* rows and versions visible to its transaction
  read,      \* balances its FOR UPDATE statements returned
  result     \* the transfer it will return when COMMIT succeeds

tables == <<accounts, balance, version, journal, openings, postings, audits, risks>>
locks == <<rowLock, keyLock>>
callVars == <<req, reply, pc, attempt, snap, read, result>>
vars == <<tables, locks, callVars>>

InTransaction == {"lock", "equity", "key", "commit"}
Running == {"begin", "backoff"} \cup InTransaction

Reply(status, t) == [status |-> status, transfer |-> t]
NoReply == Reply("none", NoCall)
NoSnapshot == [accounts |-> {}, version |-> [a \in AllAccounts |-> 0]]
NothingRead == [a \in AllAccounts |-> 0]

IsCreate(c) == req[c].kind = "create"
IsTransfer(c) == req[c].kind = "transfer"
Equity(c) == SystemAccount[Currency[req[c].account]]

-------------------------------------------------------------------------------
Init ==
  /\ accounts = InitialAccounts
  /\ balance = InitialBalance
  /\ version = [a \in AllAccounts |-> 0]
  /\ journal = {}
  /\ openings = Funded
  /\ postings = InitialPostings
  /\ audits = PastCalls
  /\ risks = {}
  /\ rowLock = [a \in AllAccounts |-> NoCall]
  /\ keyLock = [s \in Scopes |-> NoCall]
  /\ req = [c \in Calls |-> IF c \in PastCalls THEN Past[c] ELSE NoRequest]
  /\ reply = [c \in Calls |-> IF c \in PastCalls THEN Reply("ok", NoCall) ELSE NoReply]
  /\ pc = [c \in Calls |-> IF c \in PastCalls THEN "done" ELSE "idle"]
  /\ attempt = [c \in Calls |-> 0]
  /\ snap = [c \in Calls |-> NoSnapshot]
  /\ read = [c \in Calls |-> NothingRead]
  /\ result = [c \in Calls |-> NoCall]

(* randomID: no two calls ever create the same account.                    *)
FreshIDs(r) ==
  r.kind = "create" =>
    /\ r.account \notin accounts
    /\ \A d \in Calls : req[d] # NoRequest /\ IsCreate(d) => req[d].account # r.account

(* A caller enters CreateAccount or ApplyTransfer.                         *)
Invoke(c, r) ==
  /\ pc[c] = "idle"
  /\ FreshIDs(r)
  /\ req' = [req EXCEPT ![c] = r]
  /\ pc' = [pc EXCEPT ![c] = "begin"]
  /\ UNCHANGED <<tables, locks, reply, attempt, snap, read, result>>

(***************************************************************************)
(* How a transaction ends.                                                 *)
(***************************************************************************)

(* Fault: the session goes back to the pool without a rollback.            *)
EndWithoutRelease(c) ==
  /\ UNCHANGED <<rowLock, keyLock>>
  /\ read' = [read EXCEPT ![c] = NothingRead]
  /\ result' = [result EXCEPT ![c] = NoCall]

EndTransaction(c) ==
  /\ rowLock' = [a \in AllAccounts |-> IF rowLock[a] = c THEN NoCall ELSE rowLock[a]]
  /\ keyLock' = [s \in Scopes |-> IF keyLock[s] = c THEN NoCall ELSE keyLock[s]]
  /\ read' = [read EXCEPT ![c] = NothingRead]
  /\ result' = [result EXCEPT ![c] = NoCall]

Return(c, status, t) ==
  /\ EndTransaction(c)
  /\ reply' = [reply EXCEPT ![c] = Reply(status, t)]
  /\ pc' = [pc EXCEPT ![c] = "done"]
  /\ attempt' = [attempt EXCEPT ![c] = 0]
  /\ snap' = [snap EXCEPT ![c] = NoSnapshot]
  /\ UNCHANGED req

(* Rollback and return of an error.                                        *)
Refuse(c, status) ==
  /\ Return(c, status, NoCall)
  /\ UNCHANGED tables

(* Rollback and waitForRetry.                                              *)
Backoff(c) ==
  /\ EndTransaction(c)
  /\ pc' = [pc EXCEPT ![c] = "backoff"]
  /\ UNCHANGED <<tables, req, reply, attempt, snap>>

(***************************************************************************)
(* The end of the loop body after an error the loop retries.  After the    *)
(* last attempt mapDatabaseError decides what the caller is told.          *)
(***************************************************************************)
RetryOrReturn(c, status) ==
  \/ attempt[c] = MaxRetries - 1 /\ Refuse(c, status)
  \/ attempt[c] < MaxRetries - 1 /\ Backoff(c)

(* Fault: the loop counter does not advance.                               *)
UncountedAttempt(c) ==
  /\ pc[c] = "backoff"
  /\ pc' = [pc EXCEPT ![c] = "begin"]
  /\ UNCHANGED <<tables, locks, req, reply, attempt, snap, read, result>>

(* waitForRetry is over.                                                   *)
NextAttempt(c) ==
  /\ pc[c] = "backoff"
  /\ attempt' = [attempt EXCEPT ![c] = @ + 1]
  /\ pc' = [pc EXCEPT ![c] = "begin"]
  /\ UNCHANGED <<tables, locks, req, reply, snap, read, result>>

(* validateCreateAccount, validateTransfer.                                *)
RejectInvalid(c) ==
  /\ pc[c] = "begin"
  /\ ~ValidRequest(req[c])
  /\ Refuse(c, "invalid_input")

(* BEGIN and the first statement: from here on the call sees this state.   *)
TakeSnapshot(c, next) ==
  /\ snap' = [snap EXCEPT ![c] = [accounts |-> accounts, version |-> version]]
  /\ pc' = [pc EXCEPT ![c] = next]
  /\ UNCHANGED <<tables, locks, req, reply, attempt, read>>

-------------------------------------------------------------------------------
(***************************************************************************)
(* ApplyTransfer.                                                          *)
(***************************************************************************)
Stored(c) == {t \in journal : t.scope = req[c].scope}

(* Fault: whatever is stored under the key is returned as a replay.        *)
ReplayAnyIntent(c) ==
  /\ pc[c] = "begin"
  /\ IsTransfer(c)
  /\ ValidRequest(req[c])
  /\ \/ \E t \in Stored(c) :
          /\ TakeSnapshot(c, "commit")
          /\ result' = [result EXCEPT ![c] = t.id]
     \/ /\ Stored(c) = {}
        /\ req[c].from # req[c].to
        /\ TakeSnapshot(c, "lock")
        /\ UNCHANGED result

(* findIdempotentTransfer, and what applyTransferTx does with its answer.  *)
FindIdempotentTransfer(c) ==
  /\ pc[c] = "begin"
  /\ IsTransfer(c)
  /\ ValidRequest(req[c])
  /\ \/ \E t \in Stored(c) :
          \/ /\ SameIntent(t, req[c])
             /\ TakeSnapshot(c, "commit")
             /\ result' = [result EXCEPT ![c] = t.id]
          \/ /\ ~SameIntent(t, req[c])
             /\ Refuse(c, "idempotency_conflict")
     \/ /\ Stored(c) = {}
        /\ req[c].from = req[c].to
        /\ Refuse(c, "invalid_input")
     \/ /\ Stored(c) = {}
        /\ req[c].from # req[c].to
        /\ TakeSnapshot(c, "lock")
        /\ UNCHANGED result

(***************************************************************************)
(* lockAccounts: SELECT ... ORDER BY id FOR UPDATE locks the visible rows  *)
(* of the two accounts, in the order of their ids.                         *)
(***************************************************************************)
Visible(c) == {req[c].from, req[c].to} \cap snap[c].accounts
Unlocked(c) == {a \in Visible(c) : rowLock[a] # c}

(* Fault: the paying account is always locked first.                       *)
PayerFirst(c) == IF req[c].from \in Unlocked(c) THEN req[c].from ELSE req[c].to

NextRow(c) == CHOOSE a \in Unlocked(c) : \A b \in Unlocked(c) : a <= b

Lock(c, a, next) ==
  /\ rowLock' = [rowLock EXCEPT ![a] = c]
  /\ read' = [read EXCEPT ![c][a] = balance[a]]
  /\ pc' = [pc EXCEPT ![c] = next]
  /\ UNCHANGED <<tables, keyLock, req, reply, attempt, snap>>

(* Fault: the read does not wait for the row's holder.                     *)
LockWithoutWaiting(c) ==
  /\ pc[c] = "lock"
  /\ Unlocked(c) # {}
  /\ version[NextRow(c)] = snap[c].version[NextRow(c)]
  /\ Lock(c, NextRow(c), "lock")
  /\ UNCHANGED result

(* Fault: READ COMMITTED, a row that changed since the snapshot is taken.  *)
LockChangedRow(c) ==
  /\ pc[c] = "lock"
  /\ Unlocked(c) # {}
  /\ rowLock[NextRow(c)] = NoCall
  /\ Lock(c, NextRow(c), "lock")
  /\ UNCHANGED result

LockAccount(c) ==
  /\ pc[c] = "lock"
  /\ Unlocked(c) # {}
  /\ LET a == NextRow(c)
     IN /\ rowLock[a] = NoCall
        /\ \/ /\ version[a] = snap[c].version[a]
              /\ Lock(c, a, "lock")
              /\ UNCHANGED result
           \/ /\ version[a] # snap[c].version[a]
              /\ RetryOrReturn(c, "error")

(* Faults: one of the checks on the locked rows is missing.                *)
VerdictWithoutFundsCheck(c) ==
  LET r == req[c]
  IN IF ~({r.from, r.to} \subseteq Visible(c)) THEN "not_found"
     ELSE IF Currency[r.from] # Currency[r.to] THEN "currency_mismatch"
     ELSE IF read[c][r.to] > MaxInt64 - r.amount THEN "invalid_input"
     ELSE "ok"

VerdictWithoutOverflowCheck(c) ==
  LET r == req[c]
  IN IF ~({r.from, r.to} \subseteq Visible(c)) THEN "not_found"
     ELSE IF Currency[r.from] # Currency[r.to] THEN "currency_mismatch"
     ELSE IF read[c][r.from] < r.amount THEN "insufficient_funds"
     ELSE "ok"

(* The checks on the locked rows, in the order the code makes them.        *)
TransferVerdict(c) ==
  LET r == req[c]
  IN IF ~({r.from, r.to} \subseteq Visible(c)) THEN "not_found"
     ELSE IF Currency[r.from] # Currency[r.to] THEN "currency_mismatch"
     ELSE IF read[c][r.from] < r.amount THEN "insufficient_funds"
     ELSE IF read[c][r.to] > MaxInt64 - r.amount THEN "invalid_input"
     ELSE "ok"

CheckAccounts(c) ==
  /\ pc[c] = "lock"
  /\ Unlocked(c) = {}
  /\ \/ /\ TransferVerdict(c) = "ok"
        /\ pc' = [pc EXCEPT ![c] = "key"]
        /\ UNCHANGED <<tables, locks, req, reply, attempt, snap, read, result>>
     \/ /\ TransferVerdict(c) # "ok"
        /\ Refuse(c, TransferVerdict(c))

(***************************************************************************)
(* INSERT INTO journal_transactions waits for an uncommitted insert of the *)
(* same (actor, key).  Losing against a committed one is a 23505, which    *)
(* isIdempotencyRace retries and mapDatabaseError turns into invalid       *)
(* input, or a 40001.                                                      *)
(***************************************************************************)

(* Fault: the index on (actor, key) is not unique.                         *)
InsertDuplicateKey(c) ==
  /\ pc[c] = "key"
  /\ keyLock[req[c].scope] = NoCall
  /\ keyLock' = [keyLock EXCEPT ![req[c].scope] = c]
  /\ result' = [result EXCEPT ![c] = c]
  /\ pc' = [pc EXCEPT ![c] = "commit"]
  /\ UNCHANGED <<tables, rowLock, req, reply, attempt, snap, read>>

InsertJournalTransaction(c) ==
  /\ pc[c] = "key"
  /\ keyLock[req[c].scope] = NoCall
  /\ \/ /\ Stored(c) = {}
        /\ keyLock' = [keyLock EXCEPT ![req[c].scope] = c]
        /\ result' = [result EXCEPT ![c] = c]
        /\ pc' = [pc EXCEPT ![c] = "commit"]
        /\ UNCHANGED <<tables, rowLock, req, reply, attempt, snap, read>>
     \/ /\ Stored(c) # {}
        /\ \E status \in {"invalid_input", "error"} : RetryOrReturn(c, status)

(* Fault: the risk event is left to be stored after the commit.            *)
WriteWithoutRisk(c) ==
  LET r == req[c]
  IN /\ balance' = [balance EXCEPT ![r.from] = read[c][r.from] - r.amount,
                                   ![r.to] = read[c][r.to] + r.amount]
     /\ version' = [version EXCEPT ![r.from] = @ + 1, ![r.to] = @ + 1]
     /\ journal' = journal \cup {Transfer(c, r)}
     /\ postings' = postings \cup TransferPostings(c, r)
     /\ audits' = audits \cup {c}
     /\ UNCHANGED <<accounts, openings, risks>>

(* The writes of applyTransferTx, which others see at COMMIT only.  One    *)
(* that fails rolls them all back: a failed attempt or an Abandon.         *)
WriteTransfer(c) ==
  LET r == req[c]
  IN /\ balance' = [balance EXCEPT ![r.from] = read[c][r.from] - r.amount,
                                   ![r.to] = read[c][r.to] + r.amount]
     /\ version' = [version EXCEPT ![r.from] = @ + 1, ![r.to] = @ + 1]
     /\ journal' = journal \cup {Transfer(c, r)}
     /\ postings' = postings \cup TransferPostings(c, r)
     /\ audits' = audits \cup {c}
     /\ risks' = IF Flagged(r) THEN risks \cup {c} ELSE risks
     /\ UNCHANGED <<accounts, openings>>

-------------------------------------------------------------------------------
(***************************************************************************)
(* CreateAccount.                                                          *)
(***************************************************************************)

(* The INSERT of the new account, under an id nobody else uses.            *)
InsertAccount(c) ==
  /\ pc[c] = "begin"
  /\ IsCreate(c)
  /\ ValidRequest(req[c])
  /\ TakeSnapshot(c, IF req[c].amount > 0 THEN "equity" ELSE "commit")
  /\ UNCHANGED result

(***************************************************************************)
(* INSERT ... ON CONFLICT DO NOTHING of the system account and its SELECT  *)
(* ... FOR UPDATE.  Both wait for a transaction that inserted or locked    *)
(* the row; a row that appeared or changed since the snapshot is a 40001.  *)
(***************************************************************************)

(* Fault: the system account is read without waiting for its holder.       *)
EquityWithoutWaiting(c) ==
  /\ pc[c] = "equity"
  /\ balance[Equity(c)] >= MinInt64 + req[c].amount
  /\ version[Equity(c)] = snap[c].version[Equity(c)]
  /\ Lock(c, Equity(c), "commit")
  /\ UNCHANGED result

(* Fault: the underflow check is missing.                                  *)
EquityWithoutUnderflowCheck(c) ==
  /\ pc[c] = "equity"
  /\ rowLock[Equity(c)] = NoCall
  /\ version[Equity(c)] = snap[c].version[Equity(c)]
  /\ Lock(c, Equity(c), "commit")
  /\ UNCHANGED result

LockEquity(c) ==
  LET s == Equity(c)
      unchanged == (s \in accounts) = (s \in snap[c].accounts)
                   /\ version[s] = snap[c].version[s]
  IN /\ pc[c] = "equity"
     /\ rowLock[s] = NoCall
     /\ \/ /\ unchanged
           /\ balance[s] >= MinInt64 + req[c].amount
           /\ Lock(c, s, "commit")
           /\ UNCHANGED result
        \/ /\ unchanged
           /\ balance[s] < MinInt64 + req[c].amount
           /\ Refuse(c, "invalid_input")
        \/ /\ ~unchanged
           /\ RetryOrReturn(c, "error")

(* The writes of createAccountTx.                                          *)
WriteAccount(c) ==
  LET r == req[c]
      s == Equity(c)
  IN /\ IF r.amount > 0
        THEN /\ accounts' = accounts \cup {r.account, s}
             /\ balance' = [balance EXCEPT ![r.account] = r.amount,
                                           ![s] = read[c][s] - r.amount]
             /\ version' = [version EXCEPT ![s] = @ + 1]
             /\ openings' = openings \cup {c}
        ELSE /\ accounts' = accounts \cup {r.account}
             /\ balance' = [balance EXCEPT ![r.account] = 0]
             /\ UNCHANGED <<version, openings>>
     /\ postings' = postings \cup OpeningPostings(c, r)
     /\ audits' = audits \cup {c}
     /\ UNCHANGED <<journal, risks>>

-------------------------------------------------------------------------------
(***************************************************************************)
(* How calls of both kinds end.                                            *)
(***************************************************************************)

(* What COMMIT makes visible: nothing, for a replay.                       *)
Write(c) ==
  \/ IsCreate(c) /\ WriteAccount(c)
  \/ IsTransfer(c) /\ result[c] = c /\ WriteTransfer(c)
  \/ IsTransfer(c) /\ result[c] # c /\ UNCHANGED tables

Commit(c) ==
  /\ pc[c] = "commit"
  /\ Write(c)
  /\ Return(c, "ok", result[c])

(* Fault: a commit whose answer is lost is reported as a refusal.          *)
CommitRefused(c) ==
  /\ pc[c] = "commit"
  /\ Write(c)
  /\ Return(c, "invalid_input", NoCall)

(* The server commits and the answer is lost, or the context ends first.   *)
CommitUnacknowledged(c) ==
  /\ pc[c] = "commit"
  /\ Write(c)
  /\ Return(c, "error", NoCall)

(* Certification, or the deadlock detector, picks this transaction.        *)
SerializationFailure(c) ==
  /\ pc[c] \in InTransaction
  /\ RetryOrReturn(c, "error")

(* The context is cancelled, the connection or the process is lost: the    *)
(* server rolls the transaction back.  A crash of the process is this      *)
(* step, or CommitUnacknowledged, for every call it was running.           *)
Abandon(c) ==
  /\ pc[c] \in Running
  /\ Refuse(c, "error")

Step(c) ==
  \/ RejectInvalid(c)
  \/ FindIdempotentTransfer(c) \/ LockAccount(c) \/ CheckAccounts(c)
  \/ InsertJournalTransaction(c)
  \/ InsertAccount(c) \/ LockEquity(c)
  \/ Commit(c) \/ NextAttempt(c)

(* No call is running: the system waits for requests.                      *)
Quiescent ==
  /\ \A c \in Calls : pc[c] \in {"idle", "done"}
  /\ UNCHANGED vars

Next ==
  \/ \E c \in Calls :
       \/ \E r \in Requests : Invoke(c, r)
       \/ Step(c)
       \/ SerializationFailure(c) \/ CommitUnacknowledged(c) \/ Abandon(c)
  \/ Quiescent

Spec == Init /\ [][Next]_vars

(* A running call is a goroutine and a server session: both are scheduled. *)
FairSpec == Spec /\ \A c \in Calls \ PastCalls : WF_vars(Step(c))

-------------------------------------------------------------------------------
(***************************************************************************)
(* Properties.                                                             *)
(***************************************************************************)

Statuses ==
  {"none", "ok", "error", "invalid_input", "not_found", "currency_mismatch",
   "insufficient_funds", "idempotency_conflict"}

Replies == [status : Statuses, transfer : Calls \cup {NoCall}]
Snapshots == [accounts : SUBSET AllAccounts, version : [AllAccounts -> Nat]]

(* Every variable has its type.  In particular no balance ever leaves the  *)
(* int64 range: the overflow check of applyTransferTx and the underflow    *)
(* check of createAccountTx are made on values that are still current when *)
(* the new balance is written.                                             *)
TypeOK ==
  /\ accounts \subseteq AllAccounts
  /\ balance \in [AllAccounts -> Int64]
  /\ version \in [AllAccounts -> Nat]
  /\ journal \subseteq Transfers
  /\ openings \subseteq Calls
  /\ postings \subseteq Postings
  /\ audits \subseteq Calls
  /\ risks \subseteq Calls
  /\ rowLock \in [AllAccounts -> Calls \cup {NoCall}]
  /\ keyLock \in [Scopes -> Calls \cup {NoCall}]
  /\ req \in [Calls -> CreateRequests \cup TransferRequests \cup {NoRequest}]
  /\ reply \in [Calls -> Replies]
  /\ pc \in [Calls -> {"idle", "done"} \cup Running]
  /\ attempt \in [Calls -> 0 .. MaxRetries - 1]
  /\ snap \in [Calls -> Snapshots]
  /\ read \in [Calls -> [AllAccounts -> Int64]]
  /\ result \in [Calls -> Calls \cup {NoCall}]

(* Concurrent transfers never overdraw an account: of several transfers    *)
(* that the balance covers one by one but not together, only those it      *)
(* covers commit (CHECK (system OR balance_minor >= 0) never has to fire). *)
NoOverdraft == \A a \in Accounts : balance[a] >= 0

(* A transaction about to write balances computes them from balances that  *)
(* are still the committed ones (the FOR UPDATE reads of lockAccounts and  *)
(* createAccountTx), so no concurrent update is lost.                      *)
NoLostUpdate ==
  \A c \in Calls :
    /\ pc[c] = "key" \/ (pc[c] = "commit" /\ result[c] = c) =>
         \A a \in {req[c].from, req[c].to} : read[c][a] = balance[a]
    /\ pc[c] = "commit" /\ IsCreate(c) /\ req[c].amount > 0 =>
         read[c][Equity(c)] = balance[Equity(c)]

(* At most one transfer is stored per (actor, key), however many calls     *)
(* with that key run at once, are retried or lose their COMMIT's answer.   *)
OneTransferPerKey ==
  \A t, u \in journal : t.scope = u.scope => t = u

(* A transfer call that returns success names a stored transfer with its   *)
(* own key and intent: itself, or the original when it is a replay.        *)
(* "The adapter never treats a different request body as a replay."        *)
AcknowledgedIsStored ==
  \A c \in Calls :
    reply[c].status = "ok" /\ IsTransfer(c) =>
      \E t \in journal : /\ t.id = reply[c].transfer
                         /\ t.scope = req[c].scope
                         /\ SameIntent(t, req[c])

(* A call that was refused for a reason stored nothing, and one that was   *)
(* not answered yet stored nothing so far: a client that sees a domain     *)
(* error knows that no money moved.                                        *)
RefusedLeavesNoTrace ==
  \A c \in Calls :
    reply[c].status \notin {"ok", "error"} =>
      /\ c \notin audits \cup openings \cup risks
      /\ \A t \in journal : t.id # c
      /\ \A p \in postings : p.transaction # c

(* A stored transfer is stored whole: two opposite postings, the audit     *)
(* record, and a risk row exactly when the amount reaches the threshold.   *)
StoredWhole ==
  /\ \A t \in journal :
       /\ {p \in postings : p.transaction = t.id} = TransferPostings(t.id, t)
       /\ t.id \in audits
       /\ t.id \in risks <=> Flagged(t)
  /\ risks \subseteq {t.id : t \in journal}

(* An insert that loses the race for its key lost it to a request with     *)
(* another intent: two identical requests meet at the row locks first, so  *)
(* a true retry is never told invalid_input on the last attempt.           *)
RaceMeansConflict ==
  \A c \in Calls :
    pc[c] = "key" => \A t \in Stored(c) : ~SameIntent(t, req[c])

(* c cannot go on until d ends its transaction.                            *)
WaitsFor(c, d) ==
  \/ pc[c] = "lock" /\ Unlocked(c) # {} /\ rowLock[NextRow(c)] = d
  \/ pc[c] = "equity" /\ rowLock[Equity(c)] = d
  \/ pc[c] = "key" /\ keyLock[req[c].scope] = d

(* Transactions never wait for each other in a cycle: in every group of    *)
(* calls there is one that waits for no other of the group.  The order in  *)
(* lockAccounts is what prevents it; the deadlock detector is not needed.  *)
NoWaitCycle ==
  \A group \in SUBSET (Calls \ PastCalls) \ {{}} :
    \E c \in group : \A d \in group : ~WaitsFor(c, d)

(* Every call returns: retries are bounded and locks are always released.  *)
EveryCallReturns ==
  \A c \in Calls \ PastCalls : pc[c] = "begin" ~> pc[c] = "done"

(* A key reused with other transfer fields is a conflict, as README.md and *)
(* ADR 0002 say: while the key holds another intent, a transfer is told    *)
(* invalid_input only for a fault of its own.  A call that loses the       *)
(* unique index on its last attempt violates it, see ApplyTransfer.        *)
KeyReuseIsConflict ==
  [][\A c \in Calls :
       reply'[c] # reply[c] /\ reply'[c].status = "invalid_input" /\ IsTransfer(c) =>
         LET r == req[c]
         IN \/ \A t \in Stored(c) : SameIntent(t, r)
            \/ ~ValidRequest(r) \/ r.from = r.to
            \/ balance[r.to] + r.amount > MaxInt64]_vars

Contract == INSTANCE Ledger WITH
  missing <- [c \in Calls |->
                IF pc[c] \in InTransaction THEN AllAccounts \ snap[c].accounts ELSE {}]

(* The repository contract: every call takes effect at one instant, its    *)
(* COMMIT, exactly as in a serial execution, and every answer is right.    *)
(* It holds as long as a key is not raced by requests that share no row.   *)
ImplementsLedger == Contract!Spec

(* The same for all requests, the answer to a lost race for a key aside:   *)
(* ApplyTransfer gives it for another intent's key only, after no effect.  *)
ImplementsWeakLedger == Contract!WeakSpec

-------------------------------------------------------------------------------
(***************************************************************************)
(* The inductive invariant behind the safety properties.                   *)
(***************************************************************************)

(* A call that holds row locks and the right to write a new transfer.      *)
Writing(c) == pc[c] = "key" \/ (pc[c] = "commit" /\ IsTransfer(c) /\ result[c] = c)

(* What is known of a call from the place it has reached.                  *)
PhaseInv(c) ==
  /\ pc[c] = "idle" <=> req[c] = NoRequest
  /\ pc[c] # "done" => reply[c] = NoReply
  /\ pc[c] # "commit" => result[c] = NoCall
  /\ pc[c] = "backoff" => attempt[c] < MaxRetries - 1
  /\ pc[c] \in InTransaction => ValidRequest(req[c])
  /\ pc[c] \in {"lock", "key"} => IsTransfer(c) /\ req[c].from # req[c].to
  /\ pc[c] = "equity" => IsCreate(c) /\ req[c].amount > 0
  /\ pc[c] = "commit" /\ IsCreate(c) /\ req[c].amount > 0 =>
       rowLock[Equity(c)] = c /\ balance[Equity(c)] >= MinInt64 + req[c].amount
  /\ pc[c] = "commit" /\ IsCreate(c) => result[c] = NoCall
  /\ pc[c] = "commit" /\ IsTransfer(c) /\ result[c] # c =>
       \E t \in Stored(c) : t.id = result[c] /\ SameIntent(t, req[c])
  /\ Writing(c) =>
       /\ req[c].from # req[c].to
       /\ rowLock[req[c].from] = c /\ rowLock[req[c].to] = c
       /\ balance[req[c].from] >= req[c].amount
       /\ balance[req[c].to] <= MaxInt64 - req[c].amount
  /\ pc[c] = "commit" /\ IsTransfer(c) /\ result[c] = c => keyLock[req[c].scope] = c

(* A locked row is as its holder's snapshot and its holder's read saw it.  *)
RowLockInv(c) ==
  \A a \in AllAccounts : rowLock[a] = c =>
    /\ pc[c] \in {"lock", "key", "commit"}
    /\ IsTransfer(c) => a \in {req[c].from, req[c].to} \cap snap[c].accounts
    /\ IsCreate(c) => pc[c] = "commit" /\ req[c].amount > 0 /\ a = Equity(c)
    /\ version[a] = snap[c].version[a]
    /\ read[c][a] = balance[a]

(* An entry of the unique index is held until the commit of a new key.     *)
KeyLockInv(c) ==
  \A s \in Scopes : keyLock[s] = c =>
    /\ pc[c] = "commit" /\ IsTransfer(c) /\ result[c] = c /\ req[c].scope = s
    /\ Stored(c) = {}

(* Snapshots lag behind, and a transfer with the call's key that committed *)
(* after the snapshot changed a row the snapshot shows.                    *)
SnapshotInv(c) ==
  /\ snap[c].accounts \subseteq accounts
  /\ \A a \in AllAccounts : snap[c].version[a] <= version[a]
  /\ pc[c] \in {"lock", "key"} =>
       \A t \in Stored(c) : snap[c].version[t.from] < version[t.from]

(* An account under creation exists nowhere yet and has one creator.       *)
FreshInv(c) ==
  pc[c] \in Running /\ IsCreate(c) =>
    /\ req[c].account \notin accounts
    /\ \A d \in Calls \ {c} :
         pc[d] \in Running /\ IsCreate(d) => req[d].account # req[c].account

IInv ==
  /\ TypeOK
  /\ \A c \in Calls :
       PhaseInv(c) /\ RowLockInv(c) /\ KeyLockInv(c) /\ SnapshotInv(c) /\ FreshInv(c)
  /\ NoOverdraft
  /\ OneTransferPerKey
  /\ AcknowledgedIsStored
  /\ RefusedLeavesNoTrace
  /\ StoredWhole

===============================================================================
