# SecureLedger in TLA+

A model of SecureLedger from the HTTP request to the stored posting and the
published risk event, and of the process around it, model-checked with TLC on
small instances and, for the safety properties that matter most, proved with
TLAPS for every value of the constants.

## The system

SecureLedger is a double-entry ledger behind an HTTP API. A request passes
`internal/httpapi` (decoding, principal), `internal/app` (roles, limits, fresh
identifiers, risk threshold) and one call of `store.Repository`:

| Part | State | Operations that change it |
|---|---|---|
| PostgreSQL repository, `internal/store/postgres/store.go` | accounts, journal, intents, postings, audit records, risk events; row locks and index entries of running transactions | `CreateAccount`, `ApplyTransfer` |
| Durable outbox, `postgres/outbox.go` and `internal/risk/outbox.go` | `risk_events.status`, `attempts`, `available_at`, `locked_at`; each worker's batch | `ClaimRiskEvents`, `Publish`, `MarkRiskEventPublished`, `MarkRiskEventFailed`, `Worker.Run` |
| Reconciliation, `postgres/reconcile.go`, `cmd/secureledger-reconcile` | the report and the exit status | the queries of `Reconcile` |
| In-memory repository, `internal/store/memory` | the same tables in maps under a mutex | `CreateAccount`, `ApplyTransfer` |
| Dispatcher, `internal/risk/dispatcher.go` | a bounded channel | `Submit`, `Run` |
| Service and HTTP API, `internal/app`, `internal/httpapi` | where each handler is, and what it has read | one handler per request |
| Server process, `cmd/secureledger` | up, shutting down, closing, down; its configuration | start, signal, `Shutdown`, exit |

The service calls the repository; a transfer that reaches the threshold stores
a risk event in its own transaction; with PostgreSQL each server process runs a
worker that claims such events and publishes them; reconciliation recomputes
balances from postings. The hard behaviours are concurrent transactions on the
same rows and keys, bounded retries, commits whose answer is lost, and workers
that crash or outlive their lease. `PROJECT.json` lists them as hazards, each at
the line where it bites.

## Modules

| Module | Models |
|---|---|
| `Domain` | requests, transfers, intents, postings, validity, the initial database |
| `Ledger` | the repository contract: every call takes effect at one instant or not at all; and PostgreSQL's one deviation from it |
| `PostgresStore` | `CreateAccount` and `ApplyTransfer` as loops of SERIALIZABLE transactions |
| `Reconcile` | the queries of `Reconcile` as functions of the tables |
| `RiskOutbox` | `risk_events`, claims, leases and the workers |
| `Checks` | a sequence of checks whose first failure decides |
| `Balanced` | `ValidateBalanced`, with integers that wrap |
| `MemoryStore` | the in-memory repository under its mutex, and its list reads |
| `Service` | HTTP handlers and service methods over `Ledger` |
| `Dispatcher` | the bounded channel of the process-local notifier |
| `Server` | `Service` and `Dispatcher` inside a process that stops, crashes and restarts |
| `ReconcileRun` | the reconciliation command beside a working `Ledger` |
| `LedgerOutbox` | `Ledger` and `RiskOutbox` joined by the transaction that writes both |
| `MC...` | instances for TLC |
| `PostgresStoreFacts` | lemmas the proofs about `PostgresStore` share |
| `PostgresStoreSteps`, `PostgresStoreTransfer`, `PostgresStoreAccount` | each action preserves the invariant: those that write no table, and the commits that do |
| `PostgresStoreProofs`, `RiskOutboxProofs`, `LedgerOutboxProofs`, `ServerProofs` | the theorems |

### PostgresStore

One action is one statement that another transaction can notice.

| Code | Action |
|---|---|
| `validateCreateAccount`, `validateTransfer` | `RejectInvalid` |
| `BeginTx`, `findIdempotentTransfer`, replay, conflict, from = to | `FindIdempotentTransfer` |
| `lockAccounts`, one row at a time in id order | `LockAccount` |
| not found, currency, funds, overflow | `CheckAccounts` |
| `INSERT INTO journal_transactions` | `InsertJournalTransaction` |
| `INSERT` of the account | `InsertAccount` |
| system account: `ON CONFLICT DO NOTHING`, `FOR UPDATE`, underflow | `LockEquity` |
| `tx.Commit`; makes all writes visible | `Commit`, `CommitUnacknowledged` |
| `isRetryable`, `isIdempotencyRace`, `mapDatabaseError`, `waitForRetry` | `RetryOrReturn`, `SerializationFailure`, `NextAttempt` |
| cancelled context, lost connection, crash | `Abandon` |

PostgreSQL is external. The model takes from it that a transaction sees the
state of its first statement; row locks and uncommitted index entries make
others wait; locking a row that changed since the snapshot is a 40001; inserting
a key committed meanwhile is a 23505 or a 40001. Serializable certification may
abort a transaction at any time and no property relies on it doing so: the row
locks and the unique index alone carry the safety of these two operations.
A call stands for the identifiers the service draws for it, so a client's retry
is another call with the same (actor, key). Owner and currency of an account are
immutable (`protect_account_identity`). The service takes a transfer's currency
from the source account, so the second half of the currency check cannot fail.
Texts, timestamps, metadata and fingerprints are left out: `SameIntent` compares
the fields `TransferIntent.Equal` compares.

### RiskOutbox

`Begin` reads the clock, `Claim` is the claiming transaction, `PublishSucceeds`
and `PublishFails` the publisher, `Mark` the two marking statements,
`MarkRefused` a mark that affects no row and ends the cycle, `Stop` every error,
cancellation or crash, `ClaimLost` and `MarkLost` statements whose answer is
lost. A publisher that reports an error may or may not have delivered.

`available_at`, `locked_at` and the worker's `now` are kept as differences to the
present, so time can pass forever in a finite state space; differences beyond
which no comparison changes are not counted further. All workers share one
clock: skew between processes is not modelled. `ORDER BY` is modelled up to ties;
`created_at` and `id` only break them.

The marking statements ask for `status = 'processing'`, not for the worker's own
claim. A worker slower than the lease can therefore mark an event another one
has claimed since. What survives is stated unconditionally
(`PublishedWasDelivered`, `PublishedIsFinal`, `DuplicatesBounded`); exclusivity
is stated for as long as no worker overran its lease. An event can use up its
attempts without being delivered, and a row whose worker died on the last attempt
stays `processing`; `docs/operations.md` and ADR 0005 leave both to monitoring, and
`EveryEventSettles` promises no more.

### MemoryStore

A call enters (`ContextDone` is the only cancellation, at the entrance), takes the
mutex, and in one step checks everything and writes everything; nobody can look
in between, because reads take the mutex too. `KeyChecks`, `IDChecks` and
`AccountChecks` are the early returns in their order. Identifiers are a constant, so
that the run can let them collide: PostgreSQL has primary keys for that case, this
store only its look-ups. Their refusal is the status `duplicate_id` here (an
`ErrInvalidInput` with a message of its own in the code), because it is no
judgement on the client's input; the contract sees it as a failure without
effect. `MemoryStore` implements the same `Ledger` as `PostgresStore`.

`createdAt` is the instant the service read before the call, which need not be the
order of the mutex. The list of risk events takes its window in the order of storing and
sorts it by date, and `RecentWindows` states it so: with a short limit and concurrent
transfers an older event can be listed and a younger one left out. PostgreSQL
orders by date before it applies the limit.

### Service and Server

A member of `Calls` is one HTTP exchange. `Receive` stands for everything a handler
decides before it asks the repository (principal, body, role, validity, limit),
`ReadSource` and `ReadDestination` for the two unlocked reads of `Service.Transfer`,
`Apply` and `Complete` for the call and its return; between them other handlers
and the repository move. Each answer may fail to reach the client. The repository
is `Ledger` with `Misreport`, which covers both stores.

`Server` adds `main.go`: `Signal` cancels the context, `Shutdown` closes the listener,
`ShutdownReturns` is the drained server or the deadline, `Exit` the deferred
`closeRepository` and the end of the process. A crash loses the handlers, while a
transaction they had at the database may still commit, even after the next process is up
(`orphans`). `Restart` may bring another transfer limit. With the in-memory
repository nothing is restarted, and `Finish` submits risk events to `Dispatcher`.

### ReconcileRun and LedgerOutbox

The command's first query takes the snapshot all three read, while `Ledger` serves
calls and an outside statement may change a balance. `LedgerOutbox` inserts the
outbox row in the step that stores the transfer; the workers are those of `RiskOutbox`.

## Runs

| Run | Instance | Checks | States |
|---|---|---|---|
| `transfers` | 3 calls, 4 accounts, one almost full, 2 keys, 2 attempts | safety, `OneTransferPerKey`, `RaceMeansConflict`, `NoWaitCycle`, and that `PostgresStore` implements `Ledger` with `Misreport` | 134,431 |
| `accounts` | 2 calls that open accounts or pay into them, 2 currencies, 2 keys, 3 attempts | `ReconciliationClean`, implementation of `Ledger`, `EveryCallReturns` | 17,765 |
| `key_race` | 2 calls of `transfers` | `KeyReuseIsConflict`, violated | |
| `outbox` | 2 events, 2 workers, 3 attempts, lease 2, batch 2 | outbox safety, `PublishedIsFinal` | 433,944 |
| `outbox_liveness` | 2 events, 2 workers, 2 attempts, lease 1, batch 2 | `EveryEventSettles` | 165,875 |
| `ledger_outbox` | 2 calls with one key, 2 workers | `DeliveredWasCommitted`, `EveryRiskSettles` | 60,885 |
| `balanced` | all lists of up to 4 postings in 2 currencies | `AcceptsExactlyBalanced` | 69,905 |
| `memory` | 3 calls, two with colliding identifiers, 4 accounts, 2 keys, after two openings | balances against journal, `IdentifiersUnique`, `RecentWindows`, implementation of `Ledger` | 157,669 |
| `service` | 3 requests out of 18, 2 principals, 4 accounts | `AnswersAreTrue`, `Authorised`, `RetryIsNeverRefused` | 999,184 |
| `server` | 2 flagged requests, either repository, a channel of 1, crashes and restarts | answers and retries, `EachNotifiedOnce`, `GracefulExit`, `SignalStops`, `QueuedIsDispatched` | 155,525 |
| `limit_change` | the same with two transfer limits | `RetryIsNeverRefused`, violated | |
| `reconcile` | 2 calls, one outside change | `ReportIsOneInstant`, `NoFalseAlarm` | 31,640 |

`limit_change` and `key_race` show where the code and its documents differ. `README.md` says that
repeating the exact request with the same actor and key returns `200 OK` and the
original transfer. `Service.Transfer` applies the configured limit first, so after
a restart with a lower limit the retry of a stored transfer is refused with 422,
and its client cannot learn that it happened. With one limit,
`RetryIsNeverRefused` holds (`service`, `server`).

`README.md` and ADR 0002 also say that a key reused with other fields is a conflict. In
`key_race`, the first attempt of a transfer ends in a serialization failure; the
second and last one finds the key free, takes its row locks, and meets the unique index
after another transfer, over other accounts, has committed the key. `ApplyTransfer`
has no attempt left to find the winner, and `mapDatabaseError` turns the 23505 into
`ErrInvalidInput`: the client reads 400 where 409 is promised. Nothing is stored, and
`RaceMeansConflict` shows that the key never belongs to the same intent then.

`ImplementsLedger` is the strongest statement: it maps the committed tables to
the contract's, and every COMMIT to the instant the call takes effect. The
refusal `not_found` may rest on a snapshot that is no longer current, which is why
the contract lets a call look at the accounts before it answers; every other refusal
of the contract is right at the instant it is given. `MemoryStore` keeps this contract.
`PostgresStore` keeps it in `accounts`, where all transfers debit one account and so
cannot race for a key without meeting at that row. In `transfers` they can, and what
holds is `ImplementsWeakLedger`: the contract with one more step, `Misreport`, the
answer `key_race` exhibits. `Service`, `LedgerOutbox` and `ReconcileRun` allow `Misreport`,
so what they show holds over PostgreSQL as it is.

Bounds. Two calls are enough for a lost update or an overdraft; the third lets a
retry meet a finished and a running competitor. Two attempts reach both the
retry and the exhausted loop. What `accounts` is about (two first accounts of a currency, the
lower limit, an account that appears under a transfer) takes two calls; it is checked with
liveness, so without symmetry, and has three attempts instead of a third call. `MaxInt64` is small so that overflow and underflow
happen. A cycle of three needs three accounts, and a race for a key that no row lock
decides needs two disjoint pairs. Two workers and two events let one
worker overrun while another reclaims, and let a batch be abandoned half done;
`MaxLatency` bounds how long a claim may take to reach the database.
Three HTTP requests let a retry follow an original and a payment that changed the
balances in between; two are enough for a retry to overtake the commit of a
crashed process, and two flagged transfers for a channel of one to be full,
refilled or abandoned. `Limits`, `PageLimit`, `DefaultLimit`, `MaxLimit` and
`Capacity` stand for the code's larger constants.
Each refusal (funds, overflow, underflow, conflict, not found, currency), each
replay and each lost race is reached by some run. Calls not in `Past`, events
and workers are treated alike by every definition, so `transfers`, `outbox`
and `service` use symmetry; their counts are of states up to symmetry.

Fairness. In `PostgresStore`, a running call is a goroutine and a server session,
so its next step is weakly fair; failures, lost answers and new requests are not
(`accounts`, `key_race`).
In `RiskOutbox`, time passes and running workers are scheduled; a claim is
strongly fair, because a worker that keeps asking is served now and then even if
single cycles fail. Nothing makes a worker survive: `Stop` may follow every claim.
In `Server`, the goroutines of `run` and of the dispatcher are scheduled, the
deadline is a timer, and the repository answers (`EveryCallReturns`); handlers, clients
and signals are not fair. A pool with connections in use delays the exit, so it
is fair only once the repository is done. `LedgerOutbox` takes the fairness of `RiskOutbox`.

## Proofs

`PostgresStoreProofs` proves `Spec => []IInv` and from it `TypeOK`, `NoOverdraft`,
`NoLostUpdate`, `OneTransferPerKey`, `AcknowledgedIsStored`, `RefusedLeavesNoTrace`,
`StoredWhole` and `RaceMeansConflict`, assuming `DomainAssumption` (identifiers are
distinct, the initial database is in range) and `MaxRetriesAssumption`.
The properties are not inductive: that a commit writes sound balances depends on
what its transaction locked earlier. `IInv` adds

- `RowLockInv`: a locked row is as its holder's snapshot and read saw it;
- `KeyLockInv`: an index entry is held only while its key is unused;
- `PhaseInv`: what the checks established still holds at the place a call is at;
- `SnapshotInv`: snapshots lag behind, and a transfer with the call's key that
  committed after its snapshot changed a row of the snapshot. This gives
  `RaceMeansConflict`: identical requests meet at the row locks, where the loser gets
  a 40001 and replays, so a 23505 can only come from a different request;
- `FreshInv`: an account being created has one creator and no row.

`RiskOutboxProofs` proves `Spec => []OutboxInv` and from it `TypeOK`,
`PublishedWasDelivered`, `ExclusiveUnlessOverrun` and the action property
`PublishedIsFinal`, assuming `OutboxAssumption`. The strengthening `HoldInv` says
that, while nobody overran, the lease in the row of every event a worker holds is
that worker's own and has not ended.

`LedgerOutboxProofs` proves `Spec => []CompositionInv` and from it
`DeliveredWasCommitted`. The strengthening says that a row exists only for a stored risk event and
that what is delivered or claimed has a row; it is kept by a lemma about each
side and one step that joins them. `ServerProofs` proves `ServerSpec => []DrainedInv`
and from it the action property `GracefulExit`, assuming of `ServiceAssumption` that requests are
of the four known kinds: success is recorded only when no handler is left, and
none can start afterwards.

Only model-checked: liveness; the refinements `ImplementsLedger` (both stores) and
`ImplementsWeakLedger`;
`NoWaitCycle`; the properties of `MemoryStore`, `Service`, `Dispatcher` and
`ReconcileRun`; `ReconciliationClean` and `JournalExplainsBalances`, whose sums over
postings need induction over data, as does `AcceptsExactlyBalanced`; and
`DuplicatesBounded`, which counts workers.

## Not modelled

`/healthz`, `/readyz`, `Ping` and the health check command are stateless probes.
Environment parsing, logging, headers and JSON layout carry no state. Trimming,
lengths and character sets of texts, audit metadata and fingerprints are
left out: the models begin with texts that passed those checks. PostgreSQL's
list queries change nothing, and `PostgresStore` has no posting sequence or dates they could
be checked against; their in-memory counterparts are modelled. The balance
trigger and the CHECK constraints are not steps of the model: the invariants
show that the states they reject are not reached by these operations. The
append-only triggers reject statements the code never issues. `MemoryStore` and
`PostgresStore` are not composed with `Service` directly but through the contract.

## Plan

Proofs: `NoWaitCycle` from the lock order, the refinement of `Ledger`, `Authorised`
and `RetryIsNeverRefused` over the contract, `DuplicatesBounded`.
