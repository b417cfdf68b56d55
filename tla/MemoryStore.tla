------------------------------ MODULE MemoryStore ------------------------------
(***************************************************************************)
(* The in-memory repository (internal/store/memory/store.go).  A call      *)
(* takes the mutex, checks everything and then writes everything, so that  *)
(* no failure leaves half of it behind.  Unlike PostgreSQL it has no       *)
(* constraints to fall back on: that identifiers are unique rests on its   *)
(* own look-ups.                                                           *)
(***************************************************************************)
EXTENDS Domain, Checks, FiniteSets
LOCAL INSTANCE SequencesExt

CONSTANTS
  IDs,           \* the identifiers the service drew for each call
  DefaultLimit,  \* normaliseLimit: 100
  MaxLimit       \* normaliseLimit: 1000

ASSUME MemoryAssumption ==
  /\ \A c \in Calls : DOMAIN IDs[c] = {"transaction", "postings", "audit", "risk"}
  /\ DefaultLimit \in 1 .. MaxLimit

VARIABLES
  mu,            \* holder of the mutex
  accounts,      \* keys of the map accounts
  balance,       \* BalanceMinor of each of them
  idempotency,   \* the call whose transfer is recorded for each (actor, key)
  transactions,  \* id sets
  postings,
  audits,
  risks,
  journal,       \* the slices
  audit,
  risk,
  sequence,
  req,           \* each call's input
  createdAt,     \* when the service read its clock for the call
  reply          \* what the call returned

idSets == <<transactions, postings, audits, risks>>
slices == <<journal, audit, risk, sequence>>
store == <<accounts, balance, idempotency, idSets, slices>>
vars == <<mu, store, req, createdAt, reply>>

Model == INSTANCE Balanced

Reply(status, t) == [status |-> status, transfer |-> t]
NoReply == Reply("none", NoCall)

IsCreate(c) == req[c].kind = "create"
IsTransfer(c) == req[c].kind = "transfer"
Equity(c) == SystemAccount[Currency[req[c].account]]
Entered(c) == req[c] # NoRequest /\ reply[c] = NoReply

-------------------------------------------------------------------------------
(* Two opposite postings; currency stands for the one both accounts have.  *)
Pair(c, a, n, b, last) ==
  LET row(i, account, amount) ==
        [id |-> IDs[c].postings[i], transaction |-> IDs[c].transaction, account |-> account,
         amount |-> amount, currency |-> Currency[a], sequence |-> last + i]
  IN <<row(1, a, n), row(2, b, -n)>>

OpeningPair(c, r, last) ==
  Pair(c, r.account, r.amount, SystemAccount[Currency[r.account]], last)

(* The store after the calls of Past, one after the other; New when there  *)
(* are none.                                                               *)
Init ==
  /\ mu = NoCall
  /\ accounts = InitialAccounts
  /\ balance = InitialBalance
  /\ idempotency = [s \in Scopes |-> NoCall]
  /\ journal = FoldLeft(LAMBDA js, c : js \o OpeningPair(c, Past[c], Len(js)), <<>>, SetToSeq(Funded))
  /\ sequence = 2 * Cardinality(Funded)
  /\ transactions = {IDs[c].transaction : c \in Funded}
  /\ postings = UNION {Range(IDs[c].postings) : c \in Funded}
  /\ audit = SetToSeq(PastCalls)
  /\ audits = {IDs[c].audit : c \in PastCalls}
  /\ risk = <<>> /\ risks = {}
  /\ req = [c \in Calls |-> IF c \in PastCalls THEN Past[c] ELSE NoRequest]
  /\ createdAt = [c \in Calls |-> 0]
  /\ reply = [c \in Calls |-> IF c \in PastCalls THEN Reply("ok", NoCall) ELSE NoReply]

(* The service reads the clock, draws the identifiers and calls.  No two   *)
(* calls create the same account.                                          *)
Invoke(c, r) ==
  /\ req[c] = NoRequest
  /\ r.kind = "create" =>
       \A d \in Calls : req[d] # NoRequest /\ IsCreate(d) => req[d].account # r.account
  /\ req' = [req EXCEPT ![c] = r]
  /\ createdAt' = [createdAt EXCEPT ![c] = Cardinality({d \in Calls \ PastCalls : req'[d] # NoRequest})]
  /\ UNCHANGED <<mu, store, reply>>

(* ctx.Err() at the entrance; a call that waits for the mutex cannot be    *)
(* cancelled any more.                                                     *)
ContextDone(c) ==
  /\ Entered(c)
  /\ mu # c
  /\ reply' = [reply EXCEPT ![c] = Reply("error", NoCall)]
  /\ UNCHANGED <<mu, store, req, createdAt>>

Lock(c) ==
  /\ Entered(c)
  /\ mu = NoCall
  /\ mu' = c
  /\ UNCHANGED <<store, req, createdAt, reply>>

Return(c, status, t) ==
  /\ reply' = [reply EXCEPT ![c] = Reply(status, t)]
  /\ mu' = NoCall
  /\ UNCHANGED <<req, createdAt>>

(* Fault: the counter moves on by one.                                     *)
PostCountedOnce(c, rows) ==
  /\ sequence' = sequence + 1
  /\ transactions' = transactions \cup {IDs[c].transaction}
  /\ postings' = postings \cup Range(IDs[c].postings)
  /\ journal' = journal \o rows

(* The entries both kinds of transaction make.                             *)
Post(c, rows) ==
  /\ sequence' = sequence + 2
  /\ transactions' = transactions \cup {IDs[c].transaction}
  /\ postings' = postings \cup Range(IDs[c].postings)
  /\ journal' = journal \o rows

(* "duplicate_id" is the domain.ErrInvalidInput whose message says that an *)
(* identifier the service drew is in use: no fault of the client's input.  *)
Taken(c) == idempotency[req[c].scope] # NoCall
SamePostingIDs(c) == IDs[c].postings[1] = IDs[c].postings[2]
PostingIDTaken(c) == \E i \in {1, 2} : IDs[c].postings[i] \in postings

-------------------------------------------------------------------------------
(***************************************************************************)
(* CreateAccount.                                                          *)
(***************************************************************************)
CreateVerdict(c) ==
  LET r == req[c]
      id == IDs[c]
  IN Verdict(
       << Check(r.account \in accounts, "invalid_input"),
          Check(r.amount < 0, "invalid_input"),
          Check(id.audit \in audits, "duplicate_id") >>
       \o IF r.amount <= 0 THEN <<>> ELSE
       << Check(SamePostingIDs(c), "duplicate_id"),
          Check(id.transaction \in transactions, "duplicate_id"),
          Check(PostingIDTaken(c), "duplicate_id"),
          Check(balance[Equity(c)] < MinInt64 + r.amount, "invalid_input"),
          Check(Model!ValidateBalanced(OpeningPair(c, req[c], sequence)) # "ok", "invalid_input") >>)

WriteAccount(c) ==
  LET r == req[c]
  IN /\ accounts' = accounts \cup {r.account} \cup IF r.amount > 0 THEN {Equity(c)} ELSE {}
     /\ balance' = [balance EXCEPT ![r.account] = r.amount, ![Equity(c)] = @ - r.amount]
     /\ IF r.amount > 0 THEN Post(c, OpeningPair(c, req[c], sequence))
        ELSE UNCHANGED <<transactions, postings, journal, sequence>>
     /\ audits' = audits \cup {IDs[c].audit}
     /\ audit' = Append(audit, c)
     /\ UNCHANGED <<idempotency, risks, risk>>

CreateAccount(c) ==
  /\ mu = c
  /\ IsCreate(c)
  /\ \/ /\ CreateVerdict(c) = "ok"
        /\ WriteAccount(c)
     \/ /\ CreateVerdict(c) # "ok"
        /\ UNCHANGED store
  /\ Return(c, CreateVerdict(c), NoCall)

-------------------------------------------------------------------------------
(***************************************************************************)
(* ApplyTransfer.  "replay" is not an error: the key was used by an        *)
(* identical request, whose transfer is returned.                          *)
(***************************************************************************)
TransferPair(c) == Pair(c, req[c].from, -req[c].amount, req[c].to, sequence)

KeyChecks(c) ==
  LET used == Taken(c)
  IN << Check(used /\ ~SameIntent(req[idempotency[req[c].scope]], req[c]), "idempotency_conflict"),
        Check(used, "replay") >>

IDChecks(c) ==
  << Check(IDs[c].transaction \in transactions, "duplicate_id"),
     Check(PostingIDTaken(c), "duplicate_id"),
     Check(IDs[c].audit \in audits, "duplicate_id"),
     Check(Flagged(req[c]) /\ IDs[c].risk \in risks, "duplicate_id") >>

AccountChecks(c) ==
  LET r == req[c]
  IN << Check(~({r.from, r.to} \subseteq accounts), "not_found"),
        Check(r.from = r.to, "invalid_input"),
        Check(Currency[r.from] # Currency[r.to], "currency_mismatch"),
        Check(r.amount <= 0, "invalid_input"),
        Check(balance[r.from] < r.amount, "insufficient_funds"),
        Check(balance[r.to] > MaxInt64 - r.amount, "invalid_input"),
        Check(Model!ValidateBalanced(TransferPair(c)) # "ok", "invalid_input") >>

(* Faults: the key is looked up last; identifiers are not looked up; the   *)
(* overflow check is missing.                                              *)
VerdictKeyLast(c) == Verdict(IDChecks(c) \o AccountChecks(c) \o KeyChecks(c))
VerdictTrustingIDs(c) == Verdict(KeyChecks(c) \o AccountChecks(c))
VerdictUnbounded(c) == Verdict(KeyChecks(c) \o IDChecks(c) \o SubSeq(AccountChecks(c), 1, 5))

TransferVerdict(c) ==
  Verdict(<<Check(SamePostingIDs(c), "duplicate_id")>>
          \o KeyChecks(c) \o IDChecks(c) \o AccountChecks(c))

WriteTransfer(c) ==
  LET r == req[c]
  IN /\ balance' = [balance EXCEPT ![r.from] = @ - r.amount, ![r.to] = @ + r.amount]
     /\ Post(c, TransferPair(c))
     /\ audits' = audits \cup {IDs[c].audit}
     /\ audit' = Append(audit, c)
     /\ IF Flagged(r)
        THEN risk' = Append(risk, c) /\ risks' = risks \cup {IDs[c].risk}
        ELSE UNCHANGED <<risk, risks>>
     /\ idempotency' = [idempotency EXCEPT ![r.scope] = c]
     /\ UNCHANGED accounts

ApplyTransfer(c) ==
  /\ mu = c
  /\ IsTransfer(c)
  /\ \/ /\ TransferVerdict(c) = "ok"
        /\ WriteTransfer(c)
        /\ Return(c, "ok", c)
     \/ /\ TransferVerdict(c) = "replay"
        /\ Return(c, "ok", idempotency[req[c].scope])
        /\ UNCHANGED store
     \/ /\ TransferVerdict(c) \notin {"ok", "replay"}
        /\ Return(c, TransferVerdict(c), NoCall)
        /\ UNCHANGED store

(* All calls have returned, or wait for somebody to make one.              *)
Quiescent == (\A c \in Calls : ~Entered(c)) /\ UNCHANGED vars

Next ==
  \/ \E c \in Calls :
       \/ \E r \in Requests : Invoke(c, r)
       \/ ContextDone(c) \/ Lock(c) \/ CreateAccount(c) \/ ApplyTransfer(c)
  \/ Quiescent

Spec == Init /\ [][Next]_vars

-------------------------------------------------------------------------------
(***************************************************************************)
(* The reads.  They hold the mutex for reading, so that each sees the      *)
(* store between two calls.                                                *)
(***************************************************************************)
normaliseLimit(limit) ==
  IF limit <= 0 THEN DefaultLimit ELSE IF limit > MaxLimit THEN MaxLimit ELSE limit

(* Fault: the window starts one entry early.                               *)
RecentAndOneMore(s, limit) ==
  LET start == Len(s) - normaliseLimit(limit)
  IN SubSeq(s, IF start < 1 THEN 1 ELSE start, Len(s))

Recent(s, limit) ==
  LET start == Len(s) - normaliseLimit(limit)
  IN SubSeq(s, IF start < 0 THEN 1 ELSE start + 1, Len(s))

ListJournal(limit) == Recent(journal, limit)
ListAudit(limit) == Recent(audit, limit)
ListRiskEvents(limit) ==
  SortSeq(Recent(risk, limit), LAMBDA c, d : createdAt[c] < createdAt[d])

-------------------------------------------------------------------------------
(***************************************************************************)
(* Properties.                                                             *)
(***************************************************************************)

(***************************************************************************)
(* The store as the repository contract sees it.                           *)
(***************************************************************************)
Posted(c) ==
  /\ reply[c].status = "ok"
  /\ IF IsCreate(c) THEN req[c].amount > 0 ELSE reply[c].transfer = c

PostingsOf(c) ==
  {[id |-> <<c, i>>, transaction |-> c, account |-> p.account, amount |-> p.amount] :
     <<i, p>> \in {x \in {1, 2} \X Range(journal) : x[2].id = IDs[c].postings[x[1]]}}

Contract == INSTANCE Ledger WITH
  journal <- {Transfer(c, req[c]) : c \in {idempotency[s] : s \in Scopes} \ {NoCall}},
  openings <- {c \in Calls : Posted(c) /\ IsCreate(c)},
  postings <- UNION {PostingsOf(c) : c \in {d \in Calls : Posted(d)}},
  audits <- Range(audit),
  risks <- Range(risk),
  reply <- [c \in Calls |-> IF reply[c].status = "duplicate_id" THEN Reply("error", NoCall) ELSE reply[c]],
  missing <- [c \in Calls |-> IF mu = c THEN AllAccounts \ accounts ELSE {}]

(* Every variable has its type; no balance leaves the int64 range.         *)
TypeOK ==
  /\ mu \in Calls \cup {NoCall}
  /\ accounts \subseteq AllAccounts
  /\ balance \in [AllAccounts -> Int64]
  /\ idempotency \in [Scopes -> Calls \cup {NoCall}]
  /\ risk \in Seq(Calls)
  /\ sequence \in Nat
  /\ req \in [Calls -> CreateRequests \cup TransferRequests \cup {NoRequest}]
  /\ createdAt \in [Calls -> 0 .. Cardinality(Calls)]
  /\ reply \in [Calls -> [status : Contract!Statuses \cup {"duplicate_id"}, transfer : Calls \cup {NoCall}]]

(* The materialised balances and the journal, which the store keeps apart, *)
(* never drift: every balance is the sum of the account's postings, the    *)
(* journal numbers its postings 1, 2, 3 ... without a gap, and postings    *)
(* 2k-1 and 2k are the balanced pair of one transaction.                   *)
JournalExplainsBalances ==
  /\ \A a \in AllAccounts :
       balance[a] = FoldLeft(LAMBDA sum, p : IF p.account = a THEN sum + p.amount ELSE sum,
                             0, journal)
  /\ sequence = Len(journal)
  /\ \A i \in DOMAIN journal :
       /\ journal[i].sequence = i
       /\ i % 2 = 1 => /\ journal[i].transaction = journal[i + 1].transaction
                       /\ journal[i].amount = -journal[i + 1].amount

(* Even if the identifiers drawn for two calls collide, nothing is stored  *)
(* twice under one identifier, and everything stored can be found by its   *)
(* identifier: the id sets and the slices hold the same.                   *)
IdentifiersUnique ==
  /\ Cardinality({journal[i].id : i \in DOMAIN journal}) = Len(journal)
  /\ Cardinality({journal[i].transaction : i \in DOMAIN journal}) * 2 = Len(journal)
  /\ IsInjective([i \in DOMAIN audit |-> IDs[audit[i]].audit])
  /\ IsInjective([i \in DOMAIN risk |-> IDs[risk[i]].risk])
  /\ postings = {journal[i].id : i \in DOMAIN journal}
  /\ transactions = {journal[i].transaction : i \in DOMAIN journal}
  /\ audits = {IDs[audit[i]].audit : i \in DOMAIN audit}
  /\ risks = {IDs[risk[i]].risk : i \in DOMAIN risk}

(* The list reads return the requested recent window (docs/data-model.md:  *)
(* 78): as many entries as they may, and none that was stored before one   *)
(* they leave out.  The journal comes in ascending sequence order, risk    *)
(* events in the order of their dates, which need not be the order they    *)
(* were stored in.                                                         *)
RecentWindows ==
  \A limit \in -1 .. MaxLimit + 1 :
    LET size(s) == IF Len(s) < normaliseLimit(limit) THEN Len(s) ELSE normaliseLimit(limit)
        postingsListed == ListJournal(limit)
        risksListed == ListRiskEvents(limit)
    IN /\ Len(postingsListed) = size(journal)
       /\ \A i \in DOMAIN postingsListed :
            postingsListed[i].sequence = sequence - Len(postingsListed) + i
       /\ Len(risksListed) = size(risk)
       /\ \A i, j \in DOMAIN risksListed :
            i < j => createdAt[risksListed[i]] < createdAt[risksListed[j]]
       /\ \A i, j \in DOMAIN risk :
            i < j /\ risk[i] \in Range(risksListed) => risk[j] \in Range(risksListed)

(* The repository contract: every call takes effect at one instant or not  *)
(* at all, and every answer is right, except that a call whose identifiers *)
(* are in use is refused, which the contract counts as a failure.  A call  *)
(* looks at the accounts when it takes the mutex.                          *)
ImplementsLedger == Contract!Spec

===============================================================================
