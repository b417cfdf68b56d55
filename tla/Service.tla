------------------------------- MODULE Service ---------------------------------
(***************************************************************************)
(* A request on its way through internal/httpapi/server.go and             *)
(* internal/app/service.go, over any repository that keeps the contract of *)
(* Ledger, PostgreSQL's deviation (Misreport) included.  Handlers run      *)
(* concurrently; between two of its steps a handler holds nothing, so what *)
(* it has read may be out of date.                                         *)
(*                                                                         *)
(* A request is [actor, role, body, key, input]: the principal's headers,  *)
(* what decodeJSON makes of the body ("ok" or the error), the header       *)
(* Idempotency-Key and the decoded command.  Texts are trimmed and within  *)
(* their lengths.  A member of Calls is one HTTP exchange.                 *)
(***************************************************************************)
EXTENDS Domain, Checks

CONSTANTS
  HTTPRequests,  \* the requests clients may send
  NoHTTP,        \* no request yet
  Owner,         \* owner_id of each account
  Limits,        \* values of SECURELEDGER_MAX_TRANSFER_MINOR
  PageLimit      \* queryLimit: 1000

ASSUME ServiceAssumption ==
  /\ NoHTTP \notin HTTPRequests
  /\ \A h \in HTTPRequests : h.input.kind \in {"create", "transfer", "get", "list"}
  /\ \A a \in SystemAccounts : Owner[a] = "system"
  /\ Limits \subseteq Nat \ {0}

VARIABLES
  \* the repository
  accounts, balance, journal, openings, postings, audits, risks, req, reply, missing,
  \* the handlers
  http,      \* each request
  stage,     \* where its handler is
  response,  \* the status its client received
  before,    \* history: the transfers stored when it arrived
  limit      \* Config.MaxTransferMinor of the running process

ledger == <<accounts, balance, journal, openings, postings, audits, risks, req, reply, missing>>
handlers == <<http, stage, response, before>>

Repo == INSTANCE Ledger

Roles == {"customer", "operator", "admin", "auditor"}
Inspectors == {"operator", "admin", "auditor"}   \* canInspect

NoAnswer == 0      \* not answered yet
Undelivered == 1   \* answered, but the connection was gone
Killed == 2        \* the process ended first

(* writeDomainError.                                                       *)
HTTPStatus ==
  [invalid_input |-> 400, forbidden |-> 403, not_found |-> 404, insufficient_funds |-> 409,
   currency_mismatch |-> 409, idempotency_conflict |-> 409, transfer_limit |-> 422,
   request_too_large |-> 413, unsupported_media |-> 415, error |-> 500]

InFlight == {q \in Calls : stage[q] \notin {"idle", "answered"}}

Init ==
  /\ Repo!Init
  /\ http = [q \in Calls |-> NoHTTP]
  /\ stage = [q \in Calls |-> IF q \in PastCalls THEN "answered" ELSE "idle"]
  /\ response = [q \in Calls |-> IF q \in PastCalls THEN 201 ELSE NoAnswer]
  /\ before = [q \in Calls |-> {}]
  /\ limit \in Limits

-------------------------------------------------------------------------------
(* writeJSON: the client receives the status, unless it is gone.           *)
Write(q, code) ==
  /\ \E c \in {code, Undelivered} : response' = [response EXCEPT ![q] = c]
  /\ stage' = [stage EXCEPT ![q] = "answered"]

Advance(q, next) ==
  /\ stage' = [stage EXCEPT ![q] = next]
  /\ UNCHANGED response

(* A handler goes on if the verdict is "ok", and answers it otherwise.     *)
GoOn(q, verdict, next) ==
  \/ verdict = "ok" /\ Advance(q, next)
  \/ verdict # "ok" /\ Write(q, HTTPStatus[verdict])

(***************************************************************************)
(* What is checked before the repository is asked anything, in this order. *)
(***************************************************************************)
principalFromRequest(h) == <<Check(h.role \notin Roles, "forbidden")>>

decodeJSON(h) == <<Check(h.body # "ok", h.body)>>

queryLimit(h) == <<Check(h.input.limit \notin 1 .. PageLimit, "invalid_input")>>

CreateAccountChecks(h) ==
  << Check(h.role \notin {"operator", "admin"}, "forbidden"),
     Check(~ValidRequest(h.input), "invalid_input") >>

TransferChecks(h) ==
  << Check(h.role = "auditor", "forbidden"),
     Check(~ValidRequest(h.input), "invalid_input"),
     Check(h.input.amount > limit, "transfer_limit") >>

ListChecks(h) == <<Check(h.role \notin Inspectors, "forbidden")>>

Screening(h) ==
  principalFromRequest(h) \o
  CASE h.input.kind = "create"   -> decodeJSON(h) \o CreateAccountChecks(h)
    [] h.input.kind = "transfer" -> decodeJSON(h) \o TransferChecks(h)
    [] h.input.kind = "list"     -> queryLimit(h) \o ListChecks(h)
    [] h.input.kind = "get"      -> <<>>

(* The first thing a handler asks the repository.                          *)
FirstStage == [create |-> "apply", transfer |-> "from", get |-> "account", list |-> "list"]

Receive(q, h) ==
  /\ stage[q] = "idle"
  /\ h.input.kind = "create" =>
       /\ h.input.account \notin accounts
       /\ \A p \in Calls : http[p] # NoHTTP => http[p].input # h.input
  /\ http' = [http EXCEPT ![q] = h]
  /\ before' = [before EXCEPT ![q] = journal]
  /\ GoOn(q, Verdict(Screening(h)), FirstStage[h.input.kind])
  /\ UNCHANGED <<ledger, limit>>

-------------------------------------------------------------------------------
(* GetAccount of the repository shows customer accounts only.              *)
Found(a) == a \in accounts \ SystemAccounts

Foreign(q, a) == http[q].role = "customer" /\ Owner[a] # http[q].actor

(* A read fails, or its verdict decides.                                   *)
AfterRead(q, verdict, next) ==
  /\ GoOn(q, verdict, next) \/ Write(q, HTTPStatus["error"])
  /\ UNCHANGED <<ledger, http, before, limit>>

(* Faults: the owner is not compared; the funds are looked at too early.   *)
ReadAnySource(q) ==
  /\ stage[q] = "from"
  /\ AfterRead(q, Verdict(<<Check(~Found(http[q].input.from), "not_found")>>), "to")

ReadSourceFunds(q) ==
  LET r == http[q].input
  IN /\ stage[q] = "from"
     /\ AfterRead(q, Verdict(<<Check(~Found(r.from), "not_found"),
                               Check(Foreign(q, r.from), "forbidden"),
                               Check(balance[r.from] < r.amount, "insufficient_funds")>>), "to")

(* Service.Transfer reads the paying account ...                           *)
ReadSource(q) ==
  LET a == http[q].input.from
  IN /\ stage[q] = "from"
     /\ AfterRead(q, Verdict(<<Check(~Found(a), "not_found"),
                               Check(Foreign(q, a), "forbidden")>>), "to")

(* ... and the receiving one.                                              *)
ReadDestination(q) ==
  LET r == http[q].input
  IN /\ stage[q] = "to"
     /\ AfterRead(q, Verdict(<<Check(~Found(r.to), "not_found"),
                               Check(Found(r.to) /\ Currency[r.from] # Currency[r.to],
                                     "currency_mismatch")>>), "apply")

(* Service.GetAccount.                                                     *)
ReadAccount(q) ==
  LET a == http[q].input.account
      verdict == Verdict(<<Check(~Found(a), "not_found"), Check(Foreign(q, a), "forbidden")>>)
  IN /\ stage[q] = "account"
     /\ \E code \in {500, IF verdict = "ok" THEN 200 ELSE HTTPStatus[verdict]} : Write(q, code)
     /\ UNCHANGED <<ledger, http, before, limit>>

(* ListJournal, ListAudit and ListRiskEvents.                              *)
ReadList(q) ==
  /\ stage[q] = "list"
  /\ \E code \in {200, 500} : Write(q, code)
  /\ UNCHANGED <<ledger, http, before, limit>>

(* Fault: keys of different actors share one scope.                        *)
SharedScope(h) ==
  IF h.input.kind = "create" THEN h.input
  ELSE [kind |-> "transfer", scope |-> <<"alice", h.key>>, from |-> h.input.from,
        to |-> h.input.to, amount |-> h.input.amount, description |-> h.input.description]

(* The repository's input: keys belong to the actor who sends them.        *)
Input(h) ==
  IF h.input.kind = "create" THEN h.input
  ELSE [kind |-> "transfer", scope |-> <<h.actor, h.key>>, from |-> h.input.from,
        to |-> h.input.to, amount |-> h.input.amount, description |-> h.input.description]

(* repo.CreateAccount or repo.ApplyTransfer is called.                     *)
Apply(q) ==
  /\ stage[q] = "apply"
  /\ Repo!Invoke(q, Input(http[q]))
  /\ Advance(q, "waiting")
  /\ UNCHANGED <<http, before, limit>>

(* randomID panics without a source of randomness; the middleware recovers *)
(* and answers for the handler.                                            *)
Panic(q) ==
  /\ stage[q] = "apply"
  /\ Write(q, HTTPStatus["error"])
  /\ UNCHANGED <<ledger, http, before, limit>>

(* The repository at work on the call.                                     *)
RepoStep(q) ==
  /\ \/ Repo!Look(q) \/ Repo!OpenAccount(q) \/ Repo!Move(q)
     \/ Repo!Replay(q) \/ Repo!Refuse(q) \/ Repo!Fail(q) \/ Repo!Misreport(q)
  /\ UNCHANGED <<handlers, limit>>

Replayed(q) == req[q].kind = "transfer" /\ reply[q].transfer # q

(* Fault: a replay is announced as a new transfer.                         *)
CodeWithoutReplay(q) == IF reply[q].status = "ok" THEN 201 ELSE HTTPStatus[reply[q].status]

Code(q) ==
  IF reply[q].status # "ok" THEN HTTPStatus[reply[q].status]
  ELSE IF Replayed(q) THEN 200 ELSE 201

(* The repository has returned.                                            *)
Complete(q) ==
  /\ stage[q] = "waiting"
  /\ reply[q] # Repo!NoReply
  /\ Write(q, Code(q))
  /\ UNCHANGED <<ledger, http, before, limit>>

HandlerStep(q) ==
  \/ ReadSource(q) \/ ReadDestination(q) \/ ReadAccount(q) \/ ReadList(q)
  \/ Apply(q) \/ Panic(q)

Quiescent == InFlight = {} /\ UNCHANGED <<ledger, handlers, limit>>

Next ==
  \/ \E q \in Calls :
       \/ \E h \in HTTPRequests : Receive(q, h)
       \/ HandlerStep(q) \/ RepoStep(q) \/ Complete(q)
  \/ Quiescent

Spec == Init /\ [][Next]_<<ledger, handlers, limit>>

-------------------------------------------------------------------------------
(***************************************************************************)
(* Properties.                                                             *)
(***************************************************************************)

(* Whatever status a client receives for a transfer is true: 201 means its *)
(* own request moved the money, 200 that an earlier one of the same actor  *)
(* with the same key and body did, and a 4xx that this one never will      *)
(* (docs/operations.md).                                                   *)
AnswersAreTrue ==
  \A q \in Calls \ PastCalls :
    LET own == {t \in journal : t.id = q}
    IN http[q] # NoHTTP /\ http[q].input.kind = "transfer" =>
         /\ response[q] = 201 => own # {}
         /\ response[q] = 200 =>
              /\ own = {}
              /\ \E t \in journal : /\ http[t.id].actor = http[q].actor
                                    /\ http[t.id].key = http[q].key
                                    /\ SameIntent(t, http[q].input)
         /\ response[q] \in 400 .. 499 => own = {}

(* Ownership, role and limit are decided on reads made before the          *)
(* transaction; still nothing is stored that they forbid, whatever         *)
(* accounts are opened in between, and nothing is shown to the wrong       *)
(* reader.                                                                 *)
Authorised ==
  /\ \A t \in journal :
       LET h == http[t.id]
       IN /\ h.role \in Roles \ {"auditor"}
          /\ h.role = "customer" => Owner[t.from] = h.actor
          /\ t.amount <= limit
  /\ \A q \in Calls \ PastCalls :
       response[q] \in {200, 201} =>
         LET h == http[q]
         IN CASE h.input.kind = "create" -> h.role \in {"operator", "admin"}
              [] h.input.kind = "list" -> h.role \in Inspectors
              [] h.input.kind = "get" ->
                   h.role = "customer" => Owner[h.input.account] = h.actor
              [] OTHER -> TRUE

(* A request that repeats one already carried out is answered 200 and the  *)
(* original, however the balances changed since: no check that comes       *)
(* before the look-up of the key can refuse it (README.md:136).  It may    *)
(* fail with 500 or get no answer, and can then be repeated again.         *)
RetryIsNeverRefused ==
  \A q \in Calls \ PastCalls :
    response[q] \in 400 .. 499 /\ http[q].body = "ok" /\ http[q].input.kind = "transfer" =>
      ~\E t \in before[q] :
         /\ t.scope = <<http[q].actor, http[q].key>>
         /\ http[t.id].role = http[q].role
         /\ SameIntent(t, http[q].input)

===============================================================================
