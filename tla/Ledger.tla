-------------------------------- MODULE Ledger --------------------------------
(***************************************************************************)
(* What store.Repository promises its callers, without saying how: every   *)
(* call of CreateAccount and ApplyTransfer takes effect at one instant     *)
(* between its invocation and its reply, or not at all.  A reply "error"   *)
(* stands for every failure that tells the caller nothing about the        *)
(* outcome (cancelled context, lost connection, retries used up): the      *)
(* effect may or may not have happened.                                    *)
(***************************************************************************)
EXTENDS Domain

VARIABLES
  accounts,  \* ids of the stored accounts, system accounts included
  balance,   \* balance_minor of each of them
  journal,   \* stored transfers
  openings,  \* stored opening transactions
  postings,  \* stored postings
  audits,    \* stored audit records, by call
  risks,     \* stored risk events, by call
  req,       \* the input of each call
  reply,     \* what each call returned
  missing    \* the accounts a call did not find when it last looked

tables == <<accounts, balance, journal, openings, postings, audits, risks>>
vars == <<tables, req, reply, missing>>

Statuses ==
  {"none", "ok", "error", "invalid_input", "not_found", "currency_mismatch",
   "insufficient_funds", "idempotency_conflict"}

Reply(status, t) == [status |-> status, transfer |-> t]
NoReply == Reply("none", NoCall)

Pending(c, kind) ==
  /\ req[c] # NoRequest
  /\ req[c].kind = kind
  /\ reply[c] = NoReply

Answer(c, status, t) ==
  /\ reply' = [reply EXCEPT ![c] = Reply(status, t)]
  /\ missing' = [missing EXCEPT ![c] = {}]
  /\ UNCHANGED req

Taken(c) == {t \in journal : t.scope = req[c].scope}

-------------------------------------------------------------------------------
Init ==
  /\ accounts = InitialAccounts
  /\ balance = InitialBalance
  /\ journal = {}
  /\ openings = Funded
  /\ postings = InitialPostings
  /\ audits = PastCalls
  /\ risks = {}
  /\ req = [c \in Calls |-> IF c \in PastCalls THEN Past[c] ELSE NoRequest]
  /\ reply = [c \in Calls |-> IF c \in PastCalls THEN Reply("ok", NoCall) ELSE NoReply]
  /\ missing = [c \in Calls |-> {}]

Invoke(c, r) ==
  /\ req[c] = NoRequest
  /\ req' = [req EXCEPT ![c] = r]
  /\ UNCHANGED <<tables, reply, missing>>

(* A call looks at which accounts exist, or gives up what it found to look *)
(* again.                                                                  *)
Look(c) ==
  /\ req[c] # NoRequest
  /\ reply[c] = NoReply
  /\ \E m \in {AllAccounts \ accounts, {}} : missing' = [missing EXCEPT ![c] = m]
  /\ UNCHANGED <<tables, req, reply>>

(***************************************************************************)
(* The account appears with its opening balance, drawn from the system     *)
(* account of its currency, and its audit record, all at once.             *)
(***************************************************************************)
OpenAccount(c) ==
  LET r == req[c]
      s == SystemAccount[Currency[r.account]]
  IN /\ Pending(c, "create")
     /\ ValidRequest(r)
     /\ r.account \notin accounts
     /\ balance[s] - r.amount >= MinInt64
     /\ accounts' = accounts \cup {r.account} \cup (IF r.amount > 0 THEN {s} ELSE {})
     /\ balance' = [balance EXCEPT ![r.account] = r.amount, ![s] = @ - r.amount]
     /\ openings' = IF r.amount > 0 THEN openings \cup {c} ELSE openings
     /\ postings' = postings \cup OpeningPostings(c, r)
     /\ audits' = audits \cup {c}
     /\ \E status \in {"ok", "error"} : Answer(c, status, NoCall)
     /\ UNCHANGED <<journal, risks>>

(***************************************************************************)
(* A transfer moves its amount once per (actor, key), together with its    *)
(* journal row, postings, audit record and risk event.                     *)
(***************************************************************************)
Move(c) ==
  LET r == req[c]
  IN /\ Pending(c, "transfer")
     /\ ValidRequest(r)
     /\ Taken(c) = {}
     /\ r.from # r.to
     /\ {r.from, r.to} \subseteq accounts
     /\ Currency[r.from] = Currency[r.to]
     /\ balance[r.from] >= r.amount
     /\ balance[r.to] + r.amount <= MaxInt64
     /\ balance' = [balance EXCEPT ![r.from] = @ - r.amount, ![r.to] = @ + r.amount]
     /\ journal' = journal \cup {Transfer(c, r)}
     /\ postings' = postings \cup TransferPostings(c, r)
     /\ audits' = audits \cup {c}
     /\ risks' = IF Flagged(r) THEN risks \cup {c} ELSE risks
     /\ \/ Answer(c, "ok", c)
        \/ Answer(c, "error", NoCall)
     /\ UNCHANGED <<accounts, openings>>

(* An identical request under a used key gets the stored transfer.         *)
Replay(c) ==
  /\ Pending(c, "transfer")
  /\ \E t \in Taken(c) : SameIntent(t, req[c]) /\ Answer(c, "ok", t.id)
  /\ UNCHANGED tables

(* The grounds on which a call may be refused.  Nothing is stored.  The    *)
(* balances are no ground against a request that already was carried out.  *)
Grounds(c, status) ==
  LET r == req[c]
      s == SystemAccount[Currency[r.account]]
      Done == \E t \in Taken(c) : SameIntent(t, r)
      Conflict == \E t \in Taken(c) : ~SameIntent(t, r)
  IN CASE Pending(c, "create") ->
            /\ status = "invalid_input"
            /\ ~ValidRequest(r) \/ balance[s] - r.amount < MinInt64
       [] Pending(c, "transfer") ->
            \/ /\ status = "invalid_input"
               /\ \/ ~ValidRequest(r)
                  \/ r.from = r.to
                  \/ balance[r.to] + r.amount > MaxInt64 /\ ~Done
            \/ status = "idempotency_conflict" /\ Conflict
            \/ status = "not_found" /\ {r.from, r.to} \cap missing[c] # {}
            \/ status = "currency_mismatch" /\ Currency[r.from] # Currency[r.to]
            \/ status = "insufficient_funds" /\ balance[r.from] < r.amount /\ ~Done
       [] OTHER -> FALSE

Refuse(c) ==
  /\ \E status \in Statuses : Grounds(c, status) /\ Answer(c, status, NoCall)
  /\ UNCHANGED tables

(* A call fails without effect and without telling its caller so.          *)
Fail(c) ==
  /\ req[c] # NoRequest
  /\ reply[c] = NoReply
  /\ Answer(c, "error", NoCall)
  /\ UNCHANGED tables

Next ==
  \E c \in Calls :
    \/ \E r \in Requests : Invoke(c, r)
    \/ Look(c) \/ OpenAccount(c) \/ Move(c)
    \/ Replay(c) \/ Refuse(c) \/ Fail(c)

Spec == Init /\ [][Next]_vars

-------------------------------------------------------------------------------
(***************************************************************************)
(* What PostgreSQL's repository does beyond the contract: a transfer whose *)
(* last attempt loses its key to another intent is told invalid_input, not *)
(* idempotency_conflict.  Nothing is stored.  The modules that build on    *)
(* the repository allow it.                                                *)
(***************************************************************************)
Misreport(c) ==
  /\ Pending(c, "transfer")
  /\ \E t \in Taken(c) : ~SameIntent(t, req[c])
  /\ Answer(c, "invalid_input", NoCall)
  /\ UNCHANGED tables

WeakNext == Next \/ \E c \in Calls : Misreport(c)

WeakSpec == Init /\ [][WeakNext]_vars

===============================================================================
