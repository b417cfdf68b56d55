-------------------------------- MODULE Domain --------------------------------
(***************************************************************************)
(* The data of the ledger: accounts, transfer intents, journal rows and    *)
(* postings, as internal/domain/model.go and internal/store/store.go       *)
(* declare them.                                                           *)
(*                                                                         *)
(* A call of the repository is identified by a member of Calls.  The       *)
(* service draws fresh random identifiers for everything a call stores     *)
(* (randomID), so the call itself names its journal row, its audit record  *)
(* and its risk event, and <<c, 1>>, <<c, 2>> name its two postings.       *)
(***************************************************************************)
EXTENDS Integers
LOCAL INSTANCE FiniteSetsExt

CONSTANTS
  Calls,          \* calls of CreateAccount and ApplyTransfer; a client retry is another call
  NoCall,         \* not a call
  Accounts,       \* customer account ids: numbers, because lockAccounts sorts them
  Currencies,     \* ISO codes
  Currency,       \* currency of each customer account; never changes once the row exists
  SystemAccount,  \* systemAccountID: the equity account of each currency
  Scopes,         \* (actor, idempotency key) pairs
  Descriptions,   \* free text of a transfer
  RiskThreshold,  \* amounts from here on carry a risk event
  MaxInt64,       \* stands for 2^63 - 1
  Requests,       \* the requests clients may send
  Past,           \* accounts opened before the process started: a request for some calls
  NoRequest       \* the input of a call that was not made yet

MinInt64 == -MaxInt64 - 1
Int64 == MinInt64 .. MaxInt64

SystemAccounts == {SystemAccount[cur] : cur \in Currencies}
AllAccounts == Accounts \cup SystemAccounts

(***************************************************************************)
(* CreateAccountInput and ApplyTransferInput.                              *)
(***************************************************************************)
CreateRequests ==
  [kind : {"create"}, account : Accounts, amount : Int64]

TransferRequests ==
  [kind : {"transfer"}, scope : Scopes, from : Accounts, to : Accounts,
   amount : Int64, description : Descriptions]

(***************************************************************************)
(* The ledger a process finds when it starts: the accounts of Past, each   *)
(* with its opening balance, and the system accounts those drew on.        *)
(***************************************************************************)
PastCalls == DOMAIN Past
Funded == {c \in PastCalls : Past[c].amount > 0}
FundedIn(cur) == {c \in Funded : Currency[Past[c].account] = cur}

InitialAccounts ==
  {Past[c].account : c \in PastCalls} \cup
  {SystemAccount[cur] : cur \in {x \in Currencies : FundedIn(x) # {}}}

InitialBalance ==
  [a \in AllAccounts |->
     IF a \in Accounts
     THEN MapThenSumSet(LAMBDA c : Past[c].amount,
                        {c \in Funded : Past[c].account = a})
     ELSE -MapThenSumSet(LAMBDA c : Past[c].amount,
                         UNION {FundedIn(cur) : cur \in {x \in Currencies : SystemAccount[x] = a}})]

(***************************************************************************)
(* What the constants have to satisfy.  Ids of customer and of system      *)
(* accounts never coincide, because CreateAccount refuses ids that start   *)
(* with "system:".                                                         *)
(***************************************************************************)
ASSUME DomainAssumption ==
  /\ NoCall \notin Calls
  /\ Accounts \subseteq Nat
  /\ Currency \in [Accounts -> Currencies]
  /\ SystemAccount \in [Currencies -> Nat]
  /\ Accounts \cap SystemAccounts = {}
  /\ RiskThreshold \in Nat
  /\ MaxInt64 \in Nat \ {0}
  /\ Requests \subseteq CreateRequests \cup TransferRequests
  /\ NoRequest \notin CreateRequests \cup TransferRequests
  /\ PastCalls \subseteq Calls
  /\ Past \in [PastCalls -> CreateRequests]
  /\ \A c, d \in PastCalls : Past[c].account = Past[d].account => c = d
  /\ InitialBalance \in [AllAccounts -> Int64]
  /\ \A a \in Accounts : InitialBalance[a] >= 0

(***************************************************************************)
(* validateCreateAccount and validateTransfer: what is refused before any  *)
(* transaction begins.  Empty or overlong texts never get past the service *)
(* and are not represented.                                                *)
(***************************************************************************)
ValidRequest(r) ==
  CASE r.kind = "create"   -> r.amount >= 0
    [] r.kind = "transfer" -> r.amount > 0

(* The service attaches a risk event to a transfer from the threshold on.  *)
Flagged(r) == r.amount >= RiskThreshold

(***************************************************************************)
(* A stored transfer: its row in journal_transactions joined with its row  *)
(* in transfer_intents.                                                    *)
(***************************************************************************)
Transfer(c, r) ==
  [id |-> c, scope |-> r.scope, from |-> r.from, to |-> r.to,
   amount |-> r.amount, description |-> r.description]

Transfers ==
  [id : Calls, scope : Scopes, from : Accounts, to : Accounts,
   amount : Int64, description : Descriptions]

(* TransferIntent.Equal, between a stored transfer and a request.          *)
SameIntent(t, r) ==
  /\ t.from = r.from
  /\ t.to = r.to
  /\ t.amount = r.amount
  /\ t.description = r.description

(***************************************************************************)
(* The two postings of a transfer and of an opening balance.               *)
(***************************************************************************)
Posting(c, i, account, amount) ==
  [id |-> <<c, i>>, transaction |-> c, account |-> account, amount |-> amount]

TransferPostings(c, r) ==
  {Posting(c, 1, r.from, -r.amount), Posting(c, 2, r.to, r.amount)}

OpeningPostings(c, r) ==
  IF r.amount > 0
  THEN {Posting(c, 1, r.account, r.amount),
        Posting(c, 2, SystemAccount[Currency[r.account]], -r.amount)}
  ELSE {}

InitialPostings == UNION {OpeningPostings(c, Past[c]) : c \in PastCalls}

Postings ==
  [id : Calls \X {1, 2}, transaction : Calls, account : AllAccounts, amount : Int]

===============================================================================
