----------------------------- MODULE LedgerOutbox ------------------------------
(***************************************************************************)
(* The ledger and the risk outbox together: the transaction that stores a  *)
(* flagged transfer also inserts its row into risk_events (applyTransferTx *)
(* of internal/store/postgres/store.go), and the workers of RiskOutbox     *)
(* publish what they find there.  A risk event is named by the call whose  *)
(* transfer raised it.                                                     *)
(***************************************************************************)
EXTENDS Domain, FiniteSets

CONSTANTS Workers, MaxAttempts, Lease, MaxShift, BatchSize, MaxLatency

VARIABLES
  accounts, balance, journal, openings, postings, audits, risks, req, reply, missing,
  status, attempts, due, age, delivered, phase, late, claimed, current, overran

ledger == <<accounts, balance, journal, openings, postings, audits, risks, req, reply, missing>>
outbox == <<status, attempts, due, age, delivered, phase, late, claimed, current, overran>>
vars == <<ledger, outbox>>

Repo == INSTANCE Ledger
Outbox == INSTANCE RiskOutbox WITH Events <- Calls, NoEvent <- NoCall

Init == Repo!Init /\ Outbox!Init

(* Faults: the row is written before the transfer's transaction, or after  *)
(* it by a statement of its own that may never come.                       *)
RowsOfRequest(c) ==
  IF status[c] = "none" /\ req'[c] # NoRequest /\ req'[c].kind = "transfer" /\ Flagged(req'[c])
  THEN Outbox!Insert(c) /\ Outbox!Observe
  ELSE UNCHANGED outbox

RowsAfterwards(c) ==
  IF status[c] = "none" /\ c \in risks
  THEN Outbox!Insert(c) /\ Outbox!Observe
  ELSE UNCHANGED outbox

(* The row is inserted by the transaction that stores the transfer.        *)
Rows(c) ==
  IF c \in risks' \ risks
  THEN Outbox!Insert(c) /\ Outbox!Observe
  ELSE UNCHANGED outbox

Serve(c) ==
  /\ \/ \E r \in Requests : Repo!Invoke(c, r)
     \/ Repo!Look(c) \/ Repo!OpenAccount(c) \/ Repo!Move(c)
     \/ Repo!Replay(c) \/ Repo!Refuse(c) \/ Repo!Fail(c) \/ Repo!Misreport(c)
  /\ Rows(c)

(* The workers, and time: every step of the outbox but the insertion.      *)
Deliver ==
  /\ Outbox!Next
  /\ \A c \in Calls : status[c] = "none" => status'[c] = "none"
  /\ UNCHANGED ledger

Next == (\E c \in Calls : Serve(c)) \/ Deliver

Spec == Init /\ [][Next]_vars

FairSpec == Spec /\ Outbox!Fairness

-------------------------------------------------------------------------------
(***************************************************************************)
(* Properties.                                                             *)
(***************************************************************************)

(* Nobody hears of a transfer that is not committed: whatever a worker     *)
(* published belongs to a stored, flagged transfer with its audit record   *)
(* (docs/adr/0005).                                                        *)
DeliveredWasCommitted ==
  \A c \in Calls :
    delivered[c] > 0 =>
      /\ c \in audits
      /\ \E t \in journal : t.id = c /\ Flagged(t)

(* No event is lost between the ledger and the outbox: a flagged transfer  *)
(* that is stored, even one whose caller was told nothing, is published or *)
(* uses up its attempts.                                                   *)
EveryRiskSettles ==
  \A c \in Calls \ PastCalls :
    (\E t \in journal : t.id = c /\ Flagged(t)) ~>
      (status[c] = "published" \/ attempts[c] = MaxAttempts)

-------------------------------------------------------------------------------
(* The inductive invariant behind DeliveredWasCommitted: a row exists only *)
(* for a stored risk event, and what is delivered or in a worker's hands   *)
(* has a row.                                                              *)
CompositionInv ==
  /\ status \in [Calls -> {"none", "pending", "processing", "published", "failed"}]
  /\ attempts \in [Calls -> Nat]
  /\ delivered \in [Calls -> Nat]
  /\ claimed \in [Workers -> [Calls -> Nat]]
  /\ \A c \in risks : c \in audits /\ \E t \in journal : t.id = c /\ Flagged(t)
  /\ \A c \in Calls : status[c] # "none" => c \in risks
  /\ \A c \in Calls : delivered[c] > 0 => status[c] # "none"
  /\ \A w \in Workers, c \in Calls : claimed[w][c] > 0 => status[c] # "none"

===============================================================================
