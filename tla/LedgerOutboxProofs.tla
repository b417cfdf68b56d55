--------------------------- MODULE LedgerOutboxProofs --------------------------
(***************************************************************************)
(* Nothing is published of a transfer that is not committed, for every     *)
(* number of calls, accounts, workers and attempts.                        *)
(***************************************************************************)
EXTENDS LedgerOutbox, TLAPS

Statuses == {"none", "pending", "processing", "published", "failed"}

(* The part of the invariant that is about the ledger alone.               *)
LedgerPart ==
  \A c \in risks : c \in audits /\ \E t \in journal : t.id = c /\ Flagged(t)

(* The part that is about the outbox alone.                                *)
OutboxPart ==
  /\ status \in [Calls -> Statuses]
  /\ attempts \in [Calls -> Nat]
  /\ delivered \in [Calls -> Nat]
  /\ claimed \in [Workers -> [Calls -> Nat]]
  /\ \A c \in Calls : delivered[c] > 0 => status[c] # "none"
  /\ \A w \in Workers, c \in Calls : claimed[w][c] > 0 => status[c] # "none"

(* What joins them: a row exists only for a stored risk event.             *)
RowsPart == \A c \in Calls : status[c] # "none" => c \in risks

(* The two specifications start with neither events nor rows.              *)
LEMMA InitEstablishes == Init => CompositionInv
  BY DEF Init, Repo!Init, Outbox!Init, Outbox!NoDelivery, CompositionInv

(* A step of the repository keeps every stored risk event together with    *)
(* its transfer and its audit record, and forgets none.                    *)
LEMMA LedgerKeeps ==
  ASSUME LedgerPart, NEW c \in Calls, Serve(c)
  PROVE  LedgerPart' /\ risks \subseteq risks'
<1>1. CASE \E r \in Requests : Repo!Invoke(c, r)
  BY <1>1 DEF LedgerPart, Repo!Invoke, Repo!tables
<1>2. CASE Repo!Look(c)
  BY <1>2 DEF LedgerPart, Repo!Look, Repo!tables
<1>3. CASE Repo!OpenAccount(c)
  BY <1>3 DEF LedgerPart, Repo!OpenAccount
<1>4. CASE Repo!Move(c)
  <2>1. /\ journal' = journal \cup {Transfer(c, req[c])}
        /\ audits' = audits \cup {c}
        /\ risks' = IF Flagged(req[c]) THEN risks \cup {c} ELSE risks
    BY <1>4 DEF Repo!Move, Repo!Transfer, Repo!Flagged, Transfer, Flagged
  <2>2. Transfer(c, req[c]).id = c /\ Transfer(c, req[c]).amount = req[c].amount
    BY DEF Transfer
  <2>3. Flagged(req[c]) => Flagged(Transfer(c, req[c]))
    BY <2>2 DEF Flagged
  <2>. QED  BY <2>1, <2>2, <2>3 DEF LedgerPart
<1>5. CASE Repo!Replay(c) \/ Repo!Refuse(c) \/ Repo!Fail(c) \/ Repo!Misreport(c)
  BY <1>5 DEF LedgerPart, Repo!Replay, Repo!Refuse, Repo!Fail, Repo!Misreport, Repo!tables
<1>. QED  BY <1>1, <1>2, <1>3, <1>4, <1>5 DEF Serve

(* The insertion of a row disturbs nothing the outbox relies on.           *)
LEMMA InsertKeeps ==
  ASSUME OutboxPart, NEW c \in Calls, Outbox!Insert(c)
  PROVE  /\ OutboxPart'
         /\ \A d \in Calls : status'[d] # "none" => status[d] # "none" \/ d = c
  BY DEF OutboxPart, Statuses, Outbox!Insert, Outbox!workerVars

(* A batch that ClaimRiskEvents takes has rows.                            *)
LEMMA TakeKeeps ==
  ASSUME OutboxPart, NEW w \in Workers, NEW batch \in SUBSET Calls, Outbox!Take(w, batch)
  PROVE  /\ status' \in [Calls -> Statuses]
         /\ attempts' \in [Calls -> Nat]
         /\ delivered' = delivered
         /\ \A c \in batch : status[c] # "none"
         /\ \A c \in Calls : status'[c] # "none" <=> status[c] # "none"
<1>1. \A c \in batch : status[c] # "none"
  BY DEF Outbox!Take, Outbox!MayTake, Outbox!Candidates
<1>. QED  BY <1>1 DEF OutboxPart, Statuses, Outbox!Take

(* Ending a cycle empties the worker's hands.                              *)
LEMMA EndCycleKeeps ==
  ASSUME OutboxPart, NEW w \in Workers, Outbox!EndCycle(w)
  PROVE  /\ claimed' \in [Workers -> [Calls -> Nat]]
         /\ \A v \in Workers, c \in Calls : claimed'[v][c] > 0 => claimed[v][c] > 0
  BY DEF OutboxPart, Outbox!EndCycle, Outbox!NoDelivery

(* The marking statements change rows that exist and keep them.            *)
LEMMA WriteKeeps ==
  ASSUME OutboxPart, NEW w \in Workers, Outbox!WritePublished(w) \/ Outbox!WriteFailed(w)
  PROVE  /\ status' \in [Calls -> Statuses]
         /\ attempts' = attempts
         /\ delivered' = delivered
         /\ \A c \in Calls : status'[c] # "none" <=> status[c] # "none"
  BY DEF OutboxPart, Statuses, Outbox!WritePublished, Outbox!WriteFailed

(* No step of the workers or of time delivers or holds an event without a  *)
(* row.  Only Insert makes one.                                            *)
LEMMA WorkersKeep ==
  ASSUME OutboxPart, Outbox!Next, \A c \in Calls : status[c] = "none" => status'[c] = "none"
  PROVE  OutboxPart'
<1>1. CASE \E c \in Calls : Outbox!Insert(c)
  BY <1>1, InsertKeeps
<1>2. ASSUME NEW w \in Workers, Outbox!Begin(w)
      PROVE  OutboxPart'
  BY <1>2 DEF OutboxPart, Outbox!Begin, Outbox!rows
<1>3. ASSUME NEW w \in Workers, NEW batch \in SUBSET Calls, Outbox!Claim(w, batch)
      PROVE  OutboxPart'
  <2>1. /\ status' \in [Calls -> Statuses] /\ attempts' \in [Calls -> Nat] /\ delivered' = delivered
        /\ \A c \in batch : status[c] # "none"
        /\ \A c \in Calls : status'[c] # "none" <=> status[c] # "none"
    BY <1>3, TakeKeeps DEF Outbox!Claim
  <2>2. claimed' = [claimed EXCEPT ![w] = [c \in Calls |-> IF c \in batch THEN attempts[c] + 1 ELSE 0]]
    BY <1>3 DEF Outbox!Claim
  <2>3. claimed' \in [Workers -> [Calls -> Nat]]
    BY <2>2 DEF OutboxPart
  <2>4. \A v \in Workers, c \in Calls : claimed'[v][c] > 0 => status[c] # "none"
    BY <2>1, <2>2 DEF OutboxPart
  <2>. QED  BY <2>1, <2>3, <2>4 DEF OutboxPart
<1>4. ASSUME NEW w \in Workers, NEW batch \in SUBSET Calls, Outbox!ClaimLost(w, batch)
      PROVE  OutboxPart'
  BY <1>4, TakeKeeps, EndCycleKeeps DEF Outbox!ClaimLost, OutboxPart
<1>5. ASSUME NEW w \in Workers, Outbox!ClaimNothing(w) \/ Outbox!MarkRefused(w) \/ Outbox!Stop(w)
      PROVE  OutboxPart'
  <2>1. Outbox!EndCycle(w) /\ UNCHANGED <<status, attempts, delivered>>
    BY <1>5 DEF Outbox!ClaimNothing, Outbox!MarkRefused, Outbox!Stop, Outbox!rows
  <2>. QED  BY <2>1, EndCycleKeeps DEF OutboxPart
<1>6. ASSUME NEW w \in Workers, NEW c \in Calls,
             Outbox!PublishSucceeds(w, c) \/ Outbox!PublishFails(w, c)
      PROVE  OutboxPart'
  <2>1. /\ claimed[w][c] > 0
        /\ UNCHANGED <<status, attempts, claimed>>
        /\ \E n \in {0, 1} : delivered' = [delivered EXCEPT ![c] = @ + n]
    BY <1>6 DEF Outbox!PublishSucceeds, Outbox!PublishFails, Outbox!Batch, Outbox!rows
  <2>2. PICK n \in {0, 1} : delivered' = [delivered EXCEPT ![c] = @ + n]
    BY <2>1
  <2>. QED  BY <2>1, <2>2 DEF OutboxPart
<1>7. ASSUME NEW w \in Workers, Outbox!Mark(w)
      PROVE  OutboxPart'
  <2>1. Outbox!WritePublished(w) \/ Outbox!WriteFailed(w)
    BY <1>7 DEF Outbox!Mark
  <2>2. CASE Outbox!EndCycle(w)
    BY <2>1, <2>2, WriteKeeps, EndCycleKeeps DEF OutboxPart
  <2>3. CASE claimed' = [claimed EXCEPT ![w][current[w]] = 0]
    <3>1. claimed' \in [Workers -> [Calls -> Nat]]
      BY <2>3 DEF OutboxPart
    <3>2. \A v \in Workers, c \in Calls : claimed'[v][c] > 0 => claimed[v][c] > 0
      BY <2>3 DEF OutboxPart
    <3>. QED  BY <2>1, <3>1, <3>2, WriteKeeps DEF OutboxPart
  <2>. QED  BY <1>7, <2>2, <2>3 DEF Outbox!Mark
<1>8. ASSUME NEW w \in Workers, Outbox!MarkLost(w)
      PROVE  OutboxPart'
  BY <1>8, WriteKeeps, EndCycleKeeps DEF Outbox!MarkLost, OutboxPart
<1>9. CASE Outbox!Tick
  BY <1>9 DEF OutboxPart, Outbox!Tick
<1>. QED  BY <1>1, <1>2, <1>3, <1>4, <1>5, <1>6, <1>7, <1>8, <1>9 DEF Outbox!Next

(* Every step of the composition keeps the invariant: a transaction stores *)
(* the event and its row at once, and workers make no rows.                *)
LEMMA StepKeeps == CompositionInv /\ [Next]_vars => CompositionInv'
<1>. SUFFICES ASSUME CompositionInv, [Next]_vars
              PROVE  CompositionInv'
  OBVIOUS
<1>1. LedgerPart /\ OutboxPart /\ RowsPart
  BY DEF CompositionInv, LedgerPart, OutboxPart, RowsPart, Statuses
<1>2. LedgerPart' /\ OutboxPart' /\ RowsPart'
  <2>1. ASSUME NEW c \in Calls, Serve(c)
        PROVE  LedgerPart' /\ OutboxPart' /\ RowsPart'
    <3>1. LedgerPart' /\ risks \subseteq risks'
      BY <1>1, <2>1, LedgerKeeps
    <3>2. CASE c \in risks' \ risks
      <4>1. Outbox!Insert(c)
        BY <2>1, <3>2 DEF Serve, Rows
      <4>. QED  BY <1>1, <3>1, <3>2, <4>1, InsertKeeps DEF RowsPart
    <3>3. CASE c \notin risks' \ risks
      <4>1. UNCHANGED outbox
        BY <2>1, <3>3 DEF Serve, Rows
      <4>. QED  BY <1>1, <3>1, <4>1 DEF outbox, OutboxPart, RowsPart
    <3>. QED  BY <3>2, <3>3
  <2>2. CASE Deliver
    <3>1. OutboxPart'
      BY <1>1, <2>2, WorkersKeep DEF Deliver
    <3>. QED  BY <1>1, <2>2, <3>1 DEF Deliver, ledger, LedgerPart, RowsPart
  <2>3. CASE UNCHANGED vars
    BY <1>1, <2>3 DEF vars, ledger, outbox, LedgerPart, OutboxPart, RowsPart
  <2>. QED  BY <2>1, <2>2, <2>3 DEF Next
<1>. QED  BY <1>2 DEF CompositionInv, LedgerPart, OutboxPart, RowsPart, Statuses

(* The invariant of the composition of ledger and outbox.                  *)
THEOREM CompositionInvariantHolds == Spec => []CompositionInv
  BY InitEstablishes, StepKeeps, PTL DEF Spec

(* Whatever a worker published belongs to a committed, flagged transfer    *)
(* with its audit record (docs/adr/0005), however many workers there are.  *)
THEOREM DeliveredWasCommittedHolds == Spec => []DeliveredWasCommitted
<1>1. CompositionInv => DeliveredWasCommitted
  BY DEF CompositionInv, DeliveredWasCommitted
<1>. QED  BY <1>1, CompositionInvariantHolds, PTL

===============================================================================
