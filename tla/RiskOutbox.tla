------------------------------ MODULE RiskOutbox -------------------------------
(***************************************************************************)
(* The durable risk outbox: rows of risk_events, the claim and mark        *)
(* statements of internal/store/postgres/outbox.go, and the workers of     *)
(* internal/risk/outbox.go, one per running process.                       *)
(*                                                                         *)
(* A worker reads its clock once per cycle and uses that instant for the   *)
(* claim, for the lease it records and for the retry it schedules, however *)
(* much later each of them happens.  Instants are kept relative to the     *)
(* present, so that the state stays finite while time goes on:             *)
(*   due[e]   available_at minus the present                               *)
(*   age[e]   the present minus locked_at                                  *)
(*   late[w]  the present minus the worker's now                           *)
(***************************************************************************)
EXTENDS Integers, FiniteSets

CONSTANTS
  Events,       \* risk events the ledger may store
  Workers,      \* running processes
  MaxAttempts,  \* attempts < 10 in ClaimRiskEvents
  Lease,        \* interval '1 minute'
  MaxShift,     \* deliveryBackoff stops doubling at this attempt (8)
  NoEvent,      \* no delivery
  BatchSize,    \* Worker.batchSize (32), within normaliseOutboxLimit's bounds
  MaxLatency    \* bound: a claim reaches the database this soon after now was read

ASSUME OutboxAssumption ==
  /\ NoEvent \notin Events
  /\ MaxAttempts \in Nat \ {0}
  /\ Lease \in Nat
  /\ MaxShift \in Nat \ {0}
  /\ BatchSize \in Nat \ {0}
  /\ MaxLatency \in Nat

VARIABLES
  status,     \* status column; "none" until the transfer commits
  attempts,   \* attempts column
  due,        \* available_at
  age,        \* locked_at; 0 while the row is not processing
  delivered,  \* how often the publisher delivered the event
  phase,      \* where each worker's ProcessOnce is
  late,       \* its now
  claimed,    \* Attempts of the deliveries it has still to settle; 0 for the others
  current,    \* the delivery it is marking
  overran     \* history: some worker held a delivery for longer than the lease

rows == <<status, attempts, due, age>>
workerVars == <<phase, late, claimed, current>>
vars == <<rows, delivered, workerVars, overran>>

AtMost(n, m) == IF n <= m THEN n ELSE m
AtLeast(n, m) == IF n >= m THEN n ELSE m

(* deliveryBackoff.  Its cap of five minutes is above 2^7 seconds.         *)
Backoff(n) == 2 ^ (AtMost(n, MaxShift) - 1)
MaxBackoff == Backoff(MaxShift)

NoDelivery == [e \in Events |-> 0]
Batch(w) == {e \in Events : claimed[w][e] > 0}

Init ==
  /\ status = [e \in Events |-> "none"]
  /\ attempts = [e \in Events |-> 0]
  /\ due = [e \in Events |-> 0]
  /\ age = [e \in Events |-> 0]
  /\ delivered = [e \in Events |-> 0]
  /\ phase = [w \in Workers |-> "idle"]
  /\ late = [w \in Workers |-> 0]
  /\ claimed = [w \in Workers |-> NoDelivery]
  /\ current = [w \in Workers |-> NoEvent]
  /\ overran = FALSE

-------------------------------------------------------------------------------
(* The transfer that raised e commits, with the row (applyTransferTx).     *)
(* available_at is the instant the service dated the event at, not after   *)
(* the commit, so the row can be claimed at once.                          *)
Insert(e) ==
  /\ status[e] = "none"
  /\ status' = [status EXCEPT ![e] = "pending"]
  /\ UNCHANGED <<attempts, due, age, delivered, workerVars>>

(* The worker's ticker fires: ProcessOnce reads the clock.                 *)
Begin(w) ==
  /\ phase[w] = "idle"
  /\ phase' = [phase EXCEPT ![w] = "claiming"]
  /\ UNCHANGED <<rows, delivered, late, claimed, current>>

(* Fault: the next cycle starts with the deliveries of the last one.       *)
EndCycleKeepsBatch(w) ==
  /\ phase' = [phase EXCEPT ![w] = "idle"]
  /\ late' = [late EXCEPT ![w] = 0]
  /\ current' = [current EXCEPT ![w] = NoEvent]
  /\ UNCHANGED claimed

(* The cycle ends: all deliveries settled, or an error, a cancelled        *)
(* context, a crash of the process.  What was claimed stays claimed.       *)
EndCycle(w) ==
  /\ phase' = [phase EXCEPT ![w] = "idle"]
  /\ late' = [late EXCEPT ![w] = 0]
  /\ claimed' = [claimed EXCEPT ![w] = NoDelivery]
  /\ current' = [current EXCEPT ![w] = NoEvent]

(***************************************************************************)
(* ClaimRiskEvents.  Rows that another claim has locked are skipped.       *)
(***************************************************************************)

(* Faults: no limit on the attempts; a lease that ends a moment early; a   *)
(* lease that never ends.                                                  *)
CandidatesWithoutLimit(w) ==
  {e \in Events :
     \/ status[e] \in {"pending", "failed"} /\ due[e] <= -late[w]
     \/ status[e] = "processing" /\ age[e] - late[w] > Lease}

CandidatesTooEarly(w) ==
  {e \in Events :
     /\ attempts[e] < MaxAttempts
     /\ \/ status[e] \in {"pending", "failed"} /\ due[e] <= -late[w]
        \/ status[e] = "processing" /\ age[e] - late[w] >= Lease}

CandidatesNotReclaimed(w) ==
  {e \in Events :
     /\ attempts[e] < MaxAttempts
     /\ status[e] \in {"pending", "failed"}
     /\ due[e] <= -late[w]}

Candidates(w) ==
  {e \in Events :
     /\ attempts[e] < MaxAttempts
     /\ \/ status[e] \in {"pending", "failed"} /\ due[e] <= -late[w]
        \/ status[e] = "processing" /\ age[e] - late[w] > Lease}

(* ORDER BY available_at ... LIMIT, over the candidates not skipped.       *)
Oldest(batch, from) ==
  /\ Cardinality(batch) = AtMost(BatchSize, Cardinality(from))
  /\ \A e \in batch, f \in from \ batch : due[e] <= due[f]

MayTake(w, batch) ==
  \E skipped \in SUBSET Candidates(w) :
    /\ skipped # {} => \E v \in Workers \ {w} : phase[v] = "claiming"
    /\ batch \subseteq Candidates(w) \ skipped
    /\ Oldest(batch, Candidates(w) \ skipped)

(* Fault: the attempt is not counted when the event is claimed.            *)
TakeUncounted(w, batch) ==
  /\ MayTake(w, batch)
  /\ status' = [e \in Events |-> IF e \in batch THEN "processing" ELSE status[e]]
  /\ age' = [e \in Events |-> IF e \in batch THEN late[w] ELSE age[e]]
  /\ UNCHANGED <<attempts, due, delivered>>

Take(w, batch) ==
  /\ MayTake(w, batch)
  /\ status' = [e \in Events |-> IF e \in batch THEN "processing" ELSE status[e]]
  /\ attempts' = [e \in Events |-> IF e \in batch THEN attempts[e] + 1 ELSE attempts[e]]
  /\ age' = [e \in Events |-> IF e \in batch THEN late[w] ELSE age[e]]
  /\ UNCHANGED <<due, delivered>>

Claim(w, batch) ==
  /\ phase[w] = "claiming"
  /\ batch # {}
  /\ Take(w, batch)
  /\ claimed' = [claimed EXCEPT ![w] = [e \in Events |-> IF e \in batch THEN attempts[e] + 1 ELSE 0]]
  /\ phase' = [phase EXCEPT ![w] = "publishing"]
  /\ UNCHANGED <<late, current>>

(* The claim commits, and the worker does not live to see its answer.      *)
ClaimLost(w, batch) ==
  /\ phase[w] = "claiming"
  /\ batch # {}
  /\ Take(w, batch)
  /\ EndCycle(w)

ClaimNothing(w) ==
  /\ phase[w] = "claiming"
  /\ MayTake(w, {})
  /\ EndCycle(w)
  /\ UNCHANGED <<rows, delivered>>

-------------------------------------------------------------------------------
(***************************************************************************)
(* The loop of ProcessOnce.  RETURNING gives the batch in no given order.  *)
(***************************************************************************)
PublishSucceeds(w, e) ==
  /\ phase[w] = "publishing"
  /\ e \in Batch(w)
  /\ delivered' = [delivered EXCEPT ![e] = @ + 1]
  /\ phase' = [phase EXCEPT ![w] = "succeeded"]
  /\ current' = [current EXCEPT ![w] = e]
  /\ UNCHANGED <<rows, late, claimed>>

(* Fault: the publisher's error is ignored.                                *)
PublishErrorIgnored(w, e) ==
  /\ phase[w] = "publishing"
  /\ e \in Batch(w)
  /\ \E n \in {0, 1} : delivered' = [delivered EXCEPT ![e] = @ + n]
  /\ phase' = [phase EXCEPT ![w] = "succeeded"]
  /\ current' = [current EXCEPT ![w] = e]
  /\ UNCHANGED <<rows, late, claimed>>

(* An error of the publisher does not tell whether it delivered the event. *)
PublishFails(w, e) ==
  /\ phase[w] = "publishing"
  /\ e \in Batch(w)
  /\ \E n \in {0, 1} : delivered' = [delivered EXCEPT ![e] = @ + n]
  /\ phase' = [phase EXCEPT ![w] = "failed"]
  /\ current' = [current EXCEPT ![w] = e]
  /\ UNCHANGED <<rows, late, claimed>>

(* MarkRiskEventPublished.                                                 *)
WritePublished(w) ==
  LET e == current[w]
  IN /\ phase[w] = "succeeded"
     /\ status[e] = "processing"
     /\ status' = [status EXCEPT ![e] = "published"]
     /\ age' = [age EXCEPT ![e] = 0]
     /\ UNCHANGED <<attempts, due, delivered>>

(* Fault: the update does not ask that the row is still processing.        *)
WriteFailedAnyway(w) ==
  LET e == current[w]
  IN /\ phase[w] = "failed"
     /\ status' = [status EXCEPT ![e] = "failed"]
     /\ age' = [age EXCEPT ![e] = 0]
     /\ due' = [due EXCEPT ![e] = AtLeast(Backoff(claimed[w][e]) - late[w], -MaxLatency)]
     /\ UNCHANGED <<attempts, delivered>>

(* MarkRiskEventFailed: the retry is due a backoff after the worker's now. *)
WriteFailed(w) ==
  LET e == current[w]
  IN /\ phase[w] = "failed"
     /\ status[e] = "processing"
     /\ status' = [status EXCEPT ![e] = "failed"]
     /\ age' = [age EXCEPT ![e] = 0]
     /\ due' = [due EXCEPT ![e] = AtLeast(Backoff(claimed[w][e]) - late[w], -MaxLatency)]
     /\ UNCHANGED <<attempts, delivered>>

(* The row is marked and the loop goes on, or the batch is done.           *)
Mark(w) ==
  /\ WritePublished(w) \/ WriteFailed(w)
  /\ \/ /\ Batch(w) = {current[w]}
        /\ EndCycle(w)
     \/ /\ Batch(w) # {current[w]}
        /\ claimed' = [claimed EXCEPT ![w][current[w]] = 0]
        /\ current' = [current EXCEPT ![w] = NoEvent]
        /\ phase' = [phase EXCEPT ![w] = "publishing"]
        /\ UNCHANGED late

(* The row is marked, and the worker does not live to see the answer.      *)
MarkLost(w) ==
  /\ WritePublished(w) \/ WriteFailed(w)
  /\ EndCycle(w)

(* "risk event is not claimed": the rest of the batch is abandoned.        *)
MarkRefused(w) ==
  /\ phase[w] \in {"succeeded", "failed"}
  /\ status[current[w]] # "processing"
  /\ EndCycle(w)
  /\ UNCHANGED <<rows, delivered>>

(* A statement fails, the context is cancelled or the process dies.        *)
Stop(w) ==
  /\ phase[w] # "idle"
  /\ EndCycle(w)
  /\ UNCHANGED <<rows, delivered>>

(***************************************************************************)
(* Time passes.  Differences beyond which nothing changes are not counted. *)
(***************************************************************************)
Tick ==
  /\ \A w \in Workers : phase[w] = "claiming" => late[w] < MaxLatency
  /\ due' = [e \in Events |-> IF status[e] = "none" THEN 0 ELSE AtLeast(due[e] - 1, -MaxLatency)]
  /\ age' = [e \in Events |->
               IF status[e] = "processing" THEN AtMost(age[e] + 1, Lease + MaxLatency + 1) ELSE 0]
  /\ late' = [w \in Workers |->
                IF phase[w] = "idle" THEN 0
                ELSE AtMost(late[w] + 1, AtLeast(Lease + 1, MaxBackoff + MaxLatency))]
  /\ UNCHANGED <<status, attempts, delivered, phase, claimed, current>>

Overrun == \E w \in Workers : Batch(w) # {} /\ late[w] > Lease

(* Keeps the history variable.                                             *)
Observe == overran' = (overran \/ Overrun')

Next ==
  /\ \/ \E e \in Events : Insert(e)
     \/ \E w \in Workers :
          \/ Begin(w)
          \/ \E batch \in SUBSET Events : Claim(w, batch) \/ ClaimLost(w, batch)
          \/ ClaimNothing(w)
          \/ \E e \in Events : PublishSucceeds(w, e) \/ PublishFails(w, e)
          \/ Mark(w) \/ MarkLost(w) \/ MarkRefused(w) \/ Stop(w)
     \/ Tick
  /\ Observe

Spec == Init /\ [][Next]_vars

(***************************************************************************)
(* A running worker is scheduled, a publisher returns, and the database,   *)
(* however often it fails, answers a claim now and then.  Nothing makes a  *)
(* worker stay alive: it may stop after every single claim.                *)
(***************************************************************************)
Fairness ==
  /\ WF_vars(Tick /\ Observe)
  /\ \A w \in Workers :
       /\ WF_vars(Begin(w) /\ Observe)
       /\ WF_vars(ClaimNothing(w) /\ Observe)
       /\ SF_vars((\E batch \in SUBSET Events : Claim(w, batch)) /\ Observe)
       /\ WF_vars((\E e \in Events : PublishSucceeds(w, e)) /\ Observe)
       /\ WF_vars((Mark(w) \/ MarkRefused(w)) /\ Observe)

FairSpec == Spec /\ Fairness

-------------------------------------------------------------------------------
(***************************************************************************)
(* Properties.                                                             *)
(***************************************************************************)

(* Every variable has its type; in particular ClaimRiskEvents never takes  *)
(* an event more than MaxAttempts times.                                   *)
TypeOK ==
  /\ status \in [Events -> {"none", "pending", "processing", "published", "failed"}]
  /\ attempts \in [Events -> 0 .. MaxAttempts]
  /\ due \in [Events -> Int]
  /\ age \in [Events -> Nat]
  /\ delivered \in [Events -> Nat]
  /\ phase \in [Workers -> {"idle", "claiming", "publishing", "succeeded", "failed"}]
  /\ late \in [Workers -> Nat]
  /\ claimed \in [Workers -> [Events -> 0 .. MaxAttempts]]
  /\ current \in [Workers -> Events \cup {NoEvent}]
  /\ overran \in BOOLEAN

(* A row says published only if the event really was delivered, even when  *)
(* workers that lost their lease mark it late.                             *)
PublishedWasDelivered ==
  \A e \in Events : status[e] = "published" => delivered[e] > 0

(* published is final: a slow worker whose own attempt failed cannot take  *)
(* back what another one achieved, so a delivered event is not sent again. *)
PublishedIsFinal ==
  [][\A e \in Events : status[e] = "published" => status'[e] = "published"]_vars

(* Unless some worker takes longer than the lease for its batch, no event  *)
(* is in the hands of two workers: the lease of ClaimRiskEvents excludes.  *)
ExclusiveUnlessOverrun ==
  ~overran =>
    \A w, v \in Workers : w # v => Batch(w) \cap Batch(v) = {}

(* A consumer sees an event at most once per claim, hence at most          *)
(* MaxAttempts times: deliveries already made and deliveries that workers  *)
(* still have in hand never exceed the attempts counted in the row.        *)
DuplicatesBounded ==
  \A e \in Events :
    delivered[e] + Cardinality({w \in Workers : e \in Batch(w) /\ current[w] # e})
      <= attempts[e]

(* An event is never forgotten: as long as attempts remain it is published *)
(* or tried again, whatever workers crash, overrun or lose their answers.  *)
EveryEventSettles ==
  \A e \in Events :
    status[e] = "pending" ~> status[e] = "published" \/ attempts[e] = MaxAttempts

-------------------------------------------------------------------------------
(* What is known of a worker.  While nobody overran, the lease in the row  *)
(* of every event it holds is its own and has not ended.                   *)
HoldInv(w) ==
  /\ Batch(w) # {} => phase[w] \in {"publishing", "succeeded", "failed"}
  /\ phase[w] \in {"succeeded", "failed"} => current[w] \in Batch(w)
  /\ phase[w] = "succeeded" => delivered[current[w]] > 0
  /\ ~overran =>
       \A e \in Batch(w) : status[e] = "processing" /\ age[e] = late[w] /\ late[w] <= Lease

(* The inductive invariant behind the safety properties: a row's lease is  *)
(* the lease of the worker that holds the event.                           *)
OutboxInv ==
  /\ TypeOK
  /\ \A w \in Workers : HoldInv(w)
  /\ PublishedWasDelivered
  /\ ExclusiveUnlessOverrun

===============================================================================
