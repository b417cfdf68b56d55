--------------------------- MODULE RiskOutboxProofs ----------------------------
(***************************************************************************)
(* The safety of RiskOutbox, proved for any number of events and workers   *)
(* and any lease, attempt limit and backoff.                               *)
(***************************************************************************)
EXTENDS RiskOutbox, TLAPS

(* A claim counts attempts up to the limit and no further, and a worker's  *)
(* batch is what it claimed.                                               *)
LEMMA BatchType ==
  ASSUME TypeOK, NEW w \in Workers
  PROVE  /\ Batch(w) \subseteq Events
         /\ \A e \in Events : claimed[w][e] \in Int
  BY OutboxAssumption DEF TypeOK, Batch

(* The delays a retry can be given are integers.                           *)
LEMMA BackoffType ==
  ASSUME NEW n \in Nat
  PROVE  Backoff(n) \in Int
  <1>1. AtMost(n, MaxShift) - 1 \in Int
    BY OutboxAssumption DEF AtMost
  <1> QED
    BY <1>1 DEF Backoff

(* The flag is only ever raised, and is raised by every overrun.           *)
LEMMA NotOverran ==
  ASSUME TypeOK, Observe
  PROVE  /\ overran' \in BOOLEAN
         /\ ~overran' => ~overran
         /\ ~overran' => \A w \in Workers : Batch(w)' # {} => ~(late'[w] > Lease)
  BY Zenon DEF TypeOK, Observe, Overrun

(* A step in which no worker gains a delivery needs only the facts about   *)
(* each worker.                                                            *)
LEMMA NoGain ==
  ASSUME OutboxInv, Observe, TypeOK', PublishedWasDelivered',
         \A w \in Workers : Batch(w)' \subseteq Batch(w) /\ HoldInv(w)'
  PROVE  OutboxInv'
  <1>1. ~overran' => ~overran
    BY NotOverran DEF OutboxInv
  <1>2. ExclusiveUnlessOverrun'
    BY <1>1 DEF OutboxInv, ExclusiveUnlessOverrun
  <1> QED
    BY <1>2 DEF OutboxInv

(* The end of a cycle takes all deliveries from the worker and leaves the  *)
(* others as they are.                                                     *)
LEMMA CycleEnded ==
  ASSUME TypeOK, NEW w \in Workers, EndCycle(w)
  PROVE  /\ phase' \in [Workers -> {"idle", "claiming", "publishing", "succeeded", "failed"}]
         /\ late' \in [Workers -> Nat]
         /\ claimed' \in [Workers -> [Events -> 0 .. MaxAttempts]]
         /\ current' \in [Workers -> Events \cup {NoEvent}]
         /\ phase'[w] = "idle" /\ Batch(w)' = {}
         /\ \A v \in Workers \ {w} :
              /\ phase'[v] = phase[v] /\ late'[v] = late[v] /\ current'[v] = current[v]
              /\ Batch(v)' = Batch(v)
  <1>1. NoDelivery \in [Events -> 0 .. MaxAttempts] /\ \A e \in Events : NoDelivery[e] = 0
    BY OutboxAssumption DEF NoDelivery
  <1>2. /\ claimed' \in [Workers -> [Events -> 0 .. MaxAttempts]]
        /\ claimed'[w] = NoDelivery
        /\ \A v \in Workers \ {w} : claimed'[v] = claimed[v]
    BY <1>1 DEF TypeOK, EndCycle
  <1>3. Batch(w)' = {} /\ \A v \in Workers \ {w} : Batch(v)' = Batch(v)
    BY <1>1, <1>2 DEF Batch
  <1> QED
    BY <1>2, <1>3 DEF TypeOK, EndCycle

(* A worker that idles knows nothing.                                      *)
LEMMA IdleHolds ==
  ASSUME NEW w \in Workers, phase'[w] = "idle", Batch(w)' = {}
  PROVE  HoldInv(w)'
  BY DEF HoldInv

(* A worker keeps what it knows while its events' rows stay as they are.   *)
LEMMA OtherHolds ==
  ASSUME OutboxInv, Observe, NEW v \in Workers, Batch(v)' = Batch(v),
         phase'[v] = phase[v], current'[v] = current[v], late'[v] = late[v],
         \A e \in Events : delivered[e] > 0 => delivered'[e] > 0,
         ~overran => \A e \in Batch(v) : status'[e] = status[e] /\ age'[e] = age[e]
  PROVE  HoldInv(v)'
  <1>1. TypeOK /\ HoldInv(v)
    BY DEF OutboxInv
  <1>2. ~overran' => ~overran
    BY <1>1, NotOverran
  <1>3. phase[v] = "succeeded" => current[v] \in Events
    BY <1>1, BatchType DEF HoldInv
  <1> QED
    BY <1>1, <1>2, <1>3 DEF HoldInv

-------------------------------------------------------------------------------
(* Insert and Begin.                                                       *)
LEMMA InsertPreserves ==
  ASSUME OutboxInv, Observe, NEW e \in Events, Insert(e)
  PROVE  OutboxInv'
  <1>t. TypeOK /\ PublishedWasDelivered /\ \A w \in Workers : HoldInv(w)
    BY DEF OutboxInv
  <1>1. /\ status[e] = "none"
        /\ status' = [status EXCEPT ![e] = "pending"]
        /\ UNCHANGED <<attempts, due, age, delivered, phase, late, claimed, current>>
    BY DEF Insert, workerVars
  <1>2. TypeOK'
    BY <1>t, <1>1, NotOverran DEF TypeOK
  <1>3. PublishedWasDelivered'
    BY <1>t, <1>1 DEF TypeOK, PublishedWasDelivered
  <1>4. ASSUME NEW w \in Workers
        PROVE  Batch(w)' = Batch(w) /\ HoldInv(w)'
    <2>1. Batch(w)' = Batch(w)
      BY <1>1 DEF Batch
    <2>2. ~overran => \A x \in Batch(w) : status'[x] = status[x] /\ age'[x] = age[x]
      BY <1>t, <1>1, BatchType DEF TypeOK, HoldInv
    <2> QED
      BY <1>1, <2>1, <2>2, OtherHolds
  <1> QED
    BY <1>2, <1>3, <1>4, NoGain

LEMMA BeginPreserves ==
  ASSUME OutboxInv, Observe, NEW w \in Workers, Begin(w)
  PROVE  OutboxInv'
  <1>t. TypeOK /\ PublishedWasDelivered /\ \A v \in Workers : HoldInv(v)
    BY DEF OutboxInv
  <1>1. /\ phase[w] = "idle" /\ phase' = [phase EXCEPT ![w] = "claiming"]
        /\ UNCHANGED <<status, attempts, due, age, delivered, late, claimed, current>>
    BY DEF Begin, rows
  <1>2. TypeOK'
    BY <1>t, <1>1, NotOverran DEF TypeOK
  <1>3. PublishedWasDelivered'
    BY <1>t, <1>1 DEF PublishedWasDelivered
  <1>4. \A v \in Workers : Batch(v)' = Batch(v)
    BY <1>1 DEF Batch
  <1>5. HoldInv(w)'
    <2>1. phase'[w] = "claiming" /\ Batch(w)' = {}
      BY <1>t, <1>1, <1>4 DEF TypeOK, HoldInv
    <2> QED
      BY <2>1 DEF HoldInv
  <1>6. ASSUME NEW v \in Workers \ {w} PROVE HoldInv(v)'
    <2>1. phase'[v] = phase[v]
      BY <1>t, <1>1 DEF TypeOK
    <2> QED
      BY <1>1, <1>4, <2>1, OtherHolds
  <1> QED
    BY <1>2, <1>3, <1>4, <1>5, <1>6, NoGain

(* ClaimNothing, MarkRefused and Stop: the cycle ends, no row changes.     *)
LEMMA GivingUpPreserves ==
  ASSUME OutboxInv, Observe, NEW w \in Workers, EndCycle(w), UNCHANGED <<rows, delivered>>
  PROVE  OutboxInv'
  <1>t. TypeOK /\ PublishedWasDelivered
    BY DEF OutboxInv
  <1>1. UNCHANGED <<status, attempts, due, age, delivered>>
    BY DEF rows
  <1>2. TypeOK'
    BY <1>t, <1>1, CycleEnded, NotOverran DEF TypeOK
  <1>3. PublishedWasDelivered'
    BY <1>t, <1>1 DEF PublishedWasDelivered
  <1>4. ASSUME NEW v \in Workers
        PROVE  Batch(v)' \subseteq Batch(v) /\ HoldInv(v)'
    <2>1. CASE v = w
      BY <1>t, <2>1, CycleEnded, IdleHolds
    <2>2. CASE v # w
      BY <1>t, <1>1, <2>2, CycleEnded, OtherHolds
    <2> QED
      BY <2>1, <2>2
  <1> QED
    BY <1>2, <1>3, <1>4, NoGain

(* A claim takes no event that another worker holds: while nobody overran, *)
(* the holder's lease is too young.                                        *)
LEMMA TakenIsFree ==
  ASSUME OutboxInv, NEW w \in Workers, NEW batch \in SUBSET Events, Take(w, batch)
  PROVE  /\ batch \subseteq Candidates(w)
         /\ \A e \in batch : attempts[e] < MaxAttempts /\ status[e] # "published"
         /\ ~overran => \A v \in Workers : batch \cap Batch(v) = {}
  <1>t. TypeOK /\ \A v \in Workers : HoldInv(v)
    BY DEF OutboxInv
  <1>1. batch \subseteq Candidates(w)
    BY DEF Take, MayTake
  <1>2. \A e \in batch : attempts[e] < MaxAttempts /\ status[e] # "published"
    BY <1>1 DEF Candidates
  <1>3. ASSUME ~overran, NEW v \in Workers, NEW e \in batch, e \in Batch(v)
        PROVE  FALSE
    <2>1. status[e] = "processing" /\ age[e] = late[v] /\ late[v] <= Lease
      BY <1>t, <1>3 DEF HoldInv
    <2>2. age[e] - late[w] > Lease
      BY <1>1, <2>1 DEF Candidates
    <2>3. late[v] \in Nat /\ late[w] \in Nat
      BY <1>t DEF TypeOK
    <2> QED
      BY <2>1, <2>2, <2>3, OutboxAssumption
  <1> QED
    BY <1>1, <1>2, <1>3

(* What a claim writes has the right types.                                *)
LEMMA TakeTypes ==
  ASSUME OutboxInv, NEW w \in Workers, NEW batch \in SUBSET Events, Take(w, batch)
  PROVE  /\ status' \in [Events -> {"none", "pending", "processing", "published", "failed"}]
         /\ attempts' \in [Events -> 0 .. MaxAttempts]
         /\ \A e \in batch : attempts[e] + 1 \in 0 .. MaxAttempts
         /\ age' \in [Events -> Nat]
         /\ UNCHANGED <<due, delivered>>
         /\ PublishedWasDelivered'
         /\ \A e \in batch : status'[e] = "processing" /\ age'[e] = late[w]
         /\ \A e \in Events \ batch : status'[e] = status[e] /\ age'[e] = age[e]
  <1>t. TypeOK /\ PublishedWasDelivered
    BY DEF OutboxInv
  <1>1. \A e \in batch : attempts[e] + 1 \in 0 .. MaxAttempts
    BY <1>t, TakenIsFree, OutboxAssumption DEF TypeOK
  <1>2. /\ status' = [e \in Events |-> IF e \in batch THEN "processing" ELSE status[e]]
        /\ attempts' = [e \in Events |-> IF e \in batch THEN attempts[e] + 1 ELSE attempts[e]]
        /\ age' = [e \in Events |-> IF e \in batch THEN late[w] ELSE age[e]]
        /\ UNCHANGED <<due, delivered>>
    BY DEF Take
  <1>3. /\ status' \in [Events -> {"none", "pending", "processing", "published", "failed"}]
        /\ age' \in [Events -> Nat]
    BY <1>t, <1>2 DEF TypeOK
  <1>4. attempts' \in [Events -> 0 .. MaxAttempts]
    BY <1>t, <1>1, <1>2 DEF TypeOK
  <1>5. /\ \A e \in batch : status'[e] = "processing" /\ age'[e] = late[w]
        /\ \A e \in Events \ batch : status'[e] = status[e] /\ age'[e] = age[e]
    BY <1>2
  <1>6. PublishedWasDelivered'
    BY <1>t, <1>2, <1>5 DEF PublishedWasDelivered
  <1> QED
    BY <1>1, <1>2, <1>3, <1>4, <1>5, <1>6

LEMMA ClaimPreserves ==
  ASSUME OutboxInv, Observe, NEW w \in Workers, NEW batch \in SUBSET Events, Claim(w, batch)
  PROVE  OutboxInv'
  <1>t. TypeOK /\ \A v \in Workers : HoldInv(v)
    BY DEF OutboxInv
  <1>0. Take(w, batch)
    BY DEF Claim
  <1>1. /\ claimed' = [claimed EXCEPT ![w] =
                         [e \in Events |-> IF e \in batch THEN attempts[e] + 1 ELSE 0]]
        /\ phase' = [phase EXCEPT ![w] = "publishing"]
        /\ UNCHANGED <<late, current>>
    BY DEF Claim
  <1>2. [e \in Events |-> IF e \in batch THEN attempts[e] + 1 ELSE 0] \in [Events -> 0 .. MaxAttempts]
    BY <1>0, TakeTypes, OutboxAssumption
  <1>3. /\ claimed' \in [Workers -> [Events -> 0 .. MaxAttempts]]
        /\ \A e \in Events : claimed'[w][e] = IF e \in batch THEN attempts[e] + 1 ELSE 0
        /\ \A v \in Workers \ {w} : claimed'[v] = claimed[v]
        /\ phase' \in [Workers -> {"idle", "claiming", "publishing", "succeeded", "failed"}]
        /\ phase'[w] = "publishing"
        /\ \A v \in Workers \ {w} : phase'[v] = phase[v]
    BY <1>t, <1>1, <1>2 DEF TypeOK
  <1>4. Batch(w)' = batch /\ \A v \in Workers \ {w} : Batch(v)' = Batch(v)
    <2>1. \A e \in Events : attempts[e] + 1 > 0
      BY <1>t DEF TypeOK
    <2> QED
      BY <1>3, <2>1 DEF Batch
  <1>5. TypeOK'
    BY <1>t, <1>0, <1>1, <1>3, TakeTypes, NotOverran DEF TypeOK
  <1>6. /\ ~overran' => ~overran
        /\ ~overran' => \A v \in Workers : Batch(v)' # {} => ~(late'[v] > Lease)
    BY <1>t, NotOverran
  <1>7. HoldInv(w)'
    <2>1. ASSUME ~overran', NEW e \in batch
          PROVE  status'[e] = "processing" /\ age'[e] = late'[w] /\ late'[w] <= Lease
      <3>1. ~(late[w] > Lease) /\ late[w] \in Nat
        BY <1>t, <1>1, <1>4, <1>6, <2>1 DEF TypeOK
      <3> QED
        BY <1>0, <1>1, <2>1, <3>1, TakeTypes, OutboxAssumption
    <2> QED
      BY <1>3, <1>4, <2>1 DEF HoldInv
  <1>8. ASSUME NEW v \in Workers \ {w} PROVE HoldInv(v)'
    <2>1. ~overran => \A e \in Batch(v) : status'[e] = status[e] /\ age'[e] = age[e]
      BY <1>t, <1>0, TakenIsFree, TakeTypes, BatchType
    <2> QED
      BY <1>0, <1>1, <1>3, <1>4, <2>1, TakeTypes, OtherHolds
  <1>9. ExclusiveUnlessOverrun'
    BY <1>0, <1>4, <1>6, TakenIsFree DEF OutboxInv, ExclusiveUnlessOverrun
  <1> QED
    BY <1>0, <1>5, <1>7, <1>8, <1>9, TakeTypes DEF OutboxInv

LEMMA ClaimLostPreserves ==
  ASSUME OutboxInv, Observe, NEW w \in Workers, NEW batch \in SUBSET Events, ClaimLost(w, batch)
  PROVE  OutboxInv'
  <1>t. TypeOK
    BY DEF OutboxInv
  <1>0. Take(w, batch) /\ EndCycle(w)
    BY DEF ClaimLost
  <1>1. TypeOK'
    BY <1>t, <1>0, TakeTypes, CycleEnded, NotOverran DEF TypeOK
  <1>2. ASSUME NEW v \in Workers
        PROVE  Batch(v)' \subseteq Batch(v) /\ HoldInv(v)'
    <2>1. CASE v = w
      BY <1>t, <1>0, <2>1, CycleEnded, IdleHolds
    <2>2. CASE v # w
      <3>1. ~overran => \A e \in Batch(v) : status'[e] = status[e] /\ age'[e] = age[e]
        BY <1>t, <1>0, TakenIsFree, TakeTypes, BatchType
      <3> QED
        BY <1>t, <1>0, <2>2, <3>1, CycleEnded, TakeTypes, OtherHolds
    <2> QED
      BY <2>1, <2>2
  <1> QED
    BY <1>0, <1>1, <1>2, TakeTypes, NoGain

(* Publishing changes no row; only a success is remembered as one.         *)
LEMMA PublishPreserves ==
  ASSUME OutboxInv, Observe, NEW w \in Workers, NEW e \in Events,
         PublishSucceeds(w, e) \/ PublishFails(w, e)
  PROVE  OutboxInv'
  <1>t. TypeOK /\ PublishedWasDelivered /\ \A v \in Workers : HoldInv(v)
    BY DEF OutboxInv
  <1>1. PICK n \in {0, 1} :
          /\ e \in Batch(w) /\ phase[w] = "publishing"
          /\ delivered' = [delivered EXCEPT ![e] = @ + n]
          /\ \/ phase' = [phase EXCEPT ![w] = "succeeded"] /\ n = 1
             \/ phase' = [phase EXCEPT ![w] = "failed"]
          /\ current' = [current EXCEPT ![w] = e]
          /\ UNCHANGED <<status, attempts, due, age, late, claimed>>
    BY DEF PublishSucceeds, PublishFails, rows
  <1>2. /\ delivered[e] \in Nat
        /\ delivered' \in [Events -> Nat]
        /\ \A x \in Events : delivered[x] > 0 => delivered'[x] > 0
        /\ n = 1 => delivered'[e] > 0
    BY <1>t, <1>1 DEF TypeOK
  <1>3. /\ phase' \in [Workers -> {"idle", "claiming", "publishing", "succeeded", "failed"}]
        /\ current' \in [Workers -> Events \cup {NoEvent}]
        /\ phase'[w] = "failed" \/ (phase'[w] = "succeeded" /\ n = 1)
        /\ current'[w] = e
        /\ \A v \in Workers \ {w} : phase'[v] = phase[v] /\ current'[v] = current[v]
    BY <1>t, <1>1 DEF TypeOK
  <1>4. TypeOK'
    BY <1>t, <1>1, <1>2, <1>3, NotOverran DEF TypeOK
  <1>5. PublishedWasDelivered'
    BY <1>t, <1>1, <1>2 DEF PublishedWasDelivered
  <1>6. \A v \in Workers : Batch(v)' = Batch(v)
    BY <1>1 DEF Batch
  <1>7. HoldInv(w)'
    <2>1. ~overran' => ~overran
      BY <1>t, NotOverran
    <2> QED
      BY <1>t, <1>1, <1>2, <1>3, <1>6, <2>1 DEF HoldInv
  <1>8. ASSUME NEW v \in Workers \ {w} PROVE HoldInv(v)'
    BY <1>1, <1>2, <1>3, <1>6, OtherHolds
  <1> QED
    BY <1>4, <1>5, <1>6, <1>7, <1>8, NoGain

(* What the two marks write: only the row of the worker's own delivery,    *)
(* and published only after a delivery.                                    *)
LEMMA MarkWrites ==
  ASSUME OutboxInv, NEW w \in Workers, WritePublished(w) \/ WriteFailed(w)
  PROVE  /\ current[w] \in Batch(w) /\ current[w] \in Events
         /\ status' \in [Events -> {"none", "pending", "processing", "published", "failed"}]
         /\ age' \in [Events -> Nat]
         /\ due' \in [Events -> Int]
         /\ UNCHANGED <<attempts, delivered>>
         /\ status[current[w]] = "processing"
         /\ \A x \in Events \ {current[w]} : status'[x] = status[x] /\ age'[x] = age[x]
         /\ PublishedWasDelivered'
  <1> DEFINE e == current[w]
  <1>t. TypeOK /\ PublishedWasDelivered /\ HoldInv(w)
    BY DEF OutboxInv
  <1>1. /\ phase[w] \in {"succeeded", "failed"} /\ status[e] = "processing"
        /\ \/ status' = [status EXCEPT ![e] = "published"] /\ phase[w] = "succeeded"
           \/ status' = [status EXCEPT ![e] = "failed"]
        /\ age' = [age EXCEPT ![e] = 0]
        /\ UNCHANGED <<attempts, delivered>>
    BY DEF WritePublished, WriteFailed
  <1>2. e \in Batch(w) /\ e \in Events
    BY <1>t, <1>1, BatchType DEF HoldInv
  <1>3. due' \in [Events -> Int]
    <2>1. CASE WritePublished(w)
      BY <1>t, <2>1 DEF WritePublished, TypeOK
    <2>2. CASE WriteFailed(w)
      <3>1. claimed[w][e] \in Nat /\ late[w] \in Nat
        BY <1>t, <1>2, OutboxAssumption DEF TypeOK
      <3>2. Backoff(claimed[w][e]) \in Int
        BY <3>1, BackoffType
      <3>3. AtLeast(Backoff(claimed[w][e]) - late[w], -MaxLatency) \in Int
        BY <3>1, <3>2, OutboxAssumption DEF AtLeast
      <3> QED
        BY <1>t, <2>2, <3>3 DEF WriteFailed, TypeOK
    <2> QED
      BY <2>1, <2>2
  <1>4. /\ status' \in [Events -> {"none", "pending", "processing", "published", "failed"}]
        /\ age' \in [Events -> Nat]
        /\ \A x \in Events \ {e} : status'[x] = status[x] /\ age'[x] = age[x]
        /\ status'[e] = "published" => phase[w] = "succeeded"
    BY <1>t, <1>1, <1>2 DEF TypeOK
  <1>5. PublishedWasDelivered'
    BY <1>t, <1>1, <1>2, <1>4 DEF PublishedWasDelivered, HoldInv
  <1> QED
    BY <1>1, <1>2, <1>3, <1>4, <1>5

LEMMA MarkPreserves ==
  ASSUME OutboxInv, Observe, NEW w \in Workers, Mark(w) \/ MarkLost(w)
  PROVE  OutboxInv'
  <1> DEFINE e == current[w]
  <1>t. TypeOK /\ \A v \in Workers : HoldInv(v)
    BY DEF OutboxInv
  <1>0. WritePublished(w) \/ WriteFailed(w)
    BY DEF Mark, MarkLost
  <1>1. ASSUME ~overran, NEW v \in Workers \ {w}
        PROVE  \A x \in Batch(v) : status'[x] = status[x] /\ age'[x] = age[x]
    BY <1>t, <1>0, <1>1, MarkWrites, BatchType DEF OutboxInv, ExclusiveUnlessOverrun
  <1>2. CASE EndCycle(w)
    <2>1. TypeOK'
      BY <1>t, <1>0, <1>2, MarkWrites, CycleEnded, NotOverran DEF TypeOK
    <2>2. ASSUME NEW v \in Workers
          PROVE  Batch(v)' \subseteq Batch(v) /\ HoldInv(v)'
      <3>1. CASE v = w
        BY <1>t, <1>2, <3>1, CycleEnded, IdleHolds
      <3>2. CASE v # w
        BY <1>t, <1>0, <1>1, <1>2, <3>2, CycleEnded, MarkWrites, OtherHolds
      <3> QED
        BY <3>1, <3>2
    <2> QED
      BY <1>0, <2>1, <2>2, MarkWrites, NoGain
  <1>3. CASE /\ claimed' = [claimed EXCEPT ![w][e] = 0]
             /\ current' = [current EXCEPT ![w] = NoEvent]
             /\ phase' = [phase EXCEPT ![w] = "publishing"]
             /\ UNCHANGED late
    <2>1. /\ claimed' \in [Workers -> [Events -> 0 .. MaxAttempts]]
          /\ claimed'[w][e] = 0
          /\ \A x \in Events \ {e} : claimed'[w][x] = claimed[w][x]
          /\ \A v \in Workers \ {w} : claimed'[v] = claimed[v]
      BY <1>t, <1>0, <1>3, MarkWrites, OutboxAssumption DEF TypeOK
    <2>2. /\ phase' \in [Workers -> {"idle", "claiming", "publishing", "succeeded", "failed"}]
          /\ phase'[w] = "publishing"
          /\ current' \in [Workers -> Events \cup {NoEvent}]
          /\ \A v \in Workers \ {w} : phase'[v] = phase[v] /\ current'[v] = current[v]
      BY <1>t, <1>3 DEF TypeOK
    <2>3. Batch(w)' = Batch(w) \ {e} /\ \A v \in Workers \ {w} : Batch(v)' = Batch(v)
      BY <2>1 DEF Batch
    <2>4. TypeOK'
      BY <1>t, <1>0, <1>3, <2>1, <2>2, MarkWrites, NotOverran DEF TypeOK
    <2>5. HoldInv(w)'
      <3>1. ~overran' => ~overran
        BY <1>t, NotOverran
      <3>2. ASSUME ~overran', NEW x \in Batch(w)'
            PROVE  status'[x] = "processing" /\ age'[x] = late'[w] /\ late'[w] <= Lease
        <4>1. x \in Batch(w) /\ x \in Events \ {e}
          BY <1>t, <2>3, <3>2, BatchType
        <4> QED
          BY <1>t, <1>0, <1>3, <3>1, <3>2, <4>1, MarkWrites DEF HoldInv
      <3> QED
        BY <2>2, <3>2 DEF HoldInv
    <2>6. ASSUME NEW v \in Workers \ {w} PROVE HoldInv(v)'
      BY <1>0, <1>1, <1>3, <2>2, <2>3, MarkWrites, OtherHolds
    <2> QED
      BY <1>0, <2>3, <2>4, <2>5, <2>6, MarkWrites, NoGain
  <1> QED
    BY <1>2, <1>3 DEF Mark, MarkLost

(* Time ages a row and its holder alike.                                   *)
LEMMA TickPreserves ==
  ASSUME OutboxInv, Observe, Tick
  PROVE  OutboxInv'
  <1>t. TypeOK /\ PublishedWasDelivered /\ \A v \in Workers : HoldInv(v)
    BY DEF OutboxInv
  <1>1. /\ due' = [e \in Events |-> IF status[e] = "none" THEN 0 ELSE AtLeast(due[e] - 1, -MaxLatency)]
        /\ age' = [e \in Events |->
                     IF status[e] = "processing" THEN AtMost(age[e] + 1, Lease + MaxLatency + 1) ELSE 0]
        /\ late' = [w \in Workers |->
                      IF phase[w] = "idle" THEN 0
                      ELSE AtMost(late[w] + 1, AtLeast(Lease + 1, MaxBackoff + MaxLatency))]
        /\ UNCHANGED <<status, attempts, delivered, phase, claimed, current>>
    BY DEF Tick
  <1>2. MaxBackoff \in Int
    BY BackoffType, OutboxAssumption DEF MaxBackoff
  <1>3. due' \in [Events -> Int] /\ age' \in [Events -> Nat]
    BY <1>t, <1>1, OutboxAssumption DEF TypeOK, AtLeast, AtMost
  <1>4. late' \in [Workers -> Nat]
    <2>1. \A w \in Workers : AtMost(late[w] + 1, AtLeast(Lease + 1, MaxBackoff + MaxLatency)) \in Nat
      BY <1>t, <1>2, OutboxAssumption DEF TypeOK, AtLeast, AtMost
    <2> QED
      BY <1>1, <2>1
  <1>5. TypeOK'
    BY <1>t, <1>1, <1>3, <1>4, NotOverran DEF TypeOK
  <1>6. \A w \in Workers : Batch(w)' = Batch(w)
    BY <1>1 DEF Batch
  <1>7. ASSUME NEW w \in Workers PROVE HoldInv(w)'
    <2>1. ASSUME ~overran', NEW e \in Batch(w)
          PROVE  status'[e] = "processing" /\ age'[e] = late'[w] /\ late'[w] <= Lease
      <3>1. /\ status[e] = "processing" /\ age[e] = late[w] /\ late[w] <= Lease
            /\ phase[w] # "idle" /\ e \in Events
        BY <1>t, <2>1, NotOverran, BatchType DEF HoldInv
      <3>2. ~(late'[w] > Lease)
        BY <1>t, <1>6, <2>1, NotOverran
      <3>3. /\ late[w] \in Nat
            /\ late'[w] = AtMost(late[w] + 1, AtLeast(Lease + 1, MaxBackoff + MaxLatency))
            /\ age'[e] = AtMost(late[w] + 1, Lease + MaxLatency + 1)
        BY <1>t, <1>1, <3>1 DEF TypeOK
      <3>4. late'[w] = late[w] + 1 /\ age'[e] = late[w] + 1 /\ late[w] + 1 <= Lease
        BY <1>2, <3>1, <3>2, <3>3, OutboxAssumption DEF AtMost, AtLeast
      <3> QED
        BY <1>1, <3>1, <3>4
    <2> QED
      BY <1>t, <1>1, <1>6, <2>1 DEF HoldInv
  <1>8. PublishedWasDelivered'
    BY <1>t, <1>1 DEF PublishedWasDelivered
  <1> QED
    BY <1>5, <1>6, <1>7, <1>8, NoGain

-------------------------------------------------------------------------------
LEMMA InitOutbox == Init => OutboxInv
  <1> SUFFICES ASSUME Init PROVE OutboxInv
    OBVIOUS
  <1>1. NoDelivery \in [Events -> 0 .. MaxAttempts] /\ \A e \in Events : NoDelivery[e] = 0
    BY OutboxAssumption DEF NoDelivery
  <1>2. TypeOK
    <2>1. overran \in BOOLEAN
      BY Zenon DEF Init
    <2>2. /\ status \in [Events -> {"none", "pending", "processing", "published", "failed"}]
          /\ attempts \in [Events -> 0 .. MaxAttempts]
          /\ due \in [Events -> Int] /\ age \in [Events -> Nat] /\ delivered \in [Events -> Nat]
      BY OutboxAssumption DEF Init
    <2>3. /\ phase \in [Workers -> {"idle", "claiming", "publishing", "succeeded", "failed"}]
          /\ late \in [Workers -> Nat]
          /\ claimed \in [Workers -> [Events -> 0 .. MaxAttempts]]
          /\ current \in [Workers -> Events \cup {NoEvent}]
      BY <1>1 DEF Init
    <2> QED
      BY <2>1, <2>2, <2>3 DEF TypeOK
  <1>3. \A w \in Workers : Batch(w) = {}
    BY <1>1 DEF Init, Batch
  <1> QED
    BY <1>2, <1>3 DEF Init, OutboxInv, HoldInv, PublishedWasDelivered, ExclusiveUnlessOverrun

LEMMA NextOutbox == OutboxInv /\ [Next]_vars => OutboxInv'
  <1> SUFFICES ASSUME OutboxInv, [Next]_vars PROVE OutboxInv'
    OBVIOUS
  <1>1. CASE UNCHANGED vars
    BY <1>1 DEF vars, rows, workerVars, OutboxInv, TypeOK, HoldInv, Batch,
                PublishedWasDelivered, ExclusiveUnlessOverrun
  <1>2. CASE Next
    <2>1. Observe
      BY <1>2 DEF Next
    <2>2. ASSUME NEW e \in Events, Insert(e) PROVE OutboxInv'
      BY <2>1, <2>2, InsertPreserves
    <2>3. ASSUME NEW w \in Workers, Begin(w) PROVE OutboxInv'
      BY <2>1, <2>3, BeginPreserves
    <2>4. ASSUME NEW w \in Workers, NEW batch \in SUBSET Events,
                 Claim(w, batch) \/ ClaimLost(w, batch)
          PROVE  OutboxInv'
      BY <2>1, <2>4, ClaimPreserves, ClaimLostPreserves
    <2>5. ASSUME NEW w \in Workers, ClaimNothing(w) \/ MarkRefused(w) \/ Stop(w)
          PROVE  OutboxInv'
      BY <2>1, <2>5, GivingUpPreserves DEF ClaimNothing, MarkRefused, Stop
    <2>6. ASSUME NEW w \in Workers, NEW e \in Events,
                 PublishSucceeds(w, e) \/ PublishFails(w, e)
          PROVE  OutboxInv'
      BY <2>1, <2>6, PublishPreserves
    <2>7. ASSUME NEW w \in Workers, Mark(w) \/ MarkLost(w) PROVE OutboxInv'
      BY <2>1, <2>7, MarkPreserves
    <2>8. CASE Tick
      BY <2>1, <2>8, TickPreserves
    <2> QED
      BY <1>2, <2>2, <2>3, <2>4, <2>5, <2>6, <2>7, <2>8 DEF Next
  <1> QED
    BY <1>1, <1>2

(* The inductive invariant holds in every behaviour of the outbox.         *)
THEOREM OutboxInvariantHolds == Spec => []OutboxInv
  BY InitOutbox, NextOutbox, PTL DEF Spec

(* ClaimRiskEvents never exceeds the attempt limit; all variables keep     *)
(* their types.                                                            *)
THEOREM OutboxTypeCorrect == Spec => []TypeOK
  <1>1. OutboxInv => TypeOK
    BY DEF OutboxInv
  <1> QED
    BY <1>1, OutboxInvariantHolds, PTL

(* MarkRiskEventPublished is only ever reached by a delivered event.       *)
THEOREM PublishedWasDeliveredHolds == Spec => []PublishedWasDelivered
  <1>1. OutboxInv => PublishedWasDelivered
    BY DEF OutboxInv
  <1> QED
    BY <1>1, OutboxInvariantHolds, PTL

(* The lease of ClaimRiskEvents keeps workers apart as long as none of     *)
(* them takes longer than the lease.                                       *)
THEOREM ExclusiveHolds == Spec => []ExclusiveUnlessOverrun
  <1>1. OutboxInv => ExclusiveUnlessOverrun
    BY DEF OutboxInv
  <1> QED
    BY <1>1, OutboxInvariantHolds, PTL

(* No step of any worker takes an event out of the state published: the    *)
(* claim does not select it and both marks ask for processing.             *)
THEOREM PublishedIsFinalHolds == Spec => PublishedIsFinal
  <1>1. ASSUME OutboxInv, [Next]_vars, NEW e \in Events, status[e] = "published"
        PROVE  status'[e] = "published"
    <2>1. CASE UNCHANGED status
      BY <1>1, <2>1
    <2>2. ASSUME NEW x \in Events, Insert(x) PROVE status'[e] = "published"
      BY <1>1, <2>2 DEF Insert, OutboxInv, TypeOK
    <2>3. ASSUME NEW w \in Workers, NEW batch \in SUBSET Events, Take(w, batch)
          PROVE  status'[e] = "published"
      BY <1>1, <2>3, TakenIsFree, TakeTypes
    <2>4. ASSUME NEW w \in Workers, WritePublished(w) \/ WriteFailed(w)
          PROVE  status'[e] = "published"
      BY <1>1, <2>4, MarkWrites
    <2> QED
      BY <1>1, <2>1, <2>2, <2>3, <2>4
      DEF Next, Begin, Claim, ClaimLost, ClaimNothing, PublishSucceeds, PublishFails,
          Mark, MarkLost, MarkRefused, Stop, Tick, vars, rows
  <1>2. OutboxInv /\ [Next]_vars =>
          [\A e \in Events : status[e] = "published" => status'[e] = "published"]_vars
    BY <1>1
  <1> QED
    BY <1>2, OutboxInvariantHolds, PTL DEF Spec, PublishedIsFinal

===============================================================================
