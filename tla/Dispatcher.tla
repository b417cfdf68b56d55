------------------------------ MODULE Dispatcher -------------------------------
(***************************************************************************)
(* The process-local notifier of internal/risk/dispatcher.go: a bounded    *)
(* channel that one goroutine empties.  An event is named by the call that *)
(* stored it.                                                              *)
(***************************************************************************)
EXTENDS Integers, Sequences

CONSTANT Capacity  \* of the channel: 128

VARIABLES
  queue,       \* the channel
  dispatched,  \* history: events Run took from it
  dropped,     \* history: events Submit found no room for
  running      \* whether the goroutine of Run is alive

vars == <<queue, dispatched, dropped, running>>

(* NewDispatcher, and the start of Run.                                    *)
Init ==
  /\ queue = <<>>
  /\ dispatched = <<>>
  /\ dropped = <<>>
  /\ running = TRUE

(* Submit never waits.                                                     *)
Submit(e) ==
  \/ /\ Len(queue) < Capacity
     /\ queue' = Append(queue, e)
     /\ UNCHANGED <<dispatched, dropped, running>>
  \/ /\ Len(queue) = Capacity
     /\ dropped' = Append(dropped, e)
     /\ UNCHANGED <<queue, dispatched, running>>

(* Fault: Run handles one event and returns.                               *)
DispatchOne ==
  /\ running
  /\ queue # <<>>
  /\ dispatched' = Append(dispatched, Head(queue))
  /\ queue' = Tail(queue)
  /\ running' = FALSE
  /\ UNCHANGED dropped

(* One turn of the loop of Run; select may choose it even when the context *)
(* is cancelled.                                                           *)
Dispatch ==
  /\ running
  /\ queue # <<>>
  /\ dispatched' = Append(dispatched, Head(queue))
  /\ queue' = Tail(queue)
  /\ UNCHANGED <<dropped, running>>

(* Run returns once the context is cancelled; what is queued stays there.  *)
Return(cancelled) ==
  /\ running
  /\ cancelled
  /\ running' = FALSE
  /\ UNCHANGED <<queue, dispatched, dropped>>

===============================================================================
