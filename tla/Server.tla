-------------------------------- MODULE Server ---------------------------------
(***************************************************************************)
(* The process of cmd/secureledger/main.go around Service: start, SIGTERM, *)
(* graceful shutdown with its deadline, a listener that fails, a crash     *)
(* and a restart over the durable repository, and with the in-memory       *)
(* repository the dispatcher that Service notifies.                        *)
(*                                                                         *)
(* A repository call that the process leaves behind when it crashes may    *)
(* still commit, even after the next process has started: it is an orphan. *)
(* When the process returns from run, the pool has been closed, which      *)
(* waits for the connections in use, so nothing can commit afterwards.     *)
(***************************************************************************)
EXTENDS Service, Sequences
LOCAL INSTANCE Functions

CONSTANT Capacity  \* of the dispatcher's channel

ASSUME ServerAssumption == Capacity \in Nat \ {0}

VARIABLES
  durable,    \* SECURELEDGER_STORE: TRUE for postgres, FALSE for memory
  proc,       \* "up", "stopping" (in server.Shutdown), "closing" (deferred calls), "down"
  exit,       \* how the last process ended
  cancelled,  \* whether the context of signal.NotifyContext is done
  orphans,    \* repository calls of a process that crashed
  queue, dispatched, dropped, running

process == <<durable, proc, exit, cancelled, orphans>>
channel == <<queue, dispatched, dropped, running>>
vars == <<ledger, handlers, limit, process, channel>>

Notifier == INSTANCE Dispatcher

ServerInit ==
  /\ Init
  /\ Notifier!Init
  /\ durable \in BOOLEAN
  /\ proc = "up"
  /\ exit = "none"
  /\ cancelled = FALSE
  /\ orphans = {}

-------------------------------------------------------------------------------
(* The listener accepts requests until Shutdown closes it.  One that is on *)
(* an accepted connection by then counts as received before.               *)
Accept(q, h) ==
  /\ proc = "up"
  /\ Receive(q, h)
  /\ UNCHANGED <<process, channel>>

Handle(q) ==
  /\ proc # "down"
  /\ HandlerStep(q)
  /\ UNCHANGED <<process, channel>>

Store(q) ==
  /\ (proc # "down" /\ stage[q] = "waiting") \/ q \in orphans
  /\ RepoStep(q)
  /\ UNCHANGED <<process, channel>>

(* Fault: every flagged success is announced, replays too.                 *)
AnnounceReplays(q) ==
  ~durable /\ reply[q].status = "ok" /\ req[q].kind = "transfer" /\ Flagged(req[q])

(* The notifier is nil with the durable repository, whose outbox already   *)
(* holds the event.                                                        *)
Announces(q) ==
  /\ ~durable
  /\ reply[q].status = "ok"
  /\ req[q].kind = "transfer"
  /\ Flagged(req[q])
  /\ ~Replayed(q)

(* The end of Service.Transfer and of the handler.                         *)
Finish(q) ==
  /\ proc # "down"
  /\ Complete(q)
  /\ IF Announces(q) THEN Notifier!Submit(q) ELSE UNCHANGED channel
  /\ UNCHANGED process

RunDispatcher ==
  /\ proc # "down" /\ ~durable
  /\ Notifier!Dispatch \/ Notifier!Return(cancelled)
  /\ UNCHANGED <<ledger, handlers, limit, process>>

-------------------------------------------------------------------------------
Become(p) == proc' = p /\ UNCHANGED <<ledger, handlers, limit, durable, orphans, channel>>

(* SIGINT or SIGTERM arrives; run notices and calls server.Shutdown.       *)
Signal == proc = "up" /\ ~cancelled /\ cancelled' = TRUE /\ Become("up") /\ UNCHANGED exit

Shutdown == proc = "up" /\ cancelled /\ Become("stopping") /\ UNCHANGED <<exit, cancelled>>

(* Faults: Shutdown without a deadline; Close in the place of Shutdown.    *)
ShutdownOnlyDrains ==
  /\ proc = "stopping"
  /\ InFlight = {} /\ exit' = "ok"
  /\ Become("closing") /\ UNCHANGED cancelled

ShutdownAtOnce == proc = "stopping" /\ exit' = "ok" /\ Become("closing") /\ UNCHANGED cancelled

(* Shutdown returns when no handler is left, or at its deadline.           *)
ShutdownReturns ==
  /\ proc = "stopping"
  /\ \/ InFlight = {} /\ exit' = "ok"
     \/ InFlight # {} /\ exit' = "failed"
  /\ Become("closing") /\ UNCHANGED cancelled

(* ListenAndServe returns an error: run returns without Shutdown.          *)
ServeFails == proc = "up" /\ exit' = "failed" /\ Become("closing") /\ UNCHANGED cancelled

(* The process ends and takes its handlers with it.                        *)
End ==
  /\ proc' = "down"
  /\ response' = [q \in Calls |-> IF q \in InFlight THEN Killed ELSE response[q]]
  /\ stage' = [q \in Calls |-> IF q \in InFlight THEN "answered" ELSE stage[q]]
  /\ UNCHANGED <<ledger, http, before, limit, durable, cancelled, channel>>

AtRepository == {q \in Calls : stage[q] = "waiting" /\ reply[q] = Repo!NoReply}

(* The deferred closeRepository, and main returns.  A call between two     *)
(* attempts holds no connection and does not delay it.                     *)
Exit == proc = "closing" /\ End /\ UNCHANGED <<exit, orphans>>

Crash ==
  /\ proc # "down"
  /\ End
  /\ exit' = "crashed"
  /\ orphans' = IF durable THEN orphans \cup AtRepository ELSE {}

(* The next process, perhaps with another configuration.                   *)
Restart ==
  /\ durable /\ proc = "down"
  /\ limit' \in Limits
  /\ proc' = "up" /\ exit' = "none" /\ cancelled' = FALSE
  /\ UNCHANGED <<ledger, handlers, durable, orphans, channel>>

Ended == proc = "down" /\ ~durable /\ UNCHANGED vars

ServerNext ==
  \/ \E q \in Calls :
       \/ \E h \in HTTPRequests : Accept(q, h)
       \/ Handle(q) \/ Store(q) \/ Finish(q)
  \/ RunDispatcher
  \/ Signal \/ Shutdown \/ ShutdownReturns \/ ServeFails \/ Exit \/ Crash \/ Restart \/ Ended

(***************************************************************************)
(* Fairness.  The goroutines of run and of the dispatcher keep running     *)
(* while the process does, the deadline of Shutdown is a timer, and the    *)
(* repository answers what it was asked (EveryCallReturns of PostgresStore *)
(* is that promise).  Handlers need not make progress.                     *)
(***************************************************************************)
Fairness ==
  /\ WF_vars(Shutdown)
  /\ WF_vars(ShutdownReturns)
  /\ WF_vars(Exit /\ (durable => AtRepository = {}))
  /\ \A q \in Calls : WF_vars(Store(q) /\ reply'[q] # Repo!NoReply)
  /\ WF_vars(RunDispatcher)

ServerSpec == ServerInit /\ [][ServerNext]_vars /\ Fairness

-------------------------------------------------------------------------------
(***************************************************************************)
(* Properties.                                                             *)
(***************************************************************************)

(* Submit never blocks a transfer, drops events when the channel is full   *)
(* and is not called for replays: as long as the process runs, each risk   *)
(* event whose transfer was answered is queued, dispatched or reported as  *)
(* dropped, in one place and once, and nothing that is not stored is       *)
(* announced.                                                              *)
EachNotifiedOnce ==
  LET all == dispatched \o queue \o dropped
  IN /\ IsInjective(all)
     /\ Range(all) \subseteq risks
     /\ proc # "down" /\ ~durable =>
          Range(all) = {q \in risks : stage[q] = "answered" /\ reply[q].status = "ok"}

(* A shutdown that reports success leaves no accepted request without its  *)
(* answer: run returns nil only when Shutdown saw every handler return.    *)
GracefulExit ==
  [][proc' = "down" /\ exit' = "ok" =>
       \A q \in Calls : response'[q] = Killed => response[q] = Killed]_vars

(* SIGTERM ends the process although handlers may never return, and a pool *)
(* with connections in use holds it up only while the repository works.    *)
SignalStops == cancelled ~> proc = "down"

(* A queued event is dispatched, unless the process is told to stop or     *)
(* ends.                                                                   *)
QueuedIsDispatched ==
  \A q \in Calls :
    q \in Range(queue) ~> (q \in Range(dispatched) \/ cancelled \/ proc # "up")

-------------------------------------------------------------------------------
(* The inductive invariant behind GracefulExit: success is decided at the  *)
(* end of Shutdown, and no handler runs from then on.                      *)
DrainedInv ==
  /\ stage \in [Calls -> {"idle", "from", "to", "account", "list", "apply", "waiting", "answered"}]
  /\ exit = "ok" => proc \in {"closing", "down"}
  /\ exit = "ok" /\ proc = "closing" => InFlight = {}

===============================================================================
