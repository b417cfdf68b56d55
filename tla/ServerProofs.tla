------------------------------ MODULE ServerProofs -----------------------------
(***************************************************************************)
(* A successful shutdown cuts nobody off, for every number of requests.    *)
(***************************************************************************)
EXTENDS Server, TLAPS

(* What DrainedInv says of the process, apart from the type of stage.      *)
Drained ==
  /\ exit = "ok" => proc \in {"closing", "down"}
  /\ exit = "ok" /\ proc = "closing" => InFlight = {}

Stages == {"idle", "from", "to", "account", "list", "apply", "waiting", "answered"}

(* Whichever way a handler's step ends, its stage is one of the stages.    *)
LEMMA GoOnType ==
  ASSUME stage \in [Calls -> Stages], NEW q \in Calls, NEW verdict, NEW next \in Stages,
         GoOn(q, verdict, next)
  PROVE  stage' \in [Calls -> Stages]
  BY DEF GoOn, Advance, Write, Stages

(* A handler that takes a step is in flight and leaves the types alone.    *)
LEMMA HandlerStepType ==
  ASSUME stage \in [Calls -> Stages], NEW q \in Calls, HandlerStep(q)
  PROVE  stage' \in [Calls -> Stages] /\ q \in InFlight
<1>0. {"to", "apply"} \subseteq Stages
  BY DEF Stages
<1>1. CASE ReadSource(q)
  BY <1>0, <1>1, GoOnType DEF ReadSource, AfterRead, Write, InFlight, Stages
<1>2. CASE ReadDestination(q)
  BY <1>0, <1>2, GoOnType DEF ReadDestination, AfterRead, Write, InFlight, Stages
<1>3. CASE ReadAccount(q) \/ ReadList(q)
  BY <1>3 DEF ReadAccount, ReadList, Write, InFlight, Stages
<1>4. CASE Apply(q) \/ Panic(q)
  BY <1>4 DEF Apply, Panic, Advance, Write, InFlight, Stages
<1>. QED  BY <1>1, <1>2, <1>3, <1>4 DEF HandlerStep

(* The process starts up, without a status and with idle handlers.         *)
LEMMA InitDrained == ServerInit => DrainedInv
  BY DEF ServerInit, Init, DrainedInv

(* Every step keeps DrainedInv, and the one that ends a successful process *)
(* kills no handler.                                                       *)
LEMMA StepDrained ==
  ASSUME DrainedInv, [ServerNext]_vars
  PROVE  /\ DrainedInv'
         /\ proc' = "down" /\ exit' = "ok" =>
              \A q \in Calls : response'[q] = Killed => response[q] = Killed
<1>0. stage \in [Calls -> Stages] /\ Drained
  BY DEF DrainedInv, Drained, Stages
<1>. DEFINE Spared == proc' = "down" /\ exit' = "ok" =>
                        \A q \in Calls : response'[q] = Killed => response[q] = Killed
<1>. SUFFICES stage' \in [Calls -> Stages] /\ Drained' /\ Spared
  BY DEF DrainedInv, Drained, Stages
<1>1. ASSUME NEW q \in Calls, NEW h \in HTTPRequests, Accept(q, h)
      PROVE  stage' \in [Calls -> Stages] /\ Drained' /\ Spared
  <2>1. proc = "up" /\ proc' = proc /\ exit' = exit
    BY <1>1 DEF Accept, process
  <2>2. stage' \in [Calls -> Stages]
    <3>1. FirstStage[h.input.kind] \in Stages
      BY ServiceAssumption DEF FirstStage, Stages
    <3>. QED  BY <1>0, <1>1, <3>1, GoOnType DEF Accept, Receive
  <2>. QED  BY <1>0, <2>1, <2>2 DEF Drained
<1>2. ASSUME NEW q \in Calls, Handle(q)
      PROVE  stage' \in [Calls -> Stages] /\ Drained' /\ Spared
  <2>1. proc # "down" /\ proc' = proc /\ exit' = exit
    BY <1>2 DEF Handle, process
  <2>2. stage' \in [Calls -> Stages] /\ q \in InFlight
    BY <1>0, <1>2, HandlerStepType DEF Handle
  <2>. QED  BY <1>0, <2>1, <2>2 DEF Drained
<1>3. ASSUME NEW q \in Calls, Store(q)
      PROVE  stage' \in [Calls -> Stages] /\ Drained' /\ Spared
  BY <1>0, <1>3 DEF Store, RepoStep, handlers, process, Drained, InFlight
<1>4. ASSUME NEW q \in Calls, Finish(q)
      PROVE  stage' \in [Calls -> Stages] /\ Drained' /\ Spared
  <2>1. proc # "down" /\ proc' = proc /\ exit' = exit
    BY <1>4 DEF Finish, process
  <2>2. stage' \in [Calls -> Stages] /\ q \in InFlight
    BY <1>0, <1>4 DEF Finish, Complete, Write, InFlight, Stages
  <2>. QED  BY <1>0, <2>1, <2>2 DEF Drained
<1>5. CASE RunDispatcher
  BY <1>0, <1>5 DEF RunDispatcher, handlers, process, Drained, InFlight
<1>6. CASE Signal \/ Shutdown \/ ServeFails
  BY <1>0, <1>6 DEF Signal, Shutdown, ServeFails, Become, handlers, Drained, InFlight
<1>7. CASE ShutdownReturns
  BY <1>0, <1>7 DEF ShutdownReturns, Become, handlers, Drained, InFlight
<1>8. CASE Exit
  <2>1. stage' \in [Calls -> Stages]
    BY <1>0, <1>8 DEF Exit, End, Stages
  <2>2. Drained'
    BY <1>0, <1>8 DEF Exit, End, Drained
  <2>3. Spared
    BY <1>0, <1>8 DEF Exit, End, Drained
  <2>. QED  BY <2>1, <2>2, <2>3
<1>9. CASE Crash
  BY <1>0, <1>9 DEF Crash, End, Drained, Stages
<1>10. CASE Restart
  BY <1>0, <1>10 DEF Restart, handlers, Drained
<1>11. CASE Ended \/ UNCHANGED vars
  BY <1>0, <1>11 DEF Ended, vars, handlers, process, Drained, InFlight
<1>. QED
  BY <1>1, <1>2, <1>3, <1>4, <1>5, <1>6, <1>7, <1>8, <1>9, <1>10, <1>11 DEF ServerNext

(* The invariant of the shutdown.                                          *)
THEOREM DrainedHolds == ServerSpec => []DrainedInv
  BY InitDrained, StepDrained, PTL DEF ServerSpec

(* run returns nil only if no accepted request was left without an answer, *)
(* whatever handlers, clients and signals do.                              *)
THEOREM GracefulExitHolds == ServerSpec => GracefulExit
<1>1. DrainedInv /\ [ServerNext]_vars =>
        [proc' = "down" /\ exit' = "ok" =>
           \A q \in Calls : response'[q] = Killed => response[q] = Killed]_vars
  BY StepDrained
<1>. QED  BY <1>1, DrainedHolds, PTL DEF ServerSpec, GracefulExit

===============================================================================
