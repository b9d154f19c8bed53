---------------------------- MODULE OrderExecution ----------------------------
(***************************************************************************)
(* The path of an order in live and shadow mode: ExecutionOrchestrator      *)
(* carries out one intent at a time while, on the same event loop, the      *)
(* user stream, the manual-position closer and the reconciliation          *)
(* supervisor run between its awaits, and the exchange fills orders and     *)
(* lets the account's owner trade at any moment.                           *)
(*                                                                         *)
(* An action is what one coroutine does between two awaits, or a part of    *)
(* that; LoopHeld says when the orchestrator has not yet reached its next  *)
(* await, and nothing else on the loop runs then.  Positions are signed     *)
(* integers: one symbol, one-way mode.                                     *)
(***************************************************************************)
EXTENDS ExecutionPolicy, ExecutionLock, Reconciliation

CONSTANTS
  Symbol,            \* the session's symbol
  Closers,           \* close_manual_position tasks that may exist at once
  FailureThreshold,  \* _failure_threshold, 3 in the code
  MaxExecs,          \* bound: executions started, by anyone
  MaxFaults,         \* bound: journal appends that raise
  MaxLost,           \* bound: orders accepted whose reply is lost
  MaxUserTrades,     \* bound: trades by hand, or of a bracket that is reached
  MaxBrackets        \* bound: bracket placements the exchange accepts

ASSUME OrderAssumption ==
  /\ Symbols = {Symbol}
  /\ FailureThreshold \in Nat \ {0}
  /\ MaxExecs \in Nat /\ MaxFaults \in Nat
  /\ MaxLost \in Nat /\ MaxUserTrades \in Nat
  /\ MaxBrackets \in Nat

VARIABLES
  status,        \* ExecutionState.status
  streamFrozen,  \* ExecutionFreeze: the user stream is ignored, for good
  sup,           \* the supervisor task: looping, inside restart(), or gone
  lock,          \* ExecutionLock
  window,        \* the orchestrator's ExecutionWindow
  lastExec,      \* the newest execution_id acquire() has drawn
  orch,          \* submit_intent: where it is, for which execution, with what
  failures,      \* _consecutive_failures
  closer,        \* the close_manual_position tasks
  manualOpen,    \* _manual_open_flag and _pending_manual_close
  local,         \* the position SyncEngine holds
  exch,          \* the position the exchange holds
  working,       \* accepted orders not yet filled, as signed amounts
  orders,        \* history: every order the exchange accepted
  journal,       \* execution_journal, per execution
  faults, lost, userTrades   \* what the bounds count

lockVars == <<lock, window, lastExec>>
supVars  == <<status, streamFrozen, sup>>
bookVars == <<exch, working, orders, lost>>
logVars  == <<journal, faults>>
handVars == <<closer, manualOpen, userTrades>>
vars == <<lockVars, supVars, bookVars, logVars, handVars, orch, failures, local>>

Execs    == 1 .. MaxExecs
Statuses == {"BOOTSTRAPPING", "SYNCING", "READY", "DEGRADED", "FROZEN"}
Actions  == {"OPEN", "CLOSE"}

(* What an accepted order is: a market order or a bracket (stop and target). *)
OrderKinds == Actions \cup {"BRACKET"}

(* Where submit_intent is; at the Awaiting ones it has yielded the loop.   *)
Awaiting == {"idle", "wait", "confirm", "reflect", "restarting"}
Held     == {"plan", "step", "settle", "finalize", "verify", "mismatch", "fail"}

LoopHeld == orch.pc \in Held

PlanSteps == [action : Actions, side : HoldingSides, qty : Nat,
              reduceOnly : BOOLEAN, symbol : Symbols]
Targets   == [symbol : Symbols, side : HoldingSides \cup {"FLAT"}, qty : Nat]
             \cup {NoTarget}

(***************************************************************************)
(* Journal rows.  ExecutionFailed are the rows of event type                *)
(* EXECUTION_FAILED, of error type RUNTIME or FINALIZE_MISMATCH;            *)
(* SYSTEM_FROZEN, which carries no execution_id, is kept with the execution *)
(* that tripped the breaker.                                               *)
(***************************************************************************)
ExecutionFailed == {"FAILED_RUNTIME", "FAILED_MISMATCH"}

Events == {"STARTED", "CLOSE_SENT", "CLOSE_CONFIRMED", "OPEN_SENT",
           "OPEN_CONFIRMED", "COMPLETED", "BREAK_INCREMENT", "SYSTEM_FROZEN"}
          \cup ExecutionFailed

IdleOrch == [pc |-> "idle", exec |-> 0, target |-> NoTarget, plan |-> <<>>]
NoCloser == [pc |-> "none", exec |-> 0]

Size(p) == IF p < 0 THEN - p ELSE p

(* SyncEngine.position.get_all() *)
Positions(p) ==
  IF p = 0 THEN <<>>
  ELSE <<[symbol |-> Symbol, side |-> NetOf(p).side, size |-> Size(p)]>>

Init ==
  /\ status = "READY" /\ streamFrozen = FALSE /\ sup = "loop"
  /\ lock = IdleLock /\ window = ClosedWindow /\ lastExec = 0
  /\ orch = IdleOrch /\ failures = 0
  /\ closer = [c \in Closers |-> NoCloser] /\ manualOpen = "no"
  /\ local \in {0, 1} /\ exch = local
  /\ working = <<>> /\ orders = <<>>
  /\ journal = [e \in Execs |-> <<>>]
  /\ faults = 0 /\ lost = 0 /\ userTrades = 0

-----------------------------------------------------------------------------
(* Pieces shared by the actions.                                           *)

Goto(pc) == orch' = [orch EXCEPT !.pc = pc]

(* journal.append_event: it writes its row or raises (sqlite).             *)
Append1(event) ==
  /\ journal' = [journal EXCEPT ![orch.exec] = Append(@, event)]
  /\ UNCHANGED faults

AppendRaises == faults < MaxFaults /\ faults' = faults + 1 /\ UNCHANGED journal

(***************************************************************************)
(* trade.place_order, whose own guard lets a caller without a running      *)
(* execution through.  The exchange accepts the order and answers, accepts  *)
(* it and the answer is lost, or refuses it; it refuses a reduce-only order *)
(* on a position of the wrong side.                                        *)
(***************************************************************************)
Accept(exec, action, amount) ==
  /\ working' = Append(working, [amount |-> amount, reduceOnly |-> action = "CLOSE"])
  /\ orders' = Append(orders, [exec |-> exec, action |-> action])
  /\ UNCHANGED exch

Acceptable(action, amount) == action = "CLOSE" => (exch > 0 /\ amount < 0)
                                                  \/ (exch < 0 /\ amount > 0)

OrderAnswered(exec, action, amount) ==
  /\ Acceptable(action, amount)
  /\ Accept(exec, action, amount) /\ UNCHANGED lost

OrderRaises(exec, action, amount) ==
  \/ UNCHANGED bookVars
  \/ /\ Acceptable(action, amount) /\ lost < MaxLost
     /\ lost' = lost + 1 /\ Accept(exec, action, amount)

-----------------------------------------------------------------------------
(* submit_intent                                                           *)

(* Executions that may still be drawn by tasks already under way.          *)
Starting == (IF orch.pc = "wait" THEN 1 ELSE 0)
            + Cardinality({c \in Closers : closer[c].pc = "new"})
Room == lastExec + Starting < MaxExecs

(* Entry: refuse unless READY, refresh, sleep.                             *)
Submit ==
  /\ orch.pc = "idle" /\ status = "READY" /\ Room
  /\ Goto("wait")
  /\ UNCHANGED <<lockVars, supVars, bookVars, logVars, handVars, failures, local>>

(* After the sleep: the policy decides on what is known by now.            *)
TurnAway(i) ==
  LET d == EvaluateIntent(i, NetOf(local))
  IN  /\ orch.pc = "wait"
      /\ d.verdict # "ALLOW"
      /\ status' = IF d.verdict = "FREEZE" THEN "FROZEN" ELSE status
      /\ orch' = IdleOrch
      /\ UNCHANGED <<lockVars, streamFrozen, sup, bookVars, logVars, handVars,
                     failures, local>>

(* ExecutionBusy propagates to the caller.                                 *)
Busy ==
  /\ orch.pc = "wait" /\ ~ IsIdle(lock)
  /\ orch' = IdleOrch
  /\ UNCHANGED <<lockVars, supVars, bookVars, logVars, handVars, failures, local>>

(***************************************************************************)
(* acquire, window.open and the STARTED row come before the try block: an   *)
(* exception in the last two leaves the lock taken.                        *)
(***************************************************************************)
Begin(i) ==
  LET d    == EvaluateIntent(i, NetOf(local))
      exec == lastExec + 1
  IN  /\ orch.pc = "wait" /\ d.verdict = "ALLOW" /\ IsIdle(lock)
      /\ lastExec' = exec /\ lock' = Acquired(exec)
      /\ UNCHANGED <<supVars, bookVars, handVars, failures, local>>
      /\ \/ /\ ~ IsClosed(window)
            /\ orch' = IdleOrch
            /\ UNCHANGED <<window, logVars>>
         \/ /\ IsClosed(window) /\ window' = OpenedFor(exec)
            /\ AppendRaises
            /\ orch' = IdleOrch
         \/ /\ IsClosed(window) /\ window' = OpenedFor(exec)
            /\ journal' = [journal EXCEPT ![exec] = <<"STARTED">>]
            /\ UNCHANGED faults
            /\ orch' = [pc |-> "plan", exec |-> exec, target |-> d.target,
                        plan |-> <<>>]

(* _run up to the first step.  No await since Begin.                       *)
Plan ==
  LET positions == Positions(local)
  IN  /\ orch.pc = "plan"
      /\ IF Guard(lock, orch.exec)
           THEN lock' = InPhase(lock, "CONFIRMING")
           ELSE UNCHANGED lock
      /\ IF ~ Guard(lock, orch.exec) \/ PlanFails(positions, orch.target)
           THEN Goto("fail")
           ELSE orch' = [orch EXCEPT !.pc = "step",
                                     !.plan = BuildPlan(positions, orch.target)]
      /\ UNCHANGED <<window, lastExec, supVars, bookVars, logVars, handVars,
                     failures, local>>

(***************************************************************************)
(* _execute_step.  A CLOSE sells what the local view holds now, on the side *)
(* the plan recorded.  (It is skipped on an empty local view, which a CLOSE *)
(* cannot meet: it is the first step, and no await separates it from the   *)
(* plan.)  None separates the guard from the order either.                 *)
(***************************************************************************)
StepQty(step) == IF step.action = "CLOSE" THEN Size(local) ELSE step.qty

StepAmount(step) ==
  IF (step.action = "OPEN") = (step.side = "LONG")
    THEN StepQty(step) ELSE - StepQty(step)

StepPhase(step)  == IF step.action = "CLOSE" THEN "CLOSING" ELSE "OPENING"

SentEventSwapped(step) ==
  IF step.action = "CLOSE" THEN "CLOSE_CONFIRMED" ELSE "OPEN_CONFIRMED"
SentEvent(step) == IF step.action = "CLOSE" THEN "CLOSE_SENT" ELSE "OPEN_SENT"
ConfirmedEvent(step) ==
  IF step.action = "CLOSE" THEN "CLOSE_CONFIRMED" ELSE "OPEN_CONFIRMED"

StepDone == [orch EXCEPT !.pc = "step", !.plan = Tail(@)]

MayExecuteStale == Guard(lock, orch.exec)
MayExecute == Guard(lock, orch.exec) /\ status = "READY"

StepsOver ==
  /\ orch.pc = "step" /\ orch.plan = <<>>
  /\ Goto("finalize")
  /\ UNCHANGED <<lockVars, supVars, bookVars, logVars, handVars, failures, local>>

StepRefused ==
  /\ orch.pc = "step" /\ orch.plan # <<>> /\ ~ MayExecute
  /\ Goto("fail")
  /\ UNCHANGED <<lockVars, supVars, bookVars, logVars, handVars, failures, local>>

ExecuteStep ==
  /\ orch.pc = "step" /\ orch.plan # <<>> /\ MayExecute
  /\ LET step == Head(orch.plan)
     IN  /\ lock' = InPhase(lock, StepPhase(step))
         /\ \/ /\ OrderAnswered(orch.exec, step.action, StepAmount(step))
               /\ \/ Append1(SentEvent(step)) /\ Goto("confirm")
                  \/ AppendRaises /\ Goto("fail")
            \/ /\ OrderRaises(orch.exec, step.action, StepAmount(step))
               /\ Goto("fail") /\ UNCHANGED logVars
  /\ UNCHANGED <<window, lastExec, supVars, handVars, failures, local>>

(***************************************************************************)
(* _wait_position_confirm.  A poll guards the lock, then reads the size     *)
(* over REST; a failing read counts as size 0.  An OPEN is confirmed by any *)
(* position, a CLOSE by any size below the planned one.                    *)
(***************************************************************************)
SizeRead == {Size(exch), 0}

Confirms(step, size) ==
  IF step.action = "OPEN" THEN size > 0 ELSE size < step.qty

ConfirmPoll ==
  /\ orch.pc = "confirm" /\ Guard(lock, orch.exec)
  /\ \E size \in SizeRead : Confirms(Head(orch.plan), size)
  /\ Goto("settle")
  /\ UNCHANGED <<lockVars, supVars, bookVars, logVars, handVars, failures, local>>

ConfirmWaitsForever ==
  /\ orch.pc = "confirm" /\ ~ Guard(lock, orch.exec)
  /\ Goto("fail")
  /\ UNCHANGED <<lockVars, supVars, bookVars, logVars, handVars, failures, local>>

(* The guard raises, or the deadline passes on a poll that did not confirm. *)
ConfirmRaises ==
  /\ orch.pc = "confirm"
  /\ \/ ~ Guard(lock, orch.exec)
     \/ \E size \in SizeRead : ~ Confirms(Head(orch.plan), size)
  /\ Goto("fail")
  /\ UNCHANGED <<lockVars, supVars, bookVars, logVars, handVars, failures, local>>

(***************************************************************************)
(* _wait_sync_reflect: the first poll follows the confirmation at once      *)
(* (settle), later ones after a sleep (reflect).  No guard; the deadline    *)
(* gives up silently.  Then the CONFIRMED row.                             *)
(***************************************************************************)
Reflects(step, size) == IF step.action = "OPEN" THEN size > 0 ELSE size = 0

NotYetReflected ==
  /\ orch.pc = "settle"
  /\ \E size \in SizeRead : ~ Reflects(Head(orch.plan), size)
  /\ Goto("reflect")
  /\ UNCHANGED <<lockVars, supVars, bookVars, logVars, handVars, failures, local>>

StepConfirmed ==
  /\ \/ /\ orch.pc = "settle"
        /\ \E size \in SizeRead : Reflects(Head(orch.plan), size)
     \/ orch.pc = "reflect"
  /\ \/ Append1(ConfirmedEvent(Head(orch.plan))) /\ orch' = StepDone
     \/ AppendRaises /\ Goto("fail")
  /\ UNCHANGED <<lockVars, supVars, bookVars, handVars, failures, local>>

-----------------------------------------------------------------------------
(***************************************************************************)
(* LiveExecutionSystem.restart as the supervisor calls it on a frozen      *)
(* system: stop, sleep, start.  to_syncing() is a no-op on FROZEN, but      *)
(* RestartGuard.run sets BOOTSTRAPPING over it.  A snapshot that raises     *)
(* leaves BOOTSTRAPPING and no supervisor; a fatal drift freezes the user   *)
(* stream and start() returns before it restarts the supervisor.           *)
(* RestartGuard's lock is one nobody acquires.                             *)
(***************************************************************************)
RestartFails == status' = "BOOTSTRAPPING" /\ UNCHANGED <<streamFrozen, local>>

RestartRuns(looping) ==
  \E readOk, listed \in BOOLEAN :
    LET severity == Severity(Detect(exch, exch, readOk, listed, FALSE), TRUE)
    IN  /\ local' = exch
        /\ status' = CASE severity = "SAFE"        -> "SYNCING"
                       [] severity = "RECOVERABLE" -> "DEGRADED"
                       [] severity = "FATAL"       -> "FROZEN"
        /\ looping = (severity # "FATAL")
        /\ streamFrozen' = (streamFrozen \/ severity = "FATAL")

(* looping: whether the supervisor loops afterwards.                       *)
Restart(looping) == (RestartFails /\ ~ looping) \/ RestartRuns(looping)

(***************************************************************************)
(* _finalize, first half: mark_closing, then force_reconcile rebuilds the  *)
(* local view from a snapshot.  _handle_verify returns at once while any    *)
(* execution holds the lock; on a lock that was taken away it sets READY or *)
(* freezes and restarts (a recoverable drift may end either way).          *)
(***************************************************************************)
ReconcileRaises ==
  /\ orch.pc = "finalize"
  /\ window' = MarkClosing(window, orch.exec)
  /\ Goto("mismatch")
  /\ UNCHANGED <<lock, lastExec, supVars, bookVars, logVars, handVars, failures,
                 local>>

Reconcile ==
  /\ orch.pc = "finalize"
  /\ window' = MarkClosing(window, orch.exec)
  /\ local' = exch
  /\ \E readOk, listed \in BOOLEAN :
       LET severity == Severity(Detect(exch, exch, readOk, listed, FALSE),
                                IsIdle(lock))
       IN  \/ /\ severity = "SAFE" \/ ~ IsIdle(lock)
              /\ Goto("verify") /\ UNCHANGED status
           \/ /\ severity = "RECOVERABLE" /\ IsIdle(lock)
              /\ Goto("verify") /\ status' = "READY"
           \/ /\ severity # "SAFE" /\ IsIdle(lock)
              /\ Goto("restarting") /\ status' = "FROZEN"
  /\ UNCHANGED <<lock, lastExec, streamFrozen, sup, bookVars, logVars, handVars,
                 failures>>

VerifyRestart ==
  /\ orch.pc = "restarting"
  /\ \E looping \in BOOLEAN :
       /\ Restart(looping)
       /\ sup' = IF sup = "restarting" THEN sup ELSE IF looping THEN "loop" ELSE "gone"
  /\ Goto("verify")
  /\ UNCHANGED <<lockVars, bookVars, logVars, handVars, failures>>

(***************************************************************************)
(* _finalize, second half.  The COMPLETED row and the release share a try   *)
(* block whose exceptions are swallowed, so a row that cannot be written    *)
(* leaves the lock taken.  Either way _run goes on to reset the breaker.    *)
(***************************************************************************)
Reached == VerifyExecutionResult(orch.target, NetOf(local))

Returned == orch' = IdleOrch /\ failures' = 0
            /\ window' = Close(window, orch.exec)

Complete ==
  /\ orch.pc = "verify" /\ Reached
  /\ \/ Append1("COMPLETED") /\ lock' = Release(lock, orch.exec)
     \/ AppendRaises /\ UNCHANGED lock
  /\ Returned
  /\ UNCHANGED <<lastExec, supVars, bookVars, handVars, local>>

VerifyRaises ==
  /\ orch.pc = "verify" /\ ~ Reached
  /\ Goto("mismatch")
  /\ UNCHANGED <<lockVars, supVars, bookVars, logVars, handVars, failures, local>>

Mismatch ==
  /\ orch.pc = "mismatch"
  /\ \/ Append1("FAILED_MISMATCH") /\ lock' = Abort(lock) /\ Returned
     \/ AppendRaises /\ Goto("fail") /\ UNCHANGED <<lock, window, failures>>
  /\ UNCHANGED <<lastExec, supVars, bookVars, handVars, local>>

(***************************************************************************)
(* The except path of submit_intent.  n of its journal rows are written; if *)
(* one raises, everything after it is skipped, the abort included.         *)
(***************************************************************************)
TripsAfter(n) == n > FailureThreshold
Trips(n) == n >= FailureThreshold

FailureRows(n) ==
  IF Trips(n) THEN <<"FAILED_RUNTIME", "BREAK_INCREMENT", "SYSTEM_FROZEN">>
  ELSE <<"FAILED_RUNTIME", "BREAK_INCREMENT">>

Fail ==
  /\ orch.pc = "fail"
  /\ LET rows == FailureRows(failures + 1)
     IN  \E n \in 0 .. Len(rows) :
           /\ journal' = [journal EXCEPT ![orch.exec] = @ \o SubSeq(rows, 1, n)]
           /\ failures' = IF n = 0 THEN failures ELSE failures + 1
           /\ status' = IF n >= 2 /\ Trips(failures + 1) THEN "FROZEN" ELSE status
           /\ IF n = Len(rows)
                THEN /\ lock' = Abort(lock) /\ window' = ForceClose(window)
                     /\ UNCHANGED faults
                ELSE /\ faults < MaxFaults /\ faults' = faults + 1
                     /\ UNCHANGED <<lock, window>>
  /\ orch' = IdleOrch
  /\ UNCHANGED <<lastExec, streamFrozen, sup, bookVars, handVars, local>>

-----------------------------------------------------------------------------
(* The supervisor: its window is not the orchestrator's, so it is always   *)
(* closed and every tick is strict.                                        *)

SupervisorTick(drifts) ==
  LET severity == Severity(drifts, IsIdle(lock))
  IN  /\ ~ LoopHeld /\ sup = "loop"
      /\ status \notin {"FROZEN", "BOOTSTRAPPING"}
      /\ \/ /\ severity = "SAFE"
            /\ status' = "READY" /\ UNCHANGED <<streamFrozen, sup, local>>
         \/ /\ severity = "RECOVERABLE"
            /\ UNCHANGED <<streamFrozen, sup>>
            /\ \/ status' = "DEGRADED"
                  /\ local' = IF IsIdle(lock) THEN exch ELSE local
               \/ IsIdle(lock) /\ status' = "FROZEN" /\ UNCHANGED local
         \/ /\ severity = "FATAL" /\ ~ LetPass(drifts)
            /\ status' = "FROZEN" /\ sup' = "restarting"
            /\ streamFrozen' = (streamFrozen \/ (status = "READY" /\ IsIdle(lock)))
            /\ UNCHANGED local
      /\ UNCHANGED <<lockVars, bookVars, logVars, handVars, orch, failures>>

SupervisorRestart ==
  /\ ~ LoopHeld /\ sup = "restarting"
  /\ \E looping \in BOOLEAN :
       Restart(looping) /\ sup' = IF looping THEN "loop" ELSE "gone"
  /\ UNCHANGED <<lockVars, bookVars, logVars, handVars, orch, failures>>

-----------------------------------------------------------------------------
(***************************************************************************)
(* SyncEngine on a position report.  A position appearing on a flat local   *)
(* view while nothing executes counts as opened by hand: it is not applied, *)
(* and the next fill triggers its close.  (Whether the two-second window   *)
(* after a reduce-only fill suppresses this is left open.)                  *)
(***************************************************************************)
LooksManual == local = 0 /\ exch # 0 /\ IsIdle(lock) /\ manualOpen = "no"

StreamPosition ==
  /\ ~ LoopHeld /\ ~ streamFrozen
  /\ local' = exch
  /\ manualOpen' = IF exch = 0 THEN "no" ELSE manualOpen
  /\ UNCHANGED <<lockVars, supVars, bookVars, logVars, closer, userTrades, orch,
                 failures>>

StreamManualOpen ==
  /\ ~ LoopHeld /\ ~ streamFrozen /\ LooksManual
  /\ manualOpen' = "pending"
  /\ UNCHANGED <<lockVars, supVars, bookVars, logVars, closer, userTrades, orch,
                 failures, local>>

(* A FILLED report while a close is pending spawns close_manual_position.  *)
StreamFilled(c) ==
  /\ ~ LoopHeld /\ ~ streamFrozen /\ manualOpen = "pending" /\ Room
  /\ closer[c].pc = "none"
  /\ closer' = [closer EXCEPT ![c].pc = "new"]
  /\ manualOpen' = "flagged"
  /\ UNCHANGED <<lockVars, supVars, bookVars, logVars, userTrades, orch, failures,
                 local>>

(***************************************************************************)
(* close_manual_position.  Its except branch calls abort(), which has no   *)
(* owner check: a task that finds the lock busy resets the holder's lock.   *)
(***************************************************************************)
CloserDone(c) == closer' = [closer EXCEPT ![c] = NoCloser]

CloserBusy(c) ==
  /\ ~ LoopHeld /\ closer[c].pc = "new" /\ ~ IsIdle(lock)
  /\ lock' = Abort(lock)
  /\ CloserDone(c)
  /\ UNCHANGED <<window, lastExec, supVars, bookVars, logVars, manualOpen,
                 userTrades, orch, failures, local>>

CloserBegin(c) ==
  /\ ~ LoopHeld /\ closer[c].pc = "new" /\ IsIdle(lock)
  /\ lastExec' = lastExec + 1 /\ lock' = Acquired(lastExec + 1)
  /\ closer' = [closer EXCEPT ![c] = [pc |-> "stabilise", exec |-> lastExec + 1]]
  /\ UNCHANGED <<window, supVars, bookVars, logVars, manualOpen, userTrades, orch,
                 failures, local>>

(***************************************************************************)
(* After the stabilisation polls.  The quantity is the local size, or what  *)
(* the fill reported if the local view is flat.  execute_plan raises unless *)
(* READY or without a quantity; close_position reads the exchange and sells *)
(* against the side it finds there, placing nothing when there is no row.  *)
(* Every way out gives up the lock.                                        *)
(***************************************************************************)
CloseQty == IF local = 0 THEN 1 .. MaxSize ELSE {Size(local)}

ListedSide == IF exch > 0 THEN "LONG" ELSE IF exch < 0 THEN "SHORT" ELSE "none"

CloseAmount(qty) == IF ListedSide = "LONG" THEN - qty ELSE qty

ClosePosition(exec, qty) ==
  \/ OrderAnswered(exec, "CLOSE", CloseAmount(qty))
  \/ OrderRaises(exec, "CLOSE", CloseAmount(qty))

ValidPlan(qty) == qty > 0

ExecutePlan(exec, qty) ==
  status = "READY" /\ ValidPlan(qty) /\ ClosePosition(exec, qty)

CloserAct(c) ==
  /\ ~ LoopHeld /\ closer[c].pc = "stabilise"
  /\ \/ /\ Guard(lock, closer[c].exec)
        /\ \E qty \in CloseQty : ExecutePlan(closer[c].exec, qty)
     \/ UNCHANGED bookVars
  /\ lock' = Abort(lock)
  /\ CloserDone(c)
  /\ UNCHANGED <<window, lastExec, supVars, logVars, manualOpen, userTrades, orch,
                 failures, local>>

-----------------------------------------------------------------------------
(***************************************************************************)
(* The bracket tasks.  One is started by the reply to an OPEN that tells of *)
(* a fill, and uses the execution's id; one by the OPEN's FILLED report,    *)
(* and uses the client order id.  Each places the stop and the target       *)
(* without an await in between (one entry of orders for both).  The trade   *)
(* client's guard refuses everything while FROZEN, and an id that is not    *)
(* the running execution's, which a client order id never is; it lets any   *)
(* id pass when nothing runs.  A task runs at any moment after its OPEN, or *)
(* never: one that is refused, or finds no levels in the metadata, leaves   *)
(* nothing and does not come back.                                         *)
(***************************************************************************)
TradeGuardFrozenOnly(exec, byReport) == status # "FROZEN"
TradeGuard(exec, byReport) ==
  /\ status # "FROZEN"
  /\ IsIdle(lock) \/ (Guard(lock, exec) /\ ~ byReport)

Opened(exec) == \E i \in DOMAIN orders : orders[i] = [exec |-> exec, action |-> "OPEN"]

BracketsOf(execs) ==
  Cardinality({i \in DOMAIN orders : orders[i].action = "BRACKET" /\ orders[i].exec \in execs})

PlaceBrackets(exec, byReport) ==
  /\ ~ LoopHeld /\ Opened(exec) /\ TradeGuard(exec, byReport)
  /\ BracketsOf({exec}) < 2 /\ BracketsOf(Execs) < MaxBrackets
  /\ orders' = Append(orders, [exec |-> exec, action |-> "BRACKET"])
  /\ UNCHANGED <<lockVars, supVars, exch, working, lost, logVars, handVars, orch,
                 failures, local>>

-----------------------------------------------------------------------------
(* The exchange.                                                           *)

Without(s, i) == SubSeq(s, 1, i - 1) \o SubSeq(s, i + 1, Len(s))

Fillable(order) ==
  IF ~ order.reduceOnly THEN Size(order.amount)
  ELSE IF (order.amount > 0) = (exch < 0) /\ exch # 0
       THEN IF Size(order.amount) < Size(exch) THEN Size(order.amount) ELSE Size(exch)
       ELSE 0

Fill(i) ==
  \E k \in 1 .. Fillable(working[i]) :
    LET signed == IF working[i].amount > 0 THEN k ELSE - k
    IN  /\ exch' = exch + signed
        /\ working' = IF signed = working[i].amount THEN Without(working, i)
                      ELSE [working EXCEPT ![i].amount = @ - signed]
        /\ UNCHANGED <<lockVars, supVars, orders, lost, logVars,
                       handVars, orch, failures, local>>

(* The unfilled rest of a market order expires.                            *)
Expire(i) ==
  /\ working' = Without(working, i)
  /\ UNCHANGED <<lockVars, supVars, exch, orders, lost, logVars,
                 handVars, orch, failures, local>>

(***************************************************************************)
(* The account's owner trades by hand, or the market reaches a stop or a    *)
(* target: either way the position moves and nobody here ordered it.  (A    *)
(* position of more than MaxSize is left out.)                             *)
(***************************************************************************)
UserTrade(amount) ==
  /\ userTrades < MaxUserTrades /\ exch + amount \in - MaxSize .. MaxSize
  /\ userTrades' = userTrades + 1
  /\ exch' = exch + amount
  /\ UNCHANGED <<lockVars, supVars, working, orders, lost, logVars,
                 closer, manualOpen, orch, failures, local>>

Exchange ==
  \/ \E i \in DOMAIN working : Fill(i) \/ Expire(i)
  \/ \E amount \in {-1, 1} : UserTrade(amount)

-----------------------------------------------------------------------------

Orchestrate ==
  \/ \E i \in PolicyIntents : TurnAway(i) \/ Begin(i)
  \/ Busy \/ Plan \/ StepsOver \/ StepRefused \/ ExecuteStep
  \/ ConfirmPoll \/ ConfirmRaises \/ NotYetReflected \/ StepConfirmed
  \/ ReconcileRaises \/ Reconcile \/ VerifyRestart \/ Complete \/ VerifyRaises
  \/ Mismatch \/ Fail

CloserStep(c) == CloserBusy(c) \/ CloserBegin(c) \/ CloserAct(c)

Supervise ==
  \/ \E drifts \in {Detect(local, exch, readOk, listed, stale) :
                      readOk, listed, stale \in BOOLEAN} : SupervisorTick(drifts)
  \/ SupervisorRestart

Stream == StreamPosition \/ StreamManualOpen \/ \E c \in Closers : StreamFilled(c)

Next ==
  \/ Submit \/ Orchestrate \/ Supervise \/ Stream \/ Exchange
  \/ \E c \in Closers : CloserStep(c)
  \/ \E exec \in Execs, byReport \in BOOLEAN : PlaceBrackets(exec, byReport)

(***************************************************************************)
(* The event loop runs every ready coroutine: a submission and a manual     *)
(* close that can go on eventually do.  The exchange, the user and further  *)
(* submissions owe nothing.                                                *)
(***************************************************************************)
Fairness == /\ WF_vars(Orchestrate)
            /\ \A c \in Closers : WF_vars(CloserStep(c))

Spec == Init /\ [][Next]_vars
FairSpec == Spec /\ Fairness

-----------------------------------------------------------------------------
(* Every variable holds a value of its type.                               *)
LockType   == {IdleLock} \cup [owner : Nat \ {0}, phase : ActivePhases]
WindowType == {ClosedWindow} \cup [state : {"OPEN", "CLOSING"}, exec : Nat \ {0}]

SupTypeOK  == /\ status \in Statuses /\ streamFrozen \in BOOLEAN
              /\ sup \in {"loop", "restarting", "gone"}
LockTypeOK == lock \in LockType /\ window \in WindowType /\ lastExec \in Nat
OrchTypeOK == /\ orch \in [pc : Awaiting \cup Held, exec : Nat,
                           target : Targets, plan : Seq(PlanSteps)]
              /\ failures \in Nat
HandTypeOK == /\ closer \in [Closers -> [pc : {"none", "new", "stabilise"}, exec : Nat]]
              /\ manualOpen \in {"no", "pending", "flagged"}
              /\ userTrades \in 0 .. MaxUserTrades
BookTypeOK == /\ local \in Int /\ exch \in Int
              /\ working \in Seq([amount : Int, reduceOnly : BOOLEAN])
              /\ orders \in Seq([exec : Nat, action : OrderKinds])
              /\ lost \in 0 .. MaxLost
LogTypeOK  == journal \in [Execs -> Seq(Events)] /\ faults \in 0 .. MaxFaults

TypeOK == /\ SupTypeOK /\ LockTypeOK /\ OrchTypeOK
          /\ HandTypeOK /\ BookTypeOK /\ LogTypeOK

(***************************************************************************)
(* The purpose of the lock: on the exchange, executions never interleave.  *)
(* Once a market order of a newer execution was accepted, none of an older  *)
(* one is, although locks are aborted under running executions; and between *)
(* two market orders of one execution comes no order of another, not even a *)
(* bracket, which passes the trade client without any lock.                *)
(***************************************************************************)
Market(i) == orders[i].action \in Actions

OrdersNeverInterleave ==
  \A i, j \in DOMAIN orders :
    i <= j /\ Market(i) /\ Market(j) =>
      /\ orders[i].exec <= orders[j].exec
      /\ orders[i].exec = orders[j].exec =>
           \A k \in i .. j : orders[k].exec = orders[i].exec

(***************************************************************************)
(* The same as an abstract specification: whoever acts on the exchange      *)
(* holds the one right to, given out anew each time, and what follows up an *)
(* execution stays out of the way of any other's right.                    *)
(***************************************************************************)
Exclusive == INSTANCE ExclusiveExecution WITH
  holder <- lock.owner, newest <- lastExec,
  acted  <- [i \in DOMAIN orders |->
               [exec |-> orders[i].exec, follows |-> ~ Market(i)]]

ExclusiveSpec == Exclusive!Spec

(***************************************************************************)
(* The READY check of submit_intent is 200 ms old when the first order goes *)
(* out, and a whole fill older at the second: still no market order is     *)
(* placed by anyone in a state other than READY.  Brackets may go out in    *)
(* any state but FROZEN, the state in which nothing may be traded.         *)
(***************************************************************************)
MarketOrdersNeedReady ==
  [][orders' # orders =>
       \/ status = "READY"
       \/ orders'[Len(orders')].action = "BRACKET" /\ status # "FROZEN"]_vars

(***************************************************************************)
(* Without journal faults a taken lock always belongs to a coroutine that   *)
(* will give it up: the running submission or a stabilising manual close.  *)
(***************************************************************************)
Submitted == orch.pc \notin {"idle", "wait"}

LockHasLiveHolder ==
  faults = 0 /\ ~ IsIdle(lock) =>
    \/ Submitted /\ lock.owner = orch.exec
    \/ \E c \in Closers : closer[c].pc = "stabilise" /\ closer[c].exec = lock.owner

(***************************************************************************)
(* Without journal faults the window is open exactly during a submission's *)
(* execution, for that execution, whatever happens to the lock meanwhile:   *)
(* the next window.open never raises.                                      *)
(***************************************************************************)
WindowMatchesSubmission ==
  faults = 0 =>
    /\ ~ IsClosed(window) <=> Submitted
    /\ ~ IsClosed(window) => window.exec = orch.exec

(***************************************************************************)
(* A SENT row never lacks its order; and unless an append raised or an      *)
(* exchange reply was lost, no market order of a submission lacks its SENT  *)
(* row.  (Brackets have no rows.)                                          *)
(***************************************************************************)
RowsOf(e, rows) == Cardinality({i \in DOMAIN journal[e] : journal[e][i] \in rows})
OrdersOf(e) ==
  Cardinality({i \in DOMAIN orders : Market(i) /\ orders[i].exec = e})

JournalCoversOrders ==
  \A e \in Execs : journal[e] # <<>> =>
    LET sent == RowsOf(e, {"CLOSE_SENT", "OPEN_SENT"})
    IN  /\ sent <= OrdersOf(e)
        /\ faults = 0 /\ lost = 0 => sent = OrdersOf(e)

(***************************************************************************)
(* Without journal faults and between submissions, the circuit breaker's   *)
(* count can be told from the journal.  FailedRun: the newest executions    *)
(* that all have an EXECUTION_FAILED row.  The count is not their number:   *)
(* it counts those after the newest finalize mismatch among them, for a     *)
(* mismatch, journalled as failed, returns to its caller as a success and   *)
(* clears the count.  A trip is journalled exactly when the count is at the *)
(* threshold.                                                              *)
(***************************************************************************)
Journaled == {e \in Execs : journal[e] # <<>>}

HasFailed(e)     == RowsOf(e, ExecutionFailed) > 0
HasMismatched(e) == RowsOf(e, {"FAILED_MISMATCH"}) > 0

FailedRun == {e \in Journaled : \A f \in Journaled : f >= e => HasFailed(f)}

CountedRun == {e \in FailedRun : \A m \in FailedRun : m >= e => ~ HasMismatched(m)}

BreakerMatchesJournal ==
  faults = 0 /\ orch.pc = "idle" =>
    /\ failures = Cardinality(CountedRun)
    /\ failures >= FailureThreshold <=>
         \E e \in CountedRun : RowsOf(e, {"SYSTEM_FROZEN"}) > 0

(***************************************************************************)
(* Every submission returns to its caller, whatever the exchange, the       *)
(* stream, the journal and the other tasks do.                             *)
(***************************************************************************)
SubmissionReturns == orch.pc # "idle" ~> orch.pc = "idle"

=============================================================================
