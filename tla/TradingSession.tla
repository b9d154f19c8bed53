--------------------------- MODULE TradingSession ---------------------------
(***************************************************************************)
(* A live trading session: the API's start, stop and symbol requests, the   *)
(* thread of the LiveRunner that turns candles into orders, the threads     *)
(* that switch the symbol, and the intents of the websocket and the         *)
(* strategy that queue for the session's execution_lock.                   *)
(*                                                                         *)
(* Coroutines share the event loop, which a route that joins a thread       *)
(* blocks; threads run at any time.  An execution is one step here:         *)
(* OrderExecution models it.                                               *)
(***************************************************************************)
EXTENDS Integers, Sequences, FiniteSets

CONSTANTS
  Symbols,      \* trading symbols
  NoSymbol,     \* no symbol
  Switchers,    \* threads that may switch the symbol
  WsIntents,    \* ids of the intents sent over the websocket
  MaxRequests,  \* bound on requests to start, to stop or to switch the symbol
  MaxTasks      \* bound on intents that reach the session

ASSUME SymbolsAssumption == NoSymbol \notin Symbols
ASSUME IntentsAssumption == "strategy" \notin WsIntents
ASSUME BoundsAssumption  == {MaxRequests, MaxTasks} \subseteq Nat

VARIABLES
  status,      \* session.status
  attached,    \* _execution_attached
  config,      \* config.symbol
  active,      \* active_symbol
  pending,     \* pending_symbol
  market,      \* the symbol of session.market, or NoSymbol
  runners,     \* the LiveRunner threads, oldest first
  current,     \* index of session.runner, or 0
  phantom,     \* strategy_engine.position is not None
  switchers,   \* what each switching thread does
  switchLock,  \* a thread holds _symbol_switch_lock
  starting,    \* where the start route is
  stopping,    \* where the stop route is, and the runner it joins
  tasks,       \* coroutines that inject an intent, oldest first
  lockedBy,    \* index of the task that holds execution_lock, or 0
  processed,   \* processed_intents
  held,        \* symbols in which the exchange holds a position
  seen,        \* the sync engine sees a position, in some symbol
  requests,    \* how many requests there were
  wanted,      \* history: the symbol asked for last, or NoSymbol once requests overlap
  failed       \* history: the load that failed since a market was last built, or "no"

symbolVars == <<config, active, pending, market>>
runnerVars == <<runners, current, phantom>>
routeVars  == <<status, attached, starting, stopping>>
switchVars == <<switchers, switchLock>>
intentVars == <<tasks, lockedBy, processed>>
positionVars == <<held, seen>>
historyVars == <<wanted, failed>>
countVars  == <<requests, historyVars>>
vars == <<symbolVars, runnerVars, routeVars, switchVars, intentVars, positionVars,
          countVars>>

-----------------------------------------------------------------------------
NoSwitch  == [pc |-> "idle", to |-> NoSymbol, old |-> 0, locks |-> FALSE]
NotStarting == [pc |-> "no", symbol |-> NoSymbol]
NotStopping == [pc |-> "no", runner |-> 0]

NewRunner(symbol) == [symbol |-> symbol, pc |-> "new", on |-> FALSE]

Init ==
  /\ status = "CREATED" /\ attached = FALSE
  /\ config \in Symbols /\ active = config /\ wanted = config
  /\ pending = NoSymbol /\ market = NoSymbol
  /\ runners = <<>> /\ current = 0 /\ phantom = FALSE
  /\ switchers = [t \in Switchers |-> NoSwitch] /\ switchLock = FALSE
  /\ starting = NotStarting /\ stopping = NotStopping
  /\ tasks = <<>> /\ lockedBy = 0 /\ processed = {}
  /\ held = {} /\ seen = FALSE
  /\ requests = 0 /\ failed = "no"

-----------------------------------------------------------------------------
LoopBusy == starting.pc # "no" \/ stopping.pc \in {"joining", "joiningAgain"}
Switching == \E t \in Switchers : switchers[t].pc # "idle"
Routing   == starting.pc # "no" \/ stopping.pc # "no"

_hasOpenPosition == phantom \/ seen
IsAlive(r) == r # 0 /\ runners[r].pc # "ended"

(* runner.stop(), which a runner that has not begun yet undoes.            *)
StoppedNever(r) == runners
Stopped(r) ==
  IF r = 0 THEN runners ELSE [runners EXCEPT ![r].on = FALSE]
StopIsLost(r) == r # 0 /\ runners[r].pc = "new"

(***************************************************************************)
(* A join with a timeout returns when the thread has ended, or later than   *)
(* the timeout while it is in a bar or has not noticed that it should stop. *)
(* A runner that waits for a candle looks every second.                    *)
(***************************************************************************)
JoinReturns(r) == IsAlive(r) => runners[r].pc # "idle" \/ runners[r].on

(***************************************************************************)
(* Requests overlap when one comes while a switch, a start or a stop is     *)
(* under way, when the runner it stops has not begun, or when a start finds *)
(* a live runner but another symbol stored.  wanted tells nothing from then *)
(* on; README.md says what the code then does.  Nor does it when a symbol   *)
(* that a later request superseded is applied, or outlasts a start: that    *)
(* request's load failed, and it did not withdraw what was parked.         *)
(***************************************************************************)
Superseded == pending \notin {NoSymbol, wanted}
Wanted(symbol, overlaps) ==
  wanted' = IF overlaps \/ wanted = NoSymbol THEN NoSymbol ELSE symbol

-----------------------------------------------------------------------------
(* LiveRunner.                                                             *)

Begin(r) ==
  /\ runners[r].pc = "new"
  /\ runners' = [runners EXCEPT ![r].pc = "idle", ![r].on = TRUE]
  /\ status' = "RUNNING"
  /\ UNCHANGED <<symbolVars, current, phantom, attached, starting, stopping, switchVars,
                  intentVars, positionVars, countVars>>

NewTask(id, symbol) == [id |-> id, symbol |-> symbol, pc |-> "waiting"]

(* After a bar the runner looks whether it was stopped.                    *)
BarDone(r) ==
  [runners EXCEPT ![r].pc = IF runners[r].on THEN "idle" ELSE "ended"]

(* _manage_position on a candle that reaches the stop or the target.       *)
LevelReached(r) ==
  /\ runners[r].pc = "idle" /\ phantom
  /\ phantom' = FALSE
  /\ runners' = BarDone(r)
  /\ UNCHANGED <<symbolVars, current, routeVars, switchVars, intentVars, positionVars,
                  countVars>>

(***************************************************************************)
(* A candle with a signal: DualEngine sets its position before the order is *)
(* sent; send_order takes the configuration's symbol of this moment, not    *)
(* the candle's.  Sizing may raise, which ends the bar.                     *)
(***************************************************************************)
SizingRaises(r) == runners' = BarDone(r) /\ UNCHANGED tasks

SendOrder(r) ==
  /\ Len(tasks) < MaxTasks
  /\ tasks' = Append(tasks, NewTask("strategy", config))
  /\ runners' = [runners EXCEPT ![r].pc = "sent"]

Signal(r) ==
  /\ runners[r].pc = "idle" /\ ~ phantom
  /\ phantom' = TRUE
  /\ SendOrder(r) \/ SizingRaises(r)
  /\ UNCHANGED <<symbolVars, current, routeVars, switchVars, lockedBy, processed,
                  positionVars, countVars>>

(* The result, an error, or the timeout of submit_timeout_s: all leave the  *)
(* engine's position as it is, and the order on its way.                   *)
SendReturns(r) ==
  /\ runners[r].pc = "sent"
  /\ runners' = BarDone(r)
  /\ UNCHANGED <<symbolVars, current, phantom, routeVars, switchVars, intentVars,
                  positionVars, countVars>>

End(r) ==
  /\ runners[r].pc = "idle" /\ ~ runners[r].on
  /\ runners' = [runners EXCEPT ![r].pc = "ended"]
  /\ UNCHANGED <<symbolVars, current, phantom, routeVars, switchVars, intentVars,
                  positionVars, countVars>>

Runner(r) ==
  Begin(r) \/ Signal(r) \/ LevelReached(r) \/ SendReturns(r) \/ End(r)

-----------------------------------------------------------------------------
(***************************************************************************)
(* _apply_symbol_switch: the symbol first; then, with a market, the old     *)
(* runner is stopped and joined.  The check that precedes it and these      *)
(* assignments wait for nothing, and are one step.                         *)
(***************************************************************************)
ApplySwitch(t, symbol, locks) ==
  /\ config' = symbol /\ active' = symbol
  /\ Wanted(symbol, Switching \/ Routing \/ StopIsLost(current) \/ (locks /\ Superseded))
  /\ IF market = NoSymbol
     THEN /\ phantom' = FALSE
          /\ UNCHANGED <<switchers, switchLock, runners>>
     ELSE /\ switchers' = [switchers EXCEPT ![t] = [pc |-> "joining", to |-> symbol,
                                                   old |-> current, locks |-> locks]]
          /\ switchLock' = (switchLock \/ locks)
          /\ runners' = Stopped(current)
          /\ UNCHANGED phantom

(* request_symbol_change, called in a thread of the pool without the lock.  *)
RequestKeepsPending(t, symbol) ==
  /\ switchers[t].pc = "idle" /\ requests < MaxRequests
  /\ requests' = requests + 1
  /\ IF symbol # active /\ ~ _hasOpenPosition
     THEN /\ ApplySwitch(t, symbol, FALSE)
          /\ pending' = IF market = NoSymbol THEN NoSymbol ELSE pending
     ELSE /\ pending' = IF symbol = active THEN pending ELSE symbol
          /\ Wanted(symbol, Switching \/ Routing)
          /\ UNCHANGED <<config, active, runners, phantom, switchers, switchLock>>
  /\ UNCHANGED <<market, current, routeVars, intentVars, positionVars, failed>>
Request(t, symbol) ==
  /\ switchers[t].pc = "idle" /\ requests < MaxRequests
  /\ requests' = requests + 1
  /\ IF symbol # active /\ ~ _hasOpenPosition
     THEN /\ ApplySwitch(t, symbol, FALSE)
          /\ pending' = IF market = NoSymbol THEN NoSymbol ELSE pending
     ELSE /\ pending' = IF symbol = active THEN NoSymbol ELSE symbol
          /\ Wanted(symbol, Switching \/ Routing)
          /\ UNCHANGED <<config, active, runners, phantom, switchers, switchLock>>
  /\ UNCHANGED <<market, current, routeVars, intentVars, positionVars, failed>>

(* _try_apply_pending_symbol_impl, in the thread that a runner's bar starts. *)
TryApplyPending(t) ==
  /\ switchers[t].pc = "idle" /\ ~ switchLock
  /\ \E r \in DOMAIN runners : runners[r].pc # "new"
  /\ pending # NoSymbol /\ ~ _hasOpenPosition
  /\ pending' = NoSymbol
  /\ ApplySwitch(t, pending, TRUE)
  /\ UNCHANGED <<market, current, routeVars, intentVars, positionVars,
                 requests, failed>>

(***************************************************************************)
(* The old runner was joined, its market stopped, and the new one loads its *)
(* history over REST.  If that raises, the switch ends there: its symbol is *)
(* written, the old market, the stopped runner and the strategy's position  *)
(* stay, and so does what is parked.                                       *)
(***************************************************************************)
SwitchDone(t) ==
  /\ switchers[t].pc = "joining" /\ JoinReturns(switchers[t].old)
  /\ switchers' = [switchers EXCEPT ![t] = NoSwitch]
  /\ switchLock' = (switchLock /\ ~ switchers[t].locks)
  /\ UNCHANGED <<config, active, routeVars, intentVars, positionVars, requests, wanted>>

ReplaceFails(t) ==
  /\ SwitchDone(t) /\ failed' = "switch"
  /\ UNCHANGED <<pending, market, runnerVars>>

(* With its history everything is replaced.  A request then forgets what is *)
(* pending by now.                                                         *)
Replace(t) ==
  /\ SwitchDone(t) /\ failed' = "no"
  /\ pending' = IF switchers[t].locks THEN pending ELSE NoSymbol
  /\ market' = switchers[t].to
  /\ phantom' = FALSE
  /\ runners' = Append(runners, NewRunner(switchers[t].to))
  /\ current' = Len(runners) + 1

(* The dashboard's symbol goes to every session: for this one, a request.  *)
DashboardSymbol(t) == \E symbol \in Symbols : Request(t, symbol)

Switcher(t) ==
  DashboardSymbol(t) \/ TryApplyPending(t) \/ Replace(t) \/ ReplaceFails(t)

-----------------------------------------------------------------------------
(***************************************************************************)
(* The start route: the stored symbol goes to the configuration; a session  *)
(* that is not RUNNING starts; LiveService.start returns if a runner lives, *)
(* else it builds market, session and runner without awaiting.  The stored  *)
(* symbol may be any: a request for one session stores it and then fails.   *)
(***************************************************************************)
(* _attach_execution_stack, once in a session's life: the executor and its  *)
(* execution system, an orchestrator with a window and a journal of its     *)
(* own, DualEngine and its adapter.  Whatever raises leaves it unattached.  *)
AttachExecutionStack == attached' = TRUE
AttachRaises == ~ attached /\ attached' = FALSE

CanStart == status \in {"CREATED", "READY", "RUNNING", "STOPPED"}

Start(stored) ==
  /\ ~ LoopBusy /\ requests < MaxRequests
  /\ requests' = requests + 1 /\ config' = stored
  /\ \/ /\ CanStart /\ AttachExecutionStack
        /\ status' = "RUNNING"
        /\ starting' = IF IsAlive(current) THEN NotStarting
                       ELSE [pc |-> "loading", symbol |-> stored]
     \/ /\ AttachRaises \/ (~ CanStart /\ UNCHANGED attached)
        /\ status' = "ERROR"
        /\ UNCHANGED starting
  /\ Wanted(IF starting' = NotStarting \/ pending # NoSymbol THEN wanted ELSE stored,
            \/ Switching \/ Routing
            \/ IF starting' = NotStarting THEN stored # config ELSE Superseded)
  /\ UNCHANGED <<active, pending, market, runnerVars, stopping, switchVars, intentVars,
                  positionVars, failed>>

(* The market of a start loads its history too.  If that raises, the start  *)
(* route ends with the symbol stored and the session RUNNING, without a     *)
(* new market or runner.                                                   *)
StartMarketFails ==
  /\ starting.pc = "loading"
  /\ starting' = NotStarting /\ failed' = "start"
  /\ UNCHANGED <<symbolVars, runnerVars, status, attached, stopping, switchVars, intentVars,
                  positionVars, requests, wanted>>

StartMarket ==
  /\ starting.pc = "loading"
  /\ starting' = [starting EXCEPT !.pc = "building"]
  /\ market' = starting.symbol
  /\ UNCHANGED <<config, active, pending, runnerVars, status, attached, stopping,
                  switchVars, intentVars, positionVars, countVars>>

(* build takes the symbol of the new market, whatever was switched since   *)
(* it began to load.                                                       *)
Build(symbol) == active' = symbol /\ config' = symbol /\ status' = "READY"

(* build and LiveRunner.start.                                             *)
StartRunner ==
  /\ starting.pc = "building"
  /\ starting' = NotStarting /\ Build(starting.symbol)
  /\ runners' = Append(runners, NewRunner(starting.symbol))
  /\ current' = Len(runners) + 1 /\ failed' = "no"
  /\ UNCHANGED <<pending, market, phantom, attached, stopping, switchVars, intentVars,
                  positionVars, requests, wanted>>

(* The stop route: joins the runner, awaits the execution system, and runs  *)
(* session.stop, which joins once more.                                    *)
JoinCurrent(pc) ==
  /\ runners' = Stopped(current)
  /\ stopping' = [pc |-> pc, runner |-> current]
  /\ Wanted(wanted, StopIsLost(current) \/ Switching)
  /\ UNCHANGED <<symbolVars, current, phantom, status, attached, starting, switchVars,
                  intentVars, positionVars, failed>>

Stop ==
  /\ ~ LoopBusy /\ stopping.pc = "no" /\ requests < MaxRequests
  /\ requests' = requests + 1
  /\ JoinCurrent("joining")

StopSystem ==
  /\ stopping.pc = "joining" /\ JoinReturns(stopping.runner)
  /\ stopping' = [stopping EXCEPT !.pc = "awaiting"]
  /\ UNCHANGED <<symbolVars, runnerVars, status, attached, starting, switchVars,
                  intentVars, positionVars, countVars>>

StopSession ==
  /\ ~ LoopBusy /\ stopping.pc = "awaiting"
  /\ JoinCurrent("joiningAgain")
  /\ UNCHANGED requests

StopDone ==
  /\ stopping.pc = "joiningAgain" /\ JoinReturns(stopping.runner)
  /\ status' = "STOPPED"
  /\ stopping' = NotStopping
  /\ UNCHANGED <<symbolVars, runnerVars, attached, starting, switchVars, intentVars,
                  positionVars, countVars>>

Routes == \/ \E symbol \in Symbols : Start(symbol)
          \/ StartMarket \/ StartMarketFails \/ StartRunner
          \/ Stop \/ StopSystem \/ StopSession \/ StopDone

-----------------------------------------------------------------------------
(* Intents.  The websocket marks an id before it queues for the lock, so a  *)
(* copy of the message is dropped whatever becomes of the first.           *)
WsMessageMarksLate(id, symbol) ==
  /\ ~ LoopBusy /\ id \notin processed /\ Len(tasks) < MaxTasks
  /\ tasks' = Append(tasks, NewTask(id, symbol))
  /\ UNCHANGED <<symbolVars, runnerVars, routeVars, switchVars, lockedBy, processed,
                  positionVars, countVars>>
WsMessage(id, symbol) ==
  /\ ~ LoopBusy /\ id \notin processed /\ Len(tasks) < MaxTasks
  /\ processed' = processed \cup {id}
  /\ tasks' = Append(tasks, NewTask(id, symbol))
  /\ UNCHANGED <<symbolVars, runnerVars, routeVars, switchVars, lockedBy, positionVars,
                  countVars>>

(***************************************************************************)
(* async with execution_lock, and inject_intent up to its first await: the  *)
(* symbol guard, the daily drawdown, and the error of a session without an  *)
(* execution stack give the lock up at once.                               *)
(***************************************************************************)
AcquireAnyway(i) ==
  /\ ~ LoopBusy /\ tasks[i].pc = "waiting"
  /\ \/ /\ attached /\ tasks[i].symbol = active
        /\ lockedBy' = i
        /\ tasks' = [tasks EXCEPT ![i].pc = "injecting"]
     \/ /\ tasks' = [tasks EXCEPT ![i].pc = "dropped"]
        /\ UNCHANGED lockedBy
  /\ UNCHANGED <<symbolVars, runnerVars, routeVars, switchVars, processed, positionVars,
                  countVars>>
Acquire(i) ==
  /\ ~ LoopBusy /\ tasks[i].pc = "waiting" /\ lockedBy = 0
  /\ \/ /\ attached /\ tasks[i].symbol = active
        /\ lockedBy' = i
        /\ tasks' = [tasks EXCEPT ![i].pc = "injecting"]
     \/ /\ tasks' = [tasks EXCEPT ![i].pc = "dropped"]
        /\ UNCHANGED lockedBy
  /\ UNCHANGED <<symbolVars, runnerVars, routeVars, switchVars, processed, positionVars,
                  countVars>>

(* execution_orchestrator.execute: the exchange's position may change while *)
(* it is awaited, whether it then returns or raises.                       *)
Execute(i) ==
  /\ tasks[i].pc = "injecting"
  /\ held' \in {held \cup {tasks[i].symbol}, held \ {tasks[i].symbol}} \ {held}
  /\ UNCHANGED <<symbolVars, runnerVars, routeVars, switchVars, intentVars, seen,
                  countVars>>

Return(i) ==
  /\ ~ LoopBusy /\ tasks[i].pc = "injecting"
  /\ tasks' = [tasks EXCEPT ![i].pc = "done"]
  /\ lockedBy' = 0
  /\ UNCHANGED <<symbolVars, runnerVars, routeVars, switchVars, processed, positionVars,
                  countVars>>

(* A stop-loss or take-profit order closes a position.                     *)
BracketFills(symbol) ==
  /\ symbol \in held /\ held' = held \ {symbol}
  /\ UNCHANGED <<symbolVars, runnerVars, routeVars, switchVars, intentVars, seen,
                  countVars>>

(* The sync engine follows: SyncEngine models how.                         *)
Sync ==
  /\ ~ LoopBusy /\ seen # (held # {}) /\ seen' = ~ seen
  /\ UNCHANGED <<symbolVars, runnerVars, routeVars, switchVars, intentVars, held,
                  countVars>>

Intents == \/ \E id \in WsIntents, symbol \in Symbols : WsMessage(id, symbol)
           \/ \E i \in DOMAIN tasks : Acquire(i) \/ Execute(i) \/ Return(i)
           \/ \E symbol \in Symbols : BracketFills(symbol)
           \/ Sync

Next == \/ \E r \in DOMAIN runners : Runner(r)
        \/ \E t \in Switchers : Switcher(t)
        \/ Routes \/ Intents

Spec == Init /\ [][Next]_vars

-----------------------------------------------------------------------------
RunnerStates == [symbol : Symbols, on : BOOLEAN,
                 pc : {"new", "idle", "sent", "ended"}]
TaskStates == [id : WsIntents \cup {"strategy"}, symbol : Symbols,
               pc : {"waiting", "injecting", "dropped", "done"}]

TypeOK ==
  /\ status \in {"CREATED", "READY", "RUNNING", "STOPPED", "ERROR"}
  /\ {attached, phantom, seen, switchLock} \subseteq BOOLEAN
  /\ {config, active} \subseteq Symbols
  /\ {pending, market, wanted} \subseteq Symbols \cup {NoSymbol}
  /\ failed \in {"no", "switch", "start"}
  /\ runners \in Seq(RunnerStates) /\ current \in 0 .. Len(runners)
  /\ tasks \in Seq(TaskStates) /\ lockedBy \in 0 .. Len(tasks)
  /\ switchers \in [Switchers -> [pc : {"idle", "joining"}, locks : BOOLEAN,
                                   to : Symbols \cup {NoSymbol}, old : Nat]]
  /\ processed \subseteq WsIntents /\ held \subseteq Symbols

(***************************************************************************)
(* PROPERTIES.                                                             *)
(***************************************************************************)

(***************************************************************************)
(* At most one intent is between the symbol guard and the orchestrator's    *)
(* return, even when the strategy gave up waiting for it: what              *)
(* OrderExecution takes for granted of its callers.                        *)
(***************************************************************************)
OneSubmission ==
  \A i, j \in DOMAIN tasks :
    tasks[i].pc = "injecting" /\ tasks[j].pc = "injecting" => i = j

(***************************************************************************)
(* An intent sent twice over the websocket, on one connection or on two,    *)
(* is executed at most once.                                               *)
(***************************************************************************)
AtMostOnce ==
  \A i, j \in DOMAIN tasks :
    /\ tasks[i].id = tasks[j].id /\ tasks[i].id \in WsIntents
    /\ {tasks[i].pc, tasks[j].pc} \subseteq {"injecting", "done"}
    => i = j

Quiet == ~ Switching /\ ~ Routing

(***************************************************************************)
(* When requests have not overlapped, a switch ends with the market, the    *)
(* configuration and the only running LiveRunner on the active symbol; or,  *)
(* when a market could not load its history, with no runner at all: what    *)
(* is left of the old market drives nothing until another is built.        *)
(***************************************************************************)
SwitchesConverge ==
  Quiet /\ wanted # NoSymbol =>
    IF failed = "no"
    THEN /\ config = active /\ market \in {NoSymbol, active}
         /\ \A r \in DOMAIN runners :
              runners[r].on => r = current /\ runners[r].symbol = active
    ELSE /\ failed = "switch" => config = active
         /\ \A r \in DOMAIN runners : ~ runners[r].on

(***************************************************************************)
(* When requests have not overlapped, the symbol asked for last is the one  *)
(* that waits for the position to close, or else the active one.  A load    *)
(* that fails does not lose it either: a switch has made it active, though  *)
(* an earlier one may still be parked, and a start has stored it.          *)
(***************************************************************************)
LastRequestWins ==
  Quiet /\ wanted # NoSymbol =>
    \/ wanted = IF pending = NoSymbol THEN active ELSE pending
    \/ failed = "switch" /\ wanted = active
    \/ failed = "start" /\ wanted = config /\ pending = NoSymbol

=============================================================================
