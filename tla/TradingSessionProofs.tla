------------------------ MODULE TradingSessionProofs ------------------------
(***************************************************************************)
(* Theorems of TradingSession, for any number of threads, requests and      *)
(* intents.  Two properties speak of the list of intents; QueueInv says     *)
(* what relates that list to the lock and to the ids already processed.    *)
(* The others speak of a session at rest; RequestInv says of every moment   *)
(* in between which runner lives and which symbol is wanted.                *)
(***************************************************************************)
EXTENDS TradingSession, SequenceTheorems, TLAPS

(* The symbols that may end up in an intent are symbols.                   *)
SymbolInv ==
  /\ config \in Symbols
  /\ pending \in Symbols \cup {NoSymbol}
  /\ starting \in [pc : {"no", "loading", "building"}, symbol : Symbols \cup {NoSymbol}]
  /\ starting.pc # "no" => starting.symbol \in Symbols

(* An intent that is being injected holds the lock.                        *)
InjectorHolds == \A i \in DOMAIN tasks : tasks[i].pc = "injecting" => lockedBy = i

(* A websocket intent is marked as processed, and is in the list once.     *)
Marked == \A i \in DOMAIN tasks :
            tasks[i].id \in WsIntents => tasks[i].id \in processed
Single == \A i, j \in DOMAIN tasks :
            tasks[i].id \in WsIntents /\ tasks[i].id = tasks[j].id => i = j

QueueInv == tasks \in Seq(TaskStates) /\ InjectorHolds /\ Marked /\ Single

-----------------------------------------------------------------------------
(* SymbolInv holds in every state.                                         *)

LEMMA SymbolInit == Init => SymbolInv
  BY DEF Init, SymbolInv, NotStarting

LEMMA SymbolStep == SymbolInv /\ [Next]_vars => SymbolInv'
<1> SUFFICES ASSUME SymbolInv, [Next]_vars PROVE SymbolInv'
  OBVIOUS
<1> USE DEF SymbolInv
<1>1. ASSUME NEW r \in DOMAIN runners, Runner(r) PROVE SymbolInv'
  BY <1>1 DEF Runner, Begin, Signal, LevelReached, SendReturns, End, symbolVars, routeVars
<1>2. ASSUME NEW t \in Switchers, Switcher(t) PROVE SymbolInv'
  <2>1. ASSUME NEW s \in Symbols, Request(t, s) PROVE SymbolInv'
    BY <2>1 DEF Request, ApplySwitch, routeVars
  <2>2. CASE TryApplyPending(t)
    BY <2>2 DEF TryApplyPending, ApplySwitch, routeVars
  <2>3. CASE Replace(t) \/ ReplaceFails(t)
    BY <2>3 DEF Replace, ReplaceFails, SwitchDone, routeVars
  <2> QED BY <1>2, <2>1, <2>2, <2>3 DEF Switcher, DashboardSymbol
<1>3. CASE Routes
  <2>1. ASSUME NEW s \in Symbols, Start(s) PROVE SymbolInv'
    BY <2>1 DEF Start, NotStarting
  <2>2. CASE StartMarket \/ StartMarketFails
    BY <2>2 DEF StartMarket, StartMarketFails, NotStarting, symbolVars
  <2>3. CASE StartRunner
    BY <2>3 DEF StartRunner, Build, NotStarting
  <2>4. CASE Stop \/ StopSystem \/ StopSession \/ StopDone
    BY <2>4 DEF Stop, StopSystem, StopSession, StopDone, JoinCurrent, symbolVars
  <2> QED BY <1>3, <2>1, <2>2, <2>3, <2>4 DEF Routes
<1>4. CASE Intents
  BY <1>4 DEF Intents, WsMessage, Acquire, Execute, Return, BracketFills, Sync,
              symbolVars, routeVars
<1>5. CASE UNCHANGED vars
  BY <1>5 DEF vars, symbolVars, routeVars
<1> QED BY <1>1, <1>2, <1>3, <1>4, <1>5 DEF Next

THEOREM SymbolsTyped == Spec => []SymbolInv
<1> QED BY SymbolInit, SymbolStep, PTL DEF Spec

-----------------------------------------------------------------------------
(* What the steps that touch the list of intents do to it.                 *)

(* A new intent waits: it disturbs nothing if it carries a fresh id.       *)
LEMMA NewTaskKeeps ==
  ASSUME QueueInv, NEW id \in WsIntents \cup {"strategy"}, NEW s \in Symbols,
         tasks' = Append(tasks, NewTask(id, s)), lockedBy' = lockedBy,
         processed \subseteq processed',
         id \in WsIntents => id \notin processed /\ id \in processed'
  PROVE  QueueInv'
<1> DEFINE n == Len(tasks)
<1>1. n \in Nat /\ DOMAIN tasks = 1 .. n
  BY DEF QueueInv
<1>2. NewTask(id, s) \in TaskStates
  BY DEF NewTask, TaskStates
<1>3. /\ tasks' \in Seq(TaskStates)
      /\ DOMAIN tasks' = 1 .. n + 1
      /\ \A i \in 1 .. n : tasks'[i] = tasks[i]
      /\ tasks'[n + 1] = NewTask(id, s)
  BY <1>1, <1>2, AppendProperties DEF QueueInv
<1>4. InjectorHolds'
  BY <1>1, <1>3 DEF QueueInv, InjectorHolds, NewTask
<1>5. Marked'
  BY <1>1, <1>3 DEF QueueInv, Marked, NewTask
<1>6. Single'
  BY <1>1, <1>3 DEF QueueInv, Marked, Single, NewTask
<1> QED BY <1>3, <1>4, <1>5, <1>6 DEF QueueInv

(* An intent that moves on keeps its id; only one may move to injecting.   *)
LEMMA TaskMoves ==
  ASSUME QueueInv, NEW i \in DOMAIN tasks,
         NEW pc \in {"injecting", "dropped", "done"},
         tasks' = [tasks EXCEPT ![i].pc = pc], processed' = processed,
         \A j \in DOMAIN tasks :
           (IF j = i THEN pc ELSE tasks[j].pc) = "injecting" => lockedBy' = j
  PROVE  QueueInv'
<1>1. /\ tasks' \in Seq(TaskStates) /\ DOMAIN tasks' = DOMAIN tasks
      /\ \A j \in DOMAIN tasks :
           /\ tasks'[j].id = tasks[j].id
           /\ tasks'[j].pc = IF j = i THEN pc ELSE tasks[j].pc
  <2>1. tasks[i] \in TaskStates
    BY DEF QueueInv
  <2>2. [tasks[i] EXCEPT !.pc = pc] \in TaskStates
    BY <2>1 DEF TaskStates
  <2>3. /\ tasks' = [tasks EXCEPT ![i] = [tasks[i] EXCEPT !.pc = pc]]
        /\ DOMAIN tasks' = DOMAIN tasks
    OBVIOUS
  <2>4. \A j \in DOMAIN tasks : tasks[j] \in TaskStates
    BY DEF QueueInv
  <2>5. tasks' \in Seq(TaskStates)
    BY <2>2, <2>3, ExceptSeq DEF QueueInv
  <2> QED BY <2>1, <2>3, <2>4, <2>5 DEF TaskStates
<1>2. InjectorHolds'
  BY <1>1 DEF InjectorHolds
<1>3. Marked' /\ Single'
  BY <1>1 DEF QueueInv, Marked, Single
<1> QED BY <1>1, <1>2, <1>3 DEF QueueInv

-----------------------------------------------------------------------------
LEMMA QueueInit == Init => QueueInv
  BY DEF Init, QueueInv, InjectorHolds, Marked, Single

LEMMA QueueStep == SymbolInv /\ QueueInv /\ [Next]_vars => QueueInv'
<1> SUFFICES ASSUME SymbolInv, QueueInv, [Next]_vars PROVE QueueInv'
  OBVIOUS
<1>0. ASSUME UNCHANGED intentVars PROVE QueueInv'
  BY <1>0 DEF intentVars, QueueInv, InjectorHolds, Marked, Single
<1>1. ASSUME NEW r \in DOMAIN runners, Runner(r) PROVE QueueInv'
  <2>1. CASE Signal(r)
    <3>1. CASE UNCHANGED tasks
      BY <1>0, <2>1, <3>1 DEF Signal, intentVars
    <3>2. CASE tasks' = Append(tasks, NewTask("strategy", config))
      <4>1. lockedBy' = lockedBy /\ processed' = processed
        BY <2>1 DEF Signal
      <4> QED BY <3>2, <4>1, NewTaskKeeps, IntentsAssumption DEF SymbolInv
    <3> QED BY <2>1, <3>1, <3>2 DEF Signal, SendOrder, SizingRaises
  <2>2. CASE Begin(r) \/ LevelReached(r) \/ SendReturns(r) \/ End(r)
    BY <1>0, <2>2 DEF Begin, LevelReached, SendReturns, End
  <2> QED BY <1>1, <2>1, <2>2 DEF Runner
<1>2. ASSUME NEW t \in Switchers, Switcher(t) PROVE QueueInv'
  BY <1>0, <1>2 DEF Switcher, DashboardSymbol, Request, TryApplyPending, Replace,
                    ReplaceFails, SwitchDone
<1>3. CASE Routes
  BY <1>0, <1>3 DEF Routes, Start, StartMarket, StartMarketFails, StartRunner, Stop, StopSystem, StopSession,
                    StopDone, JoinCurrent
<1>4. CASE Intents
  <2>1. ASSUME NEW id \in WsIntents, NEW s \in Symbols, WsMessage(id, s) PROVE QueueInv'
    BY <2>1, NewTaskKeeps DEF WsMessage
  <2>2. ASSUME NEW i \in DOMAIN tasks, Acquire(i) PROVE QueueInv'
    <3>1. \A j \in DOMAIN tasks : tasks[j].pc # "injecting"
      <4>1. lockedBy = 0 /\ \A j \in DOMAIN tasks : j # 0
        BY <2>2 DEF Acquire, QueueInv
      <4> QED BY <4>1 DEF QueueInv, InjectorHolds
    <3>2. CASE lockedBy' = i /\ tasks' = [tasks EXCEPT ![i].pc = "injecting"]
      BY <2>2, <3>1, <3>2, TaskMoves DEF Acquire
    <3>3. CASE lockedBy' = lockedBy /\ tasks' = [tasks EXCEPT ![i].pc = "dropped"]
      BY <2>2, <3>1, <3>3, TaskMoves DEF Acquire
    <3> QED BY <2>2, <3>2, <3>3 DEF Acquire
  <2>3. ASSUME NEW i \in DOMAIN tasks, Return(i) PROVE QueueInv'
    <3>1. \A j \in DOMAIN tasks : tasks[j].pc = "injecting" => j = i
      BY <2>3 DEF Return, QueueInv, InjectorHolds
    <3> QED BY <2>3, <3>1, TaskMoves DEF Return
  <2>4. ASSUME NEW i \in DOMAIN tasks, Execute(i) PROVE QueueInv'
    BY <1>0, <2>4 DEF Execute
  <2>5. CASE Sync \/ \E s \in Symbols : BracketFills(s)
    BY <1>0, <2>5 DEF Sync, BracketFills
  <2> QED BY <1>4, <2>1, <2>2, <2>3, <2>4, <2>5 DEF Intents
<1>5. CASE UNCHANGED vars
  BY <1>0, <1>5 DEF vars
<1> QED BY <1>1, <1>2, <1>3, <1>4, <1>5 DEF Next

(* QueueInv is an invariant, on top of SymbolInv.                          *)
THEOREM QueueInvHolds == Spec => []QueueInv
<1> QED BY SymbolsTyped, QueueInit, QueueStep, PTL DEF Spec

-----------------------------------------------------------------------------
(***************************************************************************)
(* Whatever the strategy, the websocket and the timeouts do, the session    *)
(* runs one submission at a time.                                          *)
(***************************************************************************)
THEOREM SessionSerialises == Spec => []OneSubmission
<1>1. QueueInv => OneSubmission
  BY DEF QueueInv, InjectorHolds, OneSubmission
<1> QED BY <1>1, QueueInvHolds, PTL

(***************************************************************************)
(* Any number of copies of a websocket intent are executed at most once.    *)
(***************************************************************************)
THEOREM CopiesAreDropped == Spec => []AtMostOnce
<1>1. QueueInv => AtMostOnce
  BY DEF QueueInv, Single, AtMostOnce
<1> QED BY <1>1, QueueInvHolds, PTL

-----------------------------------------------------------------------------
(***************************************************************************)
(* Types: what TypeOK says, and what the routes and the threads hold while  *)
(* they are under way.  An ended runner is off; a market comes before the   *)
(* first runner.                                                           *)
(***************************************************************************)
Scalars ==
  /\ status \in {"CREATED", "READY", "RUNNING", "STOPPED", "ERROR"}
  /\ attached \in BOOLEAN /\ phantom \in BOOLEAN
  /\ seen \in BOOLEAN /\ switchLock \in BOOLEAN
  /\ config \in Symbols /\ active \in Symbols
  /\ pending \in Symbols \cup {NoSymbol}
  /\ market \in Symbols \cup {NoSymbol}
  /\ wanted \in Symbols \cup {NoSymbol} /\ failed \in {"no", "switch", "start"}
  /\ processed \subseteq WsIntents /\ held \subseteq Symbols

RouteTypes ==
  /\ starting \in {NotStarting} \cup [pc : {"loading", "building"}, symbol : Symbols]
  /\ stopping \in [pc : {"no", "joining", "awaiting", "joiningAgain"}, runner : Nat]

SwitcherStates == [pc : {"idle", "joining"}, locks : BOOLEAN,
                   to : Symbols \cup {NoSymbol}, old : Nat]

SwitcherTypes ==
  /\ switchers \in [Switchers -> SwitcherStates]
  /\ \A t \in Switchers : switchers[t].pc = "joining" => switchers[t].to \in Symbols

RunnerTypes ==
  /\ runners \in Seq(RunnerStates) /\ current \in 0 .. Len(runners)
  /\ \A r \in DOMAIN runners : runners[r].pc = "ended" => ~ runners[r].on
  /\ market = NoSymbol => runners = <<>> /\ starting.pc # "building"

LockTyped == lockedBy \in 0 .. Len(tasks)

Types == Scalars /\ RouteTypes /\ SwitcherTypes /\ RunnerTypes /\ LockTyped /\ QueueInv

(* A runner that is on, or will be once its thread begins.                 *)
Live(r) == runners[r].on \/ runners[r].pc = "new"

(* A step that adds no runner and wakes none.                              *)
WakesNone ==
  /\ runners' \in Seq(RunnerStates) /\ Len(runners') = Len(runners)
  /\ DOMAIN runners' = DOMAIN runners
  /\ \A r \in DOMAIN runners :
       /\ runners'[r].symbol = runners[r].symbol
       /\ (runners'[r].on \/ runners'[r].pc = "new") => Live(r)
       /\ runners'[r].pc = "ended" => ~ runners'[r].on

-----------------------------------------------------------------------------
(* One runner changes; its symbol stays.                                   *)
LEMMA RunnerMoves ==
  ASSUME RunnerTypes, NEW r \in DOMAIN runners, NEW x \in RunnerStates,
         runners' = [runners EXCEPT ![r] = x], x.symbol = runners[r].symbol,
         (x.on \/ x.pc = "new") => Live(r), x.pc = "ended" => ~ x.on
  PROVE  WakesNone /\ runners'[r] = x
<1>1. runners \in Seq(RunnerStates) /\ r \in 1 .. Len(runners)
  BY DEF RunnerTypes
<1>2. runners' \in Seq(RunnerStates)
  BY <1>1, ExceptSeq
<1>3. Len(runners') = Len(runners) /\ DOMAIN runners' = DOMAIN runners
  BY <1>1, <1>2
<1>4. \A q \in DOMAIN runners : runners'[q] = IF q = r THEN x ELSE runners[q]
  BY <1>1
<1> QED BY <1>2, <1>3, <1>4 DEF WakesNone, RunnerTypes, Live

(* What a runner's own thread does to it.                                  *)
LEMMA RunnerSteps ==
  ASSUME RunnerTypes, NEW r \in DOMAIN runners, Runner(r)
  PROVE  WakesNone
<1> DEFINE a == runners[r]
<1>1. a \in RunnerStates
  BY DEF RunnerTypes
<1>2. CASE Begin(r)
  <2> DEFINE x == [a EXCEPT !.pc = "idle", !.on = TRUE]
  <2>1. x \in RunnerStates /\ x.symbol = a.symbol /\ x.pc = "idle"
    BY <1>1 DEF RunnerStates
  <2>2. runners' = [runners EXCEPT ![r] = x] /\ Live(r)
    BY <1>2 DEF Begin, Live
  <2> HIDE DEF x
  <2> QED BY <2>1, <2>2, RunnerMoves
<1>3. ASSUME NEW pc \in {"idle", "sent", "ended"}, pc = "ended" => ~ a.on,
             runners' = [runners EXCEPT ![r].pc = pc]
      PROVE  WakesNone
  <2> DEFINE x == [a EXCEPT !.pc = pc]
  <2>1. x \in RunnerStates /\ x.symbol = a.symbol /\ x.pc = pc /\ x.on = a.on
    BY <1>1 DEF RunnerStates
  <2>2. runners' = [runners EXCEPT ![r] = x]
    BY <1>3
  <2>3. (x.on \/ x.pc = "new") => Live(r)
    BY <2>1, <1>3 DEF Live
  <2> HIDE DEF x
  <2> QED BY <1>3, <2>1, <2>2, <2>3, RunnerMoves
<1>4. CASE runners' = BarDone(r)
  <2>1. CASE a.on
    BY <1>3, <1>4, <2>1 DEF BarDone
  <2>2. CASE ~ a.on
    BY <1>3, <1>4, <2>2 DEF BarDone
  <2> QED BY <2>1, <2>2
<1>5. CASE runners' = [runners EXCEPT ![r].pc = "sent"]
  BY <1>3, <1>5
<1>6. CASE End(r)
  BY <1>3, <1>6 DEF End
<1> QED BY <1>2, <1>4, <1>5, <1>6
        DEF Runner, Signal, SendOrder, SizingRaises, LevelReached, SendReturns

(* runner.stop() turns the runner off, whatever runner it is.              *)
LEMMA StoppedOff ==
  ASSUME RunnerTypes, runners' = Stopped(current)
  PROVE  /\ WakesNone
         /\ current # 0 => /\ current \in DOMAIN runners /\ ~ runners'[current].on
                           /\ runners'[current].pc = runners[current].pc
<1>1. CASE current = 0
  BY <1>1 DEF RunnerTypes, Stopped, WakesNone, Live
<1>2. CASE current # 0
  <2> DEFINE a == runners[current]
  <2> DEFINE x == [a EXCEPT !.on = FALSE]
  <2>1. current \in DOMAIN runners /\ a \in RunnerStates
    BY <1>2 DEF RunnerTypes
  <2>2. x \in RunnerStates /\ x.symbol = a.symbol /\ x.pc = a.pc /\ x.on = FALSE
    BY <2>1 DEF RunnerStates
  <2>3. runners' = [runners EXCEPT ![current] = x]
    BY <1>2 DEF Stopped
  <2>4. (x.on \/ x.pc = "new") => Live(current)
    BY <2>2 DEF Live
  <2> HIDE DEF x
  <2>5. WakesNone /\ runners'[current] = x
    BY <2>1, <2>2, <2>3, <2>4, RunnerMoves
  <2> QED BY <2>1, <2>2, <2>5
<1> QED BY <1>1, <1>2

(* A new runner is the last, and the others stay.                          *)
LEMMA RunnerAdded ==
  ASSUME RunnerTypes, NEW s \in Symbols, runners' = Append(runners, NewRunner(s))
  PROVE  /\ runners' \in Seq(RunnerStates) /\ Len(runners') = Len(runners) + 1
         /\ DOMAIN runners' = DOMAIN runners \cup {Len(runners) + 1}
         /\ \A r \in DOMAIN runners : runners'[r] = runners[r]
         /\ runners'[Len(runners) + 1] = NewRunner(s)
         /\ runners' # <<>> /\ Len(runners) \in Nat
<1>1. NewRunner(s) \in RunnerStates
  BY DEF NewRunner, RunnerStates
<1> QED BY <1>1, AppendProperties DEF RunnerTypes

-----------------------------------------------------------------------------
LEMMA TypesInit == Init => Types
<1> SUFFICES ASSUME Init PROVE Types
  OBVIOUS
<1>1. NoSwitch \in SwitcherStates /\ NoSwitch.pc = "idle"
  BY DEF NoSwitch, SwitcherStates
<1>2. Scalars /\ LockTyped
  <2>1. Scalars
    BY DEF Init, Scalars
  <2>2. LockTyped
    BY DEF Init, LockTyped
  <2> QED BY <2>1, <2>2
<1>3. RouteTypes
  BY DEF Init, RouteTypes, NotStopping
<1>4. RunnerTypes
  BY DEF Init, RunnerTypes, NotStarting
<1>5. SwitcherTypes
  BY <1>1 DEF Init, SwitcherTypes
<1> QED BY <1>2, <1>3, <1>4, <1>5, QueueInit DEF Types

LEMMA ScalarStep == Types /\ [Next]_vars => Scalars'
<1> SUFFICES ASSUME Types, [Next]_vars PROVE Scalars'
  OBVIOUS
<1> USE DEF Types, Scalars
<1>1. ASSUME NEW r \in DOMAIN runners, Runner(r) PROVE Scalars'
  BY <1>1 DEF Runner, Begin, Signal, LevelReached, SendReturns, End, symbolVars, routeVars,
              switchVars, intentVars, positionVars, countVars, historyVars
<1>2. ASSUME NEW t \in Switchers, Switcher(t) PROVE Scalars'
  <2>1. ASSUME NEW s \in Symbols, Request(t, s) PROVE Scalars'
    BY <2>1 DEF Request, ApplySwitch, Wanted, routeVars, intentVars, positionVars
  <2>2. CASE TryApplyPending(t)
    BY <2>2 DEF TryApplyPending, ApplySwitch, Wanted, routeVars, intentVars, positionVars
  <2>3. CASE Replace(t) \/ ReplaceFails(t)
    BY <2>3 DEF Replace, ReplaceFails, SwitchDone, SwitcherTypes, SwitcherStates, routeVars,
                runnerVars, intentVars, positionVars
  <2> QED BY <1>2, <2>1, <2>2, <2>3 DEF Switcher, DashboardSymbol
<1>3. CASE Routes
  <2>1. ASSUME NEW s \in Symbols, Start(s) PROVE Scalars'
    <3>1. status' \in {"RUNNING", "ERROR"} /\ attached' \in BOOLEAN
      BY <2>1 DEF Start, AttachExecutionStack, AttachRaises
    <3>2. wanted' \in Symbols \cup {NoSymbol}
      BY <2>1 DEF Start, Wanted
    <3> QED BY <2>1, <3>1, <3>2 DEF Start, runnerVars, switchVars, intentVars, positionVars
  <2>2. CASE StartMarket \/ StartMarketFails \/ StartRunner
    <3>1. starting.symbol \in Symbols
      BY <2>2 DEF StartMarket, StartMarketFails, StartRunner, RouteTypes, NotStarting
    <3> QED BY <2>2, <3>1 DEF StartMarket, StartMarketFails, StartRunner, Build, symbolVars,
                              runnerVars, switchVars, intentVars, positionVars, countVars,
                              historyVars
  <2>3. CASE Stop \/ StopSystem \/ StopSession \/ StopDone
    BY <2>3 DEF Stop, StopSystem, StopSession, StopDone, JoinCurrent, Wanted, symbolVars,
                runnerVars, switchVars, intentVars, positionVars, countVars, historyVars
  <2> QED BY <1>3, <2>1, <2>2, <2>3 DEF Routes
<1>4. CASE Intents
  <2>1. ASSUME NEW id \in WsIntents, NEW s \in Symbols, WsMessage(id, s) PROVE Scalars'
    BY <2>1 DEF WsMessage, symbolVars, runnerVars, routeVars, switchVars, positionVars,
                countVars, historyVars
  <2>2. ASSUME NEW i \in DOMAIN tasks, Execute(i) PROVE Scalars'
    <3>0. tasks[i] \in TaskStates
      BY DEF QueueInv
    <3>1. tasks[i].symbol \in Symbols
      BY <3>0 DEF TaskStates
    <3> QED BY <2>2, <3>1 DEF Execute, symbolVars, runnerVars, routeVars, switchVars,
                              intentVars, countVars, historyVars
  <2>3. ASSUME NEW i \in DOMAIN tasks, Acquire(i) \/ Return(i) PROVE Scalars'
    BY <2>3 DEF Acquire, Return, symbolVars, runnerVars, routeVars, switchVars,
                positionVars, countVars, historyVars
  <2>4. CASE Sync \/ \E s \in Symbols : BracketFills(s)
    BY <2>4 DEF Sync, BracketFills, symbolVars, runnerVars, routeVars, switchVars,
                intentVars, countVars, historyVars
  <2> QED BY <1>4, <2>1, <2>2, <2>3, <2>4 DEF Intents
<1>5. CASE UNCHANGED vars
  BY <1>5 DEF vars, symbolVars, runnerVars, routeVars, switchVars, intentVars, positionVars,
              countVars, historyVars
<1> QED BY <1>1, <1>2, <1>3, <1>4, <1>5 DEF Next

(* Only ApplySwitch and SwitchDone write switchers.                         *)
LEMMA SwitcherStep == Types /\ [Next]_vars => SwitcherTypes'
<1> SUFFICES ASSUME Types, [Next]_vars PROVE SwitcherTypes'
  OBVIOUS
<1>0. ASSUME UNCHANGED switchers PROVE SwitcherTypes'
  BY <1>0 DEF Types, SwitcherTypes
<1>1. ASSUME NEW t \in Switchers, NEW x \in SwitcherStates,
             x.pc = "joining" => x.to \in Symbols,
             switchers' = [switchers EXCEPT ![t] = x]
      PROVE  SwitcherTypes'
  BY <1>1 DEF Types, SwitcherTypes
<1>2. ASSUME NEW t \in Switchers, NEW s \in Symbols, NEW l \in BOOLEAN, ApplySwitch(t, s, l)
      PROVE  SwitcherTypes'
  <2> DEFINE x == [pc |-> "joining", to |-> s, old |-> current, locks |-> l]
  <2>1. current \in Nat
    BY DEF Types, RunnerTypes
  <2>2. x \in SwitcherStates /\ x.to \in Symbols
    BY <2>1 DEF SwitcherStates
  <2>3. UNCHANGED switchers \/ switchers' = [switchers EXCEPT ![t] = x]
    BY <1>2 DEF ApplySwitch
  <2> HIDE DEF x
  <2> QED BY <1>0, <1>1, <2>2, <2>3
<1>3. ASSUME NEW t \in Switchers, Switcher(t) PROVE SwitcherTypes'
  <2>1. ASSUME NEW s \in Symbols, Request(t, s) PROVE SwitcherTypes'
    BY <1>0, <1>2, <2>1 DEF Request
  <2>2. CASE TryApplyPending(t)
    <3>1. pending \in Symbols
      BY <2>2 DEF TryApplyPending, Types, Scalars
    <3> QED BY <1>2, <2>2, <3>1 DEF TryApplyPending
  <2>3. CASE Replace(t) \/ ReplaceFails(t)
    <3>1. NoSwitch \in SwitcherStates /\ NoSwitch.pc # "joining"
      BY DEF NoSwitch, SwitcherStates
    <3> QED BY <1>1, <2>3, <3>1 DEF Replace, ReplaceFails, SwitchDone
  <2> QED BY <1>3, <2>1, <2>2, <2>3 DEF Switcher, DashboardSymbol
<1>4. ASSUME NEW r \in DOMAIN runners, Runner(r) PROVE SwitcherTypes'
  BY <1>0, <1>4 DEF Runner, Begin, Signal, LevelReached, SendReturns, End, switchVars
<1>5. CASE Routes
  BY <1>0, <1>5 DEF Routes, Start, StartMarket, StartMarketFails, StartRunner, Stop,
                    StopSystem, StopSession, StopDone, JoinCurrent, switchVars
<1>6. CASE Intents
  BY <1>0, <1>6 DEF Intents, WsMessage, Acquire, Execute, Return, BracketFills, Sync,
                    switchVars
<1>7. CASE UNCHANGED vars
  BY <1>0, <1>7 DEF vars, switchVars
<1> QED BY <1>3, <1>4, <1>5, <1>6, <1>7 DEF Next

LEMMA RouteStep == Types /\ [Next]_vars => RouteTypes'
<1> SUFFICES ASSUME Types, [Next]_vars PROVE RouteTypes'
  OBVIOUS
<1>0. ASSUME UNCHANGED <<starting, stopping>> PROVE RouteTypes'
  BY <1>0 DEF Types, RouteTypes
<1>1. ASSUME NEW s \in Symbols, Start(s) PROVE RouteTypes'
  <2>1. starting' \in {starting, NotStarting, [pc |-> "loading", symbol |-> s]}
    BY <1>1 DEF Start
  <2> QED BY <1>1, <2>1 DEF Start, Types, RouteTypes
<1>2. CASE StartMarket
  <2> DEFINE x == [starting EXCEPT !.pc = "building"]
  <2>1. starting \in [pc : {"loading", "building"}, symbol : Symbols]
    BY <1>2 DEF StartMarket, Types, RouteTypes, NotStarting
  <2>2. x \in [pc : {"loading", "building"}, symbol : Symbols]
    BY <2>1
  <2>3. starting' = x
    BY <1>2 DEF StartMarket
  <2> HIDE DEF x
  <2> QED BY <1>2, <2>2, <2>3 DEF StartMarket, Types, RouteTypes
<1>3. CASE StartRunner \/ StartMarketFails
  BY <1>3 DEF StartRunner, StartMarketFails, Types, RouteTypes
<1>4. ASSUME NEW pc \in {"joining", "joiningAgain"}, JoinCurrent(pc) PROVE RouteTypes'
  <2>1. current \in Nat
    BY DEF Types, RunnerTypes
  <2> QED BY <1>4, <2>1 DEF JoinCurrent, Types, RouteTypes
<1>5. CASE Stop \/ StopSession
  BY <1>4, <1>5 DEF Stop, StopSession
<1>6. CASE StopSystem
  <2> DEFINE x == [stopping EXCEPT !.pc = "awaiting"]
  <2>1. x \in [pc : {"no", "joining", "awaiting", "joiningAgain"}, runner : Nat]
    BY DEF Types, RouteTypes
  <2>2. stopping' = x /\ starting' = starting
    BY <1>6 DEF StopSystem
  <2> HIDE DEF x
  <2> QED BY <2>1, <2>2 DEF Types, RouteTypes
<1>7. CASE StopDone
  BY <1>7 DEF StopDone, NotStopping, Types, RouteTypes
<1>8. ASSUME NEW t \in Switchers, Switcher(t) PROVE RouteTypes'
  BY <1>0, <1>8 DEF Switcher, DashboardSymbol, Request, TryApplyPending, Replace,
                    ReplaceFails, SwitchDone, routeVars
<1>9. ASSUME NEW r \in DOMAIN runners, Runner(r) PROVE RouteTypes'
  BY <1>0, <1>9 DEF Runner, Begin, Signal, LevelReached, SendReturns, End, routeVars
<1>10. CASE Intents \/ UNCHANGED vars
  BY <1>0, <1>10 DEF Intents, WsMessage, Acquire, Execute, Return, BracketFills, Sync, vars,
                     routeVars
<1> QED BY <1>1, <1>2, <1>3, <1>5, <1>6, <1>7, <1>8, <1>9, <1>10 DEF Next, Routes

LEMMA RunnerTypesStep == Types /\ [Next]_vars => RunnerTypes'
<1> SUFFICES ASSUME Types, [Next]_vars PROVE RunnerTypes'
  OBVIOUS
<1>0. ASSUME UNCHANGED <<runners, current, market>>, starting'.pc # "building" \/ UNCHANGED starting
      PROVE  RunnerTypes'
  BY <1>0 DEF Types, RunnerTypes
<1>1. ASSUME WakesNone, UNCHANGED <<current, market, starting>> PROVE RunnerTypes'
  BY <1>1 DEF Types, RunnerTypes, WakesNone
<1>2. ASSUME NEW s \in Symbols, runners' = Append(runners, NewRunner(s)),
             current' = Len(runners) + 1, market' # NoSymbol
      PROVE  RunnerTypes'
  <2>1. RunnerTypes
    BY DEF Types
  <2>2. /\ runners' \in Seq(RunnerStates) /\ current' \in 0 .. Len(runners')
        /\ DOMAIN runners' = DOMAIN runners \cup {Len(runners) + 1}
    BY <1>2, <2>1, RunnerAdded
  <2>3. \A r \in DOMAIN runners' : runners'[r].pc = "ended" => ~ runners'[r].on
    BY <1>2, <2>1, <2>2, RunnerAdded DEF RunnerTypes, NewRunner
  <2> QED BY <1>2, <2>2, <2>3 DEF RunnerTypes
<1>3. ASSUME NEW r \in DOMAIN runners, Runner(r) PROVE RunnerTypes'
  <2>1. WakesNone
    BY <1>3, RunnerSteps DEF Types
  <2>2. UNCHANGED <<current, market, starting>>
    BY <1>3 DEF Runner, Begin, Signal, LevelReached, SendReturns, End, symbolVars, routeVars
  <2> QED BY <1>1, <2>1, <2>2
<1>4. ASSUME NEW t \in Switchers, Switcher(t) PROVE RunnerTypes'
  <2>1. ASSUME NEW s, NEW l, ApplySwitch(t, s, l), UNCHANGED <<current, market, starting>>
        PROVE RunnerTypes'
    <3>1. CASE runners' = runners
      BY <1>0, <2>1, <3>1
    <3>2. CASE runners' = Stopped(current)
      BY <1>1, <2>1, <3>2, StoppedOff DEF Types
    <3> QED BY <2>1, <3>1, <3>2 DEF ApplySwitch
  <2>2. ASSUME NEW s \in Symbols, Request(t, s) PROVE RunnerTypes'
    <3>1. UNCHANGED <<current, market, starting>>
      BY <2>2 DEF Request, routeVars
    <3>2. CASE ApplySwitch(t, s, FALSE)
      BY <2>1, <3>1, <3>2
    <3>3. CASE UNCHANGED runners
      BY <1>0, <3>1, <3>3
    <3> QED BY <2>2, <3>2, <3>3 DEF Request
  <2>3. CASE TryApplyPending(t)
    BY <2>1, <2>3 DEF TryApplyPending, routeVars
  <2>4. CASE Replace(t)
    <3>1. switchers[t].to \in Symbols
      BY <2>4 DEF Replace, SwitchDone, Types, SwitcherTypes
    <3>2. market' # NoSymbol
      BY <2>4, <3>1, SymbolsAssumption DEF Replace
    <3>3. /\ runners' = Append(runners, NewRunner(switchers[t].to))
          /\ current' = Len(runners) + 1
      BY <2>4 DEF Replace
    <3> QED BY <1>2, <3>1, <3>2, <3>3
  <2>5. CASE ReplaceFails(t)
    BY <1>0, <2>5 DEF ReplaceFails, SwitchDone, runnerVars, routeVars
  <2> QED BY <1>4, <2>2, <2>3, <2>4, <2>5 DEF Switcher, DashboardSymbol
<1>5. CASE Routes
  <2>1. ASSUME NEW s \in Symbols, Start(s) PROVE RunnerTypes'
    BY <1>0, <2>1 DEF Start, NotStarting, runnerVars
  <2>2. CASE StartMarket
    <3>1. starting.symbol \in Symbols
      BY <2>2 DEF StartMarket, Types, RouteTypes, NotStarting
    <3> QED BY <2>2, <3>1, SymbolsAssumption DEF StartMarket, Types, RunnerTypes, runnerVars
  <2>3. CASE StartRunner
    <3>1. starting.symbol \in Symbols /\ market' # NoSymbol
      BY <2>3 DEF StartRunner, Types, RouteTypes, RunnerTypes, NotStarting
    <3> QED BY <1>2, <2>3, <3>1 DEF StartRunner
  <2>4. CASE Stop \/ StopSession
    <3>1. WakesNone
      BY <2>4, StoppedOff DEF Stop, StopSession, JoinCurrent, Types
    <3> QED BY <1>1, <2>4, <3>1 DEF Stop, StopSession, JoinCurrent, symbolVars
  <2>5. CASE StopSystem \/ StopDone \/ StartMarketFails
    BY <1>0, <2>5 DEF StopSystem, StopDone, StartMarketFails, NotStarting, runnerVars,
                      symbolVars
  <2> QED BY <1>5, <2>1, <2>2, <2>3, <2>4, <2>5 DEF Routes
<1>6. CASE Intents \/ UNCHANGED vars
  BY <1>0, <1>6 DEF Intents, WsMessage, Acquire, Execute, Return, BracketFills, Sync, vars,
                    symbolVars, runnerVars, routeVars
<1> QED BY <1>3, <1>4, <1>5, <1>6 DEF Next

LEMMA LockStep == Types /\ [Next]_vars => LockTyped'
<1> SUFFICES ASSUME Types, [Next]_vars PROVE LockTyped'
  OBVIOUS
<1>0. ASSUME UNCHANGED <<tasks, lockedBy>> PROVE LockTyped'
  BY <1>0 DEF Types, LockTyped
<1>1. ASSUME NEW x, tasks' = Append(tasks, x), lockedBy' = lockedBy PROVE LockTyped'
  BY <1>1 DEF Types, LockTyped, QueueInv
<1>2. ASSUME NEW i \in DOMAIN tasks, NEW pc, tasks' = [tasks EXCEPT ![i].pc = pc],
             lockedBy' \in {0, i, lockedBy}
      PROVE  LockTyped'
  <2>1. Len(tasks') = Len(tasks) /\ i \in 0 .. Len(tasks)
    BY <1>2 DEF Types, QueueInv
  <2> QED BY <1>2, <2>1 DEF Types, LockTyped
<1>3. ASSUME NEW r \in DOMAIN runners, Runner(r) PROVE LockTyped'
  BY <1>0, <1>1, <1>3 DEF Runner, Begin, Signal, SendOrder, SizingRaises, LevelReached,
                          SendReturns, End, intentVars
<1>4. ASSUME NEW t \in Switchers, Switcher(t) PROVE LockTyped'
  BY <1>0, <1>4 DEF Switcher, DashboardSymbol, Request, TryApplyPending, Replace,
                    ReplaceFails, SwitchDone, intentVars
<1>5. CASE Routes
  BY <1>0, <1>5 DEF Routes, Start, StartMarket, StartMarketFails, StartRunner, Stop,
                    StopSystem, StopSession, StopDone, JoinCurrent, intentVars
<1>6. CASE Intents
  BY <1>0, <1>1, <1>2, <1>6 DEF Intents, WsMessage, Acquire, Execute, Return, BracketFills,
                                Sync, intentVars
<1>7. CASE UNCHANGED vars
  BY <1>0, <1>7 DEF vars, intentVars
<1> QED BY <1>3, <1>4, <1>5, <1>6, <1>7 DEF Next

THEOREM TypesHold == Spec => []Types
<1>1. Types /\ SymbolInv /\ [Next]_vars => Types'
  BY ScalarStep, SwitcherStep, RouteStep, RunnerTypesStep, LockStep, QueueStep DEF Types
<1> QED BY <1>1, TypesInit, SymbolsTyped, PTL DEF Spec

(* Every variable of the session keeps its type.                           *)
THEOREM TypesAlwaysHold == Spec => []TypeOK
<1>1. Types => TypeOK
  BY DEF Types, Scalars, RouteTypes, SwitcherTypes, SwitcherStates, RunnerTypes, LockTyped,
         QueueInv, TypeOK
<1> QED BY <1>1, TypesHold, PTL

-----------------------------------------------------------------------------
(***************************************************************************)
(* What holds until requests overlap: a switch, a start and a stop exclude   *)
(* one another, and each knows where it is going.                          *)
(***************************************************************************)
NoneLive == \A r \in DOMAIN runners : ~ Live(r)

(* The symbol asked for last: pending, or else the one in use.             *)
WantedIs(symbol) == wanted = IF pending = NoSymbol THEN symbol ELSE pending

(* At rest with the market of the last symbol, or after a load that failed.  *)
Converged ==
  /\ config = active /\ market \in {NoSymbol, active} /\ WantedIs(active)
  /\ \A r \in DOMAIN runners : Live(r) => r = current /\ runners[r].symbol = active

SwitchFailed ==
  config = active /\ NoneLive /\ (WantedIs(active) \/ wanted = active)

StartFailed ==
  NoneLive /\ (WantedIs(active) \/ WantedIs(config))

(* Neither switching nor starting.  A stop may be under way.               *)
Settled ==
  CASE failed = "no"     -> Converged
    [] failed = "switch" -> SwitchFailed
    [] failed = "start"  -> StartFailed

StartsAlone ==
  /\ ~ Switching /\ stopping.pc = "no" /\ NoneLive
  /\ config = starting.symbol /\ WantedIs(starting.symbol)
  /\ starting.pc = "building" => market = starting.symbol

SwitchesAlone(t) ==
  /\ \A u \in Switchers : switchers[u].pc # "idle" => u = t
  /\ ~ Routing /\ NoneLive
  /\ switchers[t].to = active /\ config = active /\ wanted = active
  /\ switchers[t].locks => pending = NoSymbol

RequestInv ==
  wanted # NoSymbol =>
    /\ ~ Switching /\ starting.pc = "no" => Settled
    /\ starting.pc # "no" => StartsAlone
    /\ \A t \in Switchers : switchers[t].pc # "idle" => SwitchesAlone(t)

LEMMA RequestInit == Init => RequestInv
  BY DEF Init, RequestInv, Settled, Converged, WantedIs, Switching, NoSwitch, NotStarting

(***************************************************************************)
(* Runners that stop, or turn to another bar, disturb nothing.              *)
(***************************************************************************)
LEMMA RunnersAlone ==
  ASSUME Types, RequestInv, WakesNone,
         UNCHANGED <<symbolVars, current, starting, switchers, failed>>,
         wanted' \in {wanted, NoSymbol},
         wanted' # NoSymbol /\ ~ UNCHANGED stopping =>
           ~ Switching /\ starting.pc = "no"
  PROVE  RequestInv'
<1> SUFFICES ASSUME wanted' # NoSymbol PROVE RequestInv'
  BY DEF RequestInv
<1>1. wanted' = wanted /\ wanted # NoSymbol
  OBVIOUS
<1>2. NoneLive => NoneLive'
  BY DEF NoneLive, Live, WakesNone
<1>3. Settled => Settled'
  <2>1. Converged => Converged'
    BY <1>1 DEF Converged, WantedIs, WakesNone, Live, symbolVars
  <2>2. (SwitchFailed => SwitchFailed') /\ (StartFailed => StartFailed')
    BY <1>1, <1>2 DEF SwitchFailed, StartFailed, WantedIs, symbolVars
  <2>3. failed \in {"no", "switch", "start"}
    BY DEF Types, Scalars
  <2> QED BY <2>1, <2>2, <2>3 DEF Settled
<1>4. Switching' = Switching
  BY DEF Switching
<1>5. CASE UNCHANGED stopping
  <2>1. StartsAlone => StartsAlone'
    BY <1>1, <1>2, <1>4, <1>5 DEF StartsAlone, WantedIs, symbolVars
  <2>2. \A t \in Switchers : SwitchesAlone(t) => SwitchesAlone(t)'
    BY <1>1, <1>2, <1>5 DEF SwitchesAlone, Routing, symbolVars
  <2> QED BY <1>1, <1>3, <1>4, <2>1, <2>2 DEF RequestInv
<1>6. CASE ~ UNCHANGED stopping
  <2>1. ~ Switching /\ starting.pc = "no"
    BY <1>6
  <2> QED BY <1>1, <1>3, <1>4, <2>1 DEF RequestInv, Switching
<1> QED BY <1>5, <1>6

LEMMA UnchangedRunners == RunnerTypes /\ UNCHANGED runners => WakesNone
  BY DEF RunnerTypes, WakesNone, Live

(***************************************************************************)
(* A switch begins: alone, or wanted is forgotten.                         *)
(***************************************************************************)
LEMMA SwitchBegins ==
  ASSUME Types, RequestInv, NEW t \in Switchers, NEW s \in Symbols, NEW l \in BOOLEAN,
         switchers[t].pc = "idle", ApplySwitch(t, s, l),
         UNCHANGED <<market, current, routeVars, failed>>,
         IF l \/ market = NoSymbol THEN pending' = NoSymbol ELSE pending' = pending
  PROVE  RequestInv'
<1> SUFFICES ASSUME wanted' # NoSymbol PROVE RequestInv'
  BY DEF RequestInv
<1>1. /\ wanted # NoSymbol /\ wanted' = s /\ ~ Switching /\ ~ Routing
      /\ ~ StopIsLost(current) /\ config' = s /\ active' = s
  BY DEF ApplySwitch, Wanted
<1>2. \A r \in DOMAIN runners : Live(r) => r = current
  <2>1. Settled /\ failed \in {"no", "switch", "start"}
    BY <1>1 DEF RequestInv, Routing, Types, Scalars
  <2> QED BY <2>1 DEF Settled, Converged, SwitchFailed, StartFailed, NoneLive
<1>3. ~ Routing' /\ starting'.pc = "no"
  BY <1>1 DEF Routing, routeVars
<1>4. CASE market = NoSymbol
  <2>1. runners' = <<>> /\ UNCHANGED switchers
    BY <1>4 DEF ApplySwitch, Types, RunnerTypes
  <2>2. Settled'
    <3>1. /\ config' = s /\ active' = s /\ wanted' = s /\ pending' = NoSymbol
          /\ market' = NoSymbol /\ runners' = <<>>
      BY <1>1, <1>4, <2>1
    <3>2. NoneLive' /\ WantedIs(active)'
      BY <3>1 DEF NoneLive, WantedIs
    <3>3. Converged' /\ SwitchFailed' /\ StartFailed'
      BY <3>1, <3>2 DEF Converged, SwitchFailed, StartFailed
    <3>4. failed' \in {"no", "switch", "start"}
      BY DEF Types, Scalars
    <3> QED BY <3>3, <3>4 DEF Settled
  <2> QED BY <1>1, <1>3, <2>1, <2>2 DEF RequestInv, Switching
<1>5. CASE market # NoSymbol
  <2> DEFINE x == [pc |-> "joining", to |-> s, old |-> current, locks |-> l]
  <2>1. runners' = Stopped(current) /\ switchers' = [switchers EXCEPT ![t] = x]
    BY <1>5 DEF ApplySwitch
  <2>2. x.pc = "joining" /\ x.to = s /\ x.locks = l
    OBVIOUS
  <2> HIDE DEF x
  <2>3. /\ switchers'[t] = x
        /\ \A u \in Switchers : switchers'[u].pc # "idle" => u = t
    BY <1>1, <2>1 DEF Types, SwitcherTypes, Switching
  <2>4. NoneLive'
    <3>1. WakesNone /\ (current # 0 => /\ ~ runners'[current].on
                                       /\ runners'[current].pc = runners[current].pc)
      BY <2>1, StoppedOff DEF Types
    <3>3. current # 0 => runners[current].pc # "new"
      BY <1>1 DEF StopIsLost
    <3>4. \A r \in DOMAIN runners : r # 0
      BY DEF Types, RunnerTypes
    <3>5. \A r \in DOMAIN runners : ~ (runners'[r].on \/ runners'[r].pc = "new")
      BY <1>2, <3>1, <3>3, <3>4 DEF WakesNone
    <3> QED BY <3>1, <3>5 DEF NoneLive, Live, WakesNone
  <2>5. SwitchesAlone(t)'
    BY <1>1, <1>3, <2>2, <2>3, <2>4 DEF SwitchesAlone
  <2>6. Switching'
    BY <2>2, <2>3 DEF Switching
  <2> QED BY <1>3, <2>3, <2>5, <2>6 DEF RequestInv
<1> QED BY <1>4, <1>5

(* The switch ends with a runner of its symbol, the only one alive.        *)
LEMMA SwitchEnds ==
  ASSUME Types, RequestInv, NEW t \in Switchers, Replace(t)
  PROVE  RequestInv'
<1> SUFFICES ASSUME wanted' # NoSymbol PROVE RequestInv'
  BY DEF RequestInv
<1> DEFINE s == switchers[t].to
<1>1. s \in Symbols /\ s = active
  BY DEF Replace, SwitchDone, Types, SwitcherTypes, RequestInv, SwitchesAlone
<1>2. SwitchesAlone(t)
  BY DEF Replace, SwitchDone, RequestInv
<1>3. /\ UNCHANGED <<wanted, config, active, starting, stopping>> /\ market' = s
      /\ failed' = "no"
  BY DEF Replace, SwitchDone, routeVars
<1>4. \A u \in Switchers : switchers'[u].pc = "idle"
  BY <1>2 DEF Replace, SwitchDone, SwitchesAlone, NoSwitch, Types, SwitcherTypes
<1>5. pending' = NoSymbol
  BY <1>2 DEF Replace, SwitchesAlone
<1>6. /\ DOMAIN runners' = DOMAIN runners \cup {current'}
      /\ \A r \in DOMAIN runners : runners'[r] = runners[r]
      /\ runners'[current'].symbol = s
  <2>1. runners' = Append(runners, NewRunner(s)) /\ current' = Len(runners) + 1
    BY DEF Replace
  <2> HIDE DEF s
  <2> QED BY <1>1, <2>1, RunnerAdded DEF Types, NewRunner
<1>7. Settled'
  <2>1. \A r \in DOMAIN runners' :
          (runners'[r].on \/ runners'[r].pc = "new") =>
             r = current' /\ runners'[r].symbol = active'
    BY <1>1, <1>2, <1>3, <1>6 DEF SwitchesAlone, NoneLive, Live
  <2>2. wanted' = active' /\ config' = active'
    BY <1>2, <1>3 DEF SwitchesAlone
  <2> QED BY <1>1, <1>3, <1>5, <2>1, <2>2 DEF Settled, Converged, WantedIs, Live
<1>8. starting'.pc = "no"
  BY <1>2, <1>3 DEF SwitchesAlone, Routing
<1> QED BY <1>4, <1>7, <1>8 DEF RequestInv

(* A switch that cannot load leaves no runner, and its symbol written.      *)
LEMMA SwitchGivesUp ==
  ASSUME Types, RequestInv, NEW t \in Switchers, ReplaceFails(t)
  PROVE  RequestInv'
<1> SUFFICES ASSUME wanted' # NoSymbol PROVE RequestInv'
  BY DEF RequestInv
<1>1. SwitchesAlone(t)
  BY DEF ReplaceFails, SwitchDone, RequestInv
<1>2. /\ UNCHANGED <<wanted, config, active, starting, stopping, runners>>
      /\ failed' = "switch"
  BY DEF ReplaceFails, SwitchDone, routeVars, runnerVars
<1>3. \A u \in Switchers : switchers'[u].pc = "idle"
  BY <1>1 DEF ReplaceFails, SwitchDone, SwitchesAlone, NoSwitch, Types, SwitcherTypes
<1>4. SwitchFailed'
  BY <1>1, <1>2 DEF SwitchesAlone, SwitchFailed, NoneLive, Live
<1>5. starting'.pc = "no"
  BY <1>1, <1>2 DEF SwitchesAlone, Routing
<1> QED BY <1>2, <1>3, <1>4, <1>5 DEF RequestInv, Settled

LEMMA StartBegins ==
  ASSUME Types, RequestInv, NEW stored \in Symbols, Start(stored)
  PROVE  RequestInv'
<1> SUFFICES ASSUME wanted' # NoSymbol PROVE RequestInv'
  BY DEF RequestInv
<1>1. /\ wanted # NoSymbol /\ ~ Switching /\ ~ Routing
      /\ IF starting' = NotStarting THEN stored = config ELSE pending \in {NoSymbol, wanted}
      /\ wanted' = IF starting' = NotStarting \/ pending # NoSymbol THEN wanted ELSE stored
  BY DEF Start, Wanted, Superseded
<1>2. UNCHANGED <<active, pending, market, runners, current, stopping, switchers, failed>>
      /\ config' = stored
  BY DEF Start, runnerVars, switchVars
<1>3. Settled /\ starting = NotStarting /\ failed \in {"no", "switch", "start"}
  BY <1>1 DEF RequestInv, Routing, Types, RouteTypes, Scalars
<1>4. ~ Switching' /\ \A t \in Switchers : switchers'[t].pc = "idle"
  BY <1>1, <1>2 DEF Switching
<1>5. CASE starting' = NotStarting
  <2>1. UNCHANGED <<wanted, config>>
    BY <1>1, <1>2, <1>5
  <2>2. /\ Converged => Converged'
        /\ SwitchFailed => SwitchFailed'
        /\ StartFailed => StartFailed'
    BY <1>2, <2>1 DEF Converged, SwitchFailed, StartFailed, WantedIs, NoneLive, Live
  <2>3. Settled'
    BY <1>2, <1>3, <2>2 DEF Settled
  <2> QED BY <1>4, <1>5, <2>3 DEF RequestInv, NotStarting
<1>6. CASE starting' # NotStarting
  <2>1. ~ IsAlive(current) /\ starting' = [pc |-> "loading", symbol |-> stored]
    BY <1>3, <1>6 DEF Start
  <2>2. NoneLive
    <3>1. \A r \in DOMAIN runners : r # 0
      BY DEF Types, RunnerTypes
    <3>2. CASE failed = "no"
      BY <1>3, <2>1, <3>1, <3>2 DEF NoneLive, Settled, Converged, IsAlive, Live, Types,
                                    RunnerTypes
    <3> QED BY <1>3, <3>2 DEF Settled, SwitchFailed, StartFailed
  <2>3. NoneLive' /\ stopping'.pc = "no"
    BY <1>1, <1>2, <2>2 DEF NoneLive, Live, Routing
  <2>4. WantedIs(stored)'
    BY <1>1, <1>2, <1>6 DEF WantedIs
  <2>5. StartsAlone'
    BY <1>2, <1>4, <2>1, <2>3, <2>4 DEF StartsAlone, WantedIs
  <2> QED BY <1>4, <2>1, <2>5 DEF RequestInv
<1> QED BY <1>5, <1>6

LEMMA StartGoesOn ==
  ASSUME Types, RequestInv, StartMarket
  PROVE  RequestInv'
<1> SUFFICES ASSUME wanted' # NoSymbol PROVE RequestInv'
  BY DEF RequestInv
<1>1. UNCHANGED <<config, pending, runners, stopping, switchers, wanted>>
      /\ market' = starting.symbol
  BY DEF StartMarket, runnerVars, switchVars, countVars, historyVars
<1>2. starting'.pc = "building" /\ starting'.symbol = starting.symbol
  BY DEF StartMarket, Types, RouteTypes, NotStarting
<1>3. StartsAlone
  BY <1>1 DEF StartMarket, RequestInv
<1>4. StartsAlone' /\ ~ Switching'
  BY <1>1, <1>2, <1>3 DEF StartsAlone, WantedIs, Switching, NoneLive, Live
<1> QED BY <1>2, <1>4 DEF RequestInv, Switching

(* A start that cannot load leaves its symbol stored, and no runner.        *)
LEMMA StartGivesUp ==
  ASSUME Types, RequestInv, StartMarketFails
  PROVE  RequestInv'
<1> SUFFICES ASSUME wanted' # NoSymbol PROVE RequestInv'
  BY DEF RequestInv
<1>1. UNCHANGED <<config, active, pending, runners, switchers, wanted>> /\ failed' = "start"
  BY DEF StartMarketFails, symbolVars, runnerVars, switchVars
<1>2. starting'.pc = "no"
  BY DEF StartMarketFails, NotStarting
<1>3. StartsAlone
  BY <1>1 DEF StartMarketFails, RequestInv
<1>4. StartFailed' /\ ~ Switching'
  BY <1>1, <1>3 DEF StartsAlone, StartFailed, WantedIs, Switching, NoneLive, Live
<1> QED BY <1>1, <1>2, <1>4 DEF RequestInv, Settled, Switching

LEMMA StartEnds ==
  ASSUME Types, RequestInv, StartRunner
  PROVE  RequestInv'
<1> SUFFICES ASSUME wanted' # NoSymbol PROVE RequestInv'
  BY DEF RequestInv
<1> DEFINE s == starting.symbol
<1>1. s \in Symbols /\ starting'.pc = "no"
  BY DEF StartRunner, Types, RouteTypes, NotStarting
<1>2. UNCHANGED <<pending, market, stopping, switchers, wanted>>
      /\ config' = s /\ active' = s /\ failed' = "no"
  BY DEF StartRunner, Build, switchVars
<1>3. StartsAlone /\ market = s
  BY <1>2 DEF StartRunner, RequestInv, StartsAlone
<1>4. /\ DOMAIN runners' = DOMAIN runners \cup {current'}
      /\ \A r \in DOMAIN runners : runners'[r] = runners[r]
      /\ runners'[current'].symbol = s
  <2>1. runners' = Append(runners, NewRunner(s)) /\ current' = Len(runners) + 1
    BY DEF StartRunner
  <2> HIDE DEF s
  <2> QED BY <1>1, <2>1, RunnerAdded DEF Types, NewRunner
<1>5. Settled'
  <2>1. \A r \in DOMAIN runners' :
          (runners'[r].on \/ runners'[r].pc = "new") =>
             r = current' /\ runners'[r].symbol = active'
    BY <1>2, <1>3, <1>4 DEF StartsAlone, NoneLive, Live
  <2> QED BY <1>2, <1>3, <2>1 DEF Settled, Converged, StartsAlone, WantedIs, Live
<1>6. ~ Switching'
  BY <1>2, <1>3 DEF StartsAlone, Switching
<1> QED BY <1>1, <1>5, <1>6 DEF RequestInv, Switching

(* A stop that loses its runner, or comes during a switch, forgets wanted.  *)
LEMMA StopJoins ==
  ASSUME Types, RequestInv, ~ LoopBusy, NEW pc, JoinCurrent(pc)
  PROVE  RequestInv'
<1>1. WakesNone
  BY StoppedOff DEF JoinCurrent, Types
<1>2. wanted' \in {wanted, NoSymbol} /\ (wanted' # NoSymbol => ~ Switching)
  BY DEF JoinCurrent, Wanted
<1>3. starting.pc = "no" /\ UNCHANGED <<symbolVars, current, starting, switchers, failed>>
  BY DEF LoopBusy, JoinCurrent, switchVars
<1> QED BY <1>1, <1>2, <1>3, RunnersAlone

-----------------------------------------------------------------------------
LEMMA RequestStep == Types /\ RequestInv /\ [Next]_vars => RequestInv'
<1> SUFFICES ASSUME Types, RequestInv, [Next]_vars PROVE RequestInv'
  OBVIOUS
<1>0. ASSUME UNCHANGED <<symbolVars, runners, current, starting, stopping, switchers,
                         wanted, failed>>
      PROVE  RequestInv'
  BY <1>0, RunnersAlone, UnchangedRunners DEF Types
<1>1. ASSUME NEW r \in DOMAIN runners, Runner(r) PROVE RequestInv'
  <2>1. UNCHANGED <<symbolVars, current, starting, stopping, switchers, wanted, failed>>
    BY <1>1 DEF Runner, Begin, Signal, LevelReached, SendReturns, End, routeVars,
                switchVars, countVars, historyVars
  <2> QED BY <1>1, <2>1, RunnerSteps, RunnersAlone DEF Types
<1>2. ASSUME NEW t \in Switchers, NEW s \in Symbols, Request(t, s) PROVE RequestInv'
  <2>1. switchers[t].pc = "idle" /\ UNCHANGED <<market, current, routeVars, failed>>
    BY <1>2 DEF Request
  <2>2. CASE ApplySwitch(t, s, FALSE)
              /\ pending' = IF market = NoSymbol THEN NoSymbol ELSE pending
    BY <2>1, <2>2, SwitchBegins
  <2>3. CASE /\ pending' = IF s = active THEN NoSymbol ELSE s
             /\ Wanted(s, Switching \/ Routing)
             /\ UNCHANGED <<config, active, runners, phantom, switchers, switchLock>>
    <3> SUFFICES ASSUME wanted' # NoSymbol PROVE RequestInv'
      BY DEF RequestInv
    <3>1. wanted # NoSymbol /\ wanted' = s /\ ~ Switching /\ ~ Routing
      BY <2>3 DEF Wanted
    <3>2. Settled /\ s # NoSymbol
      BY <3>1, SymbolsAssumption DEF RequestInv, Routing
    <3>3. Settled'
      <4>1. WantedIs(active)'
        BY <2>3, <3>1, <3>2 DEF WantedIs
      <4>2. UNCHANGED <<market, current, config, active, runners, failed>>
        BY <2>1, <2>3
      <4>3. /\ Converged => Converged'
            /\ SwitchFailed => SwitchFailed'
            /\ StartFailed => StartFailed'
        BY <4>1, <4>2 DEF Converged, SwitchFailed, StartFailed, WantedIs, NoneLive, Live
      <4>4. failed \in {"no", "switch", "start"}
        BY DEF Types, Scalars
      <4> QED BY <3>2, <4>2, <4>3, <4>4 DEF Settled
    <3> QED BY <2>1, <2>3, <3>1, <3>3 DEF RequestInv, Switching, Routing, routeVars
  <2> QED BY <1>2, <2>2, <2>3 DEF Request
<1>3. ASSUME NEW t \in Switchers, TryApplyPending(t) PROVE RequestInv'
  <2>1. pending \in Symbols
    BY <1>3 DEF TryApplyPending, Types, Scalars
  <2> QED BY <1>3, <2>1, SwitchBegins DEF TryApplyPending
<1>4. ASSUME NEW t \in Switchers, Switcher(t) PROVE RequestInv'
  BY <1>2, <1>3, <1>4, SwitchEnds, SwitchGivesUp DEF Switcher, DashboardSymbol
<1>5. CASE Routes
  <2>1. CASE Stop \/ StopSession
    BY <2>1, StopJoins DEF Stop, StopSession
  <2>2. CASE StopSystem \/ StopDone
    <3>1. UNCHANGED <<symbolVars, runners, current, starting, switchers, wanted, failed>>
      BY <2>2 DEF StopSystem, StopDone, runnerVars, switchVars, countVars, historyVars
    <3>2. wanted # NoSymbol => ~ Switching /\ starting.pc = "no"
      <4>1. stopping.pc # "no"
        BY <2>2 DEF StopSystem, StopDone
      <4> QED BY <4>1 DEF RequestInv, StartsAlone, SwitchesAlone, Switching, Routing
    <3> QED BY <3>1, <3>2, RunnersAlone, UnchangedRunners DEF Types
  <2> QED BY <1>5, <2>1, <2>2, StartBegins, StartGoesOn, StartGivesUp, StartEnds DEF Routes
<1>6. CASE Intents \/ UNCHANGED vars
  BY <1>0, <1>6 DEF Intents, WsMessage, Acquire, Execute, Return, BracketFills, Sync, vars,
                    runnerVars, routeVars, switchVars, countVars, historyVars
<1> QED BY <1>1, <1>4, <1>5, <1>6 DEF Next

THEOREM RequestInvHolds == Spec => []RequestInv
<1> QED BY TypesHold, RequestInit, RequestStep, PTL DEF Spec

(***************************************************************************)
(* However many threads switch, and whatever start and stop do meanwhile,   *)
(* requests that do not overlap leave the market, the configuration and     *)
(* the one running LiveRunner on the active symbol, or, when a market could *)
(* not load its history, no running LiveRunner.                            *)
(***************************************************************************)
THEOREM SwitchesAlwaysConverge == Spec => []SwitchesConverge
<1>1. Types /\ RequestInv => SwitchesConverge
  BY DEF Types, Scalars, RequestInv, SwitchesConverge, Quiet, Routing, Settled, Converged,
         SwitchFailed, StartFailed, NoneLive, Live
<1> QED BY <1>1, TypesHold, RequestInvHolds, PTL

(* Of requests that do not overlap, the last one is in force or waiting, or *)
(* stored by a start whose market could not load.                          *)
THEOREM LastRequestAlwaysWins == Spec => []LastRequestWins
<1>1. Types /\ RequestInv => LastRequestWins
  <2>1. CASE failed = "no"
    BY <2>1 DEF RequestInv, LastRequestWins, Quiet, Routing, Settled, Converged, WantedIs
  <2>2. CASE failed = "switch"
    BY <2>2 DEF RequestInv, LastRequestWins, Quiet, Routing, Settled, SwitchFailed, WantedIs
  <2>3. CASE failed = "start"
    BY <2>3 DEF RequestInv, LastRequestWins, Quiet, Routing, Settled, StartFailed, WantedIs
  <2> QED BY <2>1, <2>2, <2>3 DEF Types, Scalars
<1> QED BY <1>1, TypesHold, RequestInvHolds, PTL
=============================================================================
