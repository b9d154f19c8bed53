------------------------------ MODULE Supervision ------------------------------
(***************************************************************************)
(* Who starts, stops and restarts the live execution system, and what is    *)
(* left running afterwards.  LiveExecutionSystem.start, stop and restart    *)
(* are coroutines that suspend between reading a flag and setting another;  *)
(* they are called by HTTP handlers, by tasks a TradingSession creates, by  *)
(* the supervisor's loop about itself and by the verification that ends an  *)
(* execution.  Whether drift and staleness make a tick conclude this or     *)
(* that is in OrderExecution; here each conclusion may come at any tick.    *)
(* The window the supervisor watches is never opened (the orchestrator has  *)
(* its own), so a tick judges strictly.  The freeze of the user stream is   *)
(* left out: nothing lifts it, and nothing here asks for it.               *)
(***************************************************************************)
EXTENDS Naturals, FiniteSets, Sequences

CONSTANTS Coroutines,   \* slots for starts, restarts and supervisor loops
          Listeners,    \* user-stream listener tasks
          MaxRequests   \* start, stop and restart requests in a behaviour

ASSUME FiniteAssumption == IsFiniteSet(Coroutines) /\ IsFiniteSet(Listeners)

VARIABLES
  session,      \* TradingSession.status, as far as start() looks at it
  tasks,        \* start and stop tasks created and not yet begun, in order
  co,           \* what each coroutine slot does and where it is suspended
  executing,    \* "none", "current", or "older" than the newest start
  status,       \* ExecutionState.status
  running,      \* LiveExecutionSystem.running
  supervising,  \* ReconciliationSupervisor.running
  streaming,    \* BinanceUserStream._running
  listeners,    \* listener tasks that still hand events on
  newest,       \* BinanceUserStream._task
  vouched,      \* the newest READY was set by the verification of an older execution
  crossed,      \* stops that ran while a start was connecting, up to MaxCrossed
  requests

flags  == <<running, supervising, streaming>>
stream == <<listeners, newest, crossed>>
state  == <<status, vouched>>
vars   == <<session, tasks, co, executing, state, flags, stream, requests>>

(* More of them could not tell further listeners apart.                    *)
MaxCrossed == Cardinality(Listeners) - 1

Idle == [does |-> "nothing", at |-> "nowhere"]
Loop == [does |-> "supervise", at |-> "asleep"]

(***************************************************************************)
(* A start task, the restart of a crashed loop, of a tick's fatal drift and *)
(* of an execution's failed verification, and the HTTP stop.               *)
(***************************************************************************)
Restarts == {"crashed", "drifted", "verify"}
Doings   == {"start", "stop"} \cup Restarts

At(place) == {c \in Coroutines : co[c].at = place}
Loops == At("asleep")

TypeOK ==
  /\ session \in {"STOPPED", "RUNNING", "ERROR"}
  /\ tasks \in Seq({"start", "stop"})
  /\ co \in [Coroutines -> {Idle, Loop}
               \cup [does : Doings, at : {"pausing", "connecting", "closing"}]]
  /\ executing \in {"none", "current", "older"}
  /\ status \in {"BOOTSTRAPPING", "SYNCING", "READY", "DEGRADED", "FROZEN"}
  /\ {vouched, running, supervising, streaming} \subseteq BOOLEAN
  /\ listeners \subseteq Listeners /\ newest \subseteq Listeners
  /\ crossed \in 0 .. MaxCrossed /\ requests \in 0 .. MaxRequests

(* build_live_execution_system leaves the state READY before any start.    *)
Init ==
  /\ session = "STOPPED" /\ tasks = <<>>
  /\ co = [c \in Coroutines |-> Idle] /\ executing = "none"
  /\ status = "READY" /\ vouched = FALSE
  /\ running = FALSE /\ supervising = FALSE /\ streaming = FALSE
  /\ listeners = {} /\ newest = {} /\ crossed = 0 /\ requests = 0

-----------------------------------------------------------------------------
(* LiveExecutionSystem.stop and BinanceUserStream.stop up to their awaits.  *)
(* Only the newest listener can be cancelled.                              *)

(* Defective variant: the listener is left to notice the flag.             *)
NotCancelled == listeners
Cancelled == listeners \ newest

(* Defective variant: the flag that guards supervisor.start stays set.     *)
SupervisorHalted_Never == supervising
SupervisorHalted == FALSE

Halt ==
  /\ running' = FALSE /\ supervising' = SupervisorHalted /\ streaming' = FALSE
  /\ listeners' = Cancelled /\ newest' = newest
  /\ crossed' = IF At("connecting") = {} \/ crossed = MaxCrossed
                  THEN crossed ELSE crossed + 1

(* ReconciliationSupervisor.start: a new loop unless the flag is set.      *)
Supervise(next) ==
  /\ supervising' = TRUE
  /\ \/ supervising /\ co' = next
     \/ /\ ~ supervising
        /\ \E d \in Coroutines : next[d] = Idle /\ co' = [next EXCEPT ![d] = Loop]

(* What is left of the caller when its start() has returned or raised: a    *)
(* loop goes on after the restart of its own tick, the crashed one returns. *)
Continue(c, does) ==
  [co EXCEPT ![c] = IF does = "drifted" THEN Loop ELSE Idle]

Outlived == IF executing = "none" THEN "none" ELSE "older"

(***************************************************************************)
(* start(): nothing while running.  RestartGuard.run may raise out of its   *)
(* snapshot and leave BOOTSTRAPPING; a fatal report freezes and returns;    *)
(* otherwise the user stream connects, at once if it believes it is up.    *)
(***************************************************************************)
StartAgain(c, does) ==
  /\ running
  /\ UNCHANGED <<executing, status, vouched, flags, stream>>
  /\ co' = Continue(c, does)

Guarded(st) ==
  /\ ~ running /\ running' = TRUE
  /\ status' = st /\ vouched' = FALSE /\ executing' = Outlived

StartFails(c, does) ==
  /\ \E st \in {"BOOTSTRAPPING", "FROZEN"} : Guarded(st)
  /\ co' = Continue(c, does)
  /\ UNCHANGED <<supervising, streaming, stream>>

StartConnects(c, does) ==
  /\ \E st \in {"SYNCING", "DEGRADED"} : Guarded(st)
  /\ ~ streaming /\ co' = [co EXCEPT ![c] = [does |-> does, at |-> "connecting"]]
  /\ UNCHANGED <<supervising, streaming, stream>>

StartConnected(c, does) ==
  /\ \E st \in {"SYNCING", "DEGRADED"} : Guarded(st)
  /\ streaming /\ Supervise(Continue(c, does))
  /\ UNCHANGED <<streaming, stream>>

Start(c, does) ==
  \/ StartAgain(c, does) \/ StartFails(c, does)
  \/ StartConnects(c, does) \/ StartConnected(c, does)

(***************************************************************************)
(* AsyncClient.create returns, or raises and is only logged: the supervisor *)
(* starts either way, whatever was stopped in the meantime.                 *)
(***************************************************************************)
Listens ==
  \E l \in Listeners \ listeners :
    streaming' = TRUE /\ listeners' = listeners \cup {l} /\ newest' = {l}

Connected(c) ==
  /\ co[c].at = "connecting"
  /\ Listens \/ UNCHANGED <<streaming, listeners, newest>>
  /\ Supervise(Continue(c, co[c].does))
  /\ UNCHANGED <<session, tasks, executing, state, running, crossed, requests>>

-----------------------------------------------------------------------------
(* Requests.  TradingSession.start and stop create tasks.                  *)

Request == requests < MaxRequests /\ requests' = requests + 1

Untouched == UNCHANGED <<co, executing, state, flags, stream>>

(* routes_session /start: from RUNNING or ERROR it raises and sets ERROR.  *)
StartSession ==
  /\ Request /\ Untouched
  /\ session' = IF session = "STOPPED" THEN "RUNNING" ELSE "ERROR"
  /\ tasks' = IF session = "STOPPED" THEN Append(tasks, "start") ELSE tasks

(***************************************************************************)
(* routes_system start: a session that runs is not started again, but       *)
(* LiveService.start, when the runner is dead, creates a start task of its *)
(* own if the execution system does not run yet.                           *)
(***************************************************************************)
StartOfManager == IF session = "STOPPED" THEN <<"start">> ELSE <<>>

StartOfService(runnerAlive) == IF runnerAlive \/ running THEN <<>> ELSE <<"start">>

StartLive(runnerAlive) ==
  /\ Request /\ Untouched
  /\ IF session = "ERROR" THEN UNCHANGED <<session, tasks>>
     ELSE /\ session' = "RUNNING"
          /\ tasks' = tasks \o StartOfManager \o StartOfService(runnerAlive)

StopOfManager == session' = "STOPPED" /\ tasks' = Append(tasks, "stop")

StopSession == Request /\ Untouched /\ StopOfManager

RestartSession ==
  /\ Request /\ Untouched
  /\ session' = "RUNNING" /\ tasks' = tasks \o <<"stop", "start">>

(* routes_system stop: awaits the stop, then has the manager stop the session. *)
StopLive(c) ==
  /\ Request /\ co[c] = Idle /\ Halt
  /\ co' = [co EXCEPT ![c] = [does |-> "stop", at |-> "closing"]]
  /\ UNCHANGED <<session, tasks, executing, state>>

StopLiveEnds(c) ==
  /\ co[c].at = "closing" /\ co' = [co EXCEPT ![c] = Idle]
  /\ StopOfManager
  /\ UNCHANGED <<executing, state, flags, stream, requests>>

StopTask ==
  /\ tasks # <<>> /\ Head(tasks) = "stop" /\ tasks' = Tail(tasks)
  /\ Halt
  /\ UNCHANGED <<session, co, executing, state, requests>>

StartTask(c) ==
  /\ tasks # <<>> /\ Head(tasks) = "start" /\ tasks' = Tail(tasks)
  /\ co[c] = Idle /\ Start(c, "start")
  /\ UNCHANGED <<session, requests>>

-----------------------------------------------------------------------------
(* restart(): stop, a pause of a second, start.  (The branch that clears a  *)
(* frozen state calls to_syncing, which refuses to leave FROZEN.)           *)
RestartBegins(c, does) ==
  /\ Halt
  /\ co' = [co EXCEPT ![c] = [does |-> does, at |-> "pausing"]]

RestartGoesOn(c) ==
  /\ co[c].at = "pausing" /\ Start(c, co[c].does)
  /\ UNCHANGED <<session, tasks, requests>>

(* _loop wakes: ends with the flag, else ticks.                            *)
LoopEnds(c) ==
  /\ co[c] = Loop /\ ~ supervising
  /\ co' = [co EXCEPT ![c] = Idle]
  /\ UNCHANGED <<session, tasks, executing, state, flags, stream, requests>>

Ticks(c) == co[c] = Loop /\ supervising /\ status \notin {"FROZEN", "BOOTSTRAPPING"}

(* A tick that finds the state fit, or only recoverable and reconciles it.  *)
TickJudges(c) ==
  /\ Ticks(c)
  /\ status' \in {"READY", "DEGRADED"} /\ vouched' = FALSE
  /\ UNCHANGED <<session, tasks, co, executing, flags, stream, requests>>

(* The snapshot it reconciles from cannot be had: frozen, and no restart.   *)
ReconcileFails(c) ==
  /\ Ticks(c)
  /\ status' = "FROZEN" /\ vouched' = FALSE
  /\ UNCHANGED <<session, tasks, co, executing, flags, stream, requests>>

(* Fatal drift freezes the state and restarts.                             *)
TickDrifted(c) ==
  /\ Ticks(c) /\ status' = "FROZEN"
  /\ RestartBegins(c, "drifted")
  /\ UNCHANGED <<session, tasks, executing, vouched, requests>>

(* detect() or check() raises: the loop restarts the system and returns.    *)
TickCrashes(c) ==
  /\ Ticks(c) /\ status' = "FROZEN"
  /\ RestartBegins(c, "crashed")
  /\ UNCHANGED <<session, tasks, executing, vouched, requests>>

-----------------------------------------------------------------------------
(* Executions ask nobody whether the system runs.  What the orchestrator's  *)
(* verification concludes overrides any state, FROZEN included.             *)
Executes ==
  /\ status = "READY" /\ executing = "none" /\ executing' = "current"
  /\ UNCHANGED <<session, tasks, co, state, flags, stream, requests>>

ExecutionVerified ==
  /\ executing # "none" /\ executing' = "none"
  /\ \/ status' = "READY" /\ vouched' = (vouched \/ executing = "older")
     \/ UNCHANGED state
  /\ UNCHANGED <<session, tasks, co, flags, stream, requests>>

ExecutionMistrusted(c) ==
  /\ executing # "none" /\ executing' = "none" /\ co[c] = Idle
  /\ status' = "FROZEN" /\ RestartBegins(c, "verify")
  /\ UNCHANGED <<session, tasks, vouched, requests>>

(* The health loop or the circuit breaker freezes the state alone.         *)
Frozen ==
  /\ status # "FROZEN" /\ status' = "FROZEN"
  /\ UNCHANGED <<session, tasks, co, executing, vouched, flags, stream,
                 requests>>

(* A listener dies of its socket, or sees the flag at its next message.     *)
ListenerEnds(l) ==
  /\ l \in listeners /\ listeners' = listeners \ {l}
  /\ UNCHANGED <<session, tasks, co, executing, state, flags, newest, crossed,
                 requests>>

-----------------------------------------------------------------------------
Requested == \/ StartSession \/ StopSession \/ RestartSession
             \/ \E runnerAlive \in BOOLEAN : StartLive(runnerAlive)

Proceed(c) == \/ StopLive(c) \/ StopLiveEnds(c) \/ StartTask(c) \/ Connected(c)
              \/ RestartGoesOn(c) \/ ExecutionMistrusted(c)

Tick(c) == \/ LoopEnds(c) \/ TickJudges(c) \/ ReconcileFails(c)
           \/ TickDrifted(c) \/ TickCrashes(c)

Next == \/ Requested \/ StopTask \/ Executes \/ ExecutionVerified \/ Frozen
        \/ \E c \in Coroutines : Proceed(c) \/ Tick(c)
        \/ \E l \in Listeners : ListenerEnds(l)

Spec == Init /\ [][Next]_vars

-----------------------------------------------------------------------------
(***************************************************************************)
(* With nothing under way, a running system that trades is supervised,      *)
(* whatever crossed, crashed or was started twice before: a live loop       *)
(* watches it.  (Unless an execution older than the newest start set the   *)
(* state READY: it may undo the freeze of a start that then returned.)      *)
(***************************************************************************)
Quiet == tasks = <<>> /\ At("pausing") \cup At("connecting") \cup At("closing") = {}

SupervisedWhenReady ==
  Quiet /\ running /\ status \notin {"FROZEN", "BOOTSTRAPPING"} /\ ~ vouched
    => supervising /\ Loops # {}

(***************************************************************************)
(* Events reach the sync engine once: only a stop that ran into a           *)
(* connecting start leaves a further listener, which nothing cancels.      *)
(***************************************************************************)
EventsArriveOnce == Cardinality(listeners) <= 1 + crossed

=============================================================================
