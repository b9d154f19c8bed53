--------------------------- MODULE ControlConfig ---------------------------
(***************************************************************************)
(* The control panel: the process-wide runtime_config and its file, the   *)
(* settings stored per session, and the session API that stores them,     *)
(* applies them to the live session objects and runs backtests.           *)
(*                                                                        *)
(* The routes of routes_control and one of routes_system are sync         *)
(* functions: each request runs in a thread, which loses the interpreter  *)
(* at any point.  Those of routes_session are coroutines that never yield. *)
(* A backtest is a thread.                                                *)
(* A file that does not exist reads as the defaults.                      *)
(***************************************************************************)
EXTENDS Integers, Sequences, FiniteSets

CONSTANTS
  RuntimeKeys,  \* PERSISTED_KEYS of runtime_config
  SessionKeys,  \* ALLOWED_KEYS of a session's control_config.json
  Risk,         \* the key risk_percent, which both have
  Values, Default, NoValue,
  Sessions,     \* canonical session ids
  Threads,      \* threads of the server's pool
  MaxRequests,  \* bound on requests that change a setting
  MaxRuns,      \* bound on backtests at a time
  MaxCrashes    \* bound on restarts of the process

ASSUME RiskAssumption   == Risk \in RuntimeKeys \cap SessionKeys
ASSUME ValuesAssumption == Default \in Values /\ NoValue \notin Values
ASSUME BoundsAssumption == {MaxRequests, MaxRuns, MaxCrashes} \subseteq Nat

VARIABLES
  memory,    \* runtime_config
  disk,      \* data/runtime_config.json
  files,     \* data/sessions/<id>/control_config.json, or NoFile
  sessions,  \* manager.sessions: config and risk_config of each, or NoSession
  status,    \* session.status
  runs,      \* how many backtest threads of each session are new, are running
  threads,   \* what each request thread does
  requests, crashes,  \* how many there were
  kept,      \* history: the runtime setting that must survive, or NoValue
  promised,  \* history: the session setting acknowledged last, or NoValue
  own        \* history: the session's risk was not set by the last global update

fileVars    == <<disk, files>>
sessionVars == <<sessions, status, runs>>
boundVars   == <<requests, crashes>>
historyVars == <<kept, promised, own>>
vars == <<memory, fileVars, sessionVars, threads, boundVars, historyVars>>

-----------------------------------------------------------------------------
NoFile    == [k \in {} |-> Default]
NoSession == [config |-> NoFile, risk |-> NoValue]
Idle      == [pc |-> "idle", session |-> "", key |-> Risk, value |-> Default,
              copy |-> NoFile, stale |-> FALSE]

NoRuns    == [new |-> 0, running |-> 0]

Exists(s)  == sessions[s] # NoSession
Stored(s)  == files[s] # NoFile

Init ==
  /\ memory = [k \in RuntimeKeys |-> Default] /\ disk = memory
  /\ files = [s \in Sessions |-> NoFile]
  /\ sessions = [s \in Sessions |-> NoSession]
  /\ status = [s \in Sessions |-> "none"]
  /\ runs = [s \in Sessions |-> NoRuns]
  /\ threads = [t \in Threads |-> Idle]
  /\ requests = 0 /\ crashes = 0
  /\ kept = [k \in RuntimeKeys |-> NoValue]
  /\ promised = [s \in Sessions |-> [k \in SessionKeys |-> NoValue]]
  /\ own = [s \in Sessions |-> FALSE]

-----------------------------------------------------------------------------
(* load_control_config_merged: the session file, or runtime_config.       *)
Defaults(s) ==
  [k \in SessionKeys |-> IF k \in RuntimeKeys THEN memory[k] ELSE Default]
Merged(s) == IF Stored(s) THEN files[s] ELSE Defaults(s)

(* A session: its configuration, and the risk_config orders are sized by. *)
NewSession(config) == [config |-> config, risk |-> config[Risk]]

WithRisk(session, risk) == [session EXCEPT !.risk = risk]

(* apply_stored_to_trading_session.                                       *)
Applied(s, stored) ==
  [sessions EXCEPT ![s] = WithRisk([@ EXCEPT !.config = stored], stored[Risk])]

(* Another thread is about to write what it read of the file before.      *)
Writers(pc, s) == {t \in Threads : threads[t].pc = pc /\ threads[t].session = s}

Request == requests < MaxRequests /\ requests' = requests + 1 /\ UNCHANGED crashes

-----------------------------------------------------------------------------
(* POST /control/... without a session: runtime_config and its file.      *)

(* A setting that thread u has still to save, or has read to push it, changes. *)
Overtaken(u, k) ==
  \/ threads[u].pc \in {"payload", "write"} /\ threads[u].key = k
  \/ threads[u].pc = "push" /\ k = Risk

(* A setting of runtime_config changes at once, in memory.                *)
SetRuntime(t, k, v) ==
  /\ threads[t].pc = "idle" /\ Request
  /\ memory' = [memory EXCEPT ![k] = v]
  /\ threads' = [u \in Threads |->
       IF u = t THEN [Idle EXCEPT !.pc = "payload", !.key = k, !.value = v,
                                  !.stale = Writers("write", "") # {}]
       ELSE IF Overtaken(u, k) THEN [threads[u] EXCEPT !.stale = TRUE]
       ELSE threads[u]]
  /\ kept' = [kept EXCEPT ![k] = NoValue]
  /\ UNCHANGED <<fileVars, sessionVars, promised, own>>

(* save_runtime_config takes its payload before it takes the lock.        *)
BuildPayload(t) ==
  /\ threads[t].pc = "payload"
  /\ threads' = [threads EXCEPT ![t].pc = "write", ![t].copy = memory]
  /\ UNCHANGED <<memory, fileVars, sessionVars, boundVars, historyVars>>

(***************************************************************************)
(* The file is replaced under the lock.  The setting must survive from then *)
(* on if nobody changed it meanwhile and no older payload was under way   *)
(* when it was set.                                                       *)
(***************************************************************************)
WriteRuntime(t) ==
  LET k == threads[t].key
  IN  /\ threads[t].pc = "write"
      /\ disk' = threads[t].copy
      /\ threads' = [threads EXCEPT ![t] = IF k = Risk THEN [@ EXCEPT !.pc = "sync"]
                                           ELSE Idle]
      /\ kept' = IF threads[t].stale THEN kept ELSE [kept EXCEPT ![k] = memory[k]]
      /\ UNCHANGED <<memory, files, sessionVars, boundVars, promised, own>>

(***************************************************************************)
(* sync_dashboard_risk_to_all_sessions, on a new risk: it reads           *)
(* runtime_config again, not the request, then pushes what it read.       *)
(***************************************************************************)
RequestedRisk(t) == threads[t].value
CurrentRisk(t) == memory[Risk]

ReadRisk(t) ==
  /\ threads[t].pc = "sync"
  /\ threads' = [threads EXCEPT ![t].pc = "push", ![t].value = CurrentRisk(t),
                                ![t].stale = FALSE]
  /\ UNCHANGED <<memory, fileVars, sessionVars, boundVars, historyVars>>

PushRisk(t) ==
  /\ threads[t].pc = "push"
  /\ sessions' = [s \in Sessions |-> IF Exists(s)
                    THEN WithRisk(sessions[s], threads[t].value) ELSE NoSession]
  /\ own' = [s \in Sessions |-> threads[t].stale]
  /\ threads' = [threads EXCEPT ![t] = Idle]
  /\ UNCHANGED <<memory, fileVars, status, runs, boundVars, kept, promised>>

-----------------------------------------------------------------------------
(* POST /control/... with a session: save_control_config_merge.           *)

LoadStored(t, s, k, v) ==
  /\ threads[t].pc = "idle" /\ Request
  /\ threads' = [threads EXCEPT ![t] =
       [Idle EXCEPT !.pc = "store", !.session = s, !.key = k, !.value = v,
                    !.copy = [Merged(s) EXCEPT ![k] = v]]]
  /\ UNCHANGED <<memory, fileVars, sessionVars, historyVars>>

(* A setting is promised unless an older copy of the file is on its way,  *)
(* into it or into a new session.                                          *)
Promise(s, k, v, writers) ==
  promised' = [promised EXCEPT ![s][k] =
                 IF writers \cup Writers("create", s) = {} THEN v ELSE NoValue]

(***************************************************************************)
(* The file is replaced.  When the session exists the route goes on to    *)
(* ensure_engine_config, a name its module does not import: it fails, and *)
(* the live object keeps its settings.                                    *)
(***************************************************************************)
WriteStored(t) ==
  LET s == threads[t].session
      k == threads[t].key
  IN  /\ threads[t].pc = "store"
      /\ files' = [files EXCEPT ![s] = threads[t].copy]
      /\ Promise(s, k, IF Exists(s) THEN NoValue ELSE threads[t].value,
                 Writers("store", s) \ {t})
      /\ threads' = [threads EXCEPT ![t] = Idle]
      /\ UNCHANGED <<memory, disk, sessionVars, boundVars, kept, own>>

-----------------------------------------------------------------------------
(* The session API.                                                       *)

(* The session replaces whatever is registered under its id, and is not    *)
(* reached by that one's backtests.                                        *)
Register(s, config) ==
  /\ sessions' = [sessions EXCEPT ![s] = NewSession(config)]
  /\ status' = [status EXCEPT ![s] = "CREATED"]
  /\ runs' = [runs EXCEPT ![s] = NoRuns]
  /\ own' = [own EXCEPT ![s] = TRUE]

(* Creating a session that exists changes nothing.                        *)
CreateSession(s) ==
  /\ ~ Exists(s) /\ Register(s, Merged(s))
  /\ UNCHANGED <<memory, fileVars, threads, boundVars, kept, promised>>

(* The dashboard's route creates it in a thread: it looks for the session  *)
(* and reads the settings, then registers.                                 *)
FindNoSession(t, s) ==
  /\ threads[t].pc = "idle" /\ ~ Exists(s) /\ Request
  /\ threads' = [threads EXCEPT ![t] =
       [Idle EXCEPT !.pc = "create", !.session = s, !.copy = Merged(s)]]
  /\ UNCHANGED <<memory, fileVars, sessionVars, historyVars>>

RegisterFound(t) ==
  /\ threads[t].pc = "create" /\ Register(threads[t].session, threads[t].copy)
  /\ threads' = [threads EXCEPT ![t] = Idle]
  /\ UNCHANGED <<memory, fileVars, boundVars, kept, promised>>

UpdateSessionConfig(s, k, v) ==
  LET merged == [Merged(s) EXCEPT ![k] = v]
  IN  /\ Request
      /\ files' = [files EXCEPT ![s] = merged]
      /\ sessions' = IF Exists(s) THEN Applied(s, merged) ELSE sessions
      /\ Promise(s, k, v, Writers("store", s))
      /\ own' = [own EXCEPT ![s] = TRUE]
      /\ UNCHANGED <<memory, disk, status, runs, threads, kept>>

(* /start and /restart of a backtest: the stored settings, and a thread.  *)
Spawned(s) == [runs EXCEPT ![s].new = @ + 1]

StartBacktest(s) ==
  /\ Exists(s) /\ runs[s].new + runs[s].running < MaxRuns
  /\ sessions' = Applied(s, Merged(s))
  /\ own' = [own EXCEPT ![s] = TRUE]
  /\ status' = [status EXCEPT ![s] = "RUNNING"]
  /\ runs' = Spawned(s)
  /\ UNCHANGED <<memory, fileVars, threads, boundVars, kept, promised>>

StopBacktest(s) ==
  /\ Exists(s)
  /\ status' = [status EXCEPT ![s] = "STOPPED"]
  /\ UNCHANGED <<memory, fileVars, sessions, runs, threads, boundVars, historyVars>>

(* The thread, which no stop reaches: RUNNING, then FINISHED or ERROR.    *)
RunBegins(s) ==
  /\ runs[s].new > 0
  /\ runs' = [runs EXCEPT ![s].new = @ - 1, ![s].running = @ + 1]
  /\ status' = [status EXCEPT ![s] = "RUNNING"]
  /\ UNCHANGED <<memory, fileVars, sessions, threads, boundVars, historyVars>>

OutcomesUnlessRaised == {"RUNNING", "FINISHED"}
Outcomes == {"FINISHED", "ERROR"}

RunEnds(s) ==
  /\ runs[s].running > 0
  /\ runs' = [runs EXCEPT ![s].running = @ - 1]
  /\ \E outcome \in Outcomes : status' = [status EXCEPT ![s] = outcome]
  /\ UNCHANGED <<memory, fileVars, sessions, threads, boundVars, historyVars>>

-----------------------------------------------------------------------------
(***************************************************************************)
(* The process dies and starts again: it reads runtime_config.json, and   *)
(* knows no session until one is created.                                 *)
(***************************************************************************)
DefaultsOnly == [k \in RuntimeKeys |-> Default]
LoadedFromDisk == disk

Restart ==
  /\ crashes < MaxCrashes /\ crashes' = crashes + 1
  /\ memory' = LoadedFromDisk
  /\ sessions' = [s \in Sessions |-> NoSession]
  /\ status' = [s \in Sessions |-> "none"]
  /\ runs' = [s \in Sessions |-> NoRuns]
  /\ threads' = [t \in Threads |-> Idle]
  /\ own' = [s \in Sessions |-> FALSE]
  /\ UNCHANGED <<fileVars, requests, kept, promised>>

-----------------------------------------------------------------------------
ThreadStep(t) ==
  \/ BuildPayload(t) \/ WriteRuntime(t) \/ ReadRisk(t) \/ PushRisk(t)
  \/ WriteStored(t) \/ RegisterFound(t)

Next ==
  \/ \E t \in Threads :
       \/ ThreadStep(t)
       \/ \E k \in RuntimeKeys, v \in Values : SetRuntime(t, k, v)
       \/ \E s \in Sessions, k \in SessionKeys, v \in Values : LoadStored(t, s, k, v)
       \/ \E s \in Sessions : FindNoSession(t, s)
  \/ \E s \in Sessions :
       \/ CreateSession(s) \/ StartBacktest(s) \/ StopBacktest(s)
       \/ \E k \in SessionKeys, v \in Values : UpdateSessionConfig(s, k, v)
       \/ RunBegins(s) \/ RunEnds(s)
  \/ Restart

(* A backtest that began comes to its end; requests owe nothing.          *)
Fairness ==
  \A s \in Sessions : WF_vars(RunBegins(s)) /\ WF_vars(RunEnds(s))

Spec == Init /\ [][Next]_vars /\ Fairness

-----------------------------------------------------------------------------
(* Every variable holds a value of its type.                              *)
Settings == [SessionKeys -> Values]
ThreadType ==
  [pc : {"idle", "payload", "write", "sync", "push", "store", "create"},
   session : Sessions \cup {""}, key : RuntimeKeys \cup SessionKeys, value : Values,
   copy : Settings \cup [RuntimeKeys -> Values] \cup {NoFile}, stale : BOOLEAN]

TypeOK ==
  /\ memory \in [RuntimeKeys -> Values] /\ disk \in [RuntimeKeys -> Values]
  /\ files \in [Sessions -> Settings \cup {NoFile}]
  /\ sessions \in [Sessions -> [config : Settings, risk : Values] \cup {NoSession}]
  /\ threads \in [Threads -> ThreadType]
  /\ kept \in [RuntimeKeys -> Values \cup {NoValue}]
  /\ promised \in [Sessions -> [SessionKeys -> Values \cup {NoValue}]]
  /\ own \in [Sessions -> BOOLEAN]

(***************************************************************************)
(* runtime_config.py: a setting whose request returned, a pause above all, *)
(* is in memory and on disk, also after restarts and whatever other saves *)
(* come later, until the next request for it.                             *)
(***************************************************************************)
RuntimeIsDurable ==
  \A k \in RuntimeKeys :
    kept[k] # NoValue => memory[k] = kept[k] /\ disk[k] = kept[k]

(***************************************************************************)
(* session_config_store.py: updates of different fields by different routes *)
(* never undo one another: an acknowledged one is in the session's file and, *)
(* from its creation on, in the session's configuration.                  *)
(***************************************************************************)
SettingIsKept ==
  \A s \in Sessions, k \in SessionKeys :
    promised[s][k] # NoValue =>
      /\ Stored(s) /\ files[s][k] = promised[s][k]
      /\ Exists(s) => sessions[s].config[k] = promised[s][k]

(***************************************************************************)
(* sync_dashboard_risk_to_all_sessions: when global updates of the risk   *)
(* race, all sessions end with the one that is in force, unless a session *)
(* was given its own since.                                               *)
(***************************************************************************)
RiskConverges ==
  (\A t \in Threads : threads[t].session = "" => threads[t].pc = "idle") =>
    \A s \in Sessions : Exists(s) /\ ~ own[s] => sessions[s].risk = memory[Risk]

(* A backtest never stays RUNNING, whatever was started or stopped meanwhile. *)
BacktestEnds == \A s \in Sessions : status[s] = "RUNNING" ~> status[s] # "RUNNING"

=============================================================================
