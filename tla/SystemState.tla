------------------------------ MODULE SystemState ------------------------------
(***************************************************************************)
(* A session's system state: the execution block that intents, heartbeats, *)
(* execution states and snapshots write, its way through the state hub to *)
(* the browsers, and the daily drawdown, whose flag refuses opens; its     *)
(* baseline is anchored by decisions the orchestrator never returns.       *)
(*                                                                        *)
(* Of the other blocks nothing depends on what they hold: "system" and    *)
(* "health" are sent by the same heartbeat, "intents" only by the intent  *)
(* websocket.  Event-loop steps: one action per stretch between awaits.   *)
(***************************************************************************)
EXTENDS Integers, Sequences, FiniteSets

CONSTANTS
  Clients,     \* browser connections on /ws/state
  MaxSize,     \* largest position
  MaxIntents,  \* bound on intents
  MaxMoves,    \* bound on changes of the exchange's position and the status
  MaxRuns,     \* bound on start, stop and restart requests
  Equities,    \* values of the account's equity
  MaxDay,      \* last UTC day
  Limit        \* daily_dd_limit, as an amount instead of a fraction

ASSUME BoundsAssumption ==
  /\ MaxSize \in Nat \ {0} /\ Equities \subseteq Nat \ {0} /\ Equities # {}
  /\ {MaxIntents, MaxMoves, MaxRuns, MaxDay, Limit} \subseteq Nat

VARIABLES
  status,    \* session.status
  loops,     \* heartbeat loops of the event loop
  alive,     \* _alive of the state engine
  starting,  \* emit_snapshot tasks that start() has created
  exstatus,  \* execution_state.status
  local,     \* the sync engine's position
  exch,      \* the exchange's
  task,      \* inject_intent: its await and its intent
  late,      \* the grace of the active intent has passed
  block,     \* self.state["execution"]
  lastSent,  \* _last_sent["execution"]
  outbox,    \* deltas whose hub task has not run, oldest first
  cached,    \* the hub holds a snapshot; it is the engine's own state
  ws,        \* each connection: off, waiting, left (unnoticed), open or gone
  members,   \* connections in the hub's _clients
  view,      \* the execution block each browser shows
  equity, day,
  daily,     \* the session's _daily_* attributes
  regime,    \* "browsers": connections, requests, one intent, long positions;
             \* or "intents": several of them while equity and days move
  intents, moves, runs, \* what the bounds count
  executed   \* history: intents whose execution returned success

serverVars == <<status, loops, alive, starting, exstatus>>
hubVars    == <<cached, ws, members, view>>
dailyVars  == <<equity, day, daily, regime>>
sentVars == <<lastSent, outbox>>
vars == <<serverVars, local, exch, task, late, block, sentVars, hubVars,
          dailyVars, intents, moves, runs, executed>>

-----------------------------------------------------------------------------
Flat      == [side |-> "FLAT", size |-> 0]
Positions == [side : {"LONG", "SHORT"}, size : 1 .. MaxSize] \cup {Flat}
NoIntent  == [id |-> 0, target |-> Flat]
NoLast    == [id |-> 0, target |-> Flat, status |-> "none"]

Idle == [pc |-> "idle", id |-> 0, target |-> Flat]

Top   == CHOOSE e \in Equities : \A f \in Equities : f <= e
NoDay == [date |-> 0, started |-> FALSE, start |-> 0, blocked |-> FALSE]

Init ==
  /\ status = "CREATED" /\ loops = 0 /\ alive = TRUE /\ starting = 0
  /\ exstatus = "READY" /\ exch = Flat /\ local = Flat
  /\ task = Idle /\ late = FALSE
  /\ block = [status |-> "READY", pos |-> Flat, active |-> NoIntent, last |-> NoLast]
  /\ lastSent = {} /\ outbox = <<>> /\ cached = FALSE
  /\ ws = [c \in Clients |-> "off"] /\ members = {} /\ view = [c \in Clients |-> {}]
  /\ equity = Top /\ day = 1 /\ daily = NoDay
  /\ regime \in {"browsers", "intents"}
  /\ intents = 0 /\ moves = 0 /\ runs = 0 /\ executed = {}

-----------------------------------------------------------------------------
(* The block, as functions.                                               *)

Resolve(b, how) == [b EXCEPT !.last = [id |-> b.active.id, target |-> b.active.target,
                                       status |-> how],
                             !.active = NoIntent]

(* Defective variant: the grace starts anew with every look.              *)
Missing_Never(b) == FALSE

Missing(b) == b.pos = Flat /\ late

Diverged(b) ==
  /\ b.pos # Flat /\ b.active.target # Flat
  /\ b.active.target # b.pos

(* A SET_FLAT intent names neither side nor size and so never diverges; the *)
(* grace for a missing position holds for it, too.                        *)
ReconcileIntentState(b) ==
  IF b.active # NoIntent /\ (Missing(b) \/ Diverged(b)) THEN Resolve(b, "INVALIDATED")
  ELSE b

RefreshExecution(b, s) == ReconcileIntentState([b EXCEPT !.status = s, !.pos = local])

(* emit_snapshot normalizes the block in place; of intents nothing is left. *)
Normalize(b) == [b EXCEPT !.active = NoIntent, !.last = NoLast]

(* Defective variant: an intent that is still open is kept.               *)
OnIntentSubmitted_KeepsOpen(b, t) ==
  IF b.active # NoIntent THEN b
  ELSE [b EXCEPT !.active = [id |-> t.id, target |-> t.target],
                 !.last = [id |-> t.id, target |-> t.target, status |-> "OPEN"]]

OnIntentSubmitted(b, t) ==
  [b EXCEPT !.active = [id |-> t.id, target |-> t.target],
            !.last = [id |-> t.id, target |-> t.target, status |-> "OPEN"]]

(* Defective variant: the last intent is taken for the active one.        *)
OnExecutionEvent_TakesLast(b, decision) ==
  [b EXCEPT !.active = NoIntent,
            !.last.status = IF decision = "REFUSED" THEN "REJECTED" ELSE "COMPLETED"]

OnExecutionEvent(b, decision) ==
  IF b.active = NoIntent THEN b
  ELSE Resolve(b, IF decision = "REFUSED" THEN "REJECTED" ELSE "COMPLETED")

(* inject_intent: the sync engine's position, else the one REST reports.  *)
SeenPosition == IF local # Flat THEN local ELSE exch

(***************************************************************************)
(* A delta refers to the execution dict, which its hub task serialises when *)
(* it runs: {} stands for "the block as it is by then".  Intents and their  *)
(* results are written into that dict; _refresh_execution puts another in   *)
(* its place, and what waits keeps the old one.                            *)
(***************************************************************************)
Detached == [i \in DOMAIN outbox |-> IF outbox[i] = {} THEN {block} ELSE outbox[i]]

(* emit_delta: only what differs from the copy taken of the last one.      *)
Differs(b) == lastSent # {b}

(* Without a connection, now or later, a hub task has nobody to send to.   *)
Queue(waiting) == IF regime = "browsers" THEN Append(waiting, {}) ELSE waiting

EmitDelta(b, waiting) ==
  IF Differs(b) THEN lastSent' = {b} /\ outbox' = Queue(waiting)
  ELSE UNCHANGED lastSent /\ outbox' = waiting

(* The hub sends to one connection after the other and forgets who fails.  *)
Send(message) ==
  LET dead == {c \in members : ws[c] = "left"}
  IN  /\ view' = [c \in Clients |-> IF c \in members \ dead THEN message ELSE view[c]]
      /\ members' = members \ dead

-----------------------------------------------------------------------------
(* The daily drawdown.                                                    *)

RollDay == IF daily.date = day THEN daily ELSE [NoDay EXCEPT !.date = day]

Recompute(d) ==
  [d EXCEPT !.blocked = d.started /\ d.start > 0 /\ equity <= d.start - Limit]

RefreshBeforeOpen == Recompute(RollDay)

(* on_execution_decision_for_daily_risk, called for OPENED and CLOSED only. *)
OnExecutionDecision(decision) ==
  IF decision \notin {"OPENED", "CLOSED"} THEN daily
  ELSE Recompute(IF RollDay.started THEN RollDay
                 ELSE [RollDay EXCEPT !.started = TRUE, !.start = equity])

(* A dashboard that asks for the risk panel rolls the day, too.           *)
DashboardPolls ==
  /\ regime = "intents" /\ daily' = Recompute(RollDay)
  /\ UNCHANGED <<serverVars, local, exch, task, late, block, sentVars, hubVars,
                 equity, day, regime, intents, moves, runs, executed>>

EquityMoves ==
  /\ regime = "intents" /\ equity' \in Equities \ {equity}
  /\ UNCHANGED <<serverVars, local, exch, task, late, block, sentVars, hubVars,
                 day, daily, regime, intents, moves, runs, executed>>

NextDay ==
  /\ regime = "intents" /\ day < MaxDay /\ day' = day + 1
  /\ UNCHANGED <<serverVars, local, exch, task, late, block, sentVars, hubVars,
                 equity, daily, regime, intents, moves, runs, executed>>

-----------------------------------------------------------------------------
(* Intents; the session's lock admits one at a time.                      *)

Submit(target) ==
  /\ status # "CREATED" /\ task = Idle
  /\ intents < IF regime = "browsers" THEN 1 ELSE MaxIntents
  /\ intents' = intents + 1
  /\ daily' = IF target # Flat THEN RefreshBeforeOpen ELSE daily
  /\ task' = IF target # Flat /\ daily'.blocked THEN Idle
             ELSE [pc |-> "pause", id |-> intents', target |-> target]
  /\ UNCHANGED <<serverVars, local, exch, late, block, sentVars, hubVars,
                 equity, day, regime, moves, runs, executed>>

(* After the 0.3 s: the state learns of the intent, then of the position,  *)
(* which goes into the dict that the intent's delta has just referred to.  *)
Resume ==
  /\ task.pc = "pause"
  /\ LET b == OnIntentSubmitted(block, task)
     IN  EmitDelta(b, outbox) /\ block' = [b EXCEPT !.pos = SeenPosition]
  /\ task' = [task EXCEPT !.pc = "exec"] /\ late' = FALSE
  /\ UNCHANGED <<serverVars, local, exch, hubVars, dailyVars, intents, moves, runs,
                 executed>>

(* ExecutionOrchestrator.submit_intent returns ALLOW once it has run, or  *)
(* REFUSED; those are all its decisions.                                  *)
ExecuteReturns(decision) ==
  /\ task.pc = "exec" /\ task' = Idle
  /\ block' = OnExecutionEvent(block, decision) /\ EmitDelta(block', outbox)
  /\ daily' = OnExecutionDecision(decision)
  /\ executed' = IF decision = "ALLOW" THEN executed \cup {task.id} ELSE executed
  /\ UNCHANGED <<serverVars, local, exch, late, hubVars, equity, day, regime, intents, moves,
                 runs>>

(* It raises: nobody tells the state.                                     *)
ExecuteRaises ==
  /\ task.pc = "exec" /\ task' = Idle
  /\ UNCHANGED <<serverVars, local, exch, late, block, sentVars, hubVars,
                 dailyVars, intents, moves, runs, executed>>

GracePasses ==
  /\ block.active # NoIntent /\ ~ late /\ late' = TRUE
  /\ UNCHANGED <<serverVars, local, exch, task, block, sentVars, hubVars,
                 dailyVars, intents, moves, runs, executed>>

-----------------------------------------------------------------------------
(* What the rest of the system does to the state.                         *)

(* SHORT is the mirror image of LONG; browsers watch no flip of the two.   *)
Watched == {p \in Positions : regime = "browsers" => p.side # "SHORT"}

ExchangeMoves ==
  /\ moves < MaxMoves /\ moves' = moves + 1
  /\ exch' \in Watched \ {exch}
  /\ UNCHANGED <<serverVars, local, task, late, block, sentVars, hubVars,
                 dailyVars, intents, runs, executed>>

SyncFollows ==
  /\ local # exch /\ local' = exch
  /\ UNCHANGED <<serverVars, exch, task, late, block, sentVars, hubVars,
                 dailyVars, intents, moves, runs, executed>>

(* set_state and its listener, which the start of the session binds.      *)
Bound == status # "CREATED"

StatusMoves ==
  /\ regime = "browsers" /\ Bound /\ moves < MaxMoves /\ moves' = moves + 1
  /\ exstatus' = IF exstatus = "READY" THEN "FROZEN" ELSE "READY"
  /\ block' = RefreshExecution(block, exstatus')
  /\ IF block'.status # block.status THEN EmitDelta(block', Detached)
     ELSE UNCHANGED lastSent /\ outbox' = Detached
  /\ UNCHANGED <<status, loops, alive, starting, local, exch, task, late, hubVars, dailyVars,
                 intents, runs, executed>>

(* One beat; uptime differs from beat to beat, so the emission is tried.  *)
Heartbeat ==
  /\ loops > 0
  /\ block' = RefreshExecution(block, exstatus) /\ EmitDelta(block', Detached)
  /\ loops' = IF alive THEN loops ELSE loops - 1
  /\ UNCHANGED <<status, alive, starting, exstatus, local, exch, task, late, hubVars,
                 dailyVars, intents, moves, runs, executed>>

-----------------------------------------------------------------------------
(* The session.                                                           *)

(* start_heartbeat finds _heartbeat_task None at every start, for nothing *)
(* sets it; the loop it adds ends at once in a state engine once stopped. *)
Begin(added) ==
  /\ status' = "RUNNING" /\ starting' = starting + 1
  /\ loops' = IF alive THEN loops + added ELSE loops

Start ==
  /\ runs < MaxRuns /\ runs' = runs + 1 /\ status # "RUNNING" /\ Begin(1)
  /\ UNCHANGED <<alive, exstatus, local, exch, task, late, block, sentVars,
                 hubVars, dailyVars, intents, moves, executed>>

(* /restart: stop() and start() of the session, not of the state engine.  *)
Restart ==
  /\ regime = "browsers" /\ runs < MaxRuns /\ runs' = runs + 1
  /\ status # "CREATED" /\ Begin(1)
  /\ UNCHANGED <<alive, exstatus, local, exch, task, late, block, sentVars,
                 hubVars, dailyVars, intents, moves, executed>>

(* The stop route also ends the heartbeat.                                *)
Stop ==
  /\ regime = "browsers" /\ runs < MaxRuns /\ runs' = runs + 1 /\ status = "RUNNING"
  /\ status' = "STOPPED" /\ alive' = FALSE
  /\ UNCHANGED <<loops, starting, exstatus, local, exch, task, late, block, sentVars, hubVars, dailyVars, intents, moves, executed>>

(* Defective variant: the hub keeps the snapshot and sends it to nobody.  *)
EmitSnapshot_CachesOnly ==
  /\ block' = Normalize(RefreshExecution(block, exstatus))
  /\ outbox' = Detached /\ cached' = TRUE
  /\ UNCHANGED <<view, members>>

(* emit_snapshot awaits the hub, which sends at once: a snapshot overtakes  *)
(* the deltas whose tasks have not run.  _last_sent knows nothing of it.   *)
EmitSnapshot ==
  /\ block' = Normalize(RefreshExecution(block, exstatus))
  /\ outbox' = Detached /\ cached' = TRUE
  /\ Send({block'})

SnapshotOfStart ==
  /\ starting > 0 /\ starting' = starting - 1
  /\ IF status = "RUNNING" THEN EmitSnapshot
     ELSE UNCHANGED <<block, outbox, cached, view, members>>
  /\ UNCHANGED <<status, loops, alive, exstatus, local, exch, task, late, lastSent, ws,
                 dailyVars, intents, moves, runs, executed>>

-----------------------------------------------------------------------------
(* The hub and its connections.                                           *)

Connect(c) ==
  /\ regime = "browsers" /\ ws[c] = "off" /\ ws' = [ws EXCEPT ![c] = "waiting"]
  /\ members' = members \cup {c}
  /\ view' = IF cached THEN [view EXCEPT ![c] = {block}] ELSE view
  /\ UNCHANGED <<serverVars, local, exch, task, late, block, sentVars, cached,
                 dailyVars, intents, moves, runs, executed>>

(* ws_state sees a running session: the snapshot goes to every connection, *)
(* and one that has left meanwhile is found out by it.                    *)
Subscribe(c) ==
  /\ ws[c] \in {"waiting", "left"} /\ status = "RUNNING"
  /\ ws' = [ws EXCEPT ![c] = IF @ = "waiting" THEN "open" ELSE "gone"]
  /\ EmitSnapshot
  /\ UNCHANGED <<serverVars, local, exch, task, late, lastSent, dailyVars, intents, moves,
                 runs, executed>>

(* A browser goes away: receive_text raises, and the connection is        *)
(* unregistered, or ws_state still waits for the session and does not see. *)
Leave(c) ==
  /\ ws[c] \in {"waiting", "open"}
  /\ ws' = [ws EXCEPT ![c] = IF @ = "waiting" THEN "left" ELSE "gone"]
  /\ members' = IF ws[c] = "open" THEN members \ {c} ELSE members
  /\ view' = [view EXCEPT ![c] = {}]
  /\ UNCHANGED <<serverVars, local, exch, task, late, block, sentVars, cached,
                 dailyVars, intents, moves, runs, executed>>

(* The oldest hub task runs.                                              *)
Broadcast ==
  /\ outbox # <<>> /\ outbox' = Tail(outbox)
  /\ Send(IF Head(outbox) = {} THEN {block} ELSE Head(outbox))
  /\ UNCHANGED <<serverVars, local, exch, task, late, block, lastSent, cached, ws,
                 dailyVars, intents, moves, runs, executed>>

-----------------------------------------------------------------------------
Decisions == {"ALLOW", "REFUSED"}

Intent == (\E t \in Positions : Submit(t)) \/ Resume
            \/ (\E d \in Decisions : ExecuteReturns(d)) \/ ExecuteRaises

Session == Start \/ Restart \/ Stop \/ SnapshotOfStart

Connection(c) == Connect(c) \/ Subscribe(c) \/ Leave(c)

Next ==
  \/ Intent \/ GracePasses \/ ExchangeMoves \/ SyncFollows \/ StatusMoves
  \/ Heartbeat \/ Session \/ Broadcast \/ EquityMoves \/ NextDay \/ DashboardPolls
  \/ \E c \in Clients : Connection(c)

Spec == Init /\ [][Next]_vars

(* asyncio runs what is ready, time passes, reports arrive; nothing is    *)
(* assumed of intents, requests, browsers or the exchange.                *)
FairSpec ==
  /\ Spec
  /\ WF_vars(Heartbeat) /\ WF_vars(Broadcast) /\ WF_vars(GracePasses)
  /\ WF_vars(SyncFollows) /\ WF_vars(SnapshotOfStart)

-----------------------------------------------------------------------------
Intents == [id : 1 .. MaxIntents, target : Positions] \cup {NoIntent}
Blocks ==
  [status : {"READY", "FROZEN"}, pos : Positions, active : Intents,
   last : [id : 1 .. MaxIntents, target : Positions,
           status : {"OPEN", "COMPLETED", "REJECTED", "INVALIDATED"}] \cup {NoLast}]

(* The kind of value every variable holds.                                *)
TypeOK ==
  /\ status \in {"CREATED", "RUNNING", "STOPPED"} /\ exstatus \in {"READY", "FROZEN"}
  /\ loops \in 0 .. MaxRuns /\ starting \in 0 .. MaxRuns /\ alive \in BOOLEAN
  /\ local \in Positions /\ exch \in Positions /\ block \in Blocks
  /\ task \in [pc : {"idle", "pause", "exec"}, id : 0 .. MaxIntents, target : Positions]
  /\ \A b \in lastSent : b \in Blocks
  /\ \A i \in DOMAIN outbox : \A b \in outbox[i] : b \in Blocks
  /\ ws \in [Clients -> {"off", "waiting", "left", "open", "gone"}]
  /\ members \subseteq Clients /\ \A c \in Clients : \A b \in view[c] : b \in Blocks
  /\ {late, cached} \subseteq BOOLEAN
  /\ equity \in Equities /\ day \in 1 .. MaxDay
  /\ daily \in [date : 0 .. MaxDay, started : BOOLEAN, start : Equities \cup {0},
                blocked : BOOLEAN]

(* What the block, and so every browser, says of an intent is true: it is *)
(* COMPLETED only if its own execution returned success, and not when the *)
(* one before it raised and left its intent open.                         *)
StatusIsTrue ==
  LET blocks == {block} \cup lastSent \cup UNION {view[c] : c \in Clients}
  IN  \A b \in blocks : b.last.status = "COMPLETED" => b.last.id \in executed

(* A resolved intent stays as it was resolved, whatever comes later.      *)
ResolvedOnce ==
  [][ block.last.status \notin {"none", "OPEN"} /\ block'.last.id = block.last.id
      => block'.last = block.last ]_vars

(* While a heartbeat beats, what the browsers show of the intents and the  *)
(* status ends as the state is, though deltas are compared with a copy of  *)
(* what was not yet sent, snapshots overtake them and are compared with    *)
(* nothing, and a browser may come between any two.  Of the position this  *)
(* is not true: README.md tells how a browser keeps one taken back.        *)
Told(b) == <<b.status, b.active, b.last>>

ViewsConverge ==
  <>[](loops > 0 =>
         \A c \in Clients : ws[c] = "open" => {Told(b) : b \in view[c]} = {Told(block)})

(* While a heartbeat beats, an intent whose execution raised does not stay *)
(* open for ever, unless the position is just what it asked for.          *)
FailedIntentIsResolved ==
  <>[](loops > 0 /\ task = Idle /\ block.active # NoIntent
         => block.pos # Flat /\ block.active.target \in {Flat, block.pos})

=============================================================================
