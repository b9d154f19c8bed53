--------------------------- MODULE SystemStateProofs ---------------------------
(***************************************************************************)
(* What a session's state says of its intents is true and stays as it was  *)
(* said, for any number of browsers, intents, requests and days.          *)
(***************************************************************************)
EXTENDS SystemState, TLAPS

Resolutions == {"COMPLETED", "REJECTED", "INVALIDATED"}
Ids   == Nat \ {0}
Tasks == [pc : {"idle", "pause", "exec"}, id : Nat, target : Positions]

Blk ==
  [status : {"READY", "FROZEN"}, pos : Positions,
   active : [id : Ids, target : Positions] \cup {NoIntent},
   last : [id : Ids, target : Positions, status : {"OPEN"} \cup Resolutions]
            \cup {NoLast}]

TypeInv ==
  /\ block \in Blk /\ task \in Tasks
  /\ local \in Positions /\ exch \in Positions
  /\ exstatus \in {"READY", "FROZEN"} /\ intents \in Nat

(* The active intent is the last one and open.                             *)
OpenIsLast(b) ==
  b.active # NoIntent => b.last.id = b.active.id /\ b.last.status = "OPEN"

(* Ids are fresh, and what executes is the active intent, if there is one. *)
Fresh ==
  /\ OpenIsLast(block) /\ block.last.id <= intents
  /\ task.pc = "pause" => block.last.id < task.id /\ task.id <= intents
  /\ task.pc = "exec" /\ block.active # NoIntent => block.active.id = task.id

TrueBlocks == {b \in Blk : b.last.status = "COMPLETED" => b.last.id \in executed}

Said(T) ==
  lastSent \subseteq T /\ outbox \in Seq(SUBSET T) /\ view \in [Clients -> SUBSET T]

IInv == TypeInv /\ Fresh /\ block \in TrueBlocks /\ Said(TrueBlocks)

(* What ResolvedOnce says of one step.                                     *)
Stays ==
  block.last.status \notin {"none", "OPEN"} /\ block'.last.id = block.last.id
    => block'.last = block.last

-----------------------------------------------------------------------------
(* The functions on blocks.                                               *)

LEMMA FlatIsPosition == Flat \in Positions
BY DEF Positions

LEMMA LastOfBlocks ==
  ASSUME NEW b \in Blk
  PROVE  /\ b.last.id \in Nat
         /\ b.last.id = 0 => b.last = NoLast
         /\ b.active # NoIntent => b.active.id \in Ids /\ b.active.target \in Positions
BY DEF Blk, Ids, NoLast

LEMMA ResolveIs ==
  ASSUME NEW b \in Blk, b.active # NoIntent, NEW how \in Resolutions,
         NEW r, r = Resolve(b, how)
  PROVE  /\ r \in Blk /\ r.active = NoIntent
         /\ r.last.id = b.active.id /\ r.last.status = how
<1> DEFINE last == [id |-> b.active.id, target |-> b.active.target, status |-> how]
<1>1. last \in [id : Ids, target : Positions, status : {"OPEN"} \cup Resolutions]
  BY LastOfBlocks
<1>2. last.id = b.active.id /\ last.status = how
  OBVIOUS
<1>3. r = [b EXCEPT !.last = last, !.active = NoIntent]
  BY DEF Resolve
<1> HIDE DEF last
<1>4. r \in Blk /\ r.active = NoIntent /\ r.last = last
  BY <1>1, <1>3 DEF Blk
<1> QED
  BY <1>2, <1>4

(* What a beat, a move of the status or a snapshot may do to a block.      *)
Kept(b, n) ==
  /\ n \in Blk /\ OpenIsLast(n)
  /\ n.active \in {b.active, NoIntent} /\ n.last.id \in {b.last.id, 0}
  /\ b.last.status \notin {"none", "OPEN"} /\ n.last.id = b.last.id => n.last = b.last
  /\ n.last.status = "COMPLETED" => n.last = b.last

LEMMA RefreshKeeps ==
  ASSUME NEW b \in Blk, OpenIsLast(b), local \in Positions, NEW s \in {"READY", "FROZEN"}
  PROVE  Kept(b, RefreshExecution(b, s))
<1> DEFINE m == [b EXCEPT !.status = s, !.pos = local]
           r == Resolve(m, "INVALIDATED")
<1>1. m \in Blk /\ m.active = b.active /\ m.last = b.last
  BY DEF Blk
<1>2. RefreshExecution(b, s) = ReconcileIntentState(m)
  BY DEF RefreshExecution
<1>3. ReconcileIntentState(m) = m \/ (m.active # NoIntent /\ ReconcileIntentState(m) = r)
  BY DEF ReconcileIntentState
<1> HIDE DEF m
<1>4. CASE RefreshExecution(b, s) = m
  BY <1>1, <1>4 DEF Kept, OpenIsLast
<1>5. CASE m.active # NoIntent /\ RefreshExecution(b, s) = r
  <2>1. /\ r \in Blk /\ r.active = NoIntent
        /\ r.last.id = m.active.id /\ r.last.status = "INVALIDATED"
    BY <1>1, <1>5, ResolveIs DEF Resolutions
  <2>2. b.last.id = b.active.id /\ b.last.status = "OPEN"
    BY <1>1, <1>5 DEF OpenIsLast
  <2> QED
    BY <1>1, <1>5, <2>1, <2>2 DEF Kept, OpenIsLast
<1> QED
  BY <1>2, <1>3, <1>4, <1>5

LEMMA NormalizeKeeps ==
  ASSUME NEW b \in Blk, NEW r \in Blk
  PROVE  Kept(b, Normalize(r))
<1> DEFINE n == Normalize(r)
<1>1. n \in Blk /\ n.active = NoIntent /\ n.last = NoLast
  BY DEF Normalize, Blk
<1>2. b.last.id = 0 => b.last.status = "none"
  BY LastOfBlocks DEF NoLast
<1> HIDE DEF n
<1>3. Kept(b, n)
  BY <1>1, <1>2 DEF Kept, OpenIsLast, NoLast
<1> QED
  BY <1>3 DEF n

-----------------------------------------------------------------------------
(* The parts of a step.                                                   *)

LEMMA KeptIsTrue ==
  ASSUME NEW n, Kept(block, n), block \in TrueBlocks
  PROVE  n \in TrueBlocks
BY DEF Kept, TrueBlocks

LEMMA BlockKept ==
  ASSUME IInv, Kept(block, block') \/ block' = block, UNCHANGED <<task, intents, executed>>,
         local' \in Positions, exch' \in Positions, exstatus' \in {"READY", "FROZEN"}
  PROVE  TypeInv' /\ Fresh' /\ (block \in TrueBlocks)' /\ TrueBlocks' = TrueBlocks /\ Stays
<1>1. TrueBlocks' = TrueBlocks
  BY DEF TrueBlocks
<1>2. CASE block' = block
  BY <1>1, <1>2 DEF IInv, TypeInv, Fresh, OpenIsLast, Stays
<1>3. CASE Kept(block, block')
  <2>1. block' \in TrueBlocks
    BY <1>3, KeptIsTrue DEF IInv
  <2>2. TypeInv' /\ Stays
    BY <1>3 DEF IInv, TypeInv, Kept, Stays
  <2>3. OpenIsLast(block)' /\ block'.active \in {block.active, NoIntent}
    BY <1>3 DEF Kept, OpenIsLast
  <2>4. block'.last.id <= block.last.id /\ block'.last.id \in Nat /\ block.last.id \in Nat
    BY <1>3, LastOfBlocks DEF Kept, IInv, TypeInv
  <2>5. task.id \in Nat /\ intents \in Nat
    BY DEF IInv, TypeInv, Tasks
  <2>6. Fresh'
    BY <2>3, <2>4, <2>5 DEF IInv, Fresh
  <2> QED
    BY <1>1, <2>1, <2>2, <2>6
<1> QED
  BY <1>2, <1>3

(* Whatever waits, refers to the block or keeps an older one.              *)
LEMMA DetachedSays ==
  ASSUME NEW T, block \in T, outbox \in Seq(SUBSET T)
  PROVE  Detached \in Seq(SUBSET T)
<1>1. Len(outbox) \in Nat /\ DOMAIN outbox = 1 .. Len(outbox)
  OBVIOUS
<1>2. \A i \in 1 .. Len(outbox) : outbox[i] \in SUBSET T
  OBVIOUS
<1>3. Detached \in [1 .. Len(outbox) -> SUBSET T]
  BY <1>1, <1>2 DEF Detached
<1> QED
  BY <1>1, <1>3

LEMMA EmissionsSay ==
  ASSUME NEW T, Said(T), NEW b \in T, NEW w \in Seq(SUBSET T), EmitDelta(b, w), view' = view
  PROVE  Said(T)'
<1>1. lastSent' \in {lastSent, {b}} /\ outbox' \in {w, Append(w, {})}
  BY DEF EmitDelta, Queue
<1>2. Append(w, {}) \in Seq(SUBSET T)
  OBVIOUS
<1> QED
  BY <1>1, <1>2 DEF Said

LEMMA SendSays ==
  ASSUME NEW T, view \in [Clients -> SUBSET T], NEW m \in SUBSET T, Send(m)
  PROVE  view' \in [Clients -> SUBSET T]
<1>1. PICK M : view' = [c \in Clients |-> IF c \in M THEN m ELSE view[c]]
  BY DEF Send
<1> QED
  BY <1>1

(* Success is never taken back.                                           *)
LEMMA TruthGrows ==
  ASSUME Said(TrueBlocks), executed \subseteq executed'
  PROVE  TrueBlocks \subseteq TrueBlocks' /\ Said(TrueBlocks')
<1>1. TrueBlocks \subseteq TrueBlocks'
  BY DEF TrueBlocks
<1> QED
  BY <1>1 DEF Said

-----------------------------------------------------------------------------
(* The steps.                                                             *)

LEMMA SubmitKeeps ==
  ASSUME IInv, NEW target \in Positions, Submit(target)
  PROVE  IInv' /\ Stays
<1>1. /\ task = Idle /\ intents' = intents + 1 /\ block' = block /\ executed' = executed
      /\ task' \in {Idle, [pc |-> "pause", id |-> intents', target |-> target]}
      /\ UNCHANGED <<local, exch, exstatus, lastSent, outbox, view>>
  BY DEF Submit, serverVars, sentVars, hubVars
<1>2. block.last.id \in Nat /\ intents \in Nat /\ block.last.id <= intents
  BY LastOfBlocks DEF IInv, TypeInv, Fresh
<1>3. task' \in Tasks
  BY <1>1, <1>2, FlatIsPosition DEF Tasks, Idle
<1>4. TypeInv' /\ Stays
  BY <1>1, <1>2, <1>3 DEF IInv, TypeInv, Stays
<1>5. Fresh'
  <2>1. OpenIsLast(block)' /\ block'.last.id <= intents'
    BY <1>1, <1>2 DEF IInv, Fresh, OpenIsLast
  <2>2. CASE task' = Idle
    BY <2>1, <2>2 DEF Fresh, Idle
  <2>3. CASE task' = [pc |-> "pause", id |-> intents', target |-> target]
    <3>1. task'.pc = "pause" /\ task'.id = intents'
      BY <2>3
    <3>2. block'.last.id < task'.id /\ task'.id <= intents'
      BY <3>1, <1>1, <1>2
    <3> QED
      BY <2>1, <3>1, <3>2 DEF Fresh
  <2> QED
    BY <1>1, <2>2, <2>3
<1>6. (block \in TrueBlocks)' /\ Said(TrueBlocks)'
  BY <1>1 DEF IInv, TrueBlocks, Said
<1> QED
  BY <1>4, <1>5, <1>6 DEF IInv

(* What the state learns of an intent, and then of the position.           *)
LEMMA SubmittedIs ==
  ASSUME NEW b \in Blk, NEW t \in Tasks, t.id \in Ids, NEW p \in Positions,
         NEW o, o = OnIntentSubmitted(b, t), NEW n, n = [o EXCEPT !.pos = p]
  PROVE  /\ o \in Blk /\ n \in Blk /\ n.active = o.active /\ n.last = o.last
         /\ o.active.id = t.id /\ o.last.id = t.id /\ o.last.status = "OPEN"
<1> DEFINE active == [id |-> t.id, target |-> t.target]
           last == [id |-> t.id, target |-> t.target, status |-> "OPEN"]
<1>1. /\ active \in [id : Ids, target : Positions] /\ active.id = t.id
      /\ last \in [id : Ids, target : Positions, status : {"OPEN"} \cup Resolutions]
      /\ last.id = t.id /\ last.status = "OPEN"
  BY DEF Tasks
<1>2. o = [b EXCEPT !.active = active, !.last = last]
  BY DEF OnIntentSubmitted
<1> HIDE DEF active, last
<1>3. o \in Blk /\ o.active = active /\ o.last = last
  BY <1>1, <1>2 DEF Blk
<1>4. n \in Blk /\ n.active = o.active /\ n.last = o.last
  BY <1>3 DEF Blk
<1> QED
  BY <1>1, <1>3, <1>4

LEMMA ResumeKeeps ==
  ASSUME IInv, Resume
  PROVE  IInv' /\ Stays
<1> DEFINE o == OnIntentSubmitted(block, task)
           n == [o EXCEPT !.pos = SeenPosition]
<1>1. /\ task.pc = "pause" /\ EmitDelta(o, outbox) /\ block' = n
      /\ task' = [task EXCEPT !.pc = "exec"]
      /\ UNCHANGED <<local, exch, exstatus, view, intents, executed>>
  BY DEF Resume, serverVars, hubVars
<1>2. /\ block.last.id \in Nat /\ block.last.id < task.id /\ task.id <= intents
      /\ task.id \in Nat /\ intents \in Nat /\ task \in Tasks
  BY <1>1, LastOfBlocks DEF IInv, TypeInv, Fresh, Tasks
<1>3. task.id \in Ids
  BY <1>2 DEF Ids
<1>4. SeenPosition \in Positions
  BY DEF SeenPosition, IInv, TypeInv
<1>5. /\ o \in Blk /\ n \in Blk /\ n.active = o.active /\ n.last = o.last
      /\ o.active.id = task.id /\ o.last.id = task.id /\ o.last.status = "OPEN"
  BY <1>2, <1>3, <1>4, SubmittedIs DEF IInv, TypeInv
<1> HIDE DEF o, n
<1>6. task' \in Tasks /\ task'.pc = "exec" /\ task'.id = task.id
  BY <1>1, <1>2 DEF Tasks
<1>7. TypeInv' /\ Stays
  BY <1>1, <1>2, <1>5, <1>6 DEF IInv, TypeInv, Stays
<1>8. Fresh'
  BY <1>1, <1>2, <1>5, <1>6 DEF Fresh, OpenIsLast
<1>9. o \in TrueBlocks /\ n \in TrueBlocks /\ TrueBlocks' = TrueBlocks
  BY <1>1, <1>5 DEF TrueBlocks
<1>10. Said(TrueBlocks)'
  BY <1>1, <1>9, EmissionsSay DEF IInv, Said
<1> QED
  BY <1>1, <1>7, <1>8, <1>9, <1>10 DEF IInv

LEMMA ReturnKeeps ==
  ASSUME IInv, NEW d \in Decisions, ExecuteReturns(d)
  PROVE  IInv' /\ Stays
<1>1. /\ task.pc = "exec" /\ task' = Idle
      /\ block' = OnExecutionEvent(block, d) /\ EmitDelta(block', outbox)
      /\ executed' = IF d = "ALLOW" THEN executed \cup {task.id} ELSE executed
      /\ UNCHANGED <<local, exch, exstatus, view, intents>>
  BY DEF ExecuteReturns, serverVars, hubVars
<1>2. executed \subseteq executed' /\ TrueBlocks \subseteq TrueBlocks' /\ Said(TrueBlocks')
  BY <1>1, TruthGrows DEF IInv
<1>3. task' \in Tasks /\ task'.pc = "idle"
  BY <1>1, FlatIsPosition DEF Tasks, Idle
<1>4. CASE block.active = NoIntent
  <2>1. block' = block
    BY <1>1, <1>4 DEF OnExecutionEvent
  <2>2. TypeInv' /\ Fresh' /\ Stays
    BY <1>1, <1>3, <2>1 DEF IInv, TypeInv, Fresh, OpenIsLast, Stays
  <2>3. block' \in TrueBlocks'
    BY <1>2, <2>1 DEF IInv
  <2>4. Said(TrueBlocks)'
    BY <1>1, <1>2, <2>3, EmissionsSay DEF Said
  <2> QED
    BY <2>2, <2>3, <2>4 DEF IInv
<1>5. CASE block.active # NoIntent
  <2> DEFINE how == IF d = "REFUSED" THEN "REJECTED" ELSE "COMPLETED"
  <2>1. block' = Resolve(block, how) /\ how \in Resolutions
    BY <1>1, <1>5 DEF OnExecutionEvent, Resolutions
  <2>2. how = "COMPLETED" => d = "ALLOW"
    BY DEF Decisions
  <2> HIDE DEF how
  <2>3. /\ block' \in Blk /\ block'.active = NoIntent
        /\ block'.last.id = block.active.id /\ block'.last.status = how
    BY <2>1, <1>5, ResolveIs DEF IInv, TypeInv
  <2>4. /\ block.last.id = block.active.id /\ block.last.status = "OPEN"
        /\ block.active.id = task.id /\ block.last.id <= intents
    BY <1>1, <1>5 DEF IInv, Fresh, OpenIsLast
  <2>5. block' \in TrueBlocks'
    BY <1>1, <2>2, <2>3, <2>4 DEF TrueBlocks
  <2>6. TypeInv' /\ Stays
    BY <1>1, <1>3, <2>3, <2>4 DEF IInv, TypeInv, Stays
  <2>7. Fresh'
    BY <1>1, <1>3, <2>3, <2>4 DEF Fresh, OpenIsLast
  <2>8. Said(TrueBlocks)'
    BY <1>1, <1>2, <2>5, EmissionsSay DEF Said
  <2> QED
    BY <2>5, <2>6, <2>7, <2>8 DEF IInv
<1> QED
  BY <1>4, <1>5

LEMMA RaiseKeeps ==
  ASSUME IInv, ExecuteRaises
  PROVE  IInv' /\ Stays
<1>1. /\ task' = Idle /\ UNCHANGED <<block, local, exch, exstatus, intents, executed>>
      /\ UNCHANGED <<lastSent, outbox, view>>
  BY DEF ExecuteRaises, serverVars, sentVars, hubVars
<1>2. task' \in Tasks /\ task'.pc = "idle"
  BY <1>1, FlatIsPosition DEF Tasks, Idle
<1>3. TypeInv' /\ Fresh' /\ Stays
  BY <1>1, <1>2 DEF IInv, TypeInv, Fresh, OpenIsLast, Stays
<1>4. (block \in TrueBlocks)' /\ Said(TrueBlocks)'
  BY <1>1 DEF IInv, TrueBlocks, Said
<1> QED
  BY <1>3, <1>4 DEF IInv

(* A beat of the heartbeat, or a new status.                              *)
LEMMA BeatKeeps ==
  ASSUME IInv, Heartbeat \/ StatusMoves
  PROVE  IInv' /\ Stays
<1>1. /\ block' = RefreshExecution(block, exstatus') /\ exstatus' \in {"READY", "FROZEN"}
      /\ EmitDelta(block', Detached) \/ (lastSent' = lastSent /\ outbox' = Detached)
      /\ UNCHANGED <<local, exch, task, intents, executed, view>>
  BY DEF Heartbeat, StatusMoves, hubVars, IInv, TypeInv
<1>2. Kept(block, block')
  BY <1>1, RefreshKeeps DEF IInv, TypeInv, Fresh
<1>3. TypeInv' /\ Fresh' /\ (block \in TrueBlocks)' /\ TrueBlocks' = TrueBlocks /\ Stays
  BY <1>1, <1>2, BlockKept DEF IInv, TypeInv
<1>4. Said(TrueBlocks)'
  <2>1. block' \in TrueBlocks /\ Said(TrueBlocks) /\ Detached \in Seq(SUBSET TrueBlocks)
    BY <1>3, DetachedSays DEF IInv, Said
  <2>2. CASE EmitDelta(block', Detached)
    BY <1>1, <1>3, <2>1, <2>2, EmissionsSay DEF Said
  <2>3. CASE lastSent' = lastSent /\ outbox' = Detached
    BY <1>1, <1>3, <2>1, <2>3 DEF Said
  <2> QED
    BY <1>1, <2>2, <2>3
<1> QED
  BY <1>3, <1>4 DEF IInv

(* A snapshot, of a start or for a new connection.                         *)
LEMMA SnapshotKeeps ==
  ASSUME IInv, EmitSnapshot,
         UNCHANGED <<task, intents, executed, local, exch, exstatus, lastSent>>
  PROVE  IInv' /\ Stays
<1> DEFINE r == RefreshExecution(block, exstatus)
<1>1. block' = Normalize(r) /\ outbox' = Detached /\ Send({block'})
  BY DEF EmitSnapshot
<1>2. r \in Blk
  BY RefreshKeeps DEF Kept, IInv, TypeInv, Fresh
<1> HIDE DEF r
<1>3. Kept(block, block')
  BY <1>1, <1>2, NormalizeKeeps DEF IInv, TypeInv
<1>4. TypeInv' /\ Fresh' /\ (block \in TrueBlocks)' /\ TrueBlocks' = TrueBlocks /\ Stays
  BY <1>3, BlockKept DEF IInv, TypeInv
<1>5. outbox' \in Seq(SUBSET TrueBlocks)
  BY <1>1, DetachedSays DEF IInv, Said
<1>6. {block'} \in SUBSET TrueBlocks
  BY <1>4
<1>7. view' \in [Clients -> SUBSET TrueBlocks]
  BY <1>1, <1>6, SendSays DEF IInv, Said
<1> QED
  BY <1>4, <1>5, <1>7 DEF IInv, Said

(* The oldest message reaches the browsers.                                *)
LEMMA BroadcastKeeps ==
  ASSUME IInv, Broadcast
  PROVE  IInv' /\ Stays
<1>1. /\ outbox # <<>> /\ outbox' = Tail(outbox)
      /\ UNCHANGED <<block, task, local, exch, exstatus, intents, executed, lastSent>>
  BY DEF Broadcast, serverVars
<1>2. TypeInv' /\ Fresh' /\ (block \in TrueBlocks)' /\ TrueBlocks' = TrueBlocks /\ Stays
  BY <1>1, BlockKept DEF IInv, TypeInv
<1> DEFINE sent == IF Head(outbox) = {} THEN {block} ELSE Head(outbox)
<1>3. /\ outbox \in Seq(SUBSET TrueBlocks) /\ block \in TrueBlocks
      /\ view \in [Clients -> SUBSET TrueBlocks]
  BY DEF IInv, Said
<1>4. sent \in SUBSET TrueBlocks /\ outbox' \in Seq(SUBSET TrueBlocks)
  BY <1>1, <1>3
<1>5. Send(sent)
  BY DEF Broadcast
<1> HIDE DEF sent
<1>6. view' \in [Clients -> SUBSET TrueBlocks]
  BY <1>3, <1>4, <1>5, SendSays
<1> QED
  BY <1>1, <1>2, <1>4, <1>6 DEF IInv, Said

(* Everything else leaves the block alone; a browser that comes is shown it. *)
LEMMA ViewKeeps ==
  ASSUME IInv, UNCHANGED <<block, task, intents, executed, sentVars, exstatus>>,
         local' \in Positions, exch' \in Positions,
         \/ view' = view
         \/ \E c \in Clients : view' \in {[view EXCEPT ![c] = {block}], [view EXCEPT ![c] = {}]}
  PROVE  IInv' /\ Stays
<1>1. TypeInv' /\ Fresh' /\ (block \in TrueBlocks)' /\ TrueBlocks' = TrueBlocks /\ Stays
  BY BlockKept DEF IInv, TypeInv
<1>2. /\ view \in [Clients -> SUBSET TrueBlocks] /\ block \in TrueBlocks
      /\ UNCHANGED <<lastSent, outbox>>
  BY DEF IInv, Said, sentVars
<1>3. view' \in [Clients -> SUBSET TrueBlocks]
  BY <1>2
<1> QED
  BY <1>1, <1>2, <1>3 DEF IInv, Said

-----------------------------------------------------------------------------
LEMMA InitInvariant == Init => IInv
<1> SUFFICES ASSUME Init PROVE IInv
  OBVIOUS
<1>1. block \in Blk /\ block.active = NoIntent /\ block.last = NoLast
  BY FlatIsPosition DEF Init, Blk
<1>2. task \in Tasks /\ task.pc = "idle"
  BY FlatIsPosition DEF Init, Tasks, Idle
<1>3. TypeInv
  BY <1>1, <1>2, FlatIsPosition DEF Init, TypeInv
<1>4. Fresh /\ block \in TrueBlocks
  BY <1>1, <1>2 DEF Init, Fresh, OpenIsLast, TrueBlocks, NoLast
<1>5. Said(TrueBlocks)
  BY DEF Init, Said
<1> QED
  BY <1>3, <1>4, <1>5 DEF IInv

LEMMA StepInvariant == IInv /\ [Next]_vars => IInv' /\ Stays
<1> SUFFICES ASSUME IInv, [Next]_vars PROVE IInv' /\ Stays
  OBVIOUS
<1>1. CASE Intent
  BY <1>1, SubmitKeeps, ResumeKeeps, ReturnKeeps, RaiseKeeps DEF Intent
<1>2. CASE Heartbeat \/ StatusMoves
  BY <1>2, BeatKeeps
<1>3. CASE Broadcast
  BY <1>3, BroadcastKeeps
<1>4. CASE \/ GracePasses \/ EquityMoves \/ NextDay \/ DashboardPolls
           \/ Start \/ Restart \/ Stop \/ UNCHANGED vars
  <2>1. UNCHANGED <<block, task, intents, executed, sentVars, exstatus, local, exch, view>>
    BY <1>4 DEF GracePasses, EquityMoves, NextDay, DashboardPolls, Start, Restart, Stop,
                vars, serverVars, hubVars
  <2> QED
    BY <2>1, ViewKeeps DEF IInv, TypeInv
<1>5. CASE ExchangeMoves \/ SyncFollows
  <2>1. /\ UNCHANGED <<block, task, intents, executed, sentVars, exstatus, view>>
        /\ local' \in Positions /\ exch' \in Positions
    BY <1>5 DEF ExchangeMoves, SyncFollows, Watched, serverVars, hubVars, IInv, TypeInv
  <2> QED
    BY <2>1, ViewKeeps
<1>6. CASE SnapshotOfStart
  <2>1. /\ EmitSnapshot \/ UNCHANGED <<block, outbox, view>>
        /\ UNCHANGED <<task, intents, executed, local, exch, exstatus, lastSent>>
    BY <1>6 DEF SnapshotOfStart
  <2>2. CASE EmitSnapshot
    BY <2>1, <2>2, SnapshotKeeps
  <2>3. CASE UNCHANGED <<block, outbox, view>>
    <3>1. TypeInv' /\ Fresh' /\ (block \in TrueBlocks)' /\ TrueBlocks' = TrueBlocks /\ Stays
      BY <2>1, <2>3, BlockKept DEF IInv, TypeInv
    <3> QED
      BY <2>1, <2>3, <3>1 DEF IInv, Said
  <2> QED
    BY <2>1, <2>2, <2>3
<1>7. ASSUME NEW c \in Clients, Connection(c)
      PROVE  IInv' /\ Stays
  <2>1. CASE Subscribe(c)
    <3>1. /\ EmitSnapshot
          /\ UNCHANGED <<task, intents, executed, local, exch, exstatus, lastSent>>
      BY <2>1 DEF Subscribe, serverVars
    <3> QED
      BY <3>1, SnapshotKeeps
  <2>2. CASE Connect(c) \/ Leave(c)
    <3>1. /\ UNCHANGED <<block, task, intents, executed, sentVars, exstatus, local, exch>>
          /\ view' = view
             \/ view' \in {[view EXCEPT ![c] = {block}], [view EXCEPT ![c] = {}]}
      BY <2>2 DEF Connect, Leave, serverVars
    <3> QED
      BY <3>1, ViewKeeps DEF IInv, TypeInv
  <2> QED
    BY <1>7, <2>1, <2>2 DEF Connection
<1> QED
  BY <1>1, <1>2, <1>3, <1>4, <1>5, <1>6, <1>7 DEF Next, Session

(* The execution block and its copies keep to the invariant.               *)
THEOREM SystemStateInvariant == Spec => []IInv
<1>1. IInv /\ [Next]_vars => IInv'
  BY StepInvariant
<1> QED
  BY <1>1, InitInvariant, PTL DEF Spec

(* No browser is ever told that an intent completed whose own execution    *)
(* did not return success (on_execution_event).                            *)
THEOREM StatusAlwaysTrue == Spec => []StatusIsTrue
<1>1. IInv => StatusIsTrue
  BY DEF IInv, Said, TrueBlocks, StatusIsTrue
<1> QED
  BY <1>1, SystemStateInvariant, PTL

(* What on_execution_event or reconcile_intent_state resolved is never     *)
(* resolved again.                                                         *)
THEOREM NeverResolvedTwice == Spec => ResolvedOnce
<1>1. IInv /\ [Next]_vars =>
        [block.last.status \notin {"none", "OPEN"} /\ block'.last.id = block.last.id
           => block'.last = block.last]_vars
  BY StepInvariant DEF Stays
<1> QED
  BY <1>1, SystemStateInvariant, PTL DEF Spec, ResolvedOnce

=============================================================================
