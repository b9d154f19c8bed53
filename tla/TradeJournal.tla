---------------------------- MODULE TradeJournal ----------------------------
(***************************************************************************)
(* The trade journals: what the sessions' user streams publish about fills, *)
(* which journal the analytics bus hands it to, how a journal turns it into *)
(* an open trade and rows of closed trades, what survives a crash of the  *)
(* process in open_trade.json and SQLite, the archive of the rows, and the *)
(* execution history that the execution monitor writes of the same fills. *)
(*                                                                        *)
(* Sizes are whole lots, so the journal's tolerances are equality; fees and *)
(* times are left out, and of prices only whether two fills share one     *)
(* matters.  One symbol per session.                                      *)
(***************************************************************************)
EXTENDS Integers, Sequences, FiniteSets

CONSTANTS
  Sessions,    \* ids of the sessions that run; an id is also its logical_mode
  Legacy,      \* the journal of execution_monitor_instance
  LegacyMode,  \* the bucket and logical_mode of Legacy, "shadow" in the code
  Prices,      \* prices at which orders fill
  MaxSize,     \* largest position
  MaxOrders,   \* bound on orders filled at the exchange
  MaxCrashes,  \* bound on crashes of the process
  MaxStream    \* bound on reports on their way

ASSUME LegacyAssumption == Legacy \notin Sessions
ASSUME BoundsAssumption ==
  /\ MaxSize \in Nat \ {0}
  /\ {MaxOrders, MaxCrashes, MaxStream} \subseteq Nat

Journals == Sessions \cup {Legacy}

(* TradeJournal.__init__: storage bucket and logical_mode of a journal.   *)
Mode(j) == IF j = Legacy THEN LegacyMode ELSE j
Buckets == {Mode(j) : j \in Journals}

VARIABLES
  up,        \* the process runs
  started,   \* sessions whose execution system has started
  legacyOf,  \* whose sync engine answers the legacy journal's resolver, or {}
  exch,      \* each session's position at the exchange
  sync,      \* SyncEngine.position as each session's resolver reads it
  stream,    \* FILLED reports on their way, oldest first
  journal,   \* each journal's memory
  openFile,  \* data/session/open_trade.json
  rows,      \* the trades table of each bucket
  nextId,    \* sqlite_sequence of that table
  archive,   \* archived_trades
  executions,  \* execution_history of each bucket: the orders, in order of the rows
  published,   \* the fills published since the process began: _seen_fallback
  orders, crashes,  \* what the bounds count
  regime,    \* what the environment does, see Init
  closed,    \* history: quantity the exchange has closed, per session
  booked,    \* history: quantity booked as closed, per bucket
  missed,    \* history: sessions whose journal may have missed a report
  misled     \* history: sessions in a case that the journal misreads, see JournalAgrees

exchVars == <<exch, orders, closed>>
diskVars == <<openFile, rows, nextId, booked>>
monitorVars == <<executions, published>>
bootVars == <<up, started, legacyOf, crashes>>
vars == <<bootVars, exchVars, sync, stream, journal, diskVars, monitorVars, archive,
          regime, missed, misled>>

-----------------------------------------------------------------------------
Sides   == {"LONG", "SHORT"}
Flat    == [side |-> "FLAT", size |-> 0]
Unknown == [side |-> "unknown", size |-> 0]
NoTrade == [mode |-> "none", order |-> 0, side |-> "FLAT", size |-> 0]

Opposite(side) == IF side = "LONG" THEN "SHORT" ELSE "LONG"
Least(m, n) == IF m < n THEN m ELSE n

(* What a restarted journal holds: the file as pending, if it is of its   *)
(* mode; nothing becomes the current trade before the exchange confirms.  *)
FreshJournal(j) ==
  [trade |-> NoTrade,
   pending |-> IF openFile.mode = Mode(j) THEN openFile ELSE NoTrade,
   lastClose |-> {}]

(***************************************************************************)
(* Two regimes.  "crash": the bot's own orders, which open from flat and  *)
(* close reduce-only and whole, while the process may die at any time.    *)
(* "hand": the owner also reduces and turns positions by hand and reports *)
(* are doubled, but nothing crashes.                                      *)
(***************************************************************************)
Init ==
  /\ up = TRUE /\ started = {} /\ legacyOf = {} /\ crashes = 0
  /\ exch = [s \in Sessions |-> Flat] /\ sync = [s \in Sessions |-> Unknown]
  /\ stream = [s \in Sessions |-> <<>>]
  /\ openFile = NoTrade
  /\ journal = [j \in Journals |->
                  [trade |-> NoTrade, pending |-> NoTrade, lastClose |-> {}]]
  /\ rows = [b \in Buckets |-> {}] /\ nextId = [b \in Buckets |-> 1]
  /\ executions = [b \in Buckets |-> <<>>] /\ published = {}
  /\ archive = {} /\ orders = 0 /\ regime \in {"crash", "hand"}
  /\ closed = [s \in Sessions |-> 0] /\ booked = [b \in Buckets |-> 0]
  /\ missed = {} /\ misled = {}

-----------------------------------------------------------------------------
(***************************************************************************)
(* The journal's operations, as functions on what one journal can change: *)
(* [mode, trade, pending, lastClose, file, rows, next, booked].           *)
(***************************************************************************)
World(j) ==
  [mode |-> Mode(j), trade |-> journal[j].trade, pending |-> journal[j].pending,
   lastClose |-> journal[j].lastClose, file |-> openFile, rows |-> rows[Mode(j)],
   next |-> nextId[Mode(j)], booked |-> booked[Mode(j)]]

Memory(w) == [trade |-> w.trade, pending |-> w.pending, lastClose |-> w.lastClose]

PersistCurrentTrade(w) ==
  IF w.trade = NoTrade THEN w ELSE [w EXCEPT !.file = w.trade, !.pending = NoTrade]

ClearCurrentTrade(w) == [w EXCEPT !.file = NoTrade, !.pending = NoTrade]

ResolvePendingRestore(w, truth) ==
  IF w.trade # NoTrade \/ w.pending = NoTrade \/ truth = Unknown THEN w
  ELSE IF truth.side = w.pending.side
       THEN [w EXCEPT !.trade = w.pending, !.pending = NoTrade]
       ELSE ClearCurrentTrade(w)

RestoreCurrentTrade(w, truth) ==
  IF w.file = NoTrade \/ w.file.mode # w.mode THEN w
  ELSE ResolvePendingRestore([w EXCEPT !.pending = w.file], truth)

OnPositionOpen(w, order, side, size) ==
  IF w.trade # NoTrade THEN w
  ELSE PersistCurrentTrade(
         [w EXCEPT !.trade = [mode |-> w.mode, order |-> order, side |-> side,
                              size |-> size]])

(* Defective variant: without AUTOINCREMENT an emptied table starts again at 1.       *)
InsertRow_ReusesIds(w, size) ==
  LET qty == Least(size, w.trade.size)
  IN  [w EXCEPT !.rows = w.rows \cup {[id |-> Cardinality(w.rows) + 1,
                                       order |-> w.trade.order, size |-> qty]},
                !.booked = w.booked + qty]

(* on_position_close up to the commit: the row is in the database.        *)
InsertRow(w, size) ==
  LET qty == Least(size, w.trade.size)
  IN  [w EXCEPT !.rows = w.rows \cup {[id |-> w.next, order |-> w.trade.order, size |-> qty]},
                !.next = w.next + 1,
                !.booked = w.booked + qty]

OnPositionClose(w, size) ==
  IF w.trade = NoTrade \/ size = 0 THEN w
  ELSE LET left == w.trade.size - Least(size, w.trade.size)
           done == InsertRow(w, size)
       IN  IF left = 0 THEN ClearCurrentTrade([done EXCEPT !.trade = NoTrade])
           ELSE PersistCurrentTrade([done EXCEPT !.trade.size = left])

(* The trade a close would act on, restored from the file if need be.     *)
Recalled(w, truth) ==
  IF w.trade = NoTrade THEN RestoreCurrentTrade(w, truth) ELSE w

ApplyCloseIfOpen(w, size, truth) == OnPositionClose(Recalled(w, truth), size)

(* Defective variant: every close is acted on.                            *)
IsDuplicateClose_Never(w, f) == FALSE

(* The same size at the same price as the last close, within 0.35 s of it. *)
IsDuplicateClose(w, f) ==
  \E c \in w.lastClose : c.size = f.size /\ c.price = f.price

(* A TRADE of a reduce-only fill.                                         *)
HandleClose(w, f, truth) ==
  LET r == ResolvePendingRestore(w, truth)
  IN  IF IsDuplicateClose(r, f) THEN r
      ELSE ApplyCloseIfOpen([r EXCEPT !.lastClose = {f}], f.size, truth)

OppositeLegDust(current, incoming) == current * 2 < incoming

(* Defective variant: the whole fill is recorded, not the rest.           *)
Reverse_KeepsWhole(w, f, truth) ==
  LET shut == ApplyCloseIfOpen(w, w.trade.size, truth)
  IN  OnPositionOpen(ClearCurrentTrade([shut EXCEPT !.trade = NoTrade]),
                     f.order, f.side, f.size)

(* The rest of an opposite fill larger than the trade opens the next one. *)
Reverse(w, f, truth) ==
  LET rest == IF OppositeLegDust(w.trade.size, f.size) THEN f.size
              ELSE f.size - w.trade.size
      shut == ApplyCloseIfOpen(w, w.trade.size, truth)
  IN  OnPositionOpen(ClearCurrentTrade([shut EXCEPT !.trade = NoTrade]),
                     f.order, f.side, rest)

(* A TRADE without execution_type CLOSE.  No two of them carry one client *)
(* order id (see DeliverFill), so no fill is merged into a trade's entry. *)
HandleOpenOrOpposite(w, f, truth) ==
  LET r == ResolvePendingRestore(w, truth)
  IN  IF r.trade = NoTrade THEN OnPositionOpen(r, f.order, f.side, f.size)
      ELSE IF r.trade.side = f.side THEN r
      ELSE IF f.size > r.trade.size THEN Reverse(r, f, truth)
      ELSE ApplyCloseIfOpen(r, f.size, truth)

HandleTrade(w, f, truth) ==
  IF f.reduceOnly THEN HandleClose(w, f, truth)
  ELSE HandleOpenOrOpposite(w, f, truth)

(* What journal j's resolver answers.                                     *)
Truth(j) ==
  IF j = Legacy THEN IF legacyOf = {} THEN Unknown ELSE sync[CHOOSE s \in legacyOf : TRUE]
  ELSE sync[j]

Becomes(j, w) ==
  /\ journal' = [journal EXCEPT ![j] = Memory(w)]
  /\ openFile' = w.file
  /\ rows' = [rows EXCEPT ![Mode(j)] = w.rows]
  /\ nextId' = [nextId EXCEPT ![Mode(j)] = w.next]
  /\ booked' = [booked EXCEPT ![Mode(j)] = w.booked]

-----------------------------------------------------------------------------
(* The exchange: orders that fill.  A report nobody listens to is lost.   *)

Listening(s) == up /\ s \in started

Fills(s, side, size, reduceOnly, copies) ==
  \E price \in Prices :
  LET f == [order |-> orders + 1, side |-> side, size |-> size, price |-> price,
            reduceOnly |-> reduceOnly]
  IN  /\ orders < MaxOrders /\ orders' = orders + 1
      /\ Len(stream[s]) + copies <= MaxStream
      /\ IF Listening(s)
         THEN /\ stream' = [stream EXCEPT ![s] = @ \o [i \in 1 .. copies |-> f]]
              /\ UNCHANGED missed
         ELSE /\ missed' = missed \cup {s}
              /\ UNCHANGED stream

Copies == IF regime = "hand" THEN {1, 2} ELSE {1}

(* The bot opens only when its sync engine shows flat, 0.5 s after the    *)
(* intent arrived: the reports of its close have been handled by then, and *)
(* after a start the first heartbeat has come (it beats every second).    *)
OrderOpens(s) ==
  \E side \in Sides, size \in 1 .. MaxSize, n \in Copies :
    /\ Listening(s) /\ exch[s] = Flat
    /\ regime = "crash" => stream[s] = <<>> /\ journal[s].pending = NoTrade
    /\ Fills(s, side, size, FALSE, n)
    /\ exch' = [exch EXCEPT ![s] = [side |-> side, size |-> size]]
    /\ UNCHANGED <<bootVars, monitorVars, closed, sync, journal, diskVars, archive, regime,
                   misled>>

(* A close by the bot, a protective order or, in part, the owner.         *)
OrderCloses(s) ==
  \E size \in 1 .. MaxSize, reduceOnly \in BOOLEAN, n \in Copies :
    /\ exch[s] # Flat /\ size <= exch[s].size
    /\ regime = "crash" => reduceOnly /\ size = exch[s].size
    /\ Fills(s, Opposite(exch[s].side), size, reduceOnly, n)
    /\ exch' = [exch EXCEPT ![s] = IF size = @.size THEN Flat
                                   ELSE [exch[s] EXCEPT !.size = @ - size]]
    /\ closed' = [closed EXCEPT ![s] = @ + size]
    /\ UNCHANGED <<bootVars, monitorVars, sync, journal, diskVars, archive, regime,
                   misled>>

(* The owner turns a position with one order.  The journal takes a turn to *)
(* more than the double for a stale trade and records too much.           *)
OrderTurns(s) ==
  \E size \in 2 .. MaxSize, n \in Copies :
    LET side == Opposite(exch[s].side)
    IN  /\ regime = "hand" /\ exch[s] # Flat /\ size > exch[s].size
        /\ Fills(s, side, size, FALSE, n)
        /\ exch' = [exch EXCEPT ![s] = [side |-> side, size |-> size - @.size]]
        /\ closed' = [closed EXCEPT ![s] = @ + exch[s].size]
        /\ misled' = IF OppositeLegDust(exch[s].size, size) THEN misled \cup {s} ELSE misled
        /\ UNCHANGED <<bootVars, monitorVars, sync, journal, diskVars, archive, regime>>

(* The owner adds to a position by hand, which the journal passes over.   *)
OrderAdds(s) ==
  \E size \in 1 .. MaxSize, n \in Copies :
    /\ regime = "hand" /\ exch[s] # Flat /\ exch[s].size + size <= MaxSize
    /\ Fills(s, exch[s].side, size, FALSE, n)
    /\ exch' = [exch EXCEPT ![s].size = @ + size]
    /\ misled' = misled \cup {s}
    /\ UNCHANGED <<bootVars, monitorVars, closed, sync, journal, diskVars, archive, regime>>

-----------------------------------------------------------------------------
(* The analytics bus: whoever publishes is found on the call stack.       *)
TargetJournal(s) == IF s \in started THEN s ELSE Legacy

(* EXECUTION: the monitor makes a trace of the fill and hands it to the   *)
(* recorder, which has no order id to go by (none is published) and takes *)
(* a fill for a repeat if an earlier one looks like it, in any session.   *)
(* (The 10 000 fills after which the recorder forgets are out of bounds.) *)
Trace(f) == [side |-> f.side, size |-> f.size, price |-> f.price]

(* Defective variant: every trace becomes a row.                          *)
IsRepeat_Never(f) == FALSE

IsRepeat(f) == \E g \in published : Trace(g) = Trace(f)

Recorded(s, f) ==
  executions' = IF IsRepeat(f) THEN executions
                ELSE [executions EXCEPT ![Mode(TargetJournal(s))] = Append(@, f.order)]

(* The close of another order looks like the last one's repetition.       *)
TakenForCopy(s, f) ==
  f.reduceOnly /\ IsDuplicateClose(World(s), f) /\ f \notin journal[s].lastClose

(* EXECUTION, then TRADE; neither subscriber can keep the event from the other. *)
Publish(s, f) ==
  /\ Recorded(s, f) /\ published' = published \cup {f}
  /\ Becomes(TargetJournal(s), HandleTrade(World(s), f, Truth(s)))
  /\ misled' = IF TakenForCopy(s, f) THEN misled \cup {s} ELSE misled

(* SyncEngine.on_user_event, FILLED: the fill is published.  A second     *)
(* report of an order that is not reduce-only is dropped (_last_exec_emit); *)
(* copies come back to back, so the next report decides.                  *)
WithoutCopy(s, f) ==
  IF ~ f.reduceOnly /\ Len(stream[s]) > 1 /\ stream[s][2].order = f.order
  THEN Tail(Tail(stream[s])) ELSE Tail(stream[s])

(* What the engine makes of its own position afterwards, or nothing, when  *)
(* partial fills came first (they do in regime "crash"; a journal that has *)
(* nothing to restore never asks for the engine's position).              *)
NetAfterFill(p, f) ==
  IF p.size = 0 THEN IF f.reduceOnly THEN p ELSE [side |-> f.side, size |-> f.size]
  ELSE IF p.side = f.side THEN IF f.reduceOnly THEN p ELSE [p EXCEPT !.size = f.size]
  ELSE IF f.size < p.size THEN [p EXCEPT !.size = @ - f.size]
  ELSE IF f.size = p.size THEN Flat
  ELSE IF f.reduceOnly THEN p
  ELSE [side |-> f.side, size |-> f.size - p.size]

DeliverFill(s) ==
  /\ Listening(s) /\ stream[s] # <<>>
  /\ LET f == Head(stream[s])
     IN  /\ Publish(s, f)
         /\ stream' = [stream EXCEPT ![s] = WithoutCopy(s, f)]
         /\ \/ sync' = [sync EXCEPT ![s] = NetAfterFill(@, f)]
            \/ regime = "crash" /\ UNCHANGED sync
  /\ UNCHANGED <<bootVars, exchVars, archive, regime, missed>>

(* 0.35 s pass: the next close is not taken for a copy of the last one.   *)
DedupeExpires(s) ==
  /\ up /\ journal[s].lastClose # {}
  /\ stream[s] # <<>> => Head(stream[s]) \notin journal[s].lastClose
  /\ journal' = [journal EXCEPT ![s].lastClose = {}]
  /\ UNCHANGED <<bootVars, monitorVars, exchVars, sync, stream, diskVars, archive,
                 regime, missed, misled>>

(* A POSITION_UPDATE, which the user stream makes of every ACCOUNT_UPDATE: *)
(* the position as the exchange has it.  No journal hears of it.          *)
PositionUpdate(s) ==
  /\ Listening(s) /\ sync[s] # exch[s]
  /\ sync' = [sync EXCEPT ![s] = exch[s]]
  /\ UNCHANGED <<bootVars, monitorVars, exchVars, stream, journal, diskVars, archive, regime,
                 missed, misled>>

-----------------------------------------------------------------------------
(* The process.                                                           *)

(* Session start: live_bootstrap points the legacy journal's resolver at  *)
(* this sync engine, bind() the session's own; RestartGuard bootstraps the *)
(* positions, then the legacy journal resolves.  The stream comes last.   *)
Start(s) ==
  /\ up /\ s \notin started
  /\ started' = started \cup {s} /\ legacyOf' = {s}
  /\ sync' = [sync EXCEPT ![s] = exch[s]]
  /\ Becomes(Legacy, ResolvePendingRestore(World(Legacy), exch[s]))
  /\ UNCHANGED <<up, crashes, monitorVars, exchVars, stream, archive, regime, missed, misled>>

(* _refresh_execution, by the heartbeat.                                  *)
Heartbeat(s) ==
  /\ Listening(s) /\ journal[s].pending # NoTrade
  /\ Becomes(s, ResolvePendingRestore(World(s), Truth(s)))
  /\ UNCHANGED <<bootVars, monitorVars, exchVars, sync, stream, archive, regime, missed, misled>>

(* All that is not on disk is gone, reports on their way included.        *)
Dies ==
  /\ regime = "crash" /\ up /\ crashes < MaxCrashes
  /\ up' = FALSE /\ crashes' = crashes + 1
  /\ started' = {} /\ legacyOf' = {} /\ published' = {}
  /\ sync' = [s \in Sessions |-> Unknown]
  /\ stream' = [s \in Sessions |-> <<>>]
  /\ missed' = missed \cup {s \in Sessions : stream[s] # <<>>}

Crash == Dies /\ UNCHANGED <<executions, exchVars, journal, diskVars, archive, regime, misled>>

(* The process dies inside on_position_close, after the commit and before *)
(* open_trade.json is removed.                                            *)
CrashAfterCommit(s) ==
  /\ Listening(s) /\ stream[s] # <<>> /\ Dies
  /\ LET f == Head(stream[s])
         w == ResolvePendingRestore(World(s), Truth(s))
         r == InsertRow(Recalled(w, Truth(s)), f.size)
     IN  /\ f.reduceOnly /\ ~ IsDuplicateClose(w, f)
         /\ Recalled(w, Truth(s)).trade # NoTrade
         /\ Becomes(s, r) /\ Recorded(s, f)
  /\ UNCHANGED <<exchVars, archive, regime, misled>>

Boot ==
  /\ ~ up /\ up' = TRUE
  /\ journal' = [j \in Journals |-> FreshJournal(j)]
  /\ UNCHANGED <<started, legacyOf, crashes, monitorVars, exchVars, sync, stream, diskVars,
                 archive, regime, missed, misled>>

-----------------------------------------------------------------------------
(* What archived_trades holds one row of: UNIQUE(source_session, original_trade_id). *)
ArchiveKey(s, row) == <<s, row.id>>

(* archive_session_trades: rows whose key is already there are ignored.   *)
Archive(s) ==
  LET keys == {ArchiveKey(a.bucket, a) : a \in archive}
      new  == {r \in rows[s] : ArchiveKey(s, r) \notin keys}
  IN  /\ up /\ new # {}
      /\ archive' = archive \cup {[bucket |-> s, id |-> r.id, order |-> r.order,
                                   size |-> r.size] : r \in new}
      /\ UNCHANGED <<bootVars, monitorVars, exchVars, sync, stream, journal, diskVars,
                     regime, missed, misled>>

(* reset_session_trades_db: DELETE leaves the AUTOINCREMENT counter alone. *)
Reset(s) ==
  /\ up /\ rows[s] # {}
  /\ rows' = [rows EXCEPT ![s] = {}]
  /\ UNCHANGED <<bootVars, monitorVars, exchVars, sync, stream, journal, openFile, nextId, booked,
                 archive, regime, missed, misled>>

(* The dashboard's routes: an archive, then a reset, even when the archive failed. *)
TradeRoutes(s) == Archive(s) \/ Reset(s)

-----------------------------------------------------------------------------
SessionStep(s) ==
  \/ OrderOpens(s) \/ OrderCloses(s) \/ OrderTurns(s) \/ OrderAdds(s)
  \/ DeliverFill(s) \/ DedupeExpires(s) \/ PositionUpdate(s)
  \/ Start(s) \/ Heartbeat(s) \/ CrashAfterCommit(s)
  \/ TradeRoutes(s)

Next == Crash \/ Boot \/ \E s \in Sessions : SessionStep(s)

Spec == Init /\ [][Next]_vars

-----------------------------------------------------------------------------
Trades == [mode : Buckets, order : 1 .. MaxOrders, side : Sides, size : 1 .. MaxSize]
            \cup {NoTrade}
Positions == [side : Sides, size : 1 .. MaxSize] \cup {Flat}
Reports == [order : 1 .. MaxOrders, side : Sides, size : 1 .. MaxSize, price : Prices,
            reduceOnly : BOOLEAN]
Rows == [id : Nat, order : 1 .. MaxOrders, size : 1 .. MaxSize]

(* The kind of value every variable holds.                                *)
TypeOK ==
  /\ up \in BOOLEAN /\ started \subseteq Sessions /\ legacyOf \subseteq started
  /\ exch \in [Sessions -> Positions] /\ sync \in [Sessions -> Positions \cup {Unknown}]
  /\ stream \in [Sessions -> Seq(Reports)]
  /\ journal \in [Journals -> [trade : Trades, pending : Trades,
                               lastClose : SUBSET Reports]]
  /\ executions \in [Buckets -> Seq(1 .. MaxOrders)] /\ published \subseteq Reports
  /\ openFile \in Trades
  /\ \A b \in Buckets : rows[b] \subseteq Rows
  /\ nextId \in [Buckets -> Nat \ {0}] /\ booked \in [Buckets -> Nat]
  /\ archive \subseteq [bucket : Sessions, id : Nat, order : 1 .. MaxOrders, size : 1 .. MaxSize]
  /\ orders \in 0 .. MaxOrders /\ crashes \in 0 .. MaxCrashes
  /\ regime \in {"crash", "hand"} /\ closed \in [Sessions -> Nat]
  /\ missed \subseteq Sessions

(* The journal books no more as closed than the exchange has closed: not  *)
(* for a report that arrives twice (_is_duplicate_close), not for a close *)
(* after the fact (_apply_close_if_open restores the file), and not when  *)
(* the process dies between the commit and the removal of the file.       *)
BookedOnlyWhatClosed == \A s \in Sessions \ misled : booked[s] <= closed[s]

Settled(s) == Listening(s) /\ stream[s] = <<>> /\ journal[s].pending = NoTrade

(* Once its reports are handled, a session's journal holds an open trade  *)
(* only if the exchange holds that position, on that side and of that size, *)
(* and unless a report was lost it misses no position.  Set aside: sessions *)
(* where the owner added to a position, turned one to more than its double *)
(* or closed twice alike within 0.35 s.                                   *)
JournalAgrees ==
  \A s \in Sessions \ misled : Settled(s) =>
    LET t == journal[s].trade
    IN  /\ t # NoTrade => t.side = exch[s].side /\ t.size = exch[s].size
        /\ t = NoTrade /\ exch[s] # Flat => s \in missed

(* Whatever the user stream repeats, an order has one row in the execution *)
(* history, unless it looked like another one that has.                   *)
ExecutionsAreRecorded ==
  LET Orders(b) == {executions[b][i] : i \in DOMAIN executions[b]}
      HasRow(f) == \E b \in Buckets : f.order \in Orders(b)
  IN  /\ \A b \in Buckets : Cardinality(Orders(b)) = Len(executions[b])
      /\ \A f \in published : \E g \in published : HasRow(g) /\ Trace(g) = Trace(f)

(* No row of a session's table has the archive key of another trade's row, *)
(* else INSERT OR IGNORE would drop it and the reset after it lose it.    *)
ArchiveKeyIsUnique ==
  \A a \in archive, b \in Buckets : \A r \in rows[b] :
    ArchiveKey(a.bucket, a) = ArchiveKey(b, r) => a.order = r.order /\ a.size = r.size

=============================================================================
