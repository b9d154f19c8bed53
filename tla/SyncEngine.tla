----------------------------- MODULE SyncEngine -----------------------------
(***************************************************************************)
(* The local picture of one symbol: SyncEngine with its PositionEngine      *)
(* (execution/sync), fed by the user stream's reports, and what its FILLED  *)
(* branch sets off: the close of a manual open, and the stop-loss and       *)
(* take-profit orders that the trade client lets pass or blocks.           *)
(*                                                                         *)
(* Reports arrive in the order the exchange sends them; for each fill the   *)
(* position report may come before or after the order report.  Sizes are    *)
(* whole multiples of the lot size, so the code's tolerances are equality. *)
(***************************************************************************)
EXTENDS Integers, Sequences, FiniteSets

CONSTANTS
  MaxSize,       \* largest quantity of one order
  MaxOrders,     \* bound on orders accepted
  MaxExecs,      \* bound on executions of the bot
  MaxRestarts,   \* bound on restarts of the stream
  MaxRefusals    \* bound on bracket orders the exchange refuses

ASSUME BoundsAssumption ==
  /\ MaxSize \in Nat \ {0}
  /\ {MaxOrders, MaxExecs, MaxRestarts, MaxRefusals} \subseteq Nat

VARIABLES
  exch,        \* net position at the exchange
  order,       \* the market order at work there, or NoOrder
  opener,      \* the order that opened the exchange's position, or NoOrder
  stops,       \* protective orders resting there
  placed,      \* market orders accepted so far
  stream,      \* reports on their way
  link,        \* the user stream: "up", "down" or "connecting"
  positions,   \* PositionEngine.positions, in insertion order
  reduceGuard, \* _post_stream_reduce_guard
  partials,    \* keys of _order_fill_accumulator
  botOpen,     \* _bot_open_expected
  manual,      \* _manual_open_flag and _pending_manual_close
  recent,      \* a reduce-only fill in the last two seconds
  owner,       \* the execution holding the lock, or 0
  brackets,    \* orders with an entry in _pending_brackets
  tasks,       \* tasks about to place a bracket order
  closing,     \* a close_manual_position task about to run
  execs, restarts, refusals,   \* what the bounds count
  disturbed    \* history: something happened that reports cannot tell

exchVars  == <<exch, order, opener, placed>>
localVars == <<positions, reduceGuard, partials, botOpen, manual, recent>>
bracketVars == <<stops, brackets, tasks, refusals>>
botVars   == <<owner, closing, execs>>
linkVars  == <<link, restarts>>
vars == <<exchVars, stream, linkVars, localVars, bracketVars, botVars, disturbed>>

-----------------------------------------------------------------------------
Directions == {-1, 1}

Sign(n) == IF n > 0 THEN 1 ELSE IF n < 0 THEN -1 ELSE 0
Size(n) == IF n < 0 THEN - n ELSE n

NoOrder == [id |-> 0, dir |-> 1, left |-> 0, filled |-> 0, reduceOnly |-> FALSE,
            exec |-> 0]
NoGuard == [side |-> 0, from |-> 0, to |-> 0]

(* mapper.map_position and the user stream: a position report or REST row. *)
Listed(net) == IF net = 0 THEN <<>> ELSE <<[side |-> Sign(net), size |-> Size(net)]>>

Init ==
  /\ exch \in {0, 1, MaxSize} /\ positions = Listed(exch)
  /\ order = NoOrder /\ opener = NoOrder /\ placed = 0 /\ stops = {}
  /\ stream = <<>> /\ link = "up" /\ restarts = 0
  /\ reduceGuard = NoGuard /\ partials = {} /\ botOpen = FALSE
  /\ manual = "no" /\ recent = FALSE
  /\ owner = 0 /\ closing = FALSE /\ execs = 0
  /\ brackets = {} /\ tasks = {} /\ refusals = 0
  /\ disturbed = FALSE

-----------------------------------------------------------------------------
(* The exchange.                                                           *)

PositionReport(net) == [type |-> "position", net |-> net]
OrderReport(o, status) ==
  [type |-> status, id |-> o.id, dir |-> o.dir, filled |-> o.filled,
   reduceOnly |-> o.reduceOnly, meta |-> o.exec # 0]

(* A report sent while nobody listens is lost.                             *)
Sends(reports) == stream' = IF link = "up" THEN stream \o reports ELSE stream

(***************************************************************************)
(* The traffic the sync engine cannot follow, which LocalConverges sets     *)
(* aside: an order that adds to a position or turns it, a close in several *)
(* fills that is not reduce-only, an order that expires, a bracket order   *)
(* accepted while another order is at work, a restart that loses a report   *)
(* or falls between the fills of a close, whose record it clears.          *)
(***************************************************************************)
AddsOrTurns(o) ==
  exch * o.dir > 0 \/ (exch # 0 /\ o.left > Size(exch) /\ ~ o.reduceOnly)
SplitsClose(qty) ==
  qty < order.left /\ ~ order.reduceOnly /\ exch * order.dir < 0
Missed == link # "up"

(* A reduce-only order is cut to the position, and refused without one.    *)
Accepts(o) ==
  /\ order = NoOrder /\ placed < MaxOrders
  /\ o.reduceOnly => exch * o.dir < 0
  /\ order' = IF o.reduceOnly /\ o.left > Size(exch)
              THEN [o EXCEPT !.left = Size(exch)] ELSE o
  /\ placed' = placed + 1
  /\ disturbed' = (disturbed \/ AddsOrTurns(o) \/ Missed)
  /\ Sends(<<OrderReport(o, "NEW")>>)
  /\ UNCHANGED <<exch, opener>>

Fill(qty) ==
  LET net    == exch + order.dir * qty
      filled == [order EXCEPT !.left = order.left - qty, !.filled = order.filled + qty]
      status == IF filled.left = 0 THEN "FILLED" ELSE "PARTIALLY_FILLED"
      report == OrderReport(filled, status)
  IN  /\ order # NoOrder /\ qty \in 1 .. order.left
      /\ exch' = net
      /\ opener' = CASE net = 0 -> NoOrder
                    [] net # 0 /\ exch * net <= 0 -> order
                    [] OTHER -> opener
      /\ order' = IF filled.left = 0 THEN NoOrder ELSE filled
      /\ \/ Sends(<<PositionReport(net), report>>)
         \/ Sends(<<report, PositionReport(net)>>)
      /\ disturbed' = (disturbed \/ SplitsClose(qty) \/ Missed)
      /\ UNCHANGED <<placed, linkVars, localVars, bracketVars, botVars>>

(* The rest of a market order that finds no liquidity.                     *)
Expire ==
  /\ order # NoOrder
  /\ order' = NoOrder
  /\ Sends(<<OrderReport(order, "EXPIRED")>>)
  /\ disturbed' = TRUE
  /\ UNCHANGED <<exch, opener, placed, linkVars, localVars, bracketVars, botVars>>

(* The owner of the account trades on the exchange.                        *)
HandTrade(dir, qty) ==
  /\ Accepts([id |-> placed + 1, dir |-> dir, left |-> qty, filled |-> 0,
              reduceOnly |-> FALSE, exec |-> 0])
  /\ UNCHANGED <<linkVars, localVars, bracketVars, botVars>>

Exchange == \/ \E qty \in 1 .. MaxSize : Fill(qty)
            \/ Expire
            \/ \E dir \in Directions, qty \in 1 .. MaxSize : HandTrade(dir, qty)

-----------------------------------------------------------------------------
(* The bot.  OrderExecution models its executions; here one may start when  *)
(* the lock is free and may end at any time, its orders filled or not.      *)
(* Between two of its orders it sleeps, so that bracket tasks have run.    *)

BotStarts ==
  /\ owner = 0 /\ execs < MaxExecs
  /\ owner' = execs + 1 /\ execs' = execs + 1
  /\ UNCHANGED <<exchVars, stream, linkVars, localVars, bracketVars, closing, disturbed>>

BotReturns ==
  /\ owner # 0 /\ owner' = 0
  /\ UNCHANGED <<exchVars, stream, linkVars, localVars, bracketVars, closing, execs,
                 disturbed>>

(***************************************************************************)
(* The CLOSE step and close_manual_position close the first entry's size;   *)
(* the side is the entry's in the former, the exchange's in the latter.    *)
(***************************************************************************)
ClosingOrder(side, exec) ==
  [id |-> placed + 1, dir |-> - side, left |-> Head(positions).size,
   filled |-> 0, reduceOnly |-> TRUE, exec |-> exec]

BotCloses ==
  /\ owner # 0 /\ tasks = {} /\ positions # <<>>
  /\ Accepts(ClosingOrder(Head(positions).side, owner))
  /\ UNCHANGED <<linkVars, localVars, bracketVars, botVars>>

(***************************************************************************)
(* The OPEN step.  If the reply tells of a fill, the hook of                *)
(* _BracketAwareTradeClient starts a task that places the brackets under    *)
(* the execution's id.                                                     *)
(***************************************************************************)
BotOpens(dir, qty) ==
  /\ owner # 0 /\ tasks = {} /\ positions = <<>>
  /\ Accepts([id |-> placed + 1, dir |-> dir, left |-> qty, filled |-> 0,
              reduceOnly |-> FALSE, exec |-> owner])
  /\ \E replyFilled \in BOOLEAN :
       tasks' = IF replyFilled
                THEN tasks \cup {[order |-> placed + 1, exec |-> owner]}
                ELSE tasks
  /\ UNCHANGED <<linkVars, localVars, stops, brackets, refusals, botVars>>

(* close_manual_position when it gets to run.                              *)
ManualClose ==
  /\ closing /\ closing' = FALSE
  /\ \/ owner = 0 /\ positions # <<>>
        /\ Accepts(ClosingOrder(Sign(exch), 0))
     \/ UNCHANGED <<exchVars, stream, disturbed>>
  /\ UNCHANGED <<linkVars, localVars, bracketVars, owner, execs>>

Bot == \/ BotStarts \/ BotReturns \/ BotCloses \/ ManualClose
       \/ \E dir \in Directions, qty \in 1 .. MaxSize : BotOpens(dir, qty)

-----------------------------------------------------------------------------
(* PositionEngine.  Entries are kept by symbol and side; an event of size 0 *)
(* removes both sides, any other leaves the other side alone.              *)

ApplyEventKeepsOld(held, side, size) ==
  IF size = 0
  THEN LET OtherSide(entry) == entry.side # side IN SelectSeq(held, OtherSide)
  ELSE IF \E i \in DOMAIN held : held[i].side = side
  THEN [i \in DOMAIN held |->
          IF held[i].side = side THEN [held[i] EXCEPT !.size = size] ELSE held[i]]
  ELSE Append(held, [side |-> side, size |-> size])
ApplyEvent(held, side, size) ==
  IF size = 0 THEN <<>>
  ELSE IF \E i \in DOMAIN held : held[i].side = side
  THEN [i \in DOMAIN held |->
          IF held[i].side = side THEN [held[i] EXCEPT !.size = size] ELSE held[i]]
  ELSE Append(held, [side |-> side, size |-> size])

(* _register_same_side_reduction: chained reductions keep the first size.  *)
Registered(side, from, to) ==
  IF reduceGuard.side = side /\ reduceGuard.to = from
  THEN [reduceGuard EXCEPT !.to = to]
  ELSE [side |-> side, from |-> from, to |-> to]

(***************************************************************************)
(* A position report.  The hint _bot_open_expected swallows it whole.       *)
(* Otherwise a position on a flat local view, with no execution and no      *)
(* recent reduce-only fill, is taken for opened by hand and not applied.   *)
(***************************************************************************)
LooksManualAnySize(net) ==
  net # 0 /\ owner = 0 /\ ~ recent /\ manual = "no"
LooksManual(net) ==
  positions = <<>> /\ net # 0 /\ owner = 0 /\ ~ recent /\ manual = "no"

OnPositionHintStays(net) ==
  IF botOpen THEN UNCHANGED <<positions, reduceGuard, botOpen, manual>>
  ELSE IF LooksManual(net)
  THEN manual' = "pending" /\ UNCHANGED <<positions, reduceGuard, botOpen>>
  ELSE LET old == Head(positions)
           cut == positions # <<>> /\
                  (net = 0 \/ (old.side = Sign(net) /\ Size(net) < old.size))
       IN  /\ positions' = ApplyEvent(positions, Sign(net), Size(net))
           /\ reduceGuard' = IF cut THEN Registered(old.side, old.size, Size(net))
                             ELSE reduceGuard
           /\ manual' = IF net = 0 THEN "no" ELSE manual
           /\ UNCHANGED botOpen
OnPosition(net) ==
  IF botOpen THEN botOpen' = FALSE /\ UNCHANGED <<positions, reduceGuard, manual>>
  ELSE IF LooksManual(net)
  THEN manual' = "pending" /\ UNCHANGED <<positions, reduceGuard, botOpen>>
  ELSE LET old == Head(positions)
           cut == positions # <<>> /\
                  (net = 0 \/ (old.side = Sign(net) /\ Size(net) < old.size))
       IN  /\ positions' = ApplyEvent(positions, Sign(net), Size(net))
           /\ reduceGuard' = IF cut THEN Registered(old.side, old.size, Size(net))
                             ELSE reduceGuard
           /\ manual' = IF net = 0 THEN "no" ELSE manual
           /\ UNCHANGED botOpen

-----------------------------------------------------------------------------
(***************************************************************************)
(* _apply_position_net_after_opposite_fill, for a fill against the first    *)
(* entry: ignored when the position report came first, else a reverse, a    *)
(* full close or a reduction.                                              *)
(***************************************************************************)
AlreadyReduced(old, qty) ==
  reduceGuard.side = old.side /\ reduceGuard.to = old.size
    /\ reduceGuard.from - reduceGuard.to = qty

NetAfterFill(o) ==
  LET old == Head(positions)
  IN  IF o.filled > old.size
      THEN IF o.reduceOnly \/ AlreadyReduced(old, o.filled) THEN positions
           ELSE <<[side |-> o.dir, size |-> o.filled - old.size]>>
      ELSE ApplyEvent(positions, old.side, old.size - o.filled)

GuardAfterFill(o) ==
  LET old == Head(positions)
  IN  IF o.filled > old.size /\ ~ o.reduceOnly /\ AlreadyReduced(old, o.filled)
      THEN NoGuard ELSE reduceGuard

Opposite(o) == positions # <<>> /\ Head(positions).side = - o.dir

(***************************************************************************)
(* What FILLED does to the local position.  A fill that partial fills       *)
(* preceded is left to the position reports; a fill on the held side        *)
(* overwrites the size.                                                    *)
(***************************************************************************)
FilledPositions(o) ==
  IF Opposite(o) THEN IF o.id \in partials THEN positions ELSE NetAfterFill(o)
  ELSE IF o.reduceOnly THEN positions
  ELSE ApplyEvent(positions, o.dir, o.filled)

FilledGuard(o) ==
  IF Opposite(o) /\ o.id \notin partials THEN GuardAfterFill(o) ELSE reduceGuard

(***************************************************************************)
(* The FILLED branch: a pending manual close is spawned; a reduce-only      *)
(* fill only nets; any other also takes the order's pending brackets and    *)
(* starts the task that places them, under the client order id.            *)
(***************************************************************************)
OnFilled(o) ==
  /\ partials' = partials \ {o.id}
  /\ closing' = (closing \/ manual = "pending")
  /\ manual' = IF manual = "pending" THEN "flagged" ELSE manual
  /\ positions' = FilledPositions(o) /\ reduceGuard' = FilledGuard(o)
  /\ recent' = (recent \/ o.reduceOnly)
  /\ IF ~ o.reduceOnly /\ o.id \in brackets
     THEN /\ brackets' = brackets \ {o.id}
          /\ tasks' = tasks \cup {[order |-> o.id, exec |-> 0]}
     ELSE UNCHANGED <<brackets, tasks>>
  /\ UNCHANGED <<botOpen, stops, refusals, owner, execs>>

(***************************************************************************)
(* The NEW branch.  The hint is set for every order: the latency entry it   *)
(* looks for was created a few lines before.                               *)
(***************************************************************************)
OnNew(o) ==
  /\ botOpen' = TRUE
  /\ brackets' = IF o.meta THEN brackets \cup {o.id} ELSE brackets
  /\ UNCHANGED <<positions, reduceGuard, partials, manual, recent, stops, tasks,
                 refusals, botVars>>

Receive ==
  /\ link = "up" /\ stream # <<>>
  /\ stream' = Tail(stream)
  /\ LET report == Head(stream)
     IN  CASE report.type = "position" ->
                /\ OnPosition(report.net)
                /\ UNCHANGED <<partials, recent, bracketVars, botVars>>
           [] report.type = "NEW" -> OnNew(report)
           [] report.type = "PARTIALLY_FILLED" ->
                /\ partials' = partials \cup {report.id}
                /\ UNCHANGED <<positions, reduceGuard, botOpen, manual, recent,
                               bracketVars, botVars>>
           [] report.type = "FILLED" -> OnFilled(report)
           [] OTHER -> UNCHANGED <<localVars, bracketVars, botVars>>
  /\ UNCHANGED <<exchVars, linkVars, disturbed>>

(* The two seconds of _last_execution_ts and the three of the guard.       *)
Elapse ==
  /\ \/ recent /\ recent' = FALSE /\ UNCHANGED reduceGuard
     \/ reduceGuard # NoGuard /\ reduceGuard' = NoGuard /\ UNCHANGED recent
  /\ UNCHANGED <<exchVars, stream, linkVars, positions, partials, botOpen, manual,
                 bracketVars, botVars, disturbed>>

-----------------------------------------------------------------------------
(***************************************************************************)
(* A task places a stop-loss, then a take-profit, without awaiting in       *)
(* between; the first exception ends it.  The trade client's guard lets an  *)
(* order pass when nothing executes and blocks one whose id is not that of  *)
(* the running execution: a client order id (exec 0 here) never is.        *)
(***************************************************************************)
TradeGuard(exec) == owner = 0 \/ owner = exec

PlaceBrackets(t) ==
  /\ t \in tasks /\ tasks' = tasks \ {t}
  /\ \/ /\ TradeGuard(t.exec)
        /\ stops' = stops \cup {[order |-> t.order, exec |-> t.exec]}
        /\ Sends(<<OrderReport(NoOrder, "NEW")>>)
        /\ disturbed' = (disturbed \/ order # NoOrder)
        /\ UNCHANGED refusals
     \/ /\ TradeGuard(t.exec) /\ refusals < MaxRefusals
        /\ refusals' = refusals + 1
        /\ UNCHANGED <<stops, stream, disturbed>>
     \/ /\ ~ TradeGuard(t.exec)
        /\ UNCHANGED <<stops, stream, refusals, disturbed>>
  /\ UNCHANGED <<exchVars, linkVars, localVars, brackets, botVars>>

-----------------------------------------------------------------------------
(***************************************************************************)
(* Restart: stop_user_stream cancels the listener; start_user_stream starts *)
(* a new one and takes the snapshot before that has connected, because      *)
(* nothing is awaited in between.                                          *)
(***************************************************************************)
StopStream ==
  /\ link = "up" /\ restarts < MaxRestarts
  /\ link' = "down" /\ restarts' = restarts + 1 /\ stream' = <<>>
  /\ disturbed' = (disturbed \/ stream # <<>> \/ (order.reduceOnly /\ order.filled > 0))
  /\ UNCHANGED <<exchVars, localVars, bracketVars, botVars>>

Bootstrap ==
  /\ link = "down" /\ link' = "connecting"
  /\ positions' = Listed(exch)
  /\ reduceGuard' = NoGuard /\ partials' = {}
  /\ UNCHANGED <<exchVars, stream, restarts, botOpen, manual, recent, bracketVars,
                 botVars, disturbed>>

Connect ==
  /\ link = "connecting" /\ link' = "up"
  /\ UNCHANGED <<exchVars, stream, restarts, localVars, bracketVars, botVars, disturbed>>

Stream == Receive \/ Elapse \/ StopStream \/ Bootstrap \/ Connect

Next == Exchange \/ Bot \/ Stream \/ \E t \in tasks : PlaceBrackets(t)

Spec == Init /\ [][Next]_vars

-----------------------------------------------------------------------------
Entries == [side : Directions, size : Nat \ {0}]

TypeOK ==
  /\ exch \in Int /\ opener.id \in 0 .. placed /\ placed \in 0 .. MaxOrders
  /\ order.left \in Nat /\ order.exec \in 0 .. MaxExecs
  /\ positions \in Seq(Entries) /\ Len(positions) <= 2
  /\ reduceGuard.side \in Directions \cup {0} /\ reduceGuard.to <= reduceGuard.from
  /\ partials \subseteq 1 .. MaxOrders /\ brackets \subseteq 1 .. MaxOrders
  /\ {botOpen, recent, closing} \subseteq BOOLEAN
  /\ manual \in {"no", "pending", "flagged"} /\ link \in {"up", "down", "connecting"}
  /\ owner \in 0 .. MaxExecs
  /\ \A t \in tasks : t.order \in 1 .. placed

(***************************************************************************)
(* PROPERTIES.                                                             *)
(***************************************************************************)

(* Everything the exchange sent has been handled.                          *)
Delivered == link = "up" /\ stream = <<>> /\ order = NoOrder

(***************************************************************************)
(* Once every report has been handled, the local picture is the exchange's  *)
(* position, whichever of the two reports of a fill came first, for the     *)
(* traffic the bot sends (flat, opened, closed reduce-only) and the partial *)
(* closes by hand that one fill completes.                                 *)
(***************************************************************************)
LocalConverges ==
  Delivered /\ ~ disturbed => positions = Listed(exch)

(***************************************************************************)
(* PositionEngine, which keeps both sides of a symbol, never holds the two  *)
(* at once in one-way trading that the reports can tell: most readers take *)
(* the first entry for the position.                                       *)
(***************************************************************************)
NeverHedged == ~ disturbed => Len(positions) <= 1

(***************************************************************************)
(* A manual open that was noticed does not wait for ever: the FILLED report *)
(* that spawns its close is still on its way.                              *)
(***************************************************************************)
PendingIsResolved == Delivered /\ ~ disturbed => manual # "pending"

=============================================================================
