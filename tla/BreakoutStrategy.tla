-------------------------- MODULE BreakoutStrategy --------------------------
(***************************************************************************)
(* The strategy: DualEngine.on_bar and the two engines it calls, which    *)
(* wait for a range breakout, for its retest, and enter on the touch; the *)
(* account whose daily rules may block the day; and the position the      *)
(* engine holds until its stop or target is hit.                          *)
(*                                                                        *)
(* One step is one bar.  The short engine is the long engine with prices  *)
(* negated, and so it is written.  Money is counted in units of the risk  *)
(* of one trade: a loss costs 1, a win brings Rr.                         *)
(*                                                                        *)
(* A breakout that passes for a longer range passes for every shorter one *)
(* (its high is no higher, and momentum and distance do not depend on the *)
(* range), so the first of RANGE_LEVELS always decides: a bar carries the *)
(* high and the low of that range only.                                   *)
(***************************************************************************)
EXTENDS Integers, FiniteSets

CONSTANTS
  Prices,           \* prices, positive
  Rows,             \* the candles, low, close and high of each
  RangeMaxBars,     \* RANGE_MAX_BARS
  RangeMaxDepth,    \* RANGE_MAX_DEPTH, per cent
  BarsPerDay,       \* bars in a day, which are the bars of timedelta(hours=24)
  Configs,          \* the configurations: trade_mode, daily_stop_losses,
                    \* daily_dd_limit in units of risk, and whether the
                    \* account counts losses (backtest) or is the stateless
                    \* one of a live session
  Rr,               \* context.rr
  MaxBars           \* bound on the bars of a behaviour

ASSUME PricesAssumption == Prices \subseteq Nat \ {0}
ASSUME RowsAssumption ==
  Rows \subseteq {r \in [low : Prices, close : Prices, high : Prices] :
                    r.low <= r.close /\ r.close <= r.high}
ASSUME LimitsAssumption ==
  /\ Configs \subseteq [trade_mode : {"long", "short", "dual"}, counts : BOOLEAN,
                         daily_stop_losses : Nat \ {0}, daily_dd_limit : Nat \ {0}]
  /\ BarsPerDay \in Nat \ {0} /\ Rr \in Nat \ {0}
  /\ {RangeMaxBars, RangeMaxDepth, MaxBars} \subseteq Nat

Sides == {"LONG", "SHORT"}
Never == 0 - 1
None == [side |-> "NONE"]
Idle == [waiting |-> FALSE]

VARIABLES
  now,       \* the bar last handled
  engine,    \* the state each engine keeps
  position,  \* DualEngine.position
  account,   \* the account's day, losses, result of the day and block
  config,    \* the configuration in force
  reach,     \* history: the worst price since the breakout each side waits on
  hidden,    \* history: bars the waiting engine was not called with
  breach     \* history: the bar that last found the drawdown limit reached

vars == <<now, engine, position, account, config, reach, hidden, breach>>

Enabled(side) == config.trade_mode \in {"dual", IF side = "LONG" THEN "long" ELSE "short"}

Day(t) == t \div BarsPerDay

(* Prices as the engine of a side sees them: its own direction is up.     *)
Face(side, p) == IF side = "LONG" THEN p ELSE 0 - p
Low(side, row) == IF side = "LONG" THEN row.low ELSE 0 - row.high
High(side, row) == IF side = "LONG" THEN row.high ELSE 0 - row.low

Ranges == {r \in [low : Prices, high : Prices] : r.low <= r.high}

-----------------------------------------------------------------------------
(* process_long and process_short                                         *)

(* The range breakout: the close leaves the range, the candle is wide and *)
(* the hourly range is 1 to 10 per cent from the average ("wide" is both). *)
Breaks(side, row, range, wide) ==
  Face(side, row.close) > High(side, range) /\ wide

Breakout(side, range, t) ==
  [waiting |-> TRUE, level |-> High(side, range), swing |-> Low(side, range),
   time |-> t, bars |-> 0, worst |-> High(side, range)]

WorstOf(p, q) == IF p <= q THEN p ELSE q

(* retest_depth_pct > RANGE_MAX_DEPTH, with denom = max(1e-9, ...)        *)
TooDeep(e, worst) ==
  IF e.level = e.swing THEN worst < e.level
  ELSE (e.level - worst) * 100 > RangeMaxDepth * (e.level - e.swing)

(* The engine's state after a bar it is called with while it waits.       *)
Retested(e, side, row) ==
  [e EXCEPT !.bars = @ + 1, !.worst = WorstOf(@, Low(side, row))]

(* Defective variant: the depth of the retest is not looked at.           *)
CancelsOnCloseOnly(e, side, row) ==
  e.bars > RangeMaxBars \/ Face(side, row.close) < e.level

Cancels(e, side, row) ==
  \/ e.bars > RangeMaxBars
  \/ TooDeep(e, e.worst)
  \/ Face(side, row.close) < e.level

(* The bar touches the level outside BLOCK_HOURS_VN: the entry.           *)
Touches(e, side, row, blockedHour) ==
  Low(side, row) <= e.level /\ ~blockedHour

Signal(e, side, t) ==
  [side |-> side, entry |-> Face(side, e.level), sl |-> Face(side, e.swing),
   tp |-> Face(side, e.level + Rr * (e.level - e.swing)), time |-> e.time, at |-> t]

(* Defective variant: the entry leaves waiting_retest set.                *)
ProcessKeepsWaiting(side, e, row, range, wide, blockedHour, t) ==
  IF ~e.waiting
  THEN [state |-> IF Breaks(side, row, range, wide) THEN Breakout(side, range, t) ELSE Idle,
        signal |-> None]
  ELSE LET r == Retested(e, side, row)
       IN IF Cancels(r, side, row) THEN [state |-> Idle, signal |-> None]
          ELSE IF Touches(r, side, row, blockedHour)
          THEN [state |-> r, signal |-> Signal(r, side, t)]
          ELSE [state |-> r, signal |-> None]

(* process_long, process_short: the new state and the signal or None.     *)
Process(side, e, row, range, wide, blockedHour, t) ==
  IF ~e.waiting
  THEN [state |-> IF Breaks(side, row, range, wide) THEN Breakout(side, range, t) ELSE Idle,
        signal |-> None]
  ELSE LET r == Retested(e, side, row)
       IN IF Cancels(r, side, row) THEN [state |-> Idle, signal |-> None]
          ELSE IF Touches(r, side, row, blockedHour)
          THEN [state |-> Idle, signal |-> Signal(r, side, t)]
          ELSE [state |-> r, signal |-> None]

ProcessLong(e, row, range, wide, blockedHour, t) ==
  Process("LONG", e, row, range, wide, blockedHour, t)
ProcessShort(e, row, range, wide, blockedHour, t) ==
  Process("SHORT", e, row, range, wide, blockedHour, t)

-----------------------------------------------------------------------------
(* The account                                                            *)

FreshAccount == [day |-> Never, losses |-> 0, dayPnl |-> 0, blockedUntil |-> 0]

(* Defective variant: the new day forgets the block.                      *)
ResetDayUnblocks(a, day) == [FreshAccount EXCEPT !.day = day]

(* AccountState.reset_day; the block outlives the day.                    *)
ResetDay(a, day) == [a EXCEPT !.day = day, !.losses = 0, !.dayPnl = 0]

RegisterLoss(a) ==
  IF config.counts THEN [a EXCEPT !.losses = @ + 1, !.dayPnl = @ - 1] ELSE a
RegisterWin(a) == IF config.counts THEN [a EXCEPT !.dayPnl = @ + Rr] ELSE a

BlockUntil(a, t) == [a EXCEPT !.blockedUntil = t]

(* The account after the day check that opens on_bar.                     *)
Today(t) ==
  IF account.day # Day(t) /\ config.counts THEN ResetDay(account, Day(t)) ELSE account

StillBlocked(a, t) == t < a.blockedUntil
LossesReached(a) == a.losses >= config.daily_stop_losses
DrawdownReached(a) == 0 - a.dayPnl >= config.daily_dd_limit
DayBlocked(a, t) == StillBlocked(a, t) \/ LossesReached(a)

Init ==
  /\ now = Never
  /\ engine = [s \in Sides |-> Idle]
  /\ position = None
  /\ account = FreshAccount
  /\ config \in Configs
  /\ reach = [s \in Sides |-> 0]
  /\ hidden = [s \in Sides |-> 0]
  /\ breach = Never

(* What the market did while an engine waits, on bars it saw or not; the  *)
(* values stay while the position they led to is open.                    *)
Watch(row, seenBy) ==
  /\ reach' = [s \in Sides |->
       IF engine[s].waiting THEN WorstOf(reach[s], Low(s, row))
       ELSE IF engine'[s].waiting THEN engine'[s].level
       ELSE IF position'.side = s THEN reach[s] ELSE 0]
  /\ hidden' = [s \in Sides |->
       IF engine[s].waiting THEN hidden[s] + (IF s = seenBy THEN 0 ELSE 1)
       ELSE IF position'.side = s THEN hidden[s] ELSE 0]

-----------------------------------------------------------------------------
(* DualEngine.on_bar                                                      *)

(* The day is blocked, or is found to have reached the drawdown limit:    *)
(* the bar is dropped, an open position's stop and target included.       *)
OnBarBlocked(t, a, row) ==
  /\ DayBlocked(a, t) \/ DrawdownReached(a)
  /\ IF DayBlocked(a, t)
     THEN account' = a /\ UNCHANGED breach
     ELSE account' = BlockUntil(a, t + BarsPerDay) /\ breach' = t
  /\ UNCHANGED <<engine, position>>
  /\ Watch(row, "NONE")

(* Which exit a bar brings; the stop is looked at first.                  *)
Exit(row) ==
  IF Low(position.side, row) <= Face(position.side, position.sl) THEN "stop"
  ELSE IF High(position.side, row) >= Face(position.side, position.tp) THEN "target"
  ELSE "none"

(* Defective variant: _close_trade leaves the position set.               *)
ManageKeepsPosition(t, a, row) ==
  /\ ~DayBlocked(a, t) /\ ~DrawdownReached(a)
  /\ position # None
  /\ LET exit == Exit(row)
     IN /\ account' = CASE exit = "stop" -> RegisterLoss(a)
                        [] exit = "target" -> RegisterWin(a)
                        [] OTHER -> a
  /\ UNCHANGED <<engine, position, breach>>
  /\ Watch(row, "NONE")

(* _manage_position and _close_trade.                                     *)
Manage(t, a, row) ==
  /\ ~DayBlocked(a, t) /\ ~DrawdownReached(a)
  /\ position # None
  /\ LET exit == Exit(row)
     IN /\ position' = IF exit = "none" THEN position ELSE None
        /\ account' = CASE exit = "stop" -> RegisterLoss(a)
                        [] exit = "target" -> RegisterWin(a)
                        [] OTHER -> a
  /\ UNCHANGED <<engine, breach>>
  /\ Watch(row, "NONE")

(* The hourly filter lets a bar reach one engine at most: the long one    *)
(* above the average, the short one below it.  So the rule for two        *)
(* signals on one bar never has to choose.  _open_position sets the       *)
(* position before it sends the order, and keeps it when sending raises.  *)
Signals(t, a, row, trend, range, wide, blockedHour) ==
  /\ ~DayBlocked(a, t) /\ ~DrawdownReached(a)
  /\ position = None
  /\ account' = a /\ UNCHANGED breach
  /\ IF trend = "NONE"
     THEN UNCHANGED <<engine, position>>
     ELSE LET res == IF trend = "LONG"
                     THEN ProcessLong(engine["LONG"], row, range, wide, blockedHour, t)
                     ELSE ProcessShort(engine["SHORT"], row, range, wide, blockedHour, t)
          IN /\ engine' = [engine EXCEPT ![trend] = res.state]
             /\ position' = res.signal
  /\ Watch(row, trend)

(* What a bar may hold besides its prices: only an engine that does not   *)
(* wait looks at the range and the width, and then only at a range the    *)
(* close leaves; only one that waits looks at the hour.                   *)
Breakable(trend, row) ==
  {<<r, TRUE>> : r \in {q \in Ranges : Breaks(trend, row, q, TRUE)}}
Unbroken == {<<CHOOSE r \in Ranges : TRUE, FALSE>>}
RangesFor(trend, row) ==
  IF trend = "NONE" \/ engine[trend].waiting THEN Unbroken
  ELSE Unbroken \cup Breakable(trend, row)
HoursFor(trend) ==
  IF trend = "NONE" \/ ~engine[trend].waiting THEN {FALSE} ELSE BOOLEAN

OnBar ==
  /\ now < MaxBars - 1
  /\ LET t == now + 1
         a == Today(t)
     IN \E row \in Rows :
          \/ OnBarBlocked(t, a, row)
          \/ Manage(t, a, row)
          \/ \E trend \in {s \in Sides : Enabled(s)} \cup {"NONE"} :
               \E range \in RangesFor(trend, row), hour \in HoursFor(trend) :
                 Signals(t, a, row, trend, range[1], range[2], hour)
  /\ now' = now + 1
  /\ UNCHANGED config

Next == OnBar

Spec == Init /\ [][Next]_vars

-----------------------------------------------------------------------------
(* Properties                                                             *)

TypeOK ==
  /\ now \in Never..(MaxBars - 1) /\ config \in Configs
  /\ \A s \in Sides :
       engine[s] # Idle =>
         /\ engine[s].waiting /\ engine[s].time \in 0..now
         /\ engine[s].bars \in 0..RangeMaxBars
         /\ engine[s].swing <= engine[s].level /\ engine[s].worst <= engine[s].level
  /\ position # None => position.side \in Sides /\ position.at \in 0..now
  /\ account.losses \in 0..config.daily_stop_losses /\ account.blockedUntil \in 0..(MaxBars + BarsPerDay)

(* No position is open when the day is blocked: the block drops the bar   *)
(* before _manage_position, so an open position would lose its stop.      *)
BlockedMeansFlat ==
  position # None =>
    /\ account.blockedUntil <= now
    /\ account.losses < config.daily_stop_losses
    /\ 0 - account.dayPnl < config.daily_dd_limit

(* A day found to have lost daily_dd_limit lets no trade be entered for   *)
(* 24 hours, although the next day resets the account's day.              *)
NoEntryAfterDrawdown ==
  [][position = None /\ position' # None /\ breach # Never
       => position'.at >= breach + BarsPerDay]_vars

(* The price never traded deeper than RANGE_MAX_DEPTH into the range, and *)
(* the breakout is no older than RANGE_MAX_BARS, when a trade is entered: *)
(* of the bars since the breakout only those hidden from the engine (a    *)
(* position open, a blocked day, the filter off) are excused.             *)
EntryFollowsRetest ==
  position # None =>
    LET s == position.side
        depth == Face(s, position.entry) - reach[s]
        height == Face(s, position.entry) - Face(s, position.sl)
    IN /\ position.at - position.time <= RangeMaxBars + hidden[s]
       /\ hidden[s] = 0 => depth * 100 <= RangeMaxDepth * height

(* A breakout leads to one trade at most: while its trade is open the     *)
(* engine that gave it waits for nothing, whatever was hidden from it, so *)
(* the next entry of that side needs a breakout after the exit.           *)
NoSecondEntry == position # None => engine[position.side] = Idle
=============================================================================
