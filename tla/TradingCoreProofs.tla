------------------------- MODULE TradingCoreProofs -------------------------
(***************************************************************************)
(* Theorems of the trading core: of BreakoutStrategy, for all prices,      *)
(* candles, configurations and any number of bars; of RiskCourt, for every *)
(* code law, every dashboard command and every amount of money; of         *)
(* PolicyPipeline, for all symbols, sizes and lot sizes; and of LiveMarket,*)
(* for all limits of its tables and queues and any number of restarts.     *)
(*                                                                         *)
(* IInv is the invariant of the strategy, CourtInv that of the court, whose*)
(* core is that the limits the engines hold are never looser than the code *)
(* law (LawHolds): with it, an update that breaks a base limit also raises *)
(* the flag the base limit stands for.  PipelineInv is the one of the      *)
(* pipeline: the decision is the policy's on the account as it was, and    *)
(* the account is where the steps done so far have taken it.  MarketInv is *)
(* the one of the candles: each is final, on the way, or accounted for.    *)
(***************************************************************************)
EXTENDS BreakoutStrategy, RiskCourt, PolicyPipeline, LiveMarket,
        SequenceTheorems, FiniteSetTheorems, WellFoundedInduction, TLAPS

-----------------------------------------------------------------------------
(***************************************************************************)
(* The breakout strategy.                                                  *)
(***************************************************************************)
Waiting == [waiting : {TRUE}, level : Int, swing : Int, time : Int, bars : Nat, worst : Int]
Position == [side : Sides, entry : Int, sl : Int, tp : Int, time : Int, at : Int]
Account == [day : Int, losses : Int, dayPnl : Int, blockedUntil : Int]

TypeInv ==
  /\ now \in Int
  /\ engine \in [Sides -> Waiting \cup {Idle}]
  /\ position \in Position \cup {None}
  /\ account \in Account
  /\ config \in Configs
  /\ reach \in [Sides -> Int] /\ hidden \in [Sides -> Int]
  /\ breach \in Int

(* The clock of an engine that waits lags behind by the bars hidden from  *)
(* it, and without such bars it has seen the worst price.                 *)
Paced(s) ==
  engine[s].waiting =>
    /\ engine[s].bars <= RangeMaxBars
    /\ now - engine[s].time = engine[s].bars + hidden[s]
    /\ hidden[s] >= 0
    /\ hidden[s] = 0 => reach[s] = engine[s].worst

(* A day found blocked for its drawdown stays blocked for 24 hours.       *)
BlockLasts == breach # Never => account.blockedUntil >= breach + BarsPerDay

IInv ==
  /\ TypeInv
  /\ NoSecondEntry
  /\ BlockedMeansFlat
  /\ BlockLasts
  /\ \A s \in Sides : Paced(s)
  /\ EntryFollowsRetest

-----------------------------------------------------------------------------
(* Facts about one bar.                                                   *)

LEMMA IdleIs == Idle.waiting = FALSE /\ Idle \notin Waiting
BY DEF Idle, Waiting

LEMMA NoneIs == None.side = "NONE" /\ None \notin Position
BY DEF None, Position, Sides

LEMMA PriceIs == \A p \in Prices : p \in Int
BY PricesAssumption

(* Records that change in some fields.                                    *)
LEMMA AccountOfWin ==
  ASSUME NEW a \in Account, NEW dayPnl \in Int,
         NEW r, r = [a EXCEPT !.dayPnl = dayPnl]
  PROVE  r \in Account /\ r.blockedUntil = a.blockedUntil
BY DEF Account

LEMMA AccountOfBlock ==
  ASSUME NEW a \in Account, NEW until \in Int,
         NEW r, r = [a EXCEPT !.blockedUntil = until]
  PROVE  r \in Account /\ r.blockedUntil = until
BY DEF Account

LEMMA RowIs ==
  ASSUME NEW side \in Sides, NEW row \in Rows
  PROVE  /\ Low(side, row) \in Int /\ High(side, row) \in Int
         /\ Face(side, row.close) \in Int
<1>1. row.low \in Prices /\ row.close \in Prices /\ row.high \in Prices
  BY RowsAssumption
<1>2. row.low \in Int /\ row.close \in Int /\ row.high \in Int
  BY <1>1, PriceIs
<1> QED
  BY <1>2 DEF Low, High, Face

LEMMA RangeIs ==
  ASSUME NEW side \in Sides, NEW range \in Ranges
  PROVE  Low(side, range) \in Int /\ High(side, range) \in Int
<1>1. range.low \in Prices /\ range.high \in Prices
  BY DEF Ranges
<1>2. range.low \in Int /\ range.high \in Int
  BY <1>1, PriceIs
<1> QED
  BY <1>2 DEF Low, High

LEMMA FacesCancel ==
  ASSUME NEW side, NEW p \in Int
  PROVE  Face(side, p) \in Int /\ Face(side, Face(side, p)) = p
BY DEF Face

LEMMA RetestedIs ==
  ASSUME NEW side \in Sides, NEW e \in Waiting, NEW row \in Rows
  PROVE  /\ Retested(e, side, row) \in Waiting
         /\ Retested(e, side, row).level = e.level /\ Retested(e, side, row).swing = e.swing
         /\ Retested(e, side, row).time = e.time
         /\ Retested(e, side, row).bars = e.bars + 1
         /\ Retested(e, side, row).worst = WorstOf(e.worst, Low(side, row))
<1>1. /\ e.bars \in Nat /\ e.worst \in Int /\ Low(side, row) \in Int
      /\ WorstOf(e.worst, Low(side, row)) \in Int
  BY RowIs DEF Waiting, WorstOf
<1> DEFINE w == WorstOf(e.worst, Low(side, row))
           n == e.bars + 1
<1>2. n \in Nat /\ w \in Int
  BY <1>1
<1>3. Retested(e, side, row) = [e EXCEPT !.bars = n, !.worst = w]
  BY DEF Retested
<1> HIDE DEF w, n
<1>4. LET r == [e EXCEPT !.bars = n, !.worst = w]
      IN  /\ r \in Waiting
          /\ r.level = e.level /\ r.swing = e.swing /\ r.time = e.time
          /\ r.bars = n /\ r.worst = w
  BY <1>2 DEF Waiting
<1> QED
  BY <1>3, <1>4 DEF w, n

LEMMA BreakoutIs ==
  ASSUME NEW side \in Sides, NEW range \in Ranges, NEW t \in Int
  PROVE  /\ Breakout(side, range, t) \in Waiting
         /\ Breakout(side, range, t).time = t /\ Breakout(side, range, t).bars = 0
         /\ Breakout(side, range, t).worst = Breakout(side, range, t).level
BY RangeIs DEF Breakout, Waiting

LEMMA SignalIs ==
  ASSUME NEW side \in Sides, NEW e \in Waiting, NEW t \in Int
  PROVE  /\ Signal(e, side, t) \in Position
         /\ Signal(e, side, t).side = side /\ Signal(e, side, t).at = t
         /\ Signal(e, side, t).time = e.time
         /\ Face(side, Signal(e, side, t).entry) = e.level
         /\ Face(side, Signal(e, side, t).sl) = e.swing
<1>1. /\ e.level \in Int /\ e.swing \in Int /\ e.time \in Int
      /\ e.level + Rr * (e.level - e.swing) \in Int
  BY LimitsAssumption DEF Waiting
<1> QED
  BY <1>1, FacesCancel DEF Signal, Position

(* An engine that waits goes on, gives up, or signals and forgets.        *)
LEMMA WaitingProcess ==
  ASSUME NEW side \in Sides, NEW e \in Waiting, NEW row \in Rows, NEW range, NEW wide,
         NEW hour, NEW t \in Int,
         NEW res, res = Process(side, e, row, range, wide, hour, t)
  PROVE  LET r == Retested(e, side, row)
         IN  \/ res.state = Idle /\ res.signal = None
             \/ res.state = r /\ res.signal = None /\ ~ Cancels(r, side, row)
             \/ res.state = Idle /\ res.signal = Signal(r, side, t) /\ ~ Cancels(r, side, row)
<1> DEFINE r == Retested(e, side, row)
<1>1. e.waiting
  BY DEF Waiting
<1>2. res = IF Cancels(r, side, row) THEN [state |-> Idle, signal |-> None]
            ELSE IF Touches(r, side, row, hour)
            THEN [state |-> Idle, signal |-> Signal(r, side, t)]
            ELSE [state |-> r, signal |-> None]
  BY <1>1 DEF Process
<1> HIDE DEF r
<1>3. \/ res.state = Idle /\ res.signal = None
      \/ res.state = r /\ res.signal = None /\ ~ Cancels(r, side, row)
      \/ res.state = Idle /\ res.signal = Signal(r, side, t) /\ ~ Cancels(r, side, row)
  BY <1>2
<1> QED
  BY <1>3 DEF r

LEMMA RangesForIs ==
  ASSUME NEW trend, NEW row, NEW range \in RangesFor(trend, row)
  PROVE  range[2] => range[1] \in Ranges
<1>1. CASE range \in Unbroken
  <2>1. range = <<CHOOSE r \in Ranges : TRUE, FALSE>>
    BY <1>1 DEF Unbroken
  <2> QED
    BY <2>1
<1>2. CASE range \in Breakable(trend, row)
  <2>1. PICK r \in Ranges : range = <<r, TRUE>>
    BY <1>2 DEF Breakable
  <2> QED
    BY <2>1
<1> QED
  BY <1>1, <1>2 DEF RangesFor

(* The account at the start of a bar.                                     *)
LEMMA TodayIs ==
  ASSUME TypeInv, NEW t \in Int
  PROVE  /\ Today(t) \in Account
         /\ Today(t).blockedUntil = account.blockedUntil
         /\ Today(t).losses \in {0, account.losses}
         /\ Today(t).dayPnl \in {0, account.dayPnl}
<1> DEFINE d == Day(t)
           z == 0
<1>1. d \in Int /\ z \in Int /\ account \in Account
  BY LimitsAssumption DEF Day, TypeInv
<1>2. \/ Today(t) = account
      \/ Today(t) = [account EXCEPT !.day = d, !.losses = z, !.dayPnl = z]
  BY DEF Today, ResetDay
<1>3. z = 0
  OBVIOUS
<1> HIDE DEF d, z
<1>4. CASE Today(t) = account
  BY <1>1, <1>4
<1>5. CASE Today(t) = [account EXCEPT !.day = d, !.losses = z, !.dayPnl = z]
  BY <1>1, <1>3, <1>5 DEF Account
<1> QED
  BY <1>2, <1>4, <1>5

LEMMA ConfigIs ==
  ASSUME TypeInv
  PROVE  /\ config.daily_stop_losses \in Nat \ {0} /\ config.daily_dd_limit \in Nat \ {0}
         /\ BarsPerDay \in Nat \ {0} /\ Rr \in Nat /\ RangeMaxBars \in Nat
         /\ RangeMaxDepth \in Nat
BY LimitsAssumption DEF TypeInv

(* What Watch records keeps its type.                                     *)
LEMMA WatchIsTyped ==
  ASSUME TypeInv, NEW row \in Rows, NEW seenBy, Watch(row, seenBy),
         engine' \in [Sides -> Waiting \cup {Idle}]
  PROVE  reach' \in [Sides -> Int] /\ hidden' \in [Sides -> Int]
<1> SUFFICES ASSUME NEW s \in Sides
             PROVE  /\ (IF engine[s].waiting THEN WorstOf(reach[s], Low(s, row))
                        ELSE IF engine'[s].waiting THEN engine'[s].level
                        ELSE IF position'.side = s THEN reach[s] ELSE 0) \in Int
                    /\ (IF engine[s].waiting THEN hidden[s] + (IF s = seenBy THEN 0 ELSE 1)
                        ELSE IF position'.side = s THEN hidden[s] ELSE 0) \in Int
  BY DEF Watch
<1>1. Low(s, row) \in Int /\ reach[s] \in Int /\ hidden[s] \in Int
  BY RowIs DEF TypeInv
<1>2. engine'[s].waiting => engine'[s].level \in Int
  BY IdleIs DEF Waiting
<1> QED
  BY <1>1, <1>2 DEF WorstOf

-----------------------------------------------------------------------------
(* One lemma per alternative of a bar.                                    *)

(* The clock of an engine the bar does not reach.                         *)
LEMMA UnseenIsPaced ==
  ASSUME IInv, NEW s \in Sides, engine'[s] = engine[s], now' = now + 1,
         NEW row \in Rows, NEW seenBy, s # seenBy, Watch(row, seenBy)
  PROVE  Paced(s)'
<1>1. CASE engine[s].waiting
  <2>1. hidden'[s] = hidden[s] + 1
    BY <1>1 DEF Watch
  <2>2. /\ engine[s].bars <= RangeMaxBars /\ now - engine[s].time = engine[s].bars + hidden[s]
        /\ hidden[s] >= 0
    BY <1>1 DEF IInv, Paced
  <2>3. engine[s] \in Waiting
    BY <1>1, IdleIs DEF IInv, TypeInv
  <2>4. now \in Int /\ engine[s].time \in Int /\ engine[s].bars \in Int /\ hidden[s] \in Int
    BY <2>3 DEF IInv, TypeInv, Waiting
  <2>5. /\ now + 1 - engine[s].time = engine[s].bars + (hidden[s] + 1)
        /\ hidden[s] + 1 >= 0 /\ hidden[s] + 1 # 0
    BY <2>2, <2>4
  <2>6. /\ engine'[s].bars <= RangeMaxBars
        /\ now' - engine'[s].time = engine'[s].bars + hidden'[s]
        /\ hidden'[s] >= 0 /\ hidden'[s] # 0
    <3>1. engine'[s] = engine[s] /\ now' = now + 1
      OBVIOUS
    <3>2. engine'[s].bars = engine[s].bars /\ engine'[s].time = engine[s].time
      BY <3>1
    <3> QED
      BY <3>1, <3>2, <2>1, <2>2, <2>4, <2>5
  <2> QED
    BY <2>6 DEF Paced
<1>2. CASE ~ engine[s].waiting
  BY <1>2 DEF Paced
<1> QED
  BY <1>1, <1>2

(* An open position keeps the day from being blocked.                     *)
LEMMA OpenIsUnblocked ==
  ASSUME IInv, position # None
  PROVE  ~ DayBlocked(Today(now + 1), now + 1) /\ ~ DrawdownReached(Today(now + 1))
<1> DEFINE a == Today(now + 1)
<1>1. now \in Int /\ now + 1 \in Int /\ account \in Account
  BY DEF IInv, TypeInv
<1>2. /\ a \in Account /\ a.blockedUntil = account.blockedUntil
      /\ a.losses \in {0, account.losses} /\ a.dayPnl \in {0, account.dayPnl}
  BY <1>1, TodayIs DEF IInv
<1>3. /\ account.blockedUntil <= now /\ account.losses < config.daily_stop_losses
      /\ 0 - account.dayPnl < config.daily_dd_limit
  BY DEF IInv, BlockedMeansFlat
<1>4. /\ config.daily_stop_losses \in Nat \ {0} /\ config.daily_dd_limit \in Nat \ {0}
  BY ConfigIs DEF IInv
<1>5. /\ account.blockedUntil \in Int /\ account.losses \in Int /\ account.dayPnl \in Int
  BY <1>1 DEF Account
<1> HIDE DEF a
<1>6. /\ ~ (now + 1 < a.blockedUntil) /\ ~ (a.losses >= config.daily_stop_losses)
      /\ ~ (0 - a.dayPnl >= config.daily_dd_limit)
  BY <1>1, <1>2, <1>3, <1>4, <1>5
<1> QED
  BY <1>6 DEF a, DayBlocked, StillBlocked, LossesReached, DrawdownReached

LEMMA BlockedKeeps ==
  ASSUME IInv, NEW row \in Rows, now' = now + 1, config' = config,
         OnBarBlocked(now + 1, Today(now + 1), row)
  PROVE  IInv'
<1> DEFINE t == now + 1
           a == Today(t)
<1>1. t \in Int /\ t + BarsPerDay \in Int
  BY ConfigIs DEF IInv, TypeInv
<1>2. a \in Account /\ a.blockedUntil = account.blockedUntil
  BY <1>1, TodayIs DEF IInv
<1>3. position = None
  BY OpenIsUnblocked DEF OnBarBlocked
<1>4. /\ UNCHANGED <<engine, position>> /\ Watch(row, "NONE")
      /\ \/ account' = a /\ breach' = breach
         \/ account' = BlockUntil(a, t + BarsPerDay) /\ breach' = t
  BY DEF OnBarBlocked
<1> HIDE DEF a, t
<1>5. /\ account' \in Account /\ breach' \in Int
      /\ \/ account'.blockedUntil = account.blockedUntil /\ breach' = breach
         \/ account'.blockedUntil = t + BarsPerDay /\ breach' = t
  <2>1. CASE account' = a /\ breach' = breach
    BY <2>1, <1>2 DEF IInv, TypeInv
  <2>2. CASE account' = BlockUntil(a, t + BarsPerDay) /\ breach' = t
    BY <2>2, <1>1, <1>2, AccountOfBlock DEF BlockUntil
  <2> QED
    BY <1>4, <2>1, <2>2
<1>6. TypeInv'
  BY <1>1, <1>4, <1>5, WatchIsTyped DEF IInv, TypeInv, t
<1>7. BlockLasts'
  BY <1>1, <1>5, ConfigIs DEF IInv, BlockLasts, TypeInv
<1>8. \A s \in Sides : Paced(s)'
  BY <1>4, UnseenIsPaced DEF Sides
<1> QED
  BY <1>3, <1>4, <1>6, <1>7, <1>8 DEF IInv, NoSecondEntry, BlockedMeansFlat, EntryFollowsRetest

(* An open position is watched, and perhaps closed.                       *)
LEMMA ManageKeeps ==
  ASSUME IInv, NEW row \in Rows, now' = now + 1, config' = config,
         Manage(now + 1, Today(now + 1), row)
  PROVE  IInv'
<1> DEFINE t == now + 1
           a == Today(t)
           s == position.side
<1>1. t \in Int
  BY DEF IInv, TypeInv
<1>2. a \in Account /\ a.blockedUntil = account.blockedUntil
  BY <1>1, TodayIs DEF IInv
<1>3. /\ position # None /\ position \in Position /\ s \in Sides /\ engine[s] = Idle
  BY DEF IInv, TypeInv, NoSecondEntry, Manage, Position
<1>4. /\ UNCHANGED <<engine, breach>> /\ Watch(row, "NONE")
      /\ ~ DayBlocked(a, t) /\ ~ DrawdownReached(a)
      /\ \/ position' = None
         \/ position' = position /\ account' = a
      /\ account' \in {RegisterLoss(a), RegisterWin(a), a}
  BY DEF Manage
<1> HIDE DEF a
<1>5. account' \in Account /\ account'.blockedUntil = account.blockedUntil
  <2>1. /\ a.losses + 1 \in Int /\ a.dayPnl - 1 \in Int /\ a.dayPnl + Rr \in Int
    BY <1>2, ConfigIs DEF IInv, Account
  <2> DEFINE losses == a.losses + 1
             lost == a.dayPnl - 1
             won == a.dayPnl + Rr
  <2>2. RegisterLoss(a) = a \/ RegisterLoss(a) = [a EXCEPT !.losses = losses, !.dayPnl = lost]
    BY DEF RegisterLoss
  <2>3. RegisterWin(a) = a \/ RegisterWin(a) = [a EXCEPT !.dayPnl = won]
    BY DEF RegisterWin
  <2>4. losses \in Int /\ lost \in Int /\ won \in Int
    BY <2>1
  <2> HIDE DEF losses, lost, won
  <2>5. RegisterLoss(a) \in Account /\ RegisterLoss(a).blockedUntil = a.blockedUntil
    <3>1. CASE RegisterLoss(a) = [a EXCEPT !.losses = losses, !.dayPnl = lost]
      BY <3>1, <2>4, <1>2 DEF Account
    <3> QED
      BY <3>1, <2>2, <1>2
  <2>6. RegisterWin(a) \in Account /\ RegisterWin(a).blockedUntil = a.blockedUntil
    BY <2>3, <2>4, <1>2, AccountOfWin
  <2> QED
    BY <2>5, <2>6, <1>2, <1>4
<1>6. TypeInv'
  BY <1>1, <1>4, <1>5, WatchIsTyped DEF IInv, TypeInv
<1>7. BlockLasts'
  BY <1>4, <1>5 DEF IInv, BlockLasts
<1>8. \A r \in Sides : Paced(r)'
  BY <1>4, UnseenIsPaced DEF Sides
<1>9. NoSecondEntry'
  BY <1>3, <1>4 DEF NoSecondEntry
<1>10. BlockedMeansFlat'
  <2> SUFFICES ASSUME position' # None
               PROVE  /\ a.blockedUntil <= t /\ a.losses < config.daily_stop_losses
                      /\ 0 - a.dayPnl < config.daily_dd_limit
    BY <1>4 DEF BlockedMeansFlat
  <2>1. /\ a.blockedUntil \in Int /\ a.losses \in Int /\ a.dayPnl \in Int
    BY <1>2 DEF Account
  <2> QED
    BY <2>1, <1>1, <1>4, ConfigIs
       DEF IInv, DayBlocked, StillBlocked, LossesReached, DrawdownReached
<1>11. EntryFollowsRetest'
  <2>1. CASE position' = position
    <3>1. ~ engine[s].waiting /\ ~ engine'[s].waiting
      BY <1>3, <1>4, IdleIs
    <3>2. reach'[s] = reach[s] /\ hidden'[s] = hidden[s]
      BY <2>1, <3>1, <1>3, <1>4 DEF Watch
    <3> QED
      BY <2>1, <3>2 DEF IInv, EntryFollowsRetest
  <2>2. CASE position' = None
    BY <2>2 DEF EntryFollowsRetest
  <2> QED
    BY <1>4, <2>1, <2>2
<1> QED
  BY <1>6, <1>7, <1>8, <1>9, <1>10, <1>11 DEF IInv

(* What the bar does to the engine it reaches and to the position.        *)
LEMMA ReachedEngine ==
  ASSUME IInv, NEW row \in Rows, now' = now + 1, position = None,
         NEW s \in Sides, NEW range, NEW wide, wide => range \in Ranges, NEW hour, NEW res,
         res = Process(s, engine[s], row, range, wide, hour, now + 1),
         engine' = [engine EXCEPT ![s] = res.state], position' = res.signal,
         Watch(row, s)
  PROVE  /\ engine' \in [Sides -> Waiting \cup {Idle}]
         /\ position' \in Position \cup {None}
         /\ \A r \in Sides : Paced(r)'
         /\ position' # None =>
              /\ position'.side = s /\ position'.at = now + 1 /\ engine'[s] = Idle
         /\ EntryFollowsRetest'
<1> DEFINE t == now + 1
           e == engine[s]
<1>1. now \in Int /\ t \in Int /\ t = now + 1 /\ engine \in [Sides -> Waiting \cup {Idle}]
  BY DEF IInv, TypeInv
<1>2. /\ engine'[s] = res.state
      /\ \A r \in Sides \ {s} : engine'[r] = engine[r]
  BY <1>1
<1>3. \A r \in Sides \ {s} : Paced(r)'
  BY <1>2, UnseenIsPaced
<1>4. CASE e.waiting = FALSE
  <2>1. /\ res.signal = None
        /\ \/ res.state = Idle
           \/ /\ res.state \in Waiting /\ res.state.time = t /\ res.state.bars = 0
              /\ res.state.worst = res.state.level
    <3>1. res = [state |-> IF Breaks(s, row, range, wide) THEN Breakout(s, range, t) ELSE Idle,
                 signal |-> None]
      BY <1>4 DEF Process
    <3>2. CASE Breaks(s, row, range, wide)
      <4>1. range \in Ranges
        BY <3>2 DEF Breaks
      <4> QED
        BY <3>1, <3>2, <4>1, <1>1, BreakoutIs
    <3>3. CASE ~ Breaks(s, row, range, wide)
      BY <3>1, <3>3
    <3> QED
      BY <3>2, <3>3
  <2>2. Paced(s)'
    <3>1. CASE res.state = Idle
      BY <3>1, <1>2, IdleIs DEF Paced
    <3>2. CASE res.state \in Waiting
      <4>1. res.state # Idle /\ res.state.waiting /\ engine'[s].waiting
        BY <3>2, <1>2, IdleIs DEF Waiting
      <4>2. hidden'[s] = 0 /\ reach'[s] = engine'[s].level
        BY <4>1, <2>1, <1>4, NoneIs DEF Watch, Sides
      <4>3. /\ engine'[s].time = t /\ engine'[s].bars = 0
            /\ engine'[s].worst = engine'[s].level
        BY <4>1, <2>1, <1>2
      <4> QED
        BY <4>2, <4>3, <1>1, ConfigIs DEF IInv, Paced
    <3> QED
      BY <2>1, <3>1, <3>2
  <2> QED
    BY <2>1, <2>2, <1>1, <1>3 DEF EntryFollowsRetest
<1>5. CASE e.waiting # FALSE
  <2>1. e \in Waiting /\ e.waiting
    BY <1>1, <1>5, IdleIs DEF Waiting
  <2> DEFINE r == Retested(e, s, row)
  <2>2. \/ res.state = Idle /\ res.signal = None
        \/ res.state = r /\ res.signal = None /\ ~ Cancels(r, s, row)
        \/ res.state = Idle /\ res.signal = Signal(r, s, t) /\ ~ Cancels(r, s, row)
    BY <2>1, <1>1, WaitingProcess
  <2>3. /\ r \in Waiting /\ r.level = e.level /\ r.swing = e.swing /\ r.time = e.time
        /\ r.bars = e.bars + 1 /\ r.worst = WorstOf(e.worst, Low(s, row))
    BY <2>1, RetestedIs
  <2>4. hidden'[s] = hidden[s] + 0 /\ reach'[s] = WorstOf(reach[s], Low(s, row))
    BY <2>1 DEF Watch
  <2>5. /\ now - e.time = e.bars + hidden[s] /\ hidden[s] >= 0
        /\ hidden[s] = 0 => reach[s] = e.worst
    BY <2>1 DEF IInv, Paced
  <2> HIDE DEF r, e
  <2>6. /\ hidden[s] \in Int /\ e.time \in Int /\ e.bars \in Int
        /\ r.level \in Int /\ r.swing \in Int /\ r.worst \in Int /\ r.bars \in Int
    BY <2>1, <2>3 DEF IInv, TypeInv, Waiting
  <2>7. /\ t - r.time = r.bars + hidden'[s] /\ hidden'[s] >= 0 /\ hidden'[s] = hidden[s]
        /\ hidden'[s] = 0 => reach'[s] = r.worst
    BY <2>3, <2>4, <2>5, <2>6, <1>1
  <2>8. ~ Cancels(r, s, row) => r.bars <= RangeMaxBars /\ ~ TooDeep(r, r.worst)
    BY <2>6, ConfigIs DEF IInv, Cancels
  <2>9. CASE res.state = r /\ res.signal = None /\ ~ Cancels(r, s, row)
    <3>1. /\ engine'[s].bars <= RangeMaxBars
          /\ now' - engine'[s].time = engine'[s].bars + hidden'[s]
          /\ hidden'[s] >= 0 /\ (hidden'[s] = 0 => reach'[s] = engine'[s].worst)
      BY <2>7, <2>8, <2>9, <1>1, <1>2
    <3>2. Paced(s)'
      BY <3>1 DEF Paced
    <3> QED
      BY <3>2, <2>3, <2>9, <1>1, <1>3 DEF EntryFollowsRetest
  <2>10. CASE res.state = Idle /\ res.signal = None
    BY <2>10, <1>1, <1>2, <1>3, IdleIs DEF EntryFollowsRetest, Paced
  <2>11. CASE res.state = Idle /\ res.signal = Signal(r, s, t) /\ ~ Cancels(r, s, row)
    <3>1. /\ position' \in Position /\ position'.side = s /\ position'.at = t
          /\ position'.time = r.time
          /\ Face(s, position'.entry) = r.level /\ Face(s, position'.sl) = r.swing
      BY <2>3, <2>11, <1>1, SignalIs
    <3>2. position'.at - position'.time <= RangeMaxBars + hidden'[s]
      <4>1. r.bars <= RangeMaxBars /\ t - r.time = r.bars + hidden[s]
        BY <2>7, <2>8, <2>11
      <4>2. r.time \in Int /\ RangeMaxBars \in Int
        BY <2>3, <2>6, ConfigIs DEF IInv
      <4> QED
        BY <4>1, <4>2, <3>1, <2>6, <2>7, <1>1
    <3>3. hidden'[s] = 0 =>
            (Face(s, position'.entry) - reach'[s]) * 100
              <= RangeMaxDepth * (Face(s, position'.entry) - Face(s, position'.sl))
      <4> SUFFICES ASSUME hidden'[s] = 0
                   PROVE  (r.level - r.worst) * 100 <= RangeMaxDepth * (r.level - r.swing)
        BY <3>1, <2>7
      <4>1. ~ TooDeep(r, r.worst)
        BY <2>8, <2>11
      <4>2. RangeMaxDepth \in Int
        BY ConfigIs DEF IInv
      <4>3. CASE r.level = r.swing
        <5>1. ~ (r.worst < r.level)
          BY <4>1, <4>3 DEF TooDeep
        <5>2. RangeMaxDepth * (r.level - r.swing) = 0
          BY <4>2, <4>3, <2>6
        <5> QED
          BY <5>1, <5>2, <2>6
      <4>4. CASE r.level # r.swing
        <5>1. ~ ((r.level - r.worst) * 100 > RangeMaxDepth * (r.level - r.swing))
          BY <4>1, <4>4 DEF TooDeep
        <5>2. RangeMaxDepth * (r.level - r.swing) \in Int /\ (r.level - r.worst) * 100 \in Int
          BY <4>2, <2>6
        <5> QED
          BY <5>1, <5>2
      <4> QED
        BY <4>3, <4>4
    <3>4. EntryFollowsRetest'
      BY <3>1, <3>2, <3>3 DEF EntryFollowsRetest
    <3>5. Paced(s)'
      BY <2>11, <1>2, IdleIs DEF Paced
    <3> QED
      BY <3>1, <3>4, <3>5, <2>11, <1>1, <1>2, <1>3
  <2> QED
    BY <2>2, <2>9, <2>10, <2>11
<1> QED
  BY <1>4, <1>5

(* The engines' part of a bar that is not blocked and finds no position.  *)
LEMMA SignalsReach ==
  ASSUME IInv, NEW row \in Rows, now' = now + 1,
         NEW trend \in Sides \cup {"NONE"}, NEW range \in RangesFor(trend, row), NEW hour,
         Signals(now + 1, Today(now + 1), row, trend, range[1], range[2], hour)
  PROVE  /\ engine' \in [Sides -> Waiting \cup {Idle}]
         /\ position' \in Position \cup {None}
         /\ \A r \in Sides : Paced(r)'
         /\ position' # None =>
              /\ position'.side = trend /\ position'.at = now + 1 /\ engine'[trend] = Idle
         /\ EntryFollowsRetest'
<1>1. position = None /\ Watch(row, trend)
  BY DEF Signals
<1>2. CASE trend = "NONE"
  <2>1. UNCHANGED <<engine, position>>
    BY <1>2 DEF Signals
  <2>2. \A r \in Sides : Paced(r)'
    BY <1>1, <1>2, <2>1, UnseenIsPaced DEF Sides
  <2> QED
    BY <1>1, <2>1, <2>2 DEF IInv, TypeInv, EntryFollowsRetest
<1>3. CASE trend \in Sides
  <2> DEFINE res == Process(trend, engine[trend], row, range[1], range[2], hour, now + 1)
  <2>1. engine' = [engine EXCEPT ![trend] = res.state] /\ position' = res.signal
    <3>1. CASE trend = "LONG"
      BY <3>1 DEF Signals, ProcessLong
    <3>2. CASE trend = "SHORT"
      BY <3>2 DEF Signals, ProcessShort
    <3> QED
      BY <3>1, <3>2, <1>3 DEF Sides
  <2>2. range[2] => range[1] \in Ranges
    BY RangesForIs
  <2>3. res = Process(trend, engine[trend], row, range[1], range[2], hour, now + 1)
    OBVIOUS
  <2> HIDE DEF res
  <2> QED
    BY <1>1, <1>3, <2>1, <2>2, <2>3, ReachedEngine
<1> QED
  BY <1>2, <1>3

LEMMA SignalsKeep ==
  ASSUME IInv, NEW row \in Rows, now' = now + 1, config' = config,
         NEW trend \in Sides \cup {"NONE"}, NEW range \in RangesFor(trend, row), NEW hour,
         Signals(now + 1, Today(now + 1), row, trend, range[1], range[2], hour)
  PROVE  IInv'
<1> DEFINE t == now + 1
           a == Today(t)
<1>1. t \in Int
  BY DEF IInv, TypeInv
<1>2. a \in Account /\ a.blockedUntil = account.blockedUntil
  BY <1>1, TodayIs DEF IInv
<1>3. /\ position = None /\ account' = a /\ breach' = breach /\ Watch(row, trend)
      /\ ~ DayBlocked(a, t) /\ ~ DrawdownReached(a)
  BY DEF Signals
<1>4. /\ engine' \in [Sides -> Waiting \cup {Idle}]
      /\ position' \in Position \cup {None}
      /\ \A r \in Sides : Paced(r)'
      /\ position' # None => position'.side = trend /\ engine'[trend] = Idle
      /\ EntryFollowsRetest'
  BY SignalsReach
<1> HIDE DEF a
<1>5. TypeInv'
  BY <1>1, <1>2, <1>3, <1>4, WatchIsTyped DEF IInv, TypeInv
<1>6. NoSecondEntry'
  BY <1>4 DEF NoSecondEntry
<1>7. BlockedMeansFlat'
  <2>1. /\ a.blockedUntil \in Int /\ a.losses \in Int /\ a.dayPnl \in Int
    BY <1>2 DEF Account
  <2>2. /\ a.blockedUntil <= t /\ a.losses < config.daily_stop_losses
        /\ 0 - a.dayPnl < config.daily_dd_limit
    BY <2>1, <1>1, <1>3, ConfigIs
       DEF IInv, DayBlocked, StillBlocked, LossesReached, DrawdownReached
  <2> QED
    BY <2>2, <1>3 DEF BlockedMeansFlat
<1>8. BlockLasts'
  BY <1>2, <1>3 DEF IInv, BlockLasts
<1> QED
  BY <1>4, <1>5, <1>6, <1>7, <1>8 DEF IInv

-----------------------------------------------------------------------------
LEMMA InitInvariant == Init => IInv
<1> SUFFICES ASSUME Init PROVE IInv
  OBVIOUS
<1>1. TypeInv
  BY DEF Init, TypeInv, FreshAccount, Account, Never
<1>2. \A s \in Sides : Paced(s)
  BY IdleIs DEF Init, Paced
<1> QED
  BY <1>1, <1>2
     DEF Init, IInv, NoSecondEntry, BlockedMeansFlat, BlockLasts, EntryFollowsRetest

LEMMA NextInvariant == IInv /\ [Next]_vars => IInv'
<1> SUFFICES ASSUME IInv, [Next]_vars PROVE IInv'
  OBVIOUS
<1>1. CASE Next
  <2>1. PICK row \in Rows :
          /\ now' = now + 1 /\ config' = config
          /\ \/ OnBarBlocked(now + 1, Today(now + 1), row)
             \/ Manage(now + 1, Today(now + 1), row)
             \/ \E trend \in {s \in Sides : Enabled(s)} \cup {"NONE"} :
                  \E range \in RangesFor(trend, row), hour \in HoursFor(trend) :
                    Signals(now + 1, Today(now + 1), row, trend, range[1], range[2], hour)
    BY <1>1 DEF Next, OnBar
  <2>2. CASE OnBarBlocked(now + 1, Today(now + 1), row)
    BY <2>1, <2>2, BlockedKeeps
  <2>3. CASE Manage(now + 1, Today(now + 1), row)
    BY <2>1, <2>3, ManageKeeps
  <2>4. ASSUME NEW trend \in {s \in Sides : Enabled(s)} \cup {"NONE"},
               NEW range \in RangesFor(trend, row), NEW hour \in HoursFor(trend),
               Signals(now + 1, Today(now + 1), row, trend, range[1], range[2], hour)
        PROVE  IInv'
    <3>1. trend \in Sides \cup {"NONE"}
      OBVIOUS
    <3> QED
      BY <3>1, <2>1, <2>4, SignalsKeep
  <2> QED
    BY <2>1, <2>2, <2>3, <2>4
<1>2. CASE UNCHANGED vars
  BY <1>2 DEF vars, IInv, TypeInv, NoSecondEntry, BlockedMeansFlat, BlockLasts, Paced,
     EntryFollowsRetest
<1> QED
  BY <1>1, <1>2

(***************************************************************************)
(* The strengthened invariant holds in every behaviour.                   *)
(***************************************************************************)
THEOREM StrategyInvariant == Spec => []IInv
<1> QED
  BY InitInvariant, NextInvariant, PTL DEF Spec

(***************************************************************************)
(* DualEngine.on_bar drops the bars of a blocked day before it looks at the *)
(* position; no position is ever open then.                               *)
(***************************************************************************)
THEOREM BlockNeverTraps == Spec => []BlockedMeansFlat
<1>1. IInv => BlockedMeansFlat
  BY DEF IInv
<1> QED
  BY <1>1, StrategyInvariant, PTL

(***************************************************************************)
(* process_long, process_short: an entry is no older than RANGE_MAX_BARS  *)
(* bars the engine was called with, and, when it saw all bars, the price  *)
(* never went deeper than RANGE_MAX_DEPTH into the range.                 *)
(***************************************************************************)
THEOREM EntriesFollowRetests == Spec => []EntryFollowsRetest
<1>1. IInv => EntryFollowsRetest
  BY DEF IInv
<1> QED
  BY <1>1, StrategyInvariant, PTL

(***************************************************************************)
(* A breakout leads to one trade at most.                                 *)
(***************************************************************************)
THEOREM OneTradePerBreakout == Spec => []NoSecondEntry
<1>1. IInv => NoSecondEntry
  BY DEF IInv
<1> QED
  BY <1>1, StrategyInvariant, PTL

(***************************************************************************)
(* A day found to have lost daily_dd_limit lets no trade in for 24 hours, *)
(* although the next day resets what the account counts.                  *)
(***************************************************************************)
THEOREM DrawdownLasts == Spec => NoEntryAfterDrawdown
<1>1. ASSUME IInv, [Next]_vars
      PROVE  [position = None /\ position' # None /\ breach # Never
                => position'.at >= breach + BarsPerDay]_vars
  <2> SUFFICES ASSUME Next, position = None, position' # None, breach # Never
               PROVE  position'.at >= breach + BarsPerDay
    BY <1>1
  <2>1. PICK row \in Rows :
          /\ now' = now + 1
          /\ \E trend \in {s \in Sides : Enabled(s)} \cup {"NONE"} :
               \E range \in RangesFor(trend, row), hour \in HoursFor(trend) :
                 Signals(now + 1, Today(now + 1), row, trend, range[1], range[2], hour)
    BY DEF Next, OnBar, OnBarBlocked, Manage
  <2>2. PICK trend \in {s \in Sides : Enabled(s)} \cup {"NONE"} :
          \E range \in RangesFor(trend, row), hour \in HoursFor(trend) :
            Signals(now + 1, Today(now + 1), row, trend, range[1], range[2], hour)
    BY <2>1
  <2>3. PICK range \in RangesFor(trend, row), hour \in HoursFor(trend) :
          Signals(now + 1, Today(now + 1), row, trend, range[1], range[2], hour)
    BY <2>2
  <2>4. position'.at = now + 1
    BY <1>1, <2>1, <2>3, SignalsReach
  <2>5. ~ (now + 1 < Today(now + 1).blockedUntil)
    BY <2>3 DEF Signals, DayBlocked, StillBlocked
  <2>6. /\ now \in Int /\ now + 1 \in Int /\ account.blockedUntil \in Int
        /\ breach + BarsPerDay \in Int
    BY <1>1, ConfigIs DEF IInv, TypeInv, Account
  <2>7. Today(now + 1).blockedUntil = account.blockedUntil
    BY <1>1, <2>6, TodayIs DEF IInv
  <2>8. account.blockedUntil >= breach + BarsPerDay
    BY <1>1 DEF IInv, BlockLasts
  <2> QED
    BY <2>4, <2>5, <2>6, <2>7, <2>8
<1> QED
  BY <1>1, StrategyInvariant, PTL DEF Spec, NoEntryAfterDrawdown

-----------------------------------------------------------------------------
(***************************************************************************)
(* The risk court.                                                         *)
(***************************************************************************)
(* What the code law limits, some limit of the engines limits as tightly.   *)
Tighter(act) ==
  \A f \in Fields : \A n \in Base.number[f] : \E m \in act.number[f] : m <= n

LawHolds == Tighter(law)

(* The flags stand for the breaches; the block flag is never up unfrozen.   *)
FlagsHold ==
  /\ "daily_stop" \in breached => daily_stop_triggered
  /\ "dd_block" \in breached => dd_block_triggered
  /\ dd_block_triggered => frozen

CourtInv == CourtTypeOK /\ LawHolds /\ FlagsHold /\ TradesWithinLaw

-----------------------------------------------------------------------------
(* The resolver's pick is a limit again, and no looser than either law.     *)
LEMMA PickIsTighter ==
  ASSUME NEW b, NEW a, IsLimit(b), IsLimit(a)
  PROVE  /\ IsLimit(Pick(b, a))
         /\ \A n \in b : \E m \in Pick(b, a) : m <= n
<1>1. IsLimit(Pick(b, a))
  <2>1. Pick(b, a) \subseteq b \cup a /\ b \cup a \subseteq Nat
    BY DEF IsLimit, Pick
  <2>2. ASSUME NEW m \in Pick(b, a), NEW n \in Pick(b, a)
        PROVE  m = n
    <3>1. m \in Nat /\ n \in Nat
      BY <2>1
    <3>2. m <= n /\ n <= m
      BY <2>1 DEF Pick
    <3> QED
      BY <3>1, <3>2
  <2> QED
    BY <2>1, <2>2 DEF IsLimit
<1>2. ASSUME NEW n \in b
      PROVE  \E m \in Pick(b, a) : m <= n
  <2>1. CASE \A m \in a : n <= m
    BY <2>1 DEF IsLimit, Pick
  <2>2. CASE \E m \in a : ~ (n <= m)
    <3>1. PICK m \in a : ~ (n <= m)
      BY <2>2
    <3>2. m \in Pick(b, a) /\ m <= n
      BY <3>1 DEF IsLimit, Pick
    <3> QED
      BY <3>2
  <2> QED
    BY <2>1, <2>2
<1> QED
  BY <1>1, <1>2

(* So are the limits the engines are built with.                            *)
LEMMA EffectiveIsTighter ==
  ASSUME NEW act, IsLimits(act)
  PROVE  IsLimits(Effective(act)) /\ Tighter(Effective(act))
<1>1. \A f \in Fields : IsLimit(Base.number[f]) /\ IsLimit(act.number[f])
  BY CourtAssumption DEF IsLimits
<1>2. \A f \in Fields :
        /\ Effective(act).number[f] = Pick(Base.number[f], act.number[f])
        /\ IsLimit(Effective(act).number[f])
        /\ \A n \in Base.number[f] : \E m \in Effective(act).number[f] : m <= n
  <2>1. TAKE f \in Fields
  <2>2. Effective(act).number[f] = Pick(Base.number[f], act.number[f])
    BY <2>1 DEF Effective
  <2> QED
    BY <1>1, <2>1, <2>2, PickIsTighter
<1>3. Effective(act).number \in [Fields -> SUBSET Nat]
  BY <1>2 DEF Effective, IsLimit
<1>4. Effective(act) \in Limits
  BY <1>3, CourtAssumption DEF Effective, IsLimits, Limits
<1> QED
  BY <1>2, <1>4 DEF IsLimits, Tighter

(* A command leaves limits behind.                                          *)
LEMMA AmendedIsLimits ==
  ASSUME NEW act, NEW cmd, IsLimits(act), IsLimits(cmd)
  PROVE  IsLimits(Amended(act, cmd))
<1>1. \A f \in Fields : IsLimit(Amended(act, cmd).number[f])
  BY DEF Amended, IsLimits
<1>2. Amended(act, cmd).number \in [Fields -> SUBSET Nat]
  BY <1>1 DEF Amended, IsLimit
<1> QED
  BY <1>1, <1>2 DEF Amended, IsLimits, Limits

(* A dashboard that said nothing leaves limits behind, too.                 *)
LEMMA UnlimitedIsLimits == IsLimits(Unlimited)
  BY DEF Unlimited, IsLimits, IsLimit, Limits

(* A smaller percentage of an amount is a smaller amount.                   *)
LEMMA Scaling ==
  ASSUME NEW r \in Nat, NEW m \in Nat, NEW n \in Nat, m <= n
  PROVE  r * m <= r * n
  OBVIOUS

(* A drawdown beyond a base limit is beyond the engines' limit.             *)
LEMMA ExceedsIsMonotone ==
  ASSUME NEW d \in Nat, NEW r \in Nat, NEW base \in SUBSET Nat, NEW tight \in SUBSET Nat,
         \A n \in base : \E m \in tight : m <= n,
         Exceeds(d, r, base)
  PROVE  Exceeds(d, r, tight)
<1>1. PICK n \in base : d * 100 >= r * n
  BY DEF Exceeds
<1>2. PICK m \in tight : m <= n
  OBVIOUS
<1>3. r * m <= r * n
  BY <1>2, Scaling
<1>4. d * 100 \in Nat /\ r * m \in Nat /\ r * n \in Nat
  OBVIOUS
<1>5. d * 100 >= r * m
  BY <1>1, <1>3, <1>4
<1> QED
  BY <1>5 DEF Exceeds

-----------------------------------------------------------------------------
(* Every state of the court has its types, lawful limits, flags that stand  *)
(* for the day's breaches, and no trade beyond the code law.                *)
LEMMA CourtInitInvariant == CourtInit => CourtInv
<1> SUFFICES ASSUME CourtInit PROVE CourtInv
  OBVIOUS
<1>1. IsLimits(law) /\ Tighter(law)
  BY EffectiveIsTighter, UnlimitedIsLimits DEF CourtInit
<1>2. CourtTypeOK
  <2>1. equity \in Money /\ balance \in Money /\ equity \in Nat /\ MaxTrades \in Nat
    BY CourtAssumption DEF CourtInit
  <2>2. 0 \in 0 .. MaxTrades
    BY <2>1
  <2>3. /\ daily_stop_triggered \in BOOLEAN /\ dd_block_triggered \in BOOLEAN
        /\ frozen \in BOOLEAN
    BY DEF CourtInit
  <2>4. IsLimits(active)
    BY UnlimitedIsLimits DEF CourtInit
  <2> QED
    BY <1>1, <2>1, <2>2, <2>3, <2>4 DEF CourtInit, CourtTypeOK
<1>3. TradesWithinLaw
  BY CourtAssumption DEF CourtInit, TradesWithinLaw, IsLimits, Limits, Fields
<1> QED
  BY <1>1, <1>2, <1>3 DEF CourtInit, CourtInv, LawHolds, FlagsHold

LEMMA EquityUpdateKeeps ==
  ASSUME CourtInv, NEW eq \in Money, NEW bal \in Money, EquityUpdate(eq, bal)
  PROVE  CourtInv'
<1> DEFINE peak == IF eq > peak_equity THEN eq ELSE peak_equity
           lost == Below(day_start_balance, bal)
           sunk == Below(peak, eq)
<1> USE DEF CourtInv
<1>1. /\ equity' = eq /\ balance' = bal /\ peak_equity' = peak
      /\ daily_drawdown' = lost /\ session_drawdown' = sunk
      /\ daily_stop_triggered' = DailyStop(lost)
      /\ dd_block_triggered' = (dd_block_triggered \/ Blocks(sunk, peak))
      /\ frozen' = (frozen \/ Blocks(sunk, peak))
      /\ breached' = breached \cup Breaches(lost, sunk, peak)
      /\ day_start_balance' = day_start_balance /\ trades_today' = trades_today
      /\ active' = active /\ law' = law /\ granted' = granted
  BY DEF EquityUpdate, limits
<1>2. eq \in Nat /\ bal \in Nat /\ peak_equity \in Nat /\ day_start_balance \in Nat
  BY CourtAssumption DEF CourtTypeOK
<1>3. peak \in Nat /\ lost \in Nat /\ sunk \in Nat
  BY <1>2 DEF Below
<1>4. Breaches(lost, sunk, peak) \subseteq {"daily_stop", "dd_block"}
  BY DEF Breaches
<1>5. CourtTypeOK'
  <2>1. DailyStop(lost) \in BOOLEAN /\ Blocks(sunk, peak) \in BOOLEAN
    BY DEF DailyStop, Blocks, Exceeds, CourtTypeOK
  <2> HIDE DEF peak, lost, sunk
  <2> QED
    BY <1>1, <1>2, <1>3, <1>4, <2>1 DEF CourtTypeOK
<1>6. \A f \in Fields :
        /\ Base.number[f] \in SUBSET Nat /\ law.number[f] \in SUBSET Nat
        /\ \A n \in Base.number[f] : \E m \in law.number[f] : m <= n
  BY CourtAssumption DEF CourtTypeOK, IsLimits, IsLimit, LawHolds, Tighter
<1>7. FlagsHold'
  <2> HIDE DEF peak, lost, sunk
  <2>1. ASSUME "daily_stop" \in breached' PROVE daily_stop_triggered'
    <3>1. CASE "daily_stop" \in breached
      BY <1>1, <3>1 DEF FlagsHold, DailyStop
    <3>2. CASE "daily_stop" \in Breaches(lost, sunk, peak)
      <4>1. Exceeds(lost, day_start_balance, Base.number["daily_stop_pct"])
        BY <3>2 DEF Breaches
      <4>2. Exceeds(lost, day_start_balance, law.number["daily_stop_pct"])
        BY <1>2, <1>3, <1>6, <4>1, ExceedsIsMonotone DEF Fields
      <4> QED
        BY <1>1, <4>2 DEF DailyStop
    <3> QED
      BY <1>1, <2>1, <3>1, <3>2
  <2>2. ASSUME "dd_block" \in breached' PROVE dd_block_triggered'
    <3>1. CASE "dd_block" \in breached
      BY <1>1, <3>1 DEF FlagsHold
    <3>2. CASE "dd_block" \in Breaches(lost, sunk, peak)
      <4>1. Exceeds(sunk, peak, Base.number["daily_dd_block_pct"])
        BY <3>2 DEF Breaches
      <4>2. Exceeds(sunk, peak, law.number["daily_dd_block_pct"])
        BY <1>2, <1>3, <1>6, <4>1, ExceedsIsMonotone DEF Fields
      <4> QED
        BY <1>1, <4>2 DEF Blocks
    <3> QED
      BY <1>1, <2>2, <3>1, <3>2
  <2>3. dd_block_triggered' => frozen'
    BY <1>1 DEF FlagsHold
  <2> QED
    BY <2>1, <2>2, <2>3 DEF FlagsHold
<1>8. LawHolds' /\ TradesWithinLaw'
  BY <1>1 DEF LawHolds, Tighter, TradesWithinLaw
<1> QED
  BY <1>5, <1>7, <1>8

(* The trade that is granted fits: the engines' law is tighter than the     *)
(* code's, and FrequencyLaw left room for one more.                         *)
LEMMA GrantKeeps ==
  ASSUME CourtInv, NEW i \in Intents, Grant(i)
  PROVE  TradesWithinLaw'
<1> SUFFICES ASSUME NEW max \in Base.number["max_trades_per_day"]
             PROVE  trades_today + 1 <= max
  BY DEF Grant, TradesWithinLaw
<1>1. PICK m \in law.number["max_trades_per_day"] : m <= max
  BY DEF CourtInv, LawHolds, Tighter, Fields
<1>2. trades_today < m
  BY DEF Grant, Assess, FrequencyLaw
<1>3. m \in Nat /\ max \in Nat /\ trades_today \in Nat
  BY CourtAssumption DEF CourtInv, CourtTypeOK, IsLimits, IsLimit, Fields
<1> QED
  BY <1>1, <1>2, <1>3

LEMMA CourtNextInvariant == CourtInv /\ [CourtNext]_courtVars => CourtInv'
<1> SUFFICES ASSUME CourtInv, [CourtNext]_courtVars PROVE CourtInv'
  OBVIOUS
<1>m. \A max \in Base.number["max_trades_per_day"] : max \in Nat
  BY CourtAssumption DEF IsLimits, IsLimit, Fields
<1>1. CASE \E eq, bal \in Money : EquityUpdate(eq, bal)
  BY <1>1, EquityUpdateKeeps
<1>2. CASE Rollover
  <2>1. CourtTypeOK'
    <3>1. balance \in Nat /\ 0 \in 0 .. MaxTrades
      BY CourtAssumption DEF CourtInv, CourtTypeOK
    <3> QED
      BY <1>2, <3>1 DEF CourtInv, Rollover, CourtTypeOK, moneyVars, limits
  <2>2. LawHolds' /\ FlagsHold'
    BY <1>2 DEF CourtInv, Rollover, LawHolds, Tighter, FlagsHold, limits
  <2>3. TradesWithinLaw'
    BY <1>2, <1>m DEF CourtInv, CourtTypeOK, Rollover, TradesWithinLaw
  <2> QED
    BY <2>1, <2>2, <2>3 DEF CourtInv
<1>3. CASE ManualFreeze
  BY <1>3 DEF CourtInv, ManualFreeze, CourtTypeOK, LawHolds, Tighter, FlagsHold, TradesWithinLaw,
              moneyVars, daily, raised, limits
<1>4. CASE ManualUnfreeze
  BY <1>4 DEF CourtInv, ManualUnfreeze, MayUnfreeze, CourtTypeOK, LawHolds, Tighter, FlagsHold,
              TradesWithinLaw, moneyVars, daily, raised, limits
<1>5. CASE \E cmd \in Updates : UpdateLimits(cmd)
  <2>1. PICK cmd \in Updates : UpdateLimits(cmd)
    BY <1>5
  <2>2. IsLimits(active')
    BY <2>1, CourtAssumption, AmendedIsLimits DEF CourtInv, CourtTypeOK, UpdateLimits
  <2> QED
    BY <2>1, <2>2 DEF CourtInv, UpdateLimits, CourtTypeOK, LawHolds, Tighter, FlagsHold,
                      TradesWithinLaw, moneyVars, daily, raised
<1>6. CASE Rebuild
  <2>1. IsLimits(law') /\ Tighter(law')
    BY <1>6, EffectiveIsTighter DEF CourtInv, CourtTypeOK, Rebuild
  <2> QED
    BY <1>6, <2>1 DEF CourtInv, Rebuild, CourtTypeOK, LawHolds, Tighter, FlagsHold,
                      TradesWithinLaw, moneyVars, daily, raised
<1>7. CASE \E i \in Intents : Grant(i)
  <2>1. PICK i \in Intents : Grant(i)
    BY <1>7
  <2>2. TradesWithinLaw'
    BY <2>1, GrantKeeps
  <2> QED
    BY <2>1, <2>2 DEF CourtInv, Grant, CourtTypeOK, LawHolds, Tighter, FlagsHold,
                      moneyVars, daily, raised, limits
<1>8. CASE MarkTrade
  <2>1. CourtTypeOK'
    BY <1>8, CourtAssumption DEF CourtInv, MarkTrade, CourtTypeOK, moneyVars, daily, raised, limits
  <2>2. LawHolds' /\ FlagsHold'
    BY <1>8 DEF CourtInv, MarkTrade, LawHolds, Tighter, FlagsHold, raised, limits
  <2>3. TradesWithinLaw'
    BY <1>8, <1>m DEF CourtInv, CourtTypeOK, MarkTrade, TradesWithinLaw
  <2> QED
    BY <2>1, <2>2, <2>3 DEF CourtInv
<1>9. CASE Abandon
  <2>1. CourtTypeOK' /\ LawHolds' /\ FlagsHold'
    BY <1>9 DEF CourtInv, Abandon, CourtTypeOK, LawHolds, Tighter, FlagsHold,
                moneyVars, daily, raised, limits
  <2>2. TradesWithinLaw'
    BY <1>9, <1>m, CourtAssumption DEF CourtInv, CourtTypeOK, Abandon, TradesWithinLaw
  <2> QED
    BY <2>1, <2>2 DEF CourtInv
<1>10. CASE UNCHANGED courtVars
  BY <1>10 DEF CourtInv, CourtTypeOK, LawHolds, Tighter, FlagsHold, TradesWithinLaw,
               courtVars, moneyVars, daily, raised, limits
<1> QED
  BY <1>1, <1>2, <1>3, <1>4, <1>5, <1>6, <1>7, <1>8, <1>9, <1>10 DEF CourtNext

(* The strengthening is an invariant of the court.                          *)
THEOREM CourtInvariant == CourtSpec => []CourtInv
  BY CourtInitInvariant, CourtNextInvariant, PTL DEF CourtSpec

(* A forbidden drawdown keeps the system frozen until the day rolls over.   *)
THEOREM DrawdownAlwaysFreezes == CourtSpec => []DrawdownFreezes
<1>1. CourtInv => DrawdownFreezes
  BY DEF CourtInv, FlagsHold, DrawdownFreezes
<1> QED
  BY <1>1, CourtInvariant, PTL

(* After a forbidden daily loss the guard lets nothing pass that day.       *)
THEOREM StopAlwaysLasts == CourtSpec => []StopLastsTheDay
<1>1. CourtInv => StopLastsTheDay
  BY DEF CourtInv, FlagsHold, StopLastsTheDay, DailyGuard
<1> QED
  BY <1>1, CourtInvariant, PTL

(* No dashboard makes a day hold more trades than the code law allows.      *)
THEOREM TradesAlwaysWithinLaw == CourtSpec => []TradesWithinLaw
<1>1. CourtInv => TradesWithinLaw
  BY DEF CourtInv
<1> QED
  BY <1>1, CourtInvariant, PTL

-----------------------------------------------------------------------------
(***************************************************************************)
(* The pipeline of policy, planner and verifier.                           *)
(***************************************************************************)
(* A lot is a positive multiple of the step.                              *)
LEMMA LotsPositive ==
  ASSUME NEW q \in Lots
  PROVE  q \in Nat /\ q >= 1 /\ q <= MaxSize /\ q % StepSize = 0
BY PolicyAssumption DEF Lots

(* Nonlinear arithmetic: a multiple of s leaves no rest.                  *)
LEMMA MultipleHasNoRest ==
  ASSUME NEW s \in Nat \ {0}, NEW k \in Nat
  PROVE  (k * s) % s = 0
<1> DEFINE x == k * s
           d == x \div s
           m == x % s
<1>1. x \in Nat
  OBVIOUS
<1>2. d \in Int /\ m \in 0 .. s - 1 /\ x = s * d + m
  BY <1>1
<1>3. CASE k = d
  BY <1>2, <1>3
<1>4. CASE k > d
  <2>1. k - d >= 1 /\ k - d \in Nat
    BY <1>2, <1>4
  <2>2. s * (k - d) = m
    BY <1>2
  <2>3. s * (k - d) >= s
    BY <2>1
  <2> QED BY <1>2, <2>2, <2>3
<1>5. CASE k < d
  <2>1. d - k >= 1 /\ d - k \in Nat
    BY <1>2, <1>5
  <2>2. s * (d - k) = - m
    BY <1>2
  <2>3. s * (d - k) >= s
    BY <2>1
  <2> QED BY <1>2, <2>2, <2>3
<1> QED BY <1>2, <1>3, <1>4, <1>5

(* A quantity floored to the step is a lot, or nothing.                   *)
LEMMA FloorIsALot ==
  ASSUME NEW q \in 0 .. MaxSize
  PROVE  FloorToStep(q) = 0 \/ FloorToStep(q) \in Lots
<1> DEFINE k == q \div StepSize
           f == k * StepSize
<1>1. k \in Nat /\ q \in Nat
  BY PolicyAssumption
<1>2. f % StepSize = 0
  BY <1>1, PolicyAssumption, MultipleHasNoRest
<1>3. f \in Nat /\ f <= q
  BY <1>1, PolicyAssumption
<1> QED BY <1>2, <1>3, PolicyAssumption DEF FloorToStep, Lots

-----------------------------------------------------------------------------
(* MapThenSumSet is defined by a function chosen for its recursion.  A    *)
(* witness of that function for lists of no, one and two entries is enough*)
(* to compute the sum of their amounts.                                   *)

Any(s) == CHOOSE x \in s : TRUE
IsSum(g, q) ==
  g = [s \in SUBSET DOMAIN q |->
         IF s = {} THEN 0 ELSE Amount(q[Any(s)]) + g[s \ {Any(s)}]]
Total(q) == MapThenSumSet(LAMBDA i : Amount(q[i]), DOMAIN q)

(* With a witness, the sum is the value of such a function.               *)
LEMMA TotalIsSum ==
  ASSUME NEW q, \E g : IsSum(g, q)
  PROVE  \E g : IsSum(g, q) /\ Total(q) = g[DOMAIN q]
<1>1. PICK c : c = CHOOSE g : IsSum(g, q)
  OBVIOUS
<1>2. IsSum(c, q)
  BY <1>1
<1>3. c[DOMAIN q] = Total(q)
  BY <1>1 DEF IsSum, Total, MapThenSumSet, MapThenFoldSet, Any
<1> QED BY <1>2, <1>3

(* The projection is the net of the sum.                                  *)
LEMMA ProjectIsTotal ==
  ASSUME NEW q
  PROVE  Project(q) = NetOf(Total(q))
BY DEF Project, Total

(* What is chosen out of a set is one of its members.                     *)
LEMMA AnyIsMember ==
  /\ \A x : Any({x}) = x
  /\ \A s : s # {} => Any(s) \in s
  /\ Any({1, 2}) \in {1, 2}
BY DEF Any

(* An amount is the size with the sign of the side, and not zero.         *)
LEMMA AmountIsInt ==
  ASSUME NEW p \in Entry
  PROVE  /\ Amount(p) \in Int
         /\ p.side = "LONG" => Amount(p) = p.size
         /\ p.side = "SHORT" => Amount(p) = - p.size
         /\ p.size \in Nat /\ p.size >= 1
BY LotsPositive DEF Amount, Entry, HoldingSides

(* The sum over the empty list.                                           *)
LEMMA TotalOfNone ==
  Total(<<>>) = 0
<1> DEFINE q == <<>>
           w == [s \in SUBSET DOMAIN q |-> 0]
<1>1. DOMAIN q = {}
  OBVIOUS
<1>2. IsSum(w, q)
  BY <1>1 DEF IsSum
<1>3. PICK g : IsSum(g, q) /\ Total(q) = g[DOMAIN q]
  BY <1>2, TotalIsSum
<1>4. g[{}] = 0
  BY <1>1, <1>3 DEF IsSum
<1> QED BY <1>1, <1>3, <1>4

(* The sum over one entry.                                                *)
LEMMA TotalOfOne ==
  ASSUME NEW p \in Entry
  PROVE  Total(<<p>>) = Amount(p)
<1> DEFINE q == <<p>>
           w == [s \in SUBSET DOMAIN q |-> IF s = {} THEN 0 ELSE Amount(p)]
<1>1. DOMAIN q = {1} /\ SUBSET DOMAIN q = {{}, {1}}
  OBVIOUS
<1>2. Any({1}) = 1 /\ {1} \ {1} = {} /\ {1} # {}
  BY AnyIsMember
<1>3. IsSum(w, q)
  <2>1. w[{}] = 0 /\ w[{1}] = Amount(p)
    BY <1>1, <1>2
  <2>2. Amount(q[Any({1})]) + w[{1} \ {Any({1})}] = Amount(p)
    BY <1>2, <2>1, AmountIsInt
  <2> QED BY <1>1, <1>2, <2>1, <2>2 DEF IsSum
<1>4. PICK g : IsSum(g, q) /\ Total(q) = g[DOMAIN q]
  BY <1>3, TotalIsSum
<1>5. g[{}] = 0
  BY <1>1, <1>4 DEF IsSum
<1>6. g[{1}] = Amount(q[Any({1})]) + g[{1} \ {Any({1})}]
  BY <1>1, <1>2, <1>4 DEF IsSum
<1> QED BY <1>1, <1>2, <1>4, <1>5, <1>6, AmountIsInt

(* The sum over two entries, in whichever order they are chosen.          *)
LEMMA TotalOfTwo ==
  ASSUME NEW p \in Entry, NEW r \in Entry
  PROVE  Total(<<p, r>>) = Amount(p) + Amount(r)
<1> DEFINE q == <<p, r>>
           a(s) == (IF 1 \in s THEN Amount(p) ELSE 0) + (IF 2 \in s THEN Amount(r) ELSE 0)
           w == [s \in SUBSET DOMAIN q |-> a(s)]
<1>1. DOMAIN q = {1, 2} /\ SUBSET DOMAIN q = {{}, {1}, {2}, {1, 2}}
  OBVIOUS
<1>2. Any({1}) = 1 /\ Any({2}) = 2 /\ Any({1, 2}) \in {1, 2}
  BY AnyIsMember
<1>3. q[1] = p /\ q[2] = r /\ Amount(p) \in Int /\ Amount(r) \in Int
  BY AmountIsInt
<1>4. ASSUME NEW s \in SUBSET DOMAIN q, s # {}
      PROVE  a(s) = Amount(q[Any(s)]) + a(s \ {Any(s)})
  <2>1. Any(s) \in s /\ Any(s) \in {1, 2}
    BY <1>1, <1>4, AnyIsMember
  <2>2. CASE Any(s) = 1
    BY <1>3, <2>1, <2>2
  <2>3. CASE Any(s) = 2
    BY <1>3, <2>1, <2>3
  <2> QED BY <2>1, <2>2, <2>3
<1>5. a({}) = 0
  OBVIOUS
<1>6. IsSum(w, q)
  <2>1. \A s \in SUBSET DOMAIN q : s \ {Any(s)} \in SUBSET DOMAIN q
    OBVIOUS
  <2> HIDE DEF a, q
  <2> QED BY <1>4, <1>5, <2>1 DEF IsSum
<1>7. PICK g : IsSum(g, q) /\ Total(q) = g[DOMAIN q]
  BY <1>6, TotalIsSum
<1>8. g[{}] = 0
  BY <1>1, <1>7 DEF IsSum
<1>9. g[{1}] = Amount(p) /\ g[{2}] = Amount(r)
  <2>1. g[{1}] = Amount(q[Any({1})]) + g[{1} \ {Any({1})}]
    BY <1>1, <1>7 DEF IsSum
  <2>2. g[{2}] = Amount(q[Any({2})]) + g[{2} \ {Any({2})}]
    BY <1>1, <1>7 DEF IsSum
  <2>3. {1} \ {Any({1})} = {} /\ {2} \ {Any({2})} = {}
    BY <1>2
  <2>4. Amount(q[Any({1})]) = Amount(p) /\ Amount(q[Any({2})]) = Amount(r)
    BY <1>2, <1>3
  <2>5. g[{1} \ {Any({1})}] = 0 /\ g[{2} \ {Any({2})}] = 0
    BY <1>8, <2>3, Zenon
  <2> HIDE DEF q
  <2> QED BY <1>3, <2>1, <2>2, <2>4, <2>5
<1>10. g[{1, 2}] = Amount(q[Any({1, 2})]) + g[{1, 2} \ {Any({1, 2})}]
  BY <1>1, <1>7 DEF IsSum
<1>11. CASE Any({1, 2}) = 1
  <2>1. {1, 2} \ {Any({1, 2})} = {2} /\ Amount(q[Any({1, 2})]) = Amount(p)
    BY <1>3, <1>11
  <2>2. g[{1, 2} \ {Any({1, 2})}] = g[{2}]
    BY <2>1, Zenon
  <2> QED BY <1>1, <1>3, <1>7, <1>9, <1>10, <2>1, <2>2
<1>12. CASE Any({1, 2}) = 2
  <2>1. {1, 2} \ {Any({1, 2})} = {1} /\ Amount(q[Any({1, 2})]) = Amount(r)
    BY <1>3, <1>12
  <2>2. g[{1, 2} \ {Any({1, 2})}] = g[{1}]
    BY <2>1, Zenon
  <2> QED BY <1>1, <1>3, <1>7, <1>9, <1>10, <2>1, <2>2
<1> QED BY <1>2, <1>11, <1>12

-----------------------------------------------------------------------------
(* Without is a recursive function too, computed in the same way.         *)

KeptUpTo(g, symbol, list) ==
  g = [i \in 0 .. Len(list) |->
         IF i = 0 THEN <<>>
         ELSE IF list[i].symbol = symbol THEN g[i - 1]
         ELSE Append(g[i - 1], list[i])]

(* With a witness, the list is the last value of such a function.         *)
LEMMA WithoutIsKept ==
  ASSUME NEW symbol, NEW list, \E g : KeptUpTo(g, symbol, list)
  PROVE  \E g : KeptUpTo(g, symbol, list) /\ Without(symbol, list) = g[Len(list)]
<1>1. PICK c : c = CHOOSE g : KeptUpTo(g, symbol, list)
  OBVIOUS
<1>2. KeptUpTo(c, symbol, list)
  BY <1>1
<1>3. Without(symbol, list) = c[Len(list)]
  BY <1>1 DEF Without, KeptUpTo
<1> QED BY <1>2, <1>3

(* The only entry is taken out.                                           *)
LEMMA WithoutOne ==
  ASSUME NEW p \in Entry
  PROVE  Without(p.symbol, <<p>>) = <<>>
<1> DEFINE q == <<p>>
           w == [i \in 0 .. Len(q) |-> <<>>]
<1>1. Len(q) = 1 /\ 0 .. Len(q) = {0, 1} /\ q[1] = p
  OBVIOUS
<1>2. KeptUpTo(w, p.symbol, q)
  BY <1>1 DEF KeptUpTo
<1>3. PICK g : KeptUpTo(g, p.symbol, q) /\ Without(p.symbol, q) = g[Len(q)]
  BY <1>2, WithoutIsKept
<1>4. g[0] = <<>>
  BY <1>1, <1>3 DEF KeptUpTo
<1>5. g[1] = g[1 - 1]
  BY <1>1, <1>3 DEF KeptUpTo
<1> QED BY <1>1, <1>3, <1>4, <1>5

(* Of two entries the second one stays if its symbol is another.          *)
LEMMA WithoutFirstOfTwo ==
  ASSUME NEW p \in Entry, NEW r \in Entry
  PROVE  Without(p.symbol, <<p, r>>)
           = IF r.symbol = p.symbol THEN <<>> ELSE <<r>>
<1> DEFINE q == <<p, r>>
           w == [i \in 0 .. Len(q) |->
                   IF i = 2 /\ r.symbol # p.symbol THEN <<r>> ELSE <<>>]
<1>1. Len(q) = 2 /\ 0 .. Len(q) = {0, 1, 2} /\ q[1] = p /\ q[2] = r
  OBVIOUS
<1>2. KeptUpTo(w, p.symbol, q)
  <2>1. w[0] = <<>> /\ w[1] = <<>> /\ w[2] = IF r.symbol # p.symbol THEN <<r>> ELSE <<>>
    BY <1>1
  <2>2. Append(<<>>, r) = <<r>>
    OBVIOUS
  <2> QED BY <1>1, <2>1, <2>2 DEF KeptUpTo
<1>3. PICK g : KeptUpTo(g, p.symbol, q) /\ Without(p.symbol, q) = g[Len(q)]
  BY <1>2, WithoutIsKept
<1>4. g[0] = <<>>
  BY <1>1, <1>3 DEF KeptUpTo
<1>5. g[1] = g[1 - 1]
  BY <1>1, <1>3 DEF KeptUpTo
<1>6. g[2] = IF r.symbol = p.symbol THEN g[2 - 1] ELSE Append(g[2 - 1], r)
  BY <1>1, <1>3 DEF KeptUpTo
<1>7. g[1] = <<>>
  BY <1>4, <1>5
<1>8. CASE r.symbol = p.symbol
  <2>1. g[2] = <<>>
    BY <1>6, <1>7, <1>8
  <2> QED BY <1>1, <1>3, <1>8, <2>1
<1>9. CASE r.symbol # p.symbol
  <2>1. g[2] = Append(g[1], r)
    BY <1>6, <1>9
  <2>2. Append(<<>>, r) = <<r>>
    OBVIOUS
  <2>3. g[2] = <<r>>
    BY <1>7, <2>1, <2>2, Zenon
  <2> QED BY <1>1, <1>3, <1>9, <2>3
<1> QED BY <1>8, <1>9

-----------------------------------------------------------------------------
(* The accounts of the model: two entries at most, one for each symbol and*)
(* side.                                                                  *)
Small(list) ==
  /\ \/ list = <<>>
     \/ \E p \in Entry : list = <<p>>
     \/ \E p, r \in Entry : list = <<p, r>>
  /\ OneEntryPerSide(list)

(* Appending to a list of one.                                            *)
LEMMA AppendOne ==
  ASSUME NEW S, NEW e \in S, NEW f \in S
  PROVE  Append(<<e>>, f) = <<e, f>>
<1>1. PICK a : a = Append(<<e>>, f)
  OBVIOUS
<1>2. <<e>> \in Seq(S) /\ Len(<<e>>) = 1 /\ <<e>>[1] = e
  OBVIOUS
<1>3. a \in Seq(S) /\ Len(a) = 2 /\ a[1] = e /\ a[2] = f
  BY <1>1, <1>2, AppendProperties
<1>4. <<e, f>> \in Seq(S) /\ Len(<<e, f>>) = 2
  OBVIOUS
<1>5. a = <<e, f>>
  <2>1. \A i \in 1 .. 2 : a[i] = <<e, f>>[i]
    BY <1>3
  <2> QED BY <1>3, <1>4, <2>1, SeqEqual
<1> QED BY <1>1, <1>5

(* Such an account is a list of entries.                                  *)
LEMMA SmallIsTyped ==
  ASSUME NEW list, Small(list)
  PROVE  list \in Seq(Entry)
<1>1. <<>> \in Seq(Entry)
  OBVIOUS
<1>2. \A p \in Entry : <<p>> \in Seq(Entry)
  OBVIOUS
<1>3. \A p, r \in Entry : <<p, r>> \in Seq(Entry)
  OBVIOUS
<1> QED BY <1>1, <1>2, <1>3 DEF Small

(* One entry is its own projection.                                       *)
LEMMA ProjectOne ==
  ASSUME NEW p \in Entry
  PROVE  Project(<<p>>) = [side |-> p.side, size |-> p.size]
<1>1. Project(<<p>>) = NetOf(Amount(p))
  BY ProjectIsTotal, TotalOfOne
<1>2. p.side = "LONG" \/ p.side = "SHORT"
  BY DEF Entry, HoldingSides
<1> QED BY <1>1, <1>2, AmountIsInt DEF NetOf

(* Nothing is flat.                                                       *)
LEMMA ProjectNone ==
  Project(<<>>) = Flat
BY ProjectIsTotal, TotalOfNone DEF NetOf

(* An account without a hedge is flat only when it holds nothing. *)
LEMMA FlatIsEmpty ==
  ASSUME NEW list, Small(list), list # <<>>, ~ HedgeDetected(list)
  PROVE  Project(list).side \in HoldingSides
<1>1. ASSUME NEW p \in Entry, list = <<p>>
      PROVE  Project(list).side \in HoldingSides
  <2>1. Project(list) = [side |-> p.side, size |-> p.size]
    BY <1>1, ProjectOne
  <2> QED BY <2>1 DEF Entry
<1>2. ASSUME NEW p \in Entry, NEW r \in Entry, list = <<p, r>>
      PROVE  Project(list).side \in HoldingSides
  <2>1. Project(list) = NetOf(Amount(p) + Amount(r))
    BY <1>2, ProjectIsTotal, TotalOfTwo
  <2>2. /\ Amount(p) \in Int /\ Amount(p) # 0
        /\ Amount(r) \in Int /\ Amount(r) # 0
    BY AmountIsInt DEF Entry, HoldingSides
  <2>3. DOMAIN list = {1, 2} /\ list[1] = p /\ list[2] = r
    BY <1>2
  <2>4. ~ (Amount(p) > 0 /\ Amount(r) < 0) /\ ~ (Amount(p) < 0 /\ Amount(r) > 0)
    BY <2>3 DEF HedgeDetected
  <2> QED BY <2>1, <2>2, <2>4 DEF NetOf, HoldingSides
<1> QED BY <1>1, <1>2 DEF Small

(* The first entry is one.                                                *)
LEMMA FirstIsTyped ==
  ASSUME NEW list, Small(list), list # <<>>
  PROVE  Head(list) \in Entry
BY DEF Small

(* Without the symbol of its first entry, and with one more entry of that *)
(* symbol.                                                                *)
LEMMA SmallWithout ==
  ASSUME NEW list, Small(list), list # <<>>
  PROVE  LET rest == Without(Head(list).symbol, list)
         IN  /\ Small(rest)
             /\ \A n \in Entry : n.symbol = Head(list).symbol => Small(Append(rest, n))
<1> DEFINE rest == Without(Head(list).symbol, list)
<1>1. rest = <<>> \/ \E r \in Entry : rest = <<r>> /\ r.symbol # Head(list).symbol
  <2>1. ASSUME NEW p \in Entry, list = <<p>>
        PROVE  rest = <<>>
    <3>1. Head(list) = p
      BY <2>1
    <3> QED BY <2>1, <3>1, WithoutOne
  <2>2. ASSUME NEW p \in Entry, NEW r \in Entry, list = <<p, r>>
        PROVE  rest = IF r.symbol = p.symbol THEN <<>> ELSE <<r>>
    <3>1. Head(list) = p
      BY <2>2
    <3> QED BY <2>2, <3>1, WithoutFirstOfTwo
  <2>3. ASSUME NEW p \in Entry, NEW r \in Entry, list = <<p, r>>
        PROVE  Head(list) = p
    BY <2>3
  <2> QED BY <2>1, <2>2, <2>3 DEF Small
<1> HIDE DEF rest
<1>2. Small(rest)
  BY <1>1 DEF Small, OneEntryPerSide
<1>3. ASSUME NEW n \in Entry, n.symbol = Head(list).symbol
      PROVE  Small(Append(rest, n))
  <2>1. CASE rest = <<>>
    <3>1. Append(rest, n) = <<n>>
      BY <2>1
    <3> QED BY <3>1 DEF Small, OneEntryPerSide
  <2>2. ASSUME NEW r \in Entry, rest = <<r>>, r.symbol # Head(list).symbol
        PROVE  Small(Append(rest, n))
    <3>1. Append(<<r>>, n) = <<r, n>>
      BY AppendOne
    <3>2. OneEntryPerSide(<<r, n>>)
      BY <1>3, <2>2 DEF OneEntryPerSide
    <3>3. Small(<<r, n>>)
      BY <3>2 DEF Small
    <3> QED BY <2>2, <3>1, <3>3, Zenon
  <2> QED BY <1>1, <2>1, <2>2
<1> QED BY <1>2, <1>3 DEF rest

-----------------------------------------------------------------------------
(* The invariant of the pipeline: from planning on the decision is the    *)
(* policy's on the account as it was, and while the plan runs the account is*)
(* at one of three places of it.                                          *)

(* An intent was allowed on the account as it was.                        *)
Chosen ==
  /\ intent \in PolicyIntents
  /\ ~ HedgeDetected(before)
  /\ decision = EvaluateIntent(intent, Project(before))
  /\ decision.verdict = "ALLOW"

(* The account when the CLOSE of the plan was executed.                   *)
Rest == IF before = <<>> THEN <<>> ELSE Without(Head(before).symbol, before)

Opens(target) == ParseTargetSide(target) # "FLAT"

(* The entry the OPEN of the plan makes.                                  *)
Goal(target) == [symbol |-> PlanSymbol(before, target), side |-> target.side,
                 size |-> target.qty]

(* Before the plan, between its two steps, after its OPEN.                *)
Progress ==
  \/ positions = before /\ plan = built
  \/ before # <<>> /\ positions = Rest /\ plan = Tail(built)
  \/ /\ Opens(decision.target)
     /\ plan = <<>> /\ positions = Append(Rest, Goal(decision.target))

PipelineInv ==
  /\ PipelineTypeOK
  /\ Small(positions) /\ Small(before)
  /\ pc = "planning" => Chosen /\ positions = before
  /\ pc = "executing" =>
       /\ Chosen
       /\ ~ PlanFails(before, decision.target)
       /\ built = BuildPlan(before, decision.target)
       /\ Progress
  /\ AllowedIntentCompletes

-----------------------------------------------------------------------------
(* What the policy allows.                                                *)

(* An allowed intent is an emergency, or has a target of its own symbol: flat,*)
(* or a side with a quantity of lots, which may be zero.                  *)
LEMMA WhatIsAllowed ==
  ASSUME NEW i \in PolicyIntents, NEW net, NEW d,
         d = EvaluateIntent(i, net), d.verdict = "ALLOW"
  PROVE  \/ d.transition = "EMERGENCY" /\ d.target = NoTarget
         \/ /\ d.target.symbol = i.symbol
            /\ i.symbol \in Symbols
            /\ d.target = [symbol |-> d.target.symbol, side |-> d.target.side,
                           qty |-> d.target.qty]
            /\ \/ d.target.side = "FLAT" /\ d.target.qty = 0
               \/ d.target.side \in HoldingSides /\ d.target.qty \in {0} \cup Lots
            /\ ~ IllegalState(net, d.target)
            /\ d.transition = Classify(net, d.target)
            /\ d.transition # "NOOP"
<1>1. CASE i.type = "EMERGENCY"
  BY <1>1 DEF EvaluateIntent, Decision
<1>2. CASE i.type # "EMERGENCY"
  <2> DEFINE target == MapIntentToTarget(i)
  <2>1. ValidIntent(i)
    BY <1>2 DEF EvaluateIntent, Decision
  <2>2. ~ IllegalState(net, target)
    BY <1>2, <2>1 DEF EvaluateIntent, Decision
  <2>3. d = Decision(IF Classify(net, target) = "NOOP" THEN "REFUSE" ELSE "ALLOW",
                     Classify(net, target), target)
    BY <1>2, <2>1, <2>2 DEF EvaluateIntent
  <2>4. /\ d.target = target /\ d.transition = Classify(net, target)
        /\ Classify(net, target) # "NOOP"
    BY <2>3 DEF Decision
  <2>5. CASE i.type = "SET_FLAT"
    <3>1. target = [symbol |-> i.symbol, side |-> "FLAT", qty |-> 0]
      BY <2>5 DEF MapIntentToTarget
    <3>2. i.symbol \in Symbols
      BY DEF PolicyIntents
    <3> QED BY <2>2, <2>4, <3>1, <3>2
  <2>6. CASE i.type = "SET_POSITION"
    <3>1. i.symbol \in Symbols /\ i.side \in HoldingSides /\ i.qty \in 0 .. MaxSize
      BY <2>6 DEF PolicyIntents
    <3>2. target = [symbol |-> i.symbol, side |-> i.side, qty |-> FloorToStep(i.qty)]
      BY <2>6 DEF MapIntentToTarget
    <3>3. FloorToStep(i.qty) \in {0} \cup Lots
      BY <3>1, FloorIsALot
    <3> QED BY <2>2, <2>4, <3>1, <3>2, <3>3
  <2> QED BY <1>2, <2>5, <2>6 DEF PolicyIntents
<1> QED BY <1>1, <1>2

-----------------------------------------------------------------------------
(* The plan.                                                              *)

(* Concatenation of lists of one and none.                                *)
LEMMA ConcatOnes ==
  ASSUME NEW a, NEW b
  PROVE  /\ <<a>> \o <<b>> = <<a, b>>
         /\ <<a>> \o <<>> = <<a>>
         /\ <<>> \o <<b>> = <<b>>
<1>1. a \in {a, b} /\ b \in {a, b} /\ <<a>> \in Seq({a, b}) /\ <<b>> \in Seq({a, b})
  OBVIOUS
<1>2. Append(<<a>>, b) = <<a>> \o <<b>>
  BY <1>1, AppendIsConcat
<1>3. Append(<<a>>, b) = <<a, b>>
  BY <1>1, AppendOne
<1> QED BY <1>1, <1>2, <1>3, ConcatEmptySeq

OpenOf(list, target) == StepOpen(ParseTargetSide(target), target.qty, PlanSymbol(list, target))

(* A CLOSE if something is held, an OPEN unless the target is flat.       *)
LEMMA PlanShape ==
  ASSUME NEW list, NEW target
  PROVE  /\ list = <<>> /\ ~ Opens(target) => BuildPlan(list, target) = <<>>
         /\ list = <<>> /\ Opens(target) => BuildPlan(list, target) = <<OpenOf(list, target)>>
         /\ list # <<>> /\ ~ Opens(target) =>
              BuildPlan(list, target) = <<StepClose(Head(list))>>
         /\ list # <<>> /\ Opens(target) =>
              BuildPlan(list, target) = <<StepClose(Head(list)), OpenOf(list, target)>>
<1> DEFINE c == StepClose(Head(list))
           o == OpenOf(list, target)
<1>1. BuildPlan(list, target) =
        (IF list = <<>> THEN <<>> ELSE <<c>>)
        \o (IF Opens(target) THEN <<o>> ELSE <<>>)
  BY DEF BuildPlan, Opens, OpenOf
<1>2. /\ <<c>> \o <<o>> = <<c, o>>
      /\ <<c>> \o <<>> = <<c>>
      /\ <<>> \o <<o>> = <<o>>
  BY ConcatOnes
<1>3. <<>> \o <<>> = <<>>
  OBVIOUS
<1> HIDE DEF c, o
<1>4. CASE list = <<>> /\ ~ Opens(target)
  BY <1>1, <1>3, <1>4, Zenon
<1>5. CASE list = <<>> /\ Opens(target)
  BY <1>1, <1>2, <1>5, Zenon DEF o
<1>6. CASE list # <<>> /\ ~ Opens(target)
  BY <1>1, <1>2, <1>6, Zenon DEF c
<1>7. CASE list # <<>> /\ Opens(target)
  BY <1>1, <1>2, <1>7, Zenon DEF c, o
<1> QED BY <1>4, <1>5, <1>6, <1>7

-----------------------------------------------------------------------------
(* The policy has three verdicts.                                         *)
LEMMA VerdictCases ==
  ASSUME NEW i \in PolicyIntents, NEW net
  PROVE  EvaluateIntent(i, net).verdict \in {"ALLOW", "REFUSE", "FREEZE"}
BY DEF EvaluateIntent, Decision

(* Without a hedge, a symbol has one entry.                               *)
LEMMA SymbolsDiffer ==
  ASSUME NEW list, Small(list), ~ HedgeDetected(list), NEW y,
         \A i \in DOMAIN list : list[i].symbol = y
  PROVE  list = <<>> \/ \E p \in Entry : list = <<p>> /\ p.symbol = y
<1>1. ASSUME NEW p \in Entry, NEW r \in Entry, list = <<p, r>>
      PROVE  FALSE
  <2>1. DOMAIN list = {1, 2} /\ list[1] = p /\ list[2] = r
    BY <1>1
  <2>2. p.symbol = r.symbol /\ p.side # r.side
    BY <2>1 DEF Small, OneEntryPerSide
  <2>3. \/ p.side = "LONG" /\ r.side = "SHORT"
        \/ p.side = "SHORT" /\ r.side = "LONG"
    BY <2>2 DEF Entry, HoldingSides
  <2>4. \/ Amount(p) > 0 /\ Amount(r) < 0
        \/ Amount(p) < 0 /\ Amount(r) > 0
    BY <2>3, AmountIsInt
  <2> QED BY <2>1, <2>4 DEF HedgeDetected
<1>2. ASSUME NEW p \in Entry, list = <<p>>
      PROVE  p.symbol = y
  BY <1>2
<1> QED BY <1>1, <1>2 DEF Small

(* So an account without foreign holdings has one entry at most.          *)
LEMMA OnlyOneEntry ==
  ASSUME Chosen, Small(before), ~ ForeignHolding
  PROVE  before = <<>> \/ \E p \in Entry : before = <<p>> /\ p.symbol = intent.symbol
<1>1. \A i \in DOMAIN before : before[i].symbol = intent.symbol
  BY DEF ForeignHolding
<1> QED BY <1>1, SymbolsDiffer DEF Chosen

(* What an allowed intent that is no emergency aims at.                   *)
Target ==
  /\ decision.target.symbol = intent.symbol
  /\ intent.symbol \in Symbols
  /\ \/ decision.target.side = "FLAT" /\ decision.target.qty = 0
     \/ decision.target.side \in HoldingSides /\ decision.target.qty \in {0} \cup Lots
  /\ ~ IllegalState(Project(before), decision.target)
  /\ decision.transition = Classify(Project(before), decision.target)
  /\ decision.transition # "NOOP"

(* WhatIsAllowed, of the decision in force.                               *)
LEMMA TargetOfChosen ==
  ASSUME Chosen
  PROVE  \/ decision.transition = "EMERGENCY" /\ decision.target = NoTarget
         \/ Target
<1>1. PICK n : n = Project(before)
  OBVIOUS
<1>2. decision = EvaluateIntent(intent, n) /\ intent \in PolicyIntents /\ decision.verdict = "ALLOW"
  BY <1>1 DEF Chosen
<1>3. \/ decision.transition = "EMERGENCY" /\ decision.target = NoTarget
      \/ /\ decision.target.symbol = intent.symbol
         /\ intent.symbol \in Symbols
         /\ \/ decision.target.side = "FLAT" /\ decision.target.qty = 0
            \/ decision.target.side \in HoldingSides /\ decision.target.qty \in {0} \cup Lots
         /\ ~ IllegalState(n, decision.target)
         /\ decision.transition = Classify(n, decision.target)
         /\ decision.transition # "NOOP"
  BY <1>2, WhatIsAllowed
<1>4. ASSUME decision.target.symbol = intent.symbol, intent.symbol \in Symbols,
             \/ decision.target.side = "FLAT" /\ decision.target.qty = 0
             \/ decision.target.side \in HoldingSides /\ decision.target.qty \in {0} \cup Lots,
             ~ IllegalState(n, decision.target),
             decision.transition = Classify(n, decision.target),
             decision.transition # "NOOP"
      PROVE  Target
  BY <1>1, <1>4, Zenon DEF Target
<1> QED BY <1>3, <1>4, Zenon

(* Such a target is not the one of an emergency.                          *)
LEMMA SymbolIsReal ==
  ASSUME Target
  PROVE  decision.target # NoTarget
BY DEF Target, NoTarget, HoldingSides

(* What the planner accepted has such a target.                           *)
LEMMA TargetIsPlanned ==
  ASSUME Chosen, ~ PlanFails(before, decision.target)
  PROVE  Target
BY TargetOfChosen DEF PlanFails

(* An OPEN has a side and at least a lot.                                 *)
LEMMA OpensALot ==
  ASSUME Target, Opens(decision.target)
  PROVE  /\ decision.target.side \in HoldingSides
         /\ decision.target.qty \in Lots
         /\ ParseTargetSide(decision.target) = decision.target.side
BY DEF Target, Opens, ParseTargetSide

(* The planner refuses a change of size and an emergency only: the policy *)
(* refuses an intent that asks for what is held.                          *)
LEMMA PlannerRefusal ==
  ASSUME Chosen, Small(before), ~ ForeignHolding,
         PlanFails(before, decision.target)
  PROVE  decision.transition \in {"ADJUST", "EMERGENCY"}
<1> SUFFICES ASSUME decision.transition # "EMERGENCY"
             PROVE  decision.transition = "ADJUST"
  OBVIOUS
<1>1. Target
  BY TargetOfChosen
<1>2. before # <<>> /\ Head(before).side = ParseTargetSide(decision.target)
  BY <1>1, SymbolIsReal DEF PlanFails
<1>3. PICK p \in Entry : before = <<p>>
  BY <1>2, OnlyOneEntry
<1>4. p.side = ParseTargetSide(decision.target) /\ p.side \in HoldingSides
  BY <1>2, <1>3 DEF Entry
<1>5. decision.target.side = p.side
  BY <1>4 DEF ParseTargetSide, HoldingSides
<1>6. Project(before) = [side |-> p.side, size |-> p.size]
  BY <1>3, ProjectOne
<1>7. Project(before).side = p.side
  BY <1>6
<1>8. Classify(Project(before), decision.target) \in {"NOOP", "ADJUST"}
  BY <1>4, <1>5, <1>7 DEF Classify, HoldingSides
<1> QED BY <1>1, <1>8 DEF Target

(* At the end of the plan the verifier finds the target, unless the lot size*)
(* floored it to zero.                                                    *)
LEMMA VerifiedGoal ==
  ASSUME Chosen, Small(before), ~ ForeignHolding, plan = <<>>, Progress,
         ~ PlanFails(before, decision.target),
         built = BuildPlan(before, decision.target),
         decision.target.side # "FLAT" => decision.target.qty # 0
  PROVE  ~ HedgeDetected(positions) /\ VerifyExecutionResult(decision.target, Project(positions))
<1> DEFINE target == decision.target
<1>1. Target
  BY TargetIsPlanned
<1>2. Rest = <<>>
  BY OnlyOneEntry, WithoutOne DEF Rest
<1>3. ASSUME ~ Opens(target)
      PROVE  target.side = "FLAT" /\ target.qty = 0
  BY <1>1, <1>3 DEF Target, Opens, ParseTargetSide, HoldingSides
<1>4. ASSUME ~ Opens(target), positions = <<>>
      PROVE  ~ HedgeDetected(positions) /\ VerifyExecutionResult(target, Project(positions))
  <2>1. Project(positions) = Flat
    BY <1>4, ProjectNone
  <2>2. ~ HedgeDetected(positions)
    BY <1>4 DEF HedgeDetected
  <2> QED BY <1>3, <1>4, <2>1, <2>2 DEF VerifyExecutionResult, Flat
<1>5. CASE positions = before /\ plan = built
  <2>1. before = <<>> /\ ~ Opens(target)
    BY <1>5, PlanShape
  <2> QED BY <1>4, <1>5, <2>1
<1>6. CASE before # <<>> /\ positions = Rest /\ plan = Tail(built)
  <2>1. ~ Opens(target)
    <3>1. SUFFICES ASSUME Opens(target) PROVE FALSE
      OBVIOUS
    <3>2. built = <<StepClose(Head(before)), OpenOf(before, target)>>
      BY <1>6, <3>1, PlanShape
    <3>3. Tail(built) # <<>>
      BY <3>2
    <3> QED BY <1>6, <3>3
  <2> QED BY <1>2, <1>4, <1>6, <2>1
<1>7. CASE Opens(target) /\ positions = Append(Rest, Goal(target))
  <2>1. target.side \in HoldingSides /\ target.qty \in Lots
    BY <1>1, <1>7, OpensALot
  <2>2. positions = <<Goal(target)>>
    BY <1>2, <1>7
  <2>3. PlanSymbol(before, target) \in Symbols
    BY <1>1, FirstIsTyped DEF PlanSymbol, Target, Entry
  <2>4. /\ Goal(target) \in Entry
        /\ Goal(target).side = target.side /\ Goal(target).size = target.qty
    BY <2>1, <2>3 DEF Goal, Entry
  <2>5. Project(positions) = [side |-> target.side, size |-> target.qty]
    BY <2>2, <2>4, ProjectOne
  <2>6. ~ HedgeDetected(positions)
    BY <2>2, <2>4, AmountIsInt DEF HedgeDetected
  <2>7. target.qty \in Nat
    BY <2>1, LotsPositive
  <2> QED BY <2>5, <2>6, <2>7 DEF VerifyExecutionResult
<1> QED BY <1>5, <1>6, <1>7 DEF Progress

(* The plan is made of steps.                                             *)
LEMMA StepsAreTyped ==
  ASSUME Chosen, Small(before), ~ PlanFails(before, decision.target)
  PROVE  /\ BuildPlan(before, decision.target) \in Seq(Steps)
         /\ PlanSymbol(before, decision.target) \in Symbols
<1> DEFINE target == decision.target
<1>1. Target
  BY TargetIsPlanned
<1>2. PlanSymbol(before, target) \in Symbols
  BY <1>1, FirstIsTyped DEF PlanSymbol, Target, Entry
<1>3. before # <<>> => StepClose(Head(before)) \in Steps
  BY FirstIsTyped DEF Steps
<1>4. Opens(target) => OpenOf(before, target) \in Steps
  BY <1>1, <1>2, OpensALot DEF OpenOf, Steps
<1>5. /\ \A c \in Steps : <<c>> \in Seq(Steps)
      /\ \A c, o \in Steps : <<c, o>> \in Seq(Steps)
      /\ <<>> \in Seq(Steps)
  OBVIOUS
<1> QED BY <1>2, <1>3, <1>4, <1>5, PlanShape

-----------------------------------------------------------------------------
(* The steps of the pipeline.                                             *)

(* It holds at first.                                                     *)
LEMMA PipelineInitInv ==
  PipelineInit => PipelineInv
<1> SUFFICES ASSUME PipelineInit PROVE PipelineInv
  OBVIOUS
<1>1. Small(positions)
  BY DEF PipelineInit, Accounts, Small
<1>2. PipelineTypeOK
  <2>1. <<>> \in Seq(Steps)
    OBVIOUS
  <2> QED BY <1>1, <2>1, SmallIsTyped DEF PipelineInit, PipelineTypeOK, Outcomes
<1> QED BY <1>1, <1>2 DEF PipelineInit, PipelineInv, AllowedIntentCompletes

(* The policy is asked.                                                   *)
LEMMA EvaluateKeepsInv ==
  ASSUME PipelineInv, NEW i \in PolicyIntents, Evaluate(i)
  PROVE  PipelineInv'
<1>1. /\ pc = "idle" /\ intent' = i /\ before' = positions /\ positions' = positions
      /\ Small(positions) /\ PipelineTypeOK
  BY DEF Evaluate, PipelineInv
<1>2. Small(positions') /\ Small(before')
  BY <1>1
<1>3. <<>> \in Seq(Steps)
  OBVIOUS
<1>4. ASSUME NEW o \in {"HEDGE", "REFUSED", "FROZEN"}, Ends(o)
      PROVE  PipelineInv'
  <2>1. PipelineTypeOK'
    BY <1>1, <1>3, <1>4 DEF Ends, PipelineTypeOK, Outcomes
  <2> QED BY <1>2, <1>4, <2>1 DEF Ends, PipelineInv, AllowedIntentCompletes
<1>5. CASE HedgeDetected(positions)
  BY <1>4, <1>5 DEF Evaluate
<1>6. CASE ~ HedgeDetected(positions)
  <2> DEFINE d == EvaluateIntent(i, Project(positions))
  <2>1. d.verdict \in {"ALLOW", "REFUSE", "FREEZE"}
    BY VerdictCases
  <2>2. /\ decision' = d
        /\ CASE d.verdict = "REFUSE" -> Ends("REFUSED")
             [] d.verdict = "FREEZE" -> Ends("FROZEN")
             [] d.verdict = "ALLOW"  -> /\ pc' = "planning"
                                        /\ UNCHANGED <<plan, built, outcome>>
    BY <1>6 DEF Evaluate
  <2> HIDE DEF d
  <2>3. CASE d.verdict # "ALLOW"
    BY <1>4, <2>1, <2>2, <2>3
  <2>4. CASE d.verdict = "ALLOW"
    <3>1. pc' = "planning" /\ UNCHANGED <<plan, built, outcome>>
      BY <2>2, <2>4
    <3>2. PipelineTypeOK'
      BY <1>1, <3>1 DEF PipelineTypeOK
    <3>3. Chosen'
      BY <1>1, <1>6, <2>2, <2>4 DEF Chosen, d
    <3> QED BY <1>1, <1>2, <3>1, <3>2, <3>3 DEF PipelineInv, AllowedIntentCompletes
  <2> QED BY <2>3, <2>4
<1> QED BY <1>5, <1>6

(* The plan is built, or refused.                                         *)
LEMMA PlanKeepsInv ==
  ASSUME PipelineInv, Plan
  PROVE  PipelineInv'
<1>1. /\ pc = "planning" /\ UNCHANGED <<positions, intent, decision, before>>
      /\ Chosen /\ positions = before /\ Small(before) /\ PipelineTypeOK
  BY DEF Plan, PipelineInv
<1>2. Small(positions') /\ Small(before') /\ Chosen'
  BY <1>1 DEF Chosen
<1>3. <<>> \in Seq(Steps)
  OBVIOUS
<1>4. CASE PlanFails(positions, decision.target)
  <2>1. Ends("PLAN_FAILED")
    BY <1>4 DEF Plan
  <2>2. PipelineTypeOK'
    BY <1>1, <1>3, <2>1 DEF Ends, PipelineTypeOK, Outcomes
  <2>3. ~ ForeignHolding => decision.transition \in {"ADJUST", "EMERGENCY"}
    BY <1>1, <1>4, PlannerRefusal
  <2>4. AllowedIntentCompletes'
    BY <1>1, <2>3 DEF AllowedIntentCompletes, ForeignHolding
  <2> QED BY <1>2, <2>1, <2>2, <2>4 DEF PipelineInv, Ends
<1>5. CASE ~ PlanFails(positions, decision.target)
  <2>1. /\ plan' = BuildPlan(positions, decision.target) /\ built' = plan'
        /\ pc' = "executing" /\ outcome' = outcome
    BY <1>5 DEF Plan
  <2>2. PipelineTypeOK'
    BY <1>1, <1>5, <2>1, StepsAreTyped DEF PipelineTypeOK
  <2>3. Progress'
    BY <1>1, <2>1 DEF Progress
  <2> QED BY <1>1, <1>2, <1>5, <2>1, <2>2, <2>3 DEF PipelineInv, AllowedIntentCompletes
<1> QED BY <1>4, <1>5

(* What ExecuteStep makes of the account.                                 *)
Executed(step, list) ==
  IF step.action = "CLOSE"
    THEN Without(step.symbol, list)
    ELSE Append(list, [symbol |-> step.symbol, side |-> step.side, size |-> step.qty])

(* After the OPEN the account is one of the model again.                  *)
LEMMA RestIsSmall ==
  ASSUME Small(before), Target, Opens(decision.target)
  PROVE  Small(Append(Rest, Goal(decision.target)))
<1> DEFINE n == Goal(decision.target)
<1>1. n \in Entry /\ n.symbol = PlanSymbol(before, decision.target)
  BY OpensALot, FirstIsTyped DEF Goal, PlanSymbol, Entry, Target
<1> HIDE DEF n
<1>2. CASE before = <<>>
  <2>1. Append(Rest, n) = <<n>>
    BY <1>2 DEF Rest
  <2> QED BY <1>1, <2>1 DEF Small, OneEntryPerSide, n
<1>3. CASE before # <<>>
  <2>1. n.symbol = Head(before).symbol
    BY <1>1, <1>3 DEF PlanSymbol
  <2>2. Small(Append(Without(Head(before).symbol, before), n))
    BY <1>1, <1>3, <2>1, SmallWithout
  <2> QED BY <1>3, <2>2 DEF Rest, n
<1> QED BY <1>2, <1>3

(* A step of the plan is executed.                                        *)
LEMMA ExecuteStepKeepsInv ==
  ASSUME PipelineInv, ExecuteStep
  PROVE  PipelineInv'
<1> DEFINE target == decision.target
<1>1. /\ pc = "executing" /\ plan # <<>>
      /\ UNCHANGED <<pc, intent, decision, built, outcome, before>>
      /\ plan' = Tail(plan)
      /\ positions' = Executed(Head(plan), positions)
  BY DEF ExecuteStep, Executed
<1>2. /\ Chosen /\ ~ PlanFails(before, target) /\ built = BuildPlan(before, target)
      /\ Progress /\ Small(before) /\ PipelineTypeOK
  BY <1>1 DEF PipelineInv
<1>3. Target
  BY <1>2, TargetIsPlanned
<1>4. /\ Chosen' /\ ~ PlanFails(before, target)' /\ (built = BuildPlan(before, target))'
      /\ Small(before)'
  <2>1. before' = before /\ decision' = decision /\ intent' = intent /\ built' = built
    BY <1>1
  <2> QED BY <1>2, <2>1 DEF Chosen
<1>5. ASSUME Small(positions'), Progress'
      PROVE  PipelineInv'
  <2>1. Tail(plan) \in Seq(Steps)
    BY <1>1, <1>2 DEF PipelineTypeOK
  <2>2. PipelineTypeOK'
    BY <1>1, <1>2, <1>5, <2>1, SmallIsTyped DEF PipelineTypeOK
  <2> QED BY <1>1, <1>4, <1>5, <2>2 DEF PipelineInv, AllowedIntentCompletes
<1>6. ASSUME Opens(target), Head(plan) = OpenOf(before, target), positions = Rest,
             Tail(plan) = <<>>
      PROVE  PipelineInv'
  <2>1. positions' = Append(Rest, Goal(target))
    <3>1. Head(plan).action = "OPEN" /\ Head(plan).symbol = PlanSymbol(before, target)
      BY <1>6 DEF OpenOf, StepOpen
    <3>2. Head(plan).side = target.side /\ Head(plan).qty = target.qty
      BY <1>3, <1>6, OpensALot DEF OpenOf, StepOpen
    <3> QED BY <1>1, <1>6, <3>1, <3>2 DEF Executed, Goal
  <2>2. Small(positions')
    BY <1>2, <1>3, <1>6, <2>1, RestIsSmall
  <2>3. Progress'
    BY <1>1, <1>6, <2>1 DEF Progress, Rest, Goal, PlanSymbol, Opens, ParseTargetSide
  <2> QED BY <1>5, <2>2, <2>3
<1>7. CASE positions = before /\ plan = built
  <2>1. CASE before = <<>>
    <3>1. Opens(target) /\ plan = <<OpenOf(before, target)>>
      BY <1>1, <1>2, <1>7, <2>1, PlanShape
    <3>2. Head(plan) = OpenOf(before, target) /\ Tail(plan) = <<>>
      BY <3>1
    <3>3. positions = Rest
      BY <1>7, <2>1 DEF Rest
    <3> QED BY <1>6, <3>1, <3>2, <3>3
  <2>2. CASE before # <<>>
    <3>1. Head(plan) = StepClose(Head(before))
      BY <1>2, <1>7, <2>2, PlanShape
    <3>2. positions' = Without(Head(before).symbol, before)
      BY <1>1, <1>7, <3>1 DEF Executed, StepClose
    <3>3. Small(positions')
      BY <1>2, <2>2, <3>2, SmallWithout
    <3>4. before' = before /\ plan' = Tail(built) /\ built' = built
      BY <1>1, <1>7
    <3>5. Progress'
      BY <2>2, <3>2, <3>4 DEF Progress, Rest
    <3> QED BY <1>5, <3>3, <3>5
  <2> QED BY <2>1, <2>2
<1>8. CASE before # <<>> /\ positions = Rest /\ plan = Tail(built)
  <2>1. CASE Opens(target)
    <3>1. built = <<StepClose(Head(before)), OpenOf(before, target)>>
      BY <1>2, <1>8, <2>1, PlanShape
    <3>2. Head(plan) = OpenOf(before, target) /\ Tail(plan) = <<>>
      BY <1>8, <3>1
    <3> QED BY <1>6, <1>8, <2>1, <3>2
  <2>2. CASE ~ Opens(target)
    <3>1. built = <<StepClose(Head(before))>>
      BY <1>2, <1>8, <2>2, PlanShape
    <3>2. plan = <<>>
      BY <1>8, <3>1
    <3> QED BY <1>1, <3>2
  <2> QED BY <2>1, <2>2
<1> QED BY <1>1, <1>2, <1>7, <1>8 DEF Progress

(* The result is verified.                                                *)
LEMMA FinalizeKeepsInv ==
  ASSUME PipelineInv, Finalize
  PROVE  PipelineInv'
<1> DEFINE reached == /\ ~ HedgeDetected(positions)
                      /\ VerifyExecutionResult(decision.target, Project(positions))
<1>1. /\ pc = "executing" /\ plan = <<>>
      /\ UNCHANGED <<positions, intent, decision, before>>
      /\ Ends(IF reached THEN "COMPLETED" ELSE "FINALIZE_MISMATCH")
  BY DEF Finalize
<1>2. /\ Chosen /\ ~ PlanFails(before, decision.target)
      /\ built = BuildPlan(before, decision.target)
      /\ Progress /\ Small(positions) /\ Small(before) /\ PipelineTypeOK
  BY <1>1 DEF PipelineInv
<1>3. ~ ForeignHolding /\ ~ reached
        => decision.target.side # "FLAT" /\ decision.target.qty = 0
  BY <1>1, <1>2, VerifiedGoal
<1> HIDE DEF reached
<1>4. pc' = "idle" /\ plan' = <<>> /\ built' = <<>>
      /\ outcome' = IF reached THEN "COMPLETED" ELSE "FINALIZE_MISMATCH"
  BY <1>1 DEF Ends
<1>5. PipelineTypeOK'
  <2>1. <<>> \in Seq(Steps)
    OBVIOUS
  <2> QED BY <1>1, <1>2, <1>4, <2>1 DEF PipelineTypeOK, Outcomes
<1>6. AllowedIntentCompletes'
  BY <1>1, <1>3, <1>4 DEF AllowedIntentCompletes, ForeignHolding
<1> QED BY <1>1, <1>2, <1>4, <1>5, <1>6 DEF PipelineInv

(* Every step keeps the invariant.                                        *)
LEMMA PipelineNextInv ==
  PipelineInv /\ [PipelineNext]_pipelineVars => PipelineInv'
<1> SUFFICES ASSUME PipelineInv, [PipelineNext]_pipelineVars PROVE PipelineInv'
  OBVIOUS
<1>1. CASE UNCHANGED pipelineVars
  BY <1>1 DEF pipelineVars, PipelineInv, PipelineTypeOK, Chosen, Progress, Rest, Goal,
              AllowedIntentCompletes, ForeignHolding
<1> QED BY <1>1, EvaluateKeepsInv, PlanKeepsInv, ExecuteStepKeepsInv, FinalizeKeepsInv
        DEF PipelineNext

(* Every variable of the pipeline holds a value of its type.              *)
THEOREM PipelineTypes == PipelineSpec => []PipelineTypeOK
<1>1. PipelineInv => PipelineTypeOK
  BY DEF PipelineInv
<1> QED BY <1>1, PipelineInitInv, PipelineNextInv, PTL DEF PipelineSpec

(* For any symbols, sizes and lot size: on an account of the intent's symbol*)
(* every allowed intent ends with its target reached, but for a change of *)
(* size, an emergency and a quantity below the lot size.                  *)
THEOREM AllowedIntentsComplete == PipelineSpec => []AllowedIntentCompletes
<1>1. PipelineInv => AllowedIntentCompletes
  BY DEF PipelineInv
<1> QED BY <1>1, PipelineInitInv, PipelineNextInv, PTL DEF PipelineSpec

(* The plan of a transition has the steps the guard asks for.             *)
LEMMA PlanMatches ==
  PipelineInv => PlanMatchesTransition
<1> SUFFICES ASSUME PipelineInv, pc = "executing" PROVE PlanMatchesTransition
  BY DEF PlanMatchesTransition
<1> DEFINE target == decision.target
           net == Project(before)
           actions == {built[i].action : i \in DOMAIN built}
<1>1. /\ ~ PlanFails(before, target) /\ built = BuildPlan(before, target)
      /\ ~ HedgeDetected(before) /\ Small(before) /\ Target
  BY TargetIsPlanned DEF PipelineInv, Chosen
<1>2. ASSUME decision.transition = "REVERSE"
      PROVE  built[1].action = "CLOSE" /\ built[1].reduceOnly
  <2>1. net.side \in HoldingSides
    BY <1>1, <1>2 DEF Classify, Target, HoldingSides
  <2>2. before # <<>>
    BY <2>1, ProjectNone DEF Flat, HoldingSides
  <2>3. built[1] = StepClose(Head(before))
    BY <1>1, <2>2, PlanShape
  <2> QED BY <2>3 DEF StepClose
<1>3. ASSUME decision.transition = "CLOSE"
      PROVE  "OPEN" \notin actions
  <2>1. target.side = "FLAT"
    BY <1>1, <1>3 DEF Classify, Target, HoldingSides
  <2>2. ~ Opens(target)
    BY <2>1 DEF Opens, ParseTargetSide
  <2>3. built = <<>> \/ built = <<StepClose(Head(before))>>
    BY <1>1, <2>2, PlanShape
  <2> QED BY <2>3 DEF StepClose
<1>4. ASSUME decision.transition = "OPEN"
      PROVE  "CLOSE" \notin actions
  <2>1. net.side = "FLAT"
    BY <1>1, <1>4 DEF Classify, Target, HoldingSides
  <2>2. before = <<>>
    BY <1>1, <2>1, FlatIsEmpty DEF HoldingSides
  <2>3. built = <<>> \/ built = <<OpenOf(before, target)>>
    BY <1>1, <2>2, PlanShape
  <2> QED BY <2>3 DEF OpenOf, StepOpen
<1> QED BY <1>2, <1>3, <1>4 DEF PlanMatchesTransition

(* For any symbols, sizes and lot size: the plan of a REVERSE starts with a*)
(* reduce-only CLOSE, a CLOSE opens nothing, an OPEN closes nothing.      *)
THEOREM PlansMatchTransitions == PipelineSpec => []PlanMatchesTransition
BY PlanMatches, PipelineInitInv, PipelineNextInv, PTL DEF PipelineSpec

-----------------------------------------------------------------------------
(***************************************************************************)
(* The live candles.                                                       *)
(***************************************************************************)
(* Finite sets of integers.                                               *)

(* A member of a family of sets no other member of which is smaller.      *)
Minimal(x, T) == x \in T /\ \A y \in T : ~ (y \subseteq x /\ y # x)

(* A family of subsets of a finite set that has members has a minimal one:*)
(* what fails of a finite set fails of a smallest one first.              *)
LEMMA MinimalSubset ==
  ASSUME NEW S, IsFiniteSet(S), NEW T, T \subseteq SUBSET S, T # {}
  PROVE  \E x \in T : Minimal(x, T)
<1>1. FiniteSubsetsOf(S) = SUBSET S
  BY FS_FiniteSubsetsOfFinite
<1>2. IsWellFoundedOn(StrictSubsetOrdering(S), SUBSET S)
  BY <1>1, FS_StrictSubsetOrderingWellFounded
<1>3. PICK x \in T : \A y \in T : ~ (<<y, x>> \in StrictSubsetOrdering(S))
  BY <1>2, WFMin
<1> QED BY <1>3 DEF StrictSubsetOrdering, Minimal

IsLeast(m, S) == m \in S /\ \A u \in S : m <= u
IsLast(m, S) == m \in S /\ \A u \in S : u <= m

(* The least of a set of integers.                                        *)
LEMMA LeastExists ==
  ASSUME NEW S, S \subseteq Int, IsFiniteSet(S), S # {}
  PROVE  \E m : IsLeast(m, S)
<1> DEFINE Bad == {x \in SUBSET S : x # {} /\ ~ \E m : IsLeast(m, x)}
<1> SUFFICES ASSUME Bad # {} PROVE FALSE
  OBVIOUS
<1>0. PICK x \in Bad : Minimal(x, Bad)
  <2>1. Bad \subseteq SUBSET S
    OBVIOUS
  <2> HIDE DEF Bad
  <2> QED BY <2>1, MinimalSubset
<1>1. x \in Bad /\ \A y \in Bad : ~ (y \subseteq x /\ y # x)
  BY <1>0 DEF Minimal
<1>2. PICK e : e \in x
  OBVIOUS
<1>3. x \ {e} \notin Bad
  BY <1>1, <1>2
<1>4. CASE x \ {e} = {}
  <2>1. IsLeast(e, x)
    BY <1>2, <1>4 DEF IsLeast
  <2> QED BY <2>1
<1>5. CASE x \ {e} # {}
  <2>1. PICK m : IsLeast(m, x \ {e})
    BY <1>3, <1>5
  <2>2. m \in Int /\ e \in Int
    BY <1>2, <2>1 DEF IsLeast
  <2>3. IsLeast(IF m <= e THEN m ELSE e, x)
    BY <1>2, <2>1, <2>2 DEF IsLeast
  <2> QED BY <2>3
<1> QED BY <1>4, <1>5

(* The last of a set of integers.                                         *)
LEMMA LastExists ==
  ASSUME NEW S, S \subseteq Int, IsFiniteSet(S), S # {}
  PROVE  \E m : IsLast(m, S)
<1> DEFINE Bad == {x \in SUBSET S : x # {} /\ ~ \E m : IsLast(m, x)}
<1> SUFFICES ASSUME Bad # {} PROVE FALSE
  OBVIOUS
<1>0. PICK x \in Bad : Minimal(x, Bad)
  <2>1. Bad \subseteq SUBSET S
    OBVIOUS
  <2> HIDE DEF Bad
  <2> QED BY <2>1, MinimalSubset
<1>1. x \in Bad /\ \A y \in Bad : ~ (y \subseteq x /\ y # x)
  BY <1>0 DEF Minimal
<1>2. PICK e : e \in x
  OBVIOUS
<1>3. x \ {e} \notin Bad
  BY <1>1, <1>2
<1>4. CASE x \ {e} = {}
  <2>1. IsLast(e, x)
    BY <1>2, <1>4 DEF IsLast
  <2> QED BY <2>1
<1>5. CASE x \ {e} # {}
  <2>1. PICK m : IsLast(m, x \ {e})
    BY <1>3, <1>5
  <2>2. m \in Int /\ e \in Int
    BY <1>2, <2>1 DEF IsLast
  <2>3. IsLast(IF m <= e THEN e ELSE m, x)
    BY <1>2, <2>1, <2>2 DEF IsLast
  <2> QED BY <2>3
<1> QED BY <1>4, <1>5

(* The members after t, and those with fewer than n after them.           *)
Later(t, S) == {u \in S : u > t}
KeptOf(S, n) == {t \in S : Cardinality(Later(t, S)) < n}

(* All of a set of n or less are kept.                                    *)
LEMMA KeptAll ==
  ASSUME NEW S, S \subseteq Int, IsFiniteSet(S), NEW n \in Nat, Cardinality(S) <= n
  PROVE  KeptOf(S, n) = S
<1>1. ASSUME NEW t \in S
      PROVE  Cardinality(Later(t, S)) < n
  <2>1. t \notin Later(t, S) /\ Later(t, S) \in SUBSET S
    BY DEF Later
  <2>2. /\ IsFiniteSet(Later(t, S)) /\ Cardinality(Later(t, S)) <= Cardinality(S)
        /\ Cardinality(S) # Cardinality(Later(t, S))
    BY <2>1, FS_Subset
  <2> QED BY <2>2, FS_CardinalityType
<1> QED BY <1>1 DEF KeptOf

(* Of a set of n or more exactly n are kept: a smallest set without this has*)
(* a first member, and leaving it out leaves another.                     *)
LEMMA KeptCount ==
  ASSUME NEW S, S \subseteq Int, IsFiniteSet(S), NEW n \in Nat, Cardinality(S) >= n
  PROVE  Cardinality(KeptOf(S, n)) = n
<1> DEFINE Bad == {x \in SUBSET S : Cardinality(x) >= n /\ Cardinality(KeptOf(x, n)) # n}
<1> SUFFICES ASSUME Bad # {} PROVE FALSE
  BY DEF Bad
<1>0. PICK x \in Bad : Minimal(x, Bad)
  <2>1. Bad \subseteq SUBSET S
    OBVIOUS
  <2> HIDE DEF Bad
  <2> QED BY <2>1, MinimalSubset
<1>1. x \in Bad /\ \A y \in Bad : ~ (y \subseteq x /\ y # x)
  BY <1>0 DEF Minimal
<1>2. IsFiniteSet(x) /\ x \subseteq Int /\ Cardinality(x) \in Nat
  BY FS_Subset, FS_CardinalityType
<1>3. Cardinality(x) # n
  BY <1>2, KeptAll
<1>4. Cardinality(x) > n
  BY <1>2, <1>3
<1>5. x # {}
  BY <1>4, FS_EmptySet
<1>6. PICK m : IsLeast(m, x)
  BY <1>2, <1>5, LeastExists
<1> DEFINE y == x \ {m}
<1>7. IsFiniteSet(y) /\ Cardinality(y) = Cardinality(x) - 1
  BY <1>2, <1>6, FS_RemoveElement DEF IsLeast
<1>8. y \notin Bad /\ y \in SUBSET S
  BY <1>1, <1>6 DEF IsLeast
<1>9. Cardinality(KeptOf(y, n)) = n
  BY <1>2, <1>4, <1>7, <1>8
<1>10. \A t \in y : Later(t, x) = Later(t, y)
  <2>1. \A t \in y : ~ (m > t)
    BY <1>2, <1>6 DEF IsLeast
  <2> QED BY <2>1 DEF Later
<1>11. Later(m, x) = y
  <2>1. \A u \in x : u > m <=> u # m
    BY <1>2, <1>6 DEF IsLeast
  <2> QED BY <2>1, Zenon DEF Later
<1>12. ~ (Cardinality(Later(m, x)) < n)
  BY <1>2, <1>4, <1>7, <1>11
<1>13. KeptOf(x, n) = KeptOf(y, n)
  BY <1>6, <1>10, <1>12 DEF KeptOf, IsLeast
<1> QED BY <1>9, <1>13

-----------------------------------------------------------------------------
(* The bars of an adapter, and the invariant: every candle from the first *)
(* bar of the window to the one in progress is final, on the way or lost, the*)
(* cache is covered so up to its newest bar, and the bars ahead of the    *)
(* context are at most the hour in progress and the last one.             *)

(* A table of bars up to a moment.                                        *)
IsWindow(w, top) ==
  /\ w = [bars |-> w.bars, partial |-> w.partial]
  /\ w.bars \subseteq 1 .. top /\ w.partial \subseteq w.bars

(* The values of the candle when it closed.                               *)
Final(w, t) == t \in w.bars /\ t \notin w.partial

(* From its first bar up to top a candle is final, or known.              *)
Covered(w, top, known) ==
  \A t \in 1 .. top - 1 : \A u \in w.bars :
    u <= t => Final(w, t) \/ t \in known

(* Accounted for, in the sense of the property; sent and not received.    *)
Lost == missed \cup skipped
OnTheWay == {wire[i] : i \in DOMAIN wire}

(* The cache is covered up to its newest bar.                             *)
CacheCovered ==
  \A t \in 1 .. current : \A u, v \in cache.bars :
    u <= t /\ t < v => Final(cache, t) \/ t \in Lost

(* The bars the context does not take in: none but the hour in progress, and*)
(* the last one, which _build_1h leaves out.                              *)
Ahead(w, c) == {t \in w.bars : t > c}

Fresh ==
  Cardinality(window.bars) >= MinBars
    => Cardinality(Ahead(window, context)) <= (Cardinality(window.bars) % Hour) + 1

(* The invariant.                                                         *)
MarketInv ==
  /\ current \in Nat /\ current >= 1
  /\ IsWindow(cache, current) /\ IsWindow(window, current)
  /\ client \in {"off", "connecting", "open"}
  /\ \/ wire = <<>>
     \/ /\ client = "open"
        /\ wire = <<current - 1>> /\ current > 1
        /\ window.bars \subseteq 1 .. current - 1
  /\ CacheCovered
  /\ Covered(window, current, OnTheWay \cup Lost)
  /\ Fresh

(* The limits of the code, one by one.                                    *)
LEMMA Sizes ==
  /\ HistoryLimit \in Nat /\ HistoryLimit >= 1
  /\ WindowSize \in Nat \ {0} /\ WarmLimit \in Nat \ {0} /\ Hour \in Nat \ {0}
  /\ MinBars \in Nat /\ MinBars >= 2
  /\ WindowSize % Hour = 0 /\ MinBars % Hour = 0
BY SizesAssumption

(* A set of candles is finite.                                            *)
LEMMA BarsAreFinite ==
  ASSUME NEW top \in Nat, NEW S, S \subseteq 1 .. top
  PROVE  IsFiniteSet(S) /\ S \subseteq Int /\ Cardinality(S) \in Nat
<1>1. IsFiniteSet(1 .. top)
  BY FS_Interval
<1>2. IsFiniteSet(S)
  BY <1>1, FS_Subset
<1> QED BY <1>2, FS_CardinalityType

(* LastBars keeps an upper part of the bars.                              *)
LEMMA LastBarsIs ==
  ASSUME NEW w, NEW n
  PROVE  LastBars(w, n) = [bars |-> KeptOf(w.bars, n),
                           partial |-> w.partial \cap KeptOf(w.bars, n)]
BY DEF LastBars, KeptOf, Later

(* With a bar, those after it are kept.                                   *)
LEMMA KeptIsUpper ==
  ASSUME NEW top \in Nat, NEW S, S \subseteq 1 .. top, NEW n \in Nat,
         NEW u \in KeptOf(S, n), NEW t \in S, u <= t
  PROVE  t \in KeptOf(S, n)
<1>1. IsFiniteSet(Later(u, S)) /\ Cardinality(Later(u, S)) \in Nat
  BY BarsAreFinite DEF Later
<1>2. u \in Int /\ t \in Int /\ \A x \in S : x \in Int
  BY DEF KeptOf
<1>3. Later(t, S) \subseteq Later(u, S)
  <2>1. \A x \in S : x > t => x > u
    BY <1>2
  <2> QED BY <2>1 DEF Later
<1>4. Cardinality(Later(t, S)) <= Cardinality(Later(u, S)) /\ Cardinality(Later(t, S)) \in Nat
  BY <1>1, <1>3, FS_Subset, FS_CardinalityType
<1> QED BY <1>1, <1>4 DEF KeptOf

(* What is kept is a table of bars.                                       *)
LEMMA LastBarsWindow ==
  ASSUME NEW top \in Nat, NEW w, IsWindow(w, top), NEW n
  PROVE  IsWindow(LastBars(w, n), top)
<1>1. LastBars(w, n) = [bars |-> KeptOf(w.bars, n), partial |-> w.partial \cap KeptOf(w.bars, n)]
  BY LastBarsIs
<1>2. KeptOf(w.bars, n) \subseteq w.bars
  BY DEF KeptOf
<1> QED BY <1>1, <1>2 DEF IsWindow

(* A final candle stays one, if one before it is kept.                    *)
LEMMA LastBarsFinal ==
  ASSUME NEW top \in Nat, NEW w, IsWindow(w, top), NEW n \in Nat,
         NEW u \in LastBars(w, n).bars, NEW t, Final(w, t), u <= t
  PROVE  Final(LastBars(w, n), t)
<1>1. LastBars(w, n) = [bars |-> KeptOf(w.bars, n), partial |-> w.partial \cap KeptOf(w.bars, n)]
  BY LastBarsIs
<1>2. t \in KeptOf(w.bars, n)
  BY <1>1, KeptIsUpper DEF IsWindow, Final
<1> QED BY <1>1, <1>2 DEF Final

(* Nothing is made up.                                                    *)
LEMMA LastBarsSubset ==
  ASSUME NEW w, NEW n
  PROVE  LastBars(w, n).bars \subseteq w.bars
BY LastBarsIs DEF KeptOf

(* What is kept is covered as before.                                     *)
LEMMA LastBarsCovered ==
  ASSUME NEW top \in Nat, NEW w, IsWindow(w, top), NEW n \in Nat, NEW known,
         Covered(w, top, known)
  PROVE  Covered(LastBars(w, n), top, known)
BY LastBarsSubset, LastBarsFinal DEF Covered

-----------------------------------------------------------------------------
(* The properties follow from the invariant.                              *)

(* The newest bar.                                                        *)
LEMMA NewestIsLast ==
  ASSUME NEW top \in Nat, NEW w, IsWindow(w, top), w.bars # {}
  PROVE  IsLast(Newest(w), w.bars)
<1>1. \E m : IsLast(m, w.bars)
  BY BarsAreFinite, LastExists DEF IsWindow
<1> QED BY <1>1 DEF Newest, IsLast

(* A window has bars.                                                     *)
LEMMA EmptyIsNone ==
  ASSUME NEW top, NEW w, IsWindow(w, top), w # NoBars
  PROVE  w.bars # {}
<1> SUFFICES ASSUME w.bars = {} PROVE FALSE
  OBVIOUS
<1>1. w.partial = {}
  BY DEF IsWindow
<1> QED BY <1>1 DEF IsWindow, NoBars

(* From the first bar to the newest one every candle is final, in progress,*)
(* on the way or lost.                                                    *)
LEMMA InvGaps ==
  MarketInv => GapsAreAccounted
<1> SUFFICES ASSUME MarketInv, window # NoBars PROVE GapsAreAccounted
  BY DEF GapsAreAccounted
<1>1. current \in Nat /\ IsWindow(window, current)
      /\ Covered(window, current, OnTheWay \cup Lost)
  BY DEF MarketInv
<1>2. IsLast(Newest(window), window.bars)
  BY <1>1, EmptyIsNone, NewestIsLast
<1>3. ASSUME NEW t \in 1 .. Newest(window), t \notin window.bars,
             NEW u \in window.bars, u < t
      PROVE  t \in Lost
  <2>1. Newest(window) \in 1 .. current /\ t # Newest(window) /\ u \in Int
        /\ Newest(window) \in window.bars
    BY <1>1, <1>2, <1>3 DEF IsLast, IsWindow
  <2>2. t \in 1 .. current - 1 /\ u <= t
    BY <1>1, <1>3, <2>1
  <2>3. ~ Final(window, t)
    BY <1>3 DEF Final
  <2>4. t \in OnTheWay \cup Lost
    BY <1>1, <1>3, <2>2, <2>3 DEF Covered
  <2>5. t \notin OnTheWay
    <3>1. SUFFICES ASSUME t \in OnTheWay PROVE FALSE
      OBVIOUS
    <3>2. /\ wire = <<current - 1>>
          /\ window.bars \subseteq 1 .. current - 1
      BY <3>1 DEF MarketInv, OnTheWay
    <3>3. t = current - 1
      BY <3>1, <3>2 DEF OnTheWay
    <3> QED BY <1>1, <1>3, <2>1, <3>2, <3>3
  <2> QED BY <2>4, <2>5
<1>4. ASSUME NEW t \in window.partial, t # current, t \notin OnTheWay
      PROVE  t \in Lost
  <2>1. t \in window.bars /\ t \in 1 .. current - 1 /\ t <= t
    BY <1>1, <1>4 DEF IsWindow
  <2>2. ~ Final(window, t)
    BY <1>4 DEF Final
  <2> QED BY <1>1, <1>4, <2>1, <2>2 DEF Covered
<1> QED BY <1>3, <1>4 DEF GapsAreAccounted, Lost, OnTheWay

(* Nonlinear arithmetic: the rest of a division.                          *)
LEMMA ModOf ==
  ASSUME NEW s \in Nat \ {0}, NEW k \in Int, NEW r \in 0 .. s - 1
  PROVE  (s * k + r) % s = r
<1> DEFINE x == s * k + r
           d == x \div s
           m == x % s
<1>1. x \in Int
  OBVIOUS
<1>2. d \in Int /\ m \in 0 .. s - 1 /\ x = s * d + m
  BY <1>1
<1>3. s * (k - d) = m - r
  BY <1>2
<1>4. CASE k = d
  BY <1>2, <1>4
<1>5. CASE k > d
  <2>1. k - d >= 1 /\ k - d \in Nat
    BY <1>2, <1>5
  <2>2. s * (k - d) >= s
    BY <2>1
  <2> QED BY <1>2, <1>3, <2>2
<1>6. CASE k < d
  <2>1. d - k >= 1 /\ d - k \in Nat
    BY <1>2, <1>6
  <2>2. s * (d - k) >= s
    BY <2>1
  <2>3. s * (d - k) = r - m
    BY <1>2
  <2> QED BY <1>2, <2>2, <2>3
<1> QED BY <1>2, <1>4, <1>5, <1>6

(* The rest after one more: the next one, or none.                        *)
LEMMA NextMod ==
  ASSUME NEW s \in Nat \ {0}, NEW b \in Nat
  PROVE  (b + 1) % s = 0 \/ (b + 1) % s = (b % s) + 1
<1> DEFINE q == b \div s
           r == b % s
<1>1. q \in Int /\ r \in 0 .. s - 1 /\ b = s * q + r
  OBVIOUS
<1>2. CASE r + 1 = s
  <2>1. b + 1 = s * (q + 1) + 0
    BY <1>1, <1>2
  <2>2. (s * (q + 1) + 0) % s = 0
    BY <1>1, ModOf
  <2> QED BY <2>1, <2>2
<1>3. CASE r + 1 # s
  <2>1. r + 1 \in 0 .. s - 1
    BY <1>1, <1>3
  <2>2. b + 1 = s * q + (r + 1)
    BY <1>1
  <2>3. (s * q + (r + 1)) % s = r + 1
    BY <1>1, <2>1, ModOf
  <2> QED BY <2>2, <2>3
<1> QED BY <1>2, <1>3

(* A rest is less than an hour.                                           *)
LEMMA InvFresh ==
  MarketInv => ContextIsFresh
<1> SUFFICES ASSUME MarketInv, Cardinality(window.bars) >= MinBars
             PROVE  Cardinality(Ahead(window, context)) <= Hour
  BY DEF ContextIsFresh, Ahead
<1>1. Cardinality(Ahead(window, context)) <= (Cardinality(window.bars) % Hour) + 1
  BY DEF MarketInv, Fresh
<1>2. Cardinality(window.bars) \in Nat /\ Cardinality(Ahead(window, context)) \in Nat
  BY BarsAreFinite DEF MarketInv, IsWindow, Ahead
<1>3. Cardinality(window.bars) % Hour \in 0 .. Hour - 1
  BY <1>2, Sizes
<1> QED BY <1>1, <1>2, <1>3, Sizes

-----------------------------------------------------------------------------
(* The steps of the market.                                               *)

(* No bars are covered.                                                   *)
LEMMA NoBarsIsWindow ==
  ASSUME NEW top
  PROVE  IsWindow(NoBars, top) /\ \A known : Covered(NoBars, top, known)
BY DEF IsWindow, NoBars, Covered

(* No bars are too few.                                                   *)
LEMMA NoBarsFresh ==
  Cardinality(NoBars.bars) < MinBars
<1>1. NoBars.bars = {}
  BY DEF NoBars
<1>2. Cardinality(NoBars.bars) = 0
  BY <1>1, FS_EmptySet, Zenon
<1> QED BY <1>2, Sizes

(* It holds at first.                                                     *)
LEMMA MarketInitInv ==
  MarketInit => MarketInv
<1> SUFFICES ASSUME MarketInit PROVE MarketInv
  OBVIOUS
<1>1. current \in Nat /\ current >= 1
  BY SizesAssumption DEF MarketInit
<1>2. CacheCovered
  BY DEF MarketInit, CacheCovered, NoBars
<1>3. Fresh
  BY NoBarsFresh, FS_EmptySet, Sizes DEF MarketInit, Fresh, NoBars
<1> QED BY <1>1, <1>2, <1>3, NoBarsIsWindow DEF MarketInit, MarketInv

(* A table stays one as time passes.                                      *)
LEMMA WindowGrows ==
  ASSUME NEW w, NEW top \in Nat, IsWindow(w, top)
  PROVE  IsWindow(w, top + 1)
BY DEF IsWindow

(* A candle closes: it is sent, or missed.                                *)
LEMMA CloseKeepsInv ==
  ASSUME MarketInv, Close
  PROVE  MarketInv'
<1>1. /\ current \in Nat /\ current >= 1 /\ current' = current + 1
      /\ wire = <<>>
      /\ UNCHANGED <<cache, window, context, client, queue, loads, drops, skipped>>
      /\ \/ client = "open" /\ wire' = <<current>> /\ missed' = missed
         \/ missed' = missed \cup {current} /\ wire' = wire
  BY DEF Close, MarketInv
<1>2. IsWindow(cache, current)' /\ IsWindow(window, current)'
  BY <1>1, WindowGrows DEF MarketInv
<1>3. Lost \subseteq Lost'
  BY <1>1 DEF Lost
<1>4. current \in (OnTheWay \cup Lost)'
  BY <1>1 DEF OnTheWay, Lost
<1>5. CacheCovered'
  <2> SUFFICES ASSUME NEW t \in 1 .. current + 1, NEW u \in cache.bars, NEW v \in cache.bars,
                      u <= t, t < v
               PROVE  Final(cache, t) \/ t \in Lost'
    BY <1>1 DEF CacheCovered, Final
  <2>1. v \in 1 .. current
    BY DEF MarketInv, IsWindow
  <2>2. t \in 1 .. current
    BY <1>1, <2>1
  <2> QED BY <1>3, <2>2 DEF MarketInv, CacheCovered
<1>6. Covered(window, current, OnTheWay \cup Lost)'
  <2>1. OnTheWay = {}
    BY <1>1 DEF OnTheWay
  <2> SUFFICES ASSUME NEW t \in 1 .. current, NEW u \in window.bars, u <= t
               PROVE  Final(window, t) \/ t \in (OnTheWay \cup Lost)'
    BY <1>1 DEF Covered, Final
  <2>2. CASE t = current
    BY <1>4, <2>2
  <2>3. CASE t # current
    <3>1. t \in 1 .. current - 1
      BY <1>1, <2>3
    <3>2. Final(window, t) \/ t \in Lost
      BY <2>1, <3>1 DEF MarketInv, Covered
    <3> QED BY <1>3, <3>2
  <2> QED BY <2>2, <2>3
<1>7. Fresh'
  BY <1>1 DEF MarketInv, Fresh, Ahead
<1>8. \/ wire' = <<>>
      \/ client' = "open" /\ wire' = <<current' - 1>> /\ current' > 1
         /\ window'.bars \subseteq 1 .. current' - 1
  BY <1>1 DEF MarketInv, IsWindow
<1> QED BY <1>1, <1>2, <1>5, <1>6, <1>7, <1>8 DEF MarketInv

(* A load of the exchange's bars: all but the last one are final.         *)
LEMMA LoadedIsWindow ==
  ASSUME current \in Nat, current >= 1, NEW limit \in Nat \ {0}
  PROVE  /\ IsWindow(Loaded(limit), current)
         /\ \A t \in 1 .. current - 1 : t > current - limit => Final(Loaded(limit), t)
         /\ current \in Loaded(limit).bars
BY DEF Loaded, IsWindow, Final

(* The later load wins: what is final in it, or final and outside it.     *)
LEMMA ConcatIs ==
  ASSUME NEW top, NEW old, IsWindow(old, top), NEW new, IsWindow(new, top)
  PROVE  /\ IsWindow(Concat(old, new), top)
         /\ \A t : Final(new, t) => Final(Concat(old, new), t)
         /\ \A t : Final(old, t) /\ t \notin new.bars => Final(Concat(old, new), t)
         /\ Concat(old, new).bars = old.bars \cup new.bars
BY DEF Concat, IsWindow, Final

(* The bars before LastBars: every closed candle from the first one on is *)
(* final, or lost before or now.                                          *)
Joined == IF cache = NoBars THEN Loaded(HistoryLimit) ELSE Concat(cache, Loaded(WarmLimit))

(* With what the warm load did not reach, the bars of a load are covered. *)
LEMMA JoinedIsCovered ==
  ASSUME MarketInv
  PROVE  /\ IsWindow(Joined, current)
         /\ Covered(Joined, current, Lost \cup OutOfReach)
<1>1. current \in Nat /\ current >= 1 /\ IsWindow(cache, current)
  BY DEF MarketInv
<1>2. CASE cache = NoBars
  <2>1. IsWindow(Loaded(HistoryLimit), current)
        /\ \A t \in 1 .. current - 1 : t > current - HistoryLimit => Final(Loaded(HistoryLimit), t)
    BY <1>1, Sizes, LoadedIsWindow
  <2>2. \A u \in Loaded(HistoryLimit).bars : u \in Int /\ u > current - HistoryLimit
    BY DEF Loaded
  <2>3. Joined = Loaded(HistoryLimit)
    BY <1>2 DEF Joined
  <2>4. Covered(Loaded(HistoryLimit), current, Lost \cup OutOfReach)
    <3> SUFFICES ASSUME NEW t \in 1 .. current - 1, NEW u \in Loaded(HistoryLimit).bars, u <= t
                 PROVE  Final(Loaded(HistoryLimit), t)
      BY DEF Covered
    <3>1. t > current - HistoryLimit
      BY <1>1, <2>2, Sizes
    <3> QED BY <2>1, <3>1
  <2> QED BY <2>1, <2>3, <2>4
<1>3. CASE cache # NoBars
  <2> DEFINE new == Loaded(WarmLimit)
  <2>1. /\ IsWindow(new, current)
        /\ \A t \in 1 .. current - 1 : t > current - WarmLimit => Final(new, t)
    BY <1>1, Sizes, LoadedIsWindow
  <2>2. \A u \in new.bars : u \in Int /\ u > current - WarmLimit
    BY DEF Loaded
  <2>3. Joined = Concat(cache, new)
    BY <1>3 DEF Joined
  <2> HIDE DEF new
  <2>4. /\ IsWindow(Joined, current)
        /\ \A t : Final(new, t) => Final(Joined, t)
        /\ \A t : Final(cache, t) /\ t \notin new.bars => Final(Joined, t)
        /\ Joined.bars = cache.bars \cup new.bars
    BY <1>1, <2>1, <2>3, ConcatIs
  <2>5. IsLast(Newest(cache), cache.bars)
    BY <1>1, <1>3, EmptyIsNone, NewestIsLast
  <2>6. ASSUME NEW t \in 1 .. current - 1, NEW u \in Joined.bars, u <= t
        PROVE  Final(Joined, t) \/ t \in Lost \cup OutOfReach
    <3>1. CASE t > current - WarmLimit
      BY <2>1, <2>4, <3>1
    <3>2. CASE t <= current - WarmLimit
      <4>1. t \notin new.bars /\ u \in cache.bars
        BY <1>1, <2>2, <2>4, <2>6, <3>2, Sizes
      <4>2. CASE Newest(cache) <= t
        <5>1. t \in OutOfReach
          BY <1>1, <1>3, <3>2, <4>2 DEF OutOfReach
        <5> QED BY <5>1
      <4>3. CASE ~ (Newest(cache) <= t)
        <5>1. Newest(cache) \in cache.bars /\ Newest(cache) \in Int /\ t < Newest(cache)
          BY <1>1, <2>5, <4>3 DEF IsLast, IsWindow
        <5>2. t \in 1 .. current
          BY <1>1
        <5>3. Final(cache, t) \/ t \in Lost
          BY <2>6, <4>1, <5>1, <5>2 DEF MarketInv, CacheCovered
        <5> QED BY <2>4, <4>1, <5>3
      <4> QED BY <4>2, <4>3
    <3> QED BY <1>1, <3>1, <3>2, Sizes
  <2> QED BY <2>4, <2>6 DEF Covered
<1> QED BY <1>2, <1>3

(* A new adapter.                                                         *)
LEMMA LoadKeepsInv ==
  ASSUME MarketInv, Load
  PROVE  MarketInv'
<1>1. /\ current \in Nat /\ current >= 1 /\ current' = current
      /\ cache' = History /\ window' = History /\ context' = current
      /\ missed' = missed /\ skipped' = skipped \cup OutOfReach
      /\ wire' = <<>> /\ client' = "connecting"
  BY DEF Load, MarketInv
<1>2. History = LastBars(Joined, HistoryLimit)
  BY DEF History, Joined
<1>3. IsWindow(History, current) /\ Covered(History, current, Lost \cup OutOfReach)
  BY <1>1, <1>2, JoinedIsCovered, LastBarsWindow, LastBarsCovered, Sizes
<1>4. Lost' = Lost \cup OutOfReach
  BY <1>1 DEF Lost
<1> HIDE DEF History, Lost, OutOfReach
<1>5. CacheCovered'
  <2> SUFFICES ASSUME NEW t \in 1 .. current, NEW u \in History.bars, NEW v \in History.bars,
                      u <= t, t < v
               PROVE  Final(History, t) \/ t \in Lost'
    BY <1>1 DEF CacheCovered, Final
  <2>1. v \in 1 .. current
    BY <1>3 DEF IsWindow
  <2>2. t \in 1 .. current - 1
    BY <1>1, <2>1
  <2> QED BY <1>3, <1>4, <2>2 DEF Covered
<1>6. Covered(window, current, OnTheWay \cup Lost)'
  <2> SUFFICES ASSUME NEW t \in 1 .. current - 1, NEW u \in History.bars, u <= t
               PROVE  Final(History, t) \/ t \in Lost'
    BY <1>1 DEF Covered, Final
  <2> QED BY <1>3, <1>4 DEF Covered
<1>7. Fresh'
  <2>1. Ahead(History, current) = {}
    BY <1>1, <1>3 DEF Ahead, IsWindow
  <2>2. Cardinality(Ahead(History, current)) = 0
    BY <2>1, FS_EmptySet
  <2>3. Cardinality(History.bars) \in Nat
    BY <1>1, <1>3, BarsAreFinite DEF IsWindow
  <2>4. Cardinality(History.bars) % Hour \in Nat
    BY <2>3, Sizes
  <2>5. Cardinality(Ahead(History, current)) <= (Cardinality(History.bars) % Hour) + 1
    BY <2>2, <2>4
  <2> QED BY <1>1, <2>5 DEF Fresh, Ahead
<1> QED BY <1>1, <1>3, <1>5, <1>6, <1>7 DEF MarketInv

(* Steps that leave candles, cache and window alone.                      *)
LEMMA LeavesBars ==
  ASSUME MarketInv, UNCHANGED <<current, cache, window, context>>,
         client' \in {"off", "connecting", "open"},
         \/ wire' = <<>>
         \/ client' = client /\ wire' = wire,
         OnTheWay \cup Lost \subseteq (OnTheWay \cup Lost)', Lost \subseteq Lost'
  PROVE  MarketInv'
<1>1. CacheCovered'
  BY DEF MarketInv, CacheCovered, Final
<1>2. Covered(window, current, OnTheWay \cup Lost)'
  BY DEF MarketInv, Covered, Final
<1>3. Fresh'
  BY DEF MarketInv, Fresh, Ahead
<1> QED BY <1>1, <1>2, <1>3 DEF MarketInv, IsWindow

(* The websocket opens.                                                   *)
LEMMA ConnectKeepsInv ==
  ASSUME MarketInv, Connect
  PROVE  MarketInv'
<1>1. wire = <<>>
  BY DEF MarketInv, Connect
<1> QED BY <1>1, LeavesBars DEF Connect, OnTheWay, Lost

(* It breaks: what was on the way is missed.                              *)
LEMMA DisconnectKeepsInv ==
  ASSUME MarketInv, Disconnect
  PROVE  MarketInv'
<1>1. missed' = missed \cup OnTheWay /\ wire' = <<>> /\ client' = "connecting"
      /\ UNCHANGED <<current, cache, window, context, skipped>>
  BY DEF Disconnect, OnTheWay
<1>2. OnTheWay \cup Lost \subseteq (OnTheWay \cup Lost)' /\ Lost \subseteq Lost'
  BY <1>1 DEF Lost
<1> QED BY <1>1, <1>2, LeavesBars

(* The strategy takes a bar.                                              *)
LEMMA HandleBarKeepsInv ==
  ASSUME MarketInv, HandleBar
  PROVE  MarketInv'
BY LeavesBars DEF HandleBar, OnTheWay, Lost, MarketInv

(* The adapter stops.                                                     *)
LEMMA StopKeepsInv ==
  ASSUME MarketInv, Stop
  PROVE  MarketInv'
<1>1. /\ client' = "off" /\ window' = NoBars /\ context' = 0 /\ wire' = <<>>
      /\ missed' = missed \cup OnTheWay
      /\ UNCHANGED <<current, cache, loads, drops, skipped>>
  BY DEF Stop, OnTheWay
<1>2. Lost \subseteq Lost'
  BY <1>1 DEF Lost
<1>3. CacheCovered'
  BY <1>1, <1>2 DEF MarketInv, CacheCovered, Final
<1>4. Fresh'
  BY <1>1, NoBarsFresh, Sizes, FS_EmptySet DEF Fresh, NoBars
<1>5. IsWindow(window, current)' /\ Covered(window, current, OnTheWay \cup Lost)'
  BY <1>1, NoBarsIsWindow
<1>6. IsWindow(cache, current)' /\ current' \in Nat /\ current' >= 1
  BY <1>1 DEF MarketInv
<1> QED BY <1>1, <1>3, <1>4, <1>5, <1>6 DEF MarketInv

(* The bars the window has after a candle, and how far the context is     *)
(* behind them.                                                           *)
Added(t) == [bars |-> window.bars \cup {t}, partial |-> window.partial \ {t}]

(* A context just built is behind by the last bar only.                   *)
LEMMA RebuiltIsOneBehind ==
  ASSUME NEW top \in Nat, NEW w, IsWindow(w, top), Cardinality(w.bars) >= 2
  PROVE  Cardinality(Ahead(w, Build1h(w))) = 1
<1> DEFINE m == Newest(w)
           x == [w EXCEPT !.bars = @ \ {m}]
<1>1. IsFiniteSet(w.bars) /\ w.bars \subseteq Int /\ Cardinality(w.bars) \in Nat
  BY BarsAreFinite DEF IsWindow
<1>2. w.bars # {}
  BY <1>1, FS_EmptySet
<1>3. IsLast(m, w.bars)
  BY <1>2, NewestIsLast
<1>4. x.bars = w.bars \ {m}
  BY DEF IsWindow
<1>5. IsFiniteSet(x.bars) /\ Cardinality(x.bars) = Cardinality(w.bars) - 1
  BY <1>1, <1>3, <1>4, FS_RemoveElement DEF IsLast
<1>6. x.bars # {}
  BY <1>1, <1>5, FS_EmptySet
<1>7. \E l : IsLast(l, x.bars)
  BY <1>1, <1>4, <1>5, <1>6, LastExists
<1>8. Build1h(w) = Newest(x)
  BY DEF Build1h
<1> HIDE DEF x
<1>9. IsLast(Newest(x), x.bars)
  BY <1>7 DEF Newest, IsLast
<1>10. Ahead(w, Newest(x)) = {m}
  <2>1. Newest(x) \in Int /\ m \in Int /\ Newest(x) < m
    BY <1>1, <1>3, <1>4, <1>9 DEF IsLast
  <2>2. \A u \in w.bars : u > Newest(x) <=> u = m
    BY <1>1, <1>3, <1>4, <1>9, <2>1 DEF IsLast
  <2>3. m \in w.bars
    BY <1>3 DEF IsLast
  <2> HIDE DEF m
  <2> QED BY <2>2, <2>3, Zenon DEF Ahead
<1> QED BY <1>8, <1>10, FS_Singleton

(* After a candle the context is as near as the invariant asks: it was built*)
(* at this candle, or is one bar further behind in an hour still in progress.*)
LEMMA PushedFresh ==
  ASSUME MarketInv, NEW t \in 1 .. current, NEW c,
         NEW w, w = Pushed(t),
         IF Cardinality(w.bars) < MinBars THEN c = context ELSE c = NextContext(w)
  PROVE  Cardinality(w.bars) >= MinBars
           => Cardinality(Ahead(w, c)) <= (Cardinality(w.bars) % Hour) + 1
<1> SUFFICES ASSUME Cardinality(w.bars) >= MinBars
             PROVE  Cardinality(Ahead(w, c)) <= (Cardinality(w.bars) % Hour) + 1
  OBVIOUS
<1> DEFINE b == window.bars
           k == w.bars
<1>1. current \in Nat /\ IsWindow(window, current) /\ IsWindow(Added(t), current)
  BY DEF MarketInv, IsWindow, Added
<1>2. w = LastBars(Added(t), WindowSize)
  BY DEF Pushed, Added
<1>3. k = KeptOf(b \cup {t}, WindowSize)
  <2>1. Added(t).bars = b \cup {t}
    BY DEF Added
  <2>2. LastBars(Added(t), WindowSize).bars = KeptOf(Added(t).bars, WindowSize)
    BY LastBarsIs
  <2> QED BY <1>2, <2>1, <2>2, Zenon
<1>4. IsWindow(w, current)
  BY <1>1, <1>2, LastBarsWindow
<1>5. /\ IsFiniteSet(k) /\ Cardinality(k) \in Nat
      /\ IsFiniteSet(b) /\ Cardinality(b) \in Nat
      /\ b \cup {t} \subseteq Int /\ IsFiniteSet(b \cup {t})
      /\ Cardinality(b \cup {t}) \in Nat
  BY <1>1, <1>4, BarsAreFinite DEF IsWindow
<1>6. c = NextContext(w)
  BY <1>5, Sizes
<1>7. Cardinality(k) % Hour \in Nat
  BY <1>5, Sizes
<1>8. CASE Rebuilds(w)
  <2>1. c = Build1h(w)
    BY <1>6, <1>8 DEF NextContext
  <2>2. Cardinality(Ahead(w, c)) = 1
    BY <1>1, <1>4, <1>5, <2>1, RebuiltIsOneBehind, Sizes
  <2> QED BY <1>7, <2>2
<1>9. CASE ~ Rebuilds(w)
  <2>1. c = context
    BY <1>6, <1>9 DEF NextContext
  <2>2. Cardinality(k) % Hour # 0
    BY <1>9 DEF Rebuilds
  <2>3. Cardinality(k) # WindowSize /\ Cardinality(k) # MinBars
    BY <2>2, Sizes
  <2>4. ~ (Cardinality(b \cup {t}) >= WindowSize)
    BY <1>3, <1>5, <2>3, KeptCount, Sizes
  <2>5. k = b \cup {t}
    BY <1>3, <1>5, <2>4, KeptAll, Sizes
  <2>6. CASE t \in b
    <3>1. k = b
      BY <2>5, <2>6
    <3>2. Ahead(w, c) = Ahead(window, context)
      BY <2>1, <3>1 DEF Ahead
    <3> QED BY <3>1, <3>2 DEF MarketInv, Fresh
  <2>7. CASE t \notin b
    <3>1. Cardinality(k) = Cardinality(b) + 1
      BY <1>5, <2>5, <2>7, FS_AddElement
    <3>2. Cardinality(k) % Hour = (Cardinality(b) % Hour) + 1
      BY <1>5, <2>2, <3>1, NextMod, Sizes
    <3>3. Cardinality(b) >= MinBars
      BY <1>5, <2>3, <3>1, Sizes
    <3>4. Cardinality(Ahead(window, context)) <= (Cardinality(b) % Hour) + 1
      BY <3>3 DEF MarketInv, Fresh
    <3>5. Ahead(w, c) \subseteq Ahead(window, context) \cup {t}
      BY <2>1, <2>5 DEF Ahead
    <3>6. IsFiniteSet(Ahead(window, context)) /\ Cardinality(Ahead(window, context)) \in Nat
      BY <1>5, FS_Subset, FS_CardinalityType DEF Ahead
    <3>7. /\ IsFiniteSet(Ahead(window, context) \cup {t})
          /\ Cardinality(Ahead(window, context) \cup {t})
               <= Cardinality(Ahead(window, context)) + 1
          /\ Cardinality(Ahead(window, context) \cup {t}) \in Nat
      <4>1. PICK a : a = Ahead(window, context)
        OBVIOUS
      <4>2. IsFiniteSet(a \cup {t})
            /\ Cardinality(a \cup {t}) = IF t \in a THEN Cardinality(a) ELSE Cardinality(a) + 1
        BY <3>6, <4>1, FS_AddElement
      <4>3. IsFiniteSet(a \cup {t}) /\ Cardinality(a) \in Nat
            /\ Cardinality(a \cup {t}) <= Cardinality(a) + 1 /\ Cardinality(a \cup {t}) \in Nat
        BY <3>6, <4>1, <4>2
      <4> QED BY <4>1, <4>3
    <3>8. /\ Cardinality(Ahead(w, c)) <= Cardinality(Ahead(window, context) \cup {t})
          /\ Cardinality(Ahead(w, c)) \in Nat
      BY <3>5, <3>7, FS_Subset, FS_CardinalityType
    <3>9. Cardinality(b) % Hour \in Nat
      BY <1>5, Sizes
    <3> QED BY <3>2, <3>4, <3>6, <3>7, <3>8, <3>9
  <2> QED BY <2>6, <2>7
<1> QED BY <1>8, <1>9

(* A candle is received: it replaces the one that was open at the load, or*)
(* is appended.                                                           *)
LEMMA PushKeepsInv ==
  ASSUME MarketInv, Push
  PROVE  MarketInv'
<1> DEFINE t == Head(wire)
<1>1. /\ wire # <<>> /\ wire' = Tail(wire)
      /\ window' = Pushed(t)
      /\ IF Cardinality(Pushed(t).bars) < MinBars THEN context' = context
         ELSE context' = NextContext(Pushed(t))
      /\ UNCHANGED <<current, cache, client, loads, drops, missed, skipped>>
  BY DEF Push
<1>2. /\ client = "open" /\ wire = <<current - 1>> /\ current > 1
      /\ current \in Nat /\ window.bars \subseteq 1 .. current - 1
  BY <1>1 DEF MarketInv
<1>3. t = current - 1 /\ wire' = <<>> /\ OnTheWay = {t} /\ t \in 1 .. current - 1
  BY <1>1, <1>2 DEF OnTheWay
<1> HIDE DEF t
<1>4. IsWindow(Added(t), current)
  BY <1>2, <1>3 DEF MarketInv, IsWindow, Added
<1>5. Covered(Added(t), current, Lost)
  <2> SUFFICES ASSUME NEW x \in 1 .. current - 1, NEW u \in Added(t).bars, u <= x
               PROVE  Final(Added(t), x) \/ x \in Lost
    BY DEF Covered
  <2>1. CASE x = t
    BY <2>1 DEF Final, Added
  <2>2. CASE x # t
    <3>1. u # t
      BY <1>2, <1>3, <2>2
    <3>2. u \in window.bars
      BY <3>1 DEF Added
    <3>3. Final(window, x) \/ x \in Lost
      BY <1>3, <2>2, <3>2 DEF MarketInv, Covered
    <3> QED BY <2>2, <3>3 DEF Final, Added
  <2> QED BY <2>1, <2>2
<1>6. window' = LastBars(Added(t), WindowSize)
  BY <1>1 DEF Pushed, Added
<1>7. IsWindow(window', current) /\ Covered(window', current, Lost)
  BY <1>2, <1>4, <1>5, <1>6, LastBarsWindow, LastBarsCovered, Sizes
<1>8. Lost' = Lost
  BY <1>1 DEF Lost
<1>9. (IsWindow(window, current) /\ Covered(window, current, OnTheWay \cup Lost))'
  BY <1>1, <1>7, <1>8 DEF Covered, IsWindow, Final
<1>10. Cardinality(window'.bars) >= MinBars
         => Cardinality(Ahead(window', context')) <= (Cardinality(window'.bars) % Hour) + 1
  BY <1>1, <1>2, <1>3, PushedFresh
<1>11. Fresh'
  BY <1>10 DEF Fresh, Ahead
<1>12. CacheCovered'
  BY <1>1, <1>8 DEF MarketInv, CacheCovered, Final
<1>13. IsWindow(cache, current)'
  BY <1>1 DEF MarketInv, IsWindow
<1> QED BY <1>1, <1>2, <1>3, <1>9, <1>11, <1>12, <1>13 DEF MarketInv

(* Every step keeps the invariant.                                        *)
LEMMA MarketNextInv ==
  MarketInv /\ [MarketNext]_marketVars => MarketInv'
<1> SUFFICES ASSUME MarketInv, [MarketNext]_marketVars PROVE MarketInv'
  OBVIOUS
<1>1. CASE UNCHANGED marketVars
  BY <1>1, LeavesBars DEF marketVars, MarketInv, OnTheWay, Lost
<1> QED BY <1>1, CloseKeepsInv, LoadKeepsInv, ConnectKeepsInv, DisconnectKeepsInv,
           PushKeepsInv, HandleBarKeepsInv, StopKeepsInv DEF MarketNext

(* For any limits of the history, the window and the queue, and however long*)
(* it runs: a candle missing or not final in the window was closed with no*)
(* websocket, or lies before what a warm load reached.                    *)
THEOREM GapsAlwaysAccounted ==
  MarketSpec => []GapsAreAccounted
BY InvGaps, MarketInitInv, MarketNextInv, PTL DEF MarketSpec

(* For any window and minimum of whole hours: the bar the strategy is called*)
(* with is at most an hour ahead of its hourly context.                   *)
THEOREM ContextAlwaysFresh ==
  MarketSpec => []ContextIsFresh
BY InvFresh, MarketInitInv, MarketNextInv, PTL DEF MarketSpec

(* The types, from the invariant.                                         *)

MarketTypes == MarketTypeOK /\ queue \in Seq(Int)

(* LastBars keeps its limit.                                              *)
LEMMA KeptAtMost ==
  ASSUME NEW top \in Nat, NEW w, IsWindow(w, top), NEW n \in Nat
  PROVE  Cardinality(LastBars(w, n).bars) <= n
<1>1. LastBars(w, n).bars = KeptOf(w.bars, n)
  BY LastBarsIs
<1>2. IsFiniteSet(w.bars) /\ w.bars \subseteq Int /\ Cardinality(w.bars) \in Nat
  BY BarsAreFinite DEF IsWindow
<1>3. CASE Cardinality(w.bars) >= n
  BY <1>1, <1>2, <1>3, KeptCount
<1>4. CASE ~ (Cardinality(w.bars) >= n)
  <2>1. KeptOf(w.bars, n) = w.bars
    BY <1>2, <1>4, KeptAll
  <2> QED BY <1>1, <1>2, <1>4, <2>1
<1> QED BY <1>3, <1>4

(* The last candle of a rebuilt context is one of the past.               *)
LEMMA ContextIsABar ==
  ASSUME MarketInv, MarketTypes, NEW t \in 1 .. current, NEW w, w = Pushed(t),
         Cardinality(w.bars) >= MinBars
  PROVE  NextContext(w) \in 0 .. current
<1>1. current \in Nat /\ context \in 0 .. current
  BY DEF MarketInv, MarketTypes, MarketTypeOK
<1>2. IsWindow(Added(t), current)
  BY DEF MarketInv, IsWindow, Added
<1>3. w = LastBars(Added(t), WindowSize)
  BY DEF Pushed, Added
<1>4. IsWindow(w, current)
  BY <1>1, <1>2, <1>3, LastBarsWindow
<1>5. PICK x : x = w.bars \ {Newest(w)}
  OBVIOUS
<1>6. x \subseteq 1 .. current /\ IsFiniteSet(x) /\ x \subseteq Int /\ Cardinality(x) \in Nat
      /\ IsFiniteSet(w.bars) /\ Cardinality(w.bars) \in Nat
  BY <1>1, <1>4, <1>5, BarsAreFinite DEF IsWindow
<1>7. Cardinality(x) >= Cardinality(w.bars) - 1
  <2>1. PICK n : n = Newest(w)
    OBVIOUS
  <2>2. Cardinality(x) = IF n \in w.bars THEN Cardinality(w.bars) - 1 ELSE Cardinality(w.bars)
    BY <1>5, <1>6, <2>1, FS_RemoveElement
  <2> QED BY <1>6, <2>2
<1>8. x # {}
  BY <1>6, <1>7, Sizes, FS_EmptySet
<1>9. PICK l : IsLast(l, x)
  BY <1>6, <1>8, LastExists
<1>10. Build1h(w) = CHOOSE l2 \in x : \A u \in x : u <= l2
  <2>1. [w EXCEPT !.bars = @ \ {Newest(w)}].bars = x
    BY <1>4, <1>5 DEF IsWindow
  <2> QED BY <2>1 DEF Build1h, Newest
<1>11. Build1h(w) \in x
  BY <1>9, <1>10 DEF IsLast
<1>12. Build1h(w) \in 0 .. current
  <2>1. PICK b : b = Build1h(w)
    OBVIOUS
  <2>2. b \in x
    BY <1>11, <2>1, Zenon
  <2>3. b \in 1 .. current
    <3>1. x \subseteq 1 .. current
      BY <1>6
    <3> QED BY <2>2, <3>1, Zenon
  <2>4. b \in 0 .. current
    BY <1>1, <2>3
  <2> QED BY <2>1, <2>4, Zenon
<1>13. NextContext(w) \in {Build1h(w), context}
  BY DEF NextContext
<1> QED BY <1>1, <1>12, <1>13

(* They hold at first.                                                    *)
LEMMA MarketTypesInit ==
  MarketInit => MarketTypes
<1> SUFFICES ASSUME MarketInit PROVE MarketTypes
  OBVIOUS
<1>1. current \in 1 .. MaxNow /\ current \in Nat
  BY SizesAssumption DEF MarketInit
<1>2. Cardinality(NoBars.bars) <= HistoryLimit
  BY Sizes, FS_EmptySet DEF NoBars
<1>3. <<>> \in Seq(Int) /\ Len(<<>>) = 0
  OBVIOUS
<1>4. QueueSize \in Nat
  BY SizesAssumption
<1> QED BY <1>1, <1>2, <1>3, <1>4 DEF MarketInit, MarketTypes, MarketTypeOK, NoBars

(* The queue stays in its limit.                                          *)
LEMMA PutTyped ==
  ASSUME queue \in Seq(Int), Len(queue) <= QueueSize, NEW t \in Int
  PROVE  Put(t) \in Seq(Int) /\ Len(Put(t)) <= QueueSize
<1>1. QueueSize \in Nat
  BY SizesAssumption
<1> QED BY <1>1 DEF Put

(* IsWindow, as the type invariant has it.                                *)
LEMMA WindowTyped ==
  ASSUME NEW top \in Nat, NEW w, IsWindow(w, top)
  PROVE  w.partial \subseteq w.bars /\ w.bars \subseteq 1 .. top
BY DEF IsWindow

(* Every step keeps them.                                                 *)
LEMMA MarketTypesNext ==
  MarketInv /\ MarketInv' /\ MarketTypes /\ [MarketNext]_marketVars => MarketTypes'
<1> SUFFICES ASSUME MarketInv, MarketInv', MarketTypes, [MarketNext]_marketVars
             PROVE  MarketTypes'
  OBVIOUS
<1>0. QueueSize \in Nat /\ MaxNow \in Nat /\ <<>> \in Seq(Int) /\ Len(<<>>) = 0
  BY SizesAssumption
<1>1. (\A w \in {cache, window} : w.partial \subseteq w.bars /\ w.bars \subseteq 1 .. current)'
  BY WindowTyped DEF MarketInv, IsWindow
<1>2. (client \in {"off", "connecting", "open"} /\ Len(wire) <= 1)'
  <2>1. PICK v, c : v = wire' /\ c = current' - 1
    OBVIOUS
  <2>2. v = <<>> \/ v = <<c>>
    <3>1. wire' = <<>> \/ wire' = <<current' - 1>>
      BY DEF MarketInv
    <3> QED BY <2>1, <3>1, Zenon
  <2>3. CASE v = <<>>
    BY <2>1, <2>3, <1>0 DEF MarketInv
  <2>4. CASE v = <<c>>
    <3>1. Len(v) = 1
      BY <2>4
    <3>2. Len(wire') = 1
      BY <2>1, <3>1, Zenon
    <3> QED BY <3>2 DEF MarketInv
  <2> QED BY <2>2, <2>3, <2>4
<1> SUFFICES /\ current' \in 1 .. MaxNow /\ Cardinality(cache'.bars) <= HistoryLimit
             /\ context' \in 0 .. current'
             /\ queue' \in Seq(Int) /\ Len(queue') <= QueueSize
  BY <1>1, <1>2 DEF MarketTypes, MarketTypeOK
<1>3. /\ current \in 1 .. MaxNow /\ Cardinality(cache.bars) <= HistoryLimit
      /\ context \in 0 .. current /\ current \in Nat
      /\ queue \in Seq(Int) /\ Len(queue) <= QueueSize
  BY DEF MarketTypes, MarketTypeOK, MarketInv
<1>4. CASE Close
  BY <1>0, <1>3, <1>4 DEF Close
<1>5. CASE Load
  <2>1. Cardinality(History.bars) <= HistoryLimit
    <3>1. IsWindow(Joined, current)
      BY JoinedIsCovered
    <3>2. History = LastBars(Joined, HistoryLimit)
      BY DEF History, Joined
    <3> QED BY <1>3, <3>1, <3>2, KeptAtMost, Sizes
  <2> QED BY <1>0, <1>3, <1>5, <2>1 DEF Load
<1>6. CASE Connect \/ Disconnect \/ UNCHANGED marketVars
  BY <1>3, <1>6 DEF Connect, Disconnect, marketVars
<1>7. CASE Push
  <2>1. PICK t : t = Head(wire)
    OBVIOUS
  <2>2. t \in 1 .. current
    BY <1>7, <2>1 DEF Push, MarketInv
  <2>3. PICK w : w = Pushed(t)
    OBVIOUS
  <2>4. /\ current' = current /\ cache' = cache /\ window' = w
        /\ IF Cardinality(w.bars) < MinBars THEN UNCHANGED <<context, queue>>
           ELSE context' = NextContext(w) /\ queue' = Put(Newest(w))
    BY <1>7, <2>1, <2>3 DEF Push
  <2>5. CASE Cardinality(w.bars) < MinBars
    BY <1>3, <2>4, <2>5
  <2>6. CASE ~ (Cardinality(w.bars) < MinBars)
    <3>1. IsWindow(w, current)
      BY <2>4 DEF MarketInv
    <3>2. Cardinality(w.bars) \in Nat /\ Cardinality(w.bars) >= MinBars
      BY <1>3, <2>6, <3>1, BarsAreFinite, Sizes DEF IsWindow
    <3>3. NextContext(w) \in 0 .. current
      BY <2>2, <2>3, <3>2, ContextIsABar
    <3>4. w.bars # {}
      BY <3>2, Sizes, FS_EmptySet
    <3>5. Newest(w) \in Int
      BY <1>3, <3>1, <3>4, NewestIsLast DEF IsLast, IsWindow
    <3> QED BY <1>3, <2>4, <2>6, <3>3, <3>5, PutTyped
  <2> QED BY <2>5, <2>6
<1>8. CASE HandleBar
  <2>1. Tail(queue) \in Seq(Int) /\ Len(Tail(queue)) = Len(queue) - 1
    BY <1>3, <1>8 DEF HandleBar
  <2> QED BY <1>0, <1>3, <1>8, <2>1 DEF HandleBar
<1>9. CASE Stop
  BY <1>0, <1>3, <1>9 DEF Stop
<1> QED BY <1>4, <1>5, <1>6, <1>7, <1>8, <1>9 DEF MarketNext

(* Every variable of the market holds a value of its type, and the cache and*)
(* the queue stay within their limits.                                    *)
THEOREM MarketTypesHold ==
  MarketSpec => []MarketTypeOK
<1>1. MarketTypes => MarketTypeOK
  BY DEF MarketTypes
<1> QED BY <1>1, MarketTypesInit, MarketTypesNext, MarketInitInv, MarketNextInv, PTL DEF MarketSpec

============================================================================
