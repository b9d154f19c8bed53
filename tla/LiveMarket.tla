----------------------------- MODULE LiveMarket -----------------------------
(***************************************************************************)
(* The live candles of one symbol: the history a BinanceMarketAdapter     *)
(* loads and the class-wide cache it shares with the adapters before and  *)
(* after it, the websocket client that receives closed candles and may be *)
(* disconnected at any time, the window of the feature engine with the    *)
(* hourly context built from it, and the queue of the LiveRunner.         *)
(*                                                                        *)
(* A candle is its index in time.  A candle of the window is final, or    *)
(* partial: it holds the values of a moment at which it was still open.   *)
(* The context is known by the last candle its hourly bars take in.       *)
(***************************************************************************)
EXTENDS Integers, FiniteSets, Sequences

CONSTANTS
  Starts,        \* candles in progress when the program may start; the market
                 \* opened with candle 1
  HistoryLimit,  \* bars of the cold load, 3000 in the code
  WarmLimit,     \* bars of the warm load, 5 in the code
  WindowSize,    \* bars kept, 1200 in the code
  MinBars,       \* bars below which nothing is handed on, 300 in the code
  Hour,          \* bars in an hour, 12 in the code
  QueueSize,     \* queue.Queue(maxsize), 1000 in the code
  MaxNow,        \* bound on time
  MaxLoads,      \* bound on adapters
  MaxDrops       \* bound on disconnections

ASSUME SizesAssumption ==
  /\ Starts \subseteq 1..MaxNow
  /\ {WarmLimit, WindowSize, MinBars, Hour, QueueSize} \subseteq Nat \ {0}
  /\ HistoryLimit \in Nat /\ HistoryLimit >= WindowSize /\ MinBars >= 2
  /\ WindowSize % Hour = 0 /\ MinBars % Hour = 0
  /\ {MaxNow, MaxLoads, MaxDrops} \subseteq Nat

VARIABLES
  current,   \* the candle in progress at the exchange
  cache,     \* _history_cache_5m, or NoBars
  window,    \* feature_engine.df_5m of the current adapter, or NoBars
  context,   \* last candle the hourly bars of df_1h take in
  client,    \* the websocket: "off", "connecting" or "open"
  wire,      \* closed candles sent on the open websocket and not received
  queue,     \* the runner's queue
  loads, drops,
  missed,    \* history: candles that closed while no websocket took them
  skipped    \* history: candles a warm load did not reach back to

marketVars == <<current, cache, window, context, client, wire, queue, loads, drops,
                missed, skipped>>

NoBars == [bars |-> {}, partial |-> {}]

(* df.sort_values("time").tail(n)                                         *)
LastBars(w, n) ==
  LET kept == {t \in w.bars : Cardinality({u \in w.bars : u > t}) < n}
  IN [bars |-> kept, partial |-> w.partial \cap kept]

Newest(w) == CHOOSE t \in w.bars : \A u \in w.bars : u <= t

MarketInit ==
  /\ current \in Starts
  /\ cache = NoBars /\ window = NoBars
  /\ context = 0
  /\ client = "off"
  /\ wire = <<>> /\ queue = <<>>
  /\ loads = 0 /\ drops = 0
  /\ missed = {} /\ skipped = {}

-----------------------------------------------------------------------------

(* Time: the candle in progress closes and the next one opens.            *)
Close ==
  /\ current < MaxNow /\ wire = <<>>
  /\ current' = current + 1
  /\ IF client = "open" THEN wire' = <<current>> /\ UNCHANGED missed
     ELSE missed' = missed \cup {current} /\ UNCHANGED wire
  /\ UNCHANGED <<cache, window, context, client, queue, loads, drops, skipped>>

-----------------------------------------------------------------------------
(* BinanceMarketAdapter.__init__: the history                             *)

(* BinanceHistoryLoader.load: the last bars, the one in progress included. *)
Loaded(limit) ==
  [bars |-> {t \in 1..current : t > current - limit}, partial |-> {current}]

(* Defective variant: keep="first", the cached candle wins.               *)
ConcatKeepsFirst(old, new) ==
  [bars |-> old.bars \cup new.bars,
   partial |-> old.partial \cup (new.partial \ old.bars)]

(* pd.concat, drop_duplicates(keep="last"): the later load wins.          *)
Concat(old, new) ==
  [bars |-> old.bars \cup new.bars,
   partial |-> (old.partial \ new.bars) \cup new.partial]

History ==
  LastBars(IF cache = NoBars THEN Loaded(HistoryLimit) ELSE Concat(cache, Loaded(WarmLimit)),
       HistoryLimit)

(* What neither the cache nor the warm load holds in its final form.      *)
OutOfReach ==
  IF cache = NoBars THEN {} ELSE {t \in 1..current : Newest(cache) <= t /\ t <= current - WarmLimit}

(* A new adapter, for the start of a session or a change of symbol, and   *)
(* the bootstrap of its feature engine.                                   *)
Load ==
  /\ client = "off" /\ loads < MaxLoads
  /\ cache' = History
  /\ window' = History
  /\ context' = current
  /\ skipped' = skipped \cup OutOfReach
  /\ queue' = <<>> /\ wire' = <<>>
  /\ client' = "connecting"
  /\ loads' = loads + 1
  /\ UNCHANGED <<current, drops, missed>>

-----------------------------------------------------------------------------
(* BinanceWSClient                                                        *)

Connect ==
  /\ client = "connecting"
  /\ client' = "open"
  /\ UNCHANGED <<current, cache, window, context, wire, queue, loads, drops,
                 missed, skipped>>

(* The connection breaks: connect() sleeps and tries again; what was on   *)
(* the way is lost and nothing asks for it.                               *)
Disconnect ==
  /\ client = "open" /\ drops < MaxDrops
  /\ client' = "connecting"
  /\ missed' = missed \cup {wire[i] : i \in DOMAIN wire}
  /\ wire' = <<>>
  /\ drops' = drops + 1
  /\ UNCHANGED <<current, cache, window, context, queue, loads, skipped>>

-----------------------------------------------------------------------------
(* LiveFeatureEngine.push_candle and _on_ws_candle                        *)

(* Defective variant: one bar less is kept, so that the full window is no *)
(* longer a whole number of hours.                                        *)
PushedShort(t) ==
  LastBars([bars |-> window.bars \cup {t}, partial |-> window.partial \ {t}], WindowSize - 1)

(* The candle replaces the last one of the same time or is appended.      *)
Pushed(t) ==
  LastBars([bars |-> window.bars \cup {t}, partial |-> window.partial \ {t}], WindowSize)

(* _build_1h leaves the last candle out; it runs whenever the number of   *)
(* bars is a multiple of an hour, and at every push once the window is    *)
(* full.                                                                  *)
Rebuilds(w) == Cardinality(w.bars) % Hour = 0
Build1h(w) == Newest([w EXCEPT !.bars = @ \ {Newest(w)}])
NextContext(w) == IF Rebuilds(w) THEN Build1h(w) ELSE context

(* on_candle: put_nowait, and the bar is dropped when the queue is full.  *)
Put(t) == IF Len(queue) < QueueSize THEN Append(queue, t) ELSE queue

Push ==
  /\ wire # <<>>
  /\ LET t == Head(wire)
         w == Pushed(t)
     IN /\ window' = w
        /\ IF Cardinality(w.bars) < MinBars THEN UNCHANGED <<context, queue>>
           ELSE context' = NextContext(w) /\ queue' = Put(Newest(w))
  /\ wire' = Tail(wire)
  /\ UNCHANGED <<current, cache, client, loads, drops, missed, skipped>>

-----------------------------------------------------------------------------
(* LiveRunner.run: the strategy is called with the oldest bar.            *)
HandleBar ==
  /\ queue # <<>>
  /\ queue' = Tail(queue)
  /\ UNCHANGED <<current, cache, window, context, client, wire, loads, drops, missed, skipped>>

(* LiveRunner.stop, BinanceMarketAdapter.stop: the thread ends after the  *)
(* bar it handles, and what was queued goes with it.                      *)
Stop ==
  /\ client # "off"
  /\ client' = "off"
  /\ window' = NoBars /\ context' = 0
  /\ queue' = <<>>
  /\ missed' = missed \cup {wire[i] : i \in DOMAIN wire}
  /\ wire' = <<>>
  /\ UNCHANGED <<current, cache, loads, drops, skipped>>

MarketNext == Close \/ Load \/ Connect \/ Disconnect \/ Push \/ HandleBar \/ Stop

MarketSpec == MarketInit /\ [][MarketNext]_marketVars

-----------------------------------------------------------------------------
(* Properties                                                             *)

MarketTypeOK ==
  /\ current \in 1..MaxNow
  /\ \A w \in {cache, window} : w.partial \subseteq w.bars /\ w.bars \subseteq 1..current
  /\ Cardinality(cache.bars) <= HistoryLimit
  /\ context \in 0..current
  /\ client \in {"off", "connecting", "open"}
  /\ Len(wire) <= 1 /\ Len(queue) <= QueueSize

(* Every candle missing inside the window, and every candle but the last  *)
(* that holds the values of a moment at which it was open, is one that    *)
(* closed with no websocket or that a warm load did not reach: restarts,  *)
(* the candle in progress at a load and the bars received in between make *)
(* no other hole.                                                         *)
GapsAreAccounted ==
  window # NoBars =>
    LET holes == {t \in 1..Newest(window) : t \notin window.bars
                                            /\ \E u \in window.bars : u < t}
    IN holes \cup (window.partial \ ({current} \cup {wire[i] : i \in DOMAIN wire}))
         \subseteq missed \cup skipped

(* The hourly context is never more than an hour of bars behind the bar   *)
(* the strategy is called with, from the first one on, while the window   *)
(* fills and once it is full: its limits are whole numbers of hours.      *)
ContextIsFresh ==
  Cardinality(window.bars) >= MinBars
    => Cardinality({t \in window.bars : t > context}) <= Hour

=============================================================================
