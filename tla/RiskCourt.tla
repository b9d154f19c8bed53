------------------------------- MODULE RiskCourt -------------------------------
(***************************************************************************)
(* The risk court of trading_core/risk: one RiskState that only the         *)
(* RiskSupervisor writes, the protections that judge each equity update,    *)
(* the engine and the daily guard that judge each intent, and a dashboard   *)
(* that freezes, unfreezes and changes limits in between.  The package is   *)
(* exercised by tests/step7 alone; how its parts are wired is taken from    *)
(* their constructors: the engines keep the limits they are built with, and *)
(* one intent is granted at a time, marked as a trade later or abandoned.   *)
(***************************************************************************)
EXTENDS Naturals

CONSTANTS Money,    \* values of balance and equity
          Base,     \* RiskLimits, the code law
          Updates,  \* the limits UPDATE_LIMITS commands carry
          Intents,  \* [symbol, size, mark] records; mark is {} when unknown
          MaxTrades \* bound on trades marked in a day

(* A limit is {} (None) or {n}; allowed_symbols is {} (None) or a set.      *)
Fields == {"daily_stop_pct", "daily_dd_block_pct", "max_position_size",
           "max_notional", "max_trades_per_day"}

IsLimit(s)  == s \subseteq Nat /\ \A m, n \in s : m = n
Limits      == [number : [Fields -> SUBSET Nat],
                symbols : SUBSET {i.symbol : i \in Intents}]
IsLimits(l) == l \in Limits /\ \A f \in Fields : IsLimit(l.number[f])

ASSUME CourtAssumption ==
  /\ Money \subseteq Nat /\ MaxTrades \in Nat
  /\ IsLimits(Base) /\ \A cmd \in Updates : IsLimits(cmd)
  /\ \A i \in Intents : i.size \in Nat /\ IsLimit(i.mark)

VARIABLES
  equity, balance, peak_equity,
  day_start_balance, daily_drawdown, session_drawdown,
  daily_stop_triggered, dd_block_triggered,
  frozen,
  trades_today,
  active,       \* ActiveRiskLimits, the dashboard law
  law,          \* the limits the engines were built with
  granted,      \* the intent that was allowed and is not yet marked, if any
  breached      \* history: base limits that an update of this day found broken

moneyVars == <<equity, balance, peak_equity>>
daily   == <<day_start_balance, daily_drawdown, session_drawdown>>
raised  == <<daily_stop_triggered, dd_block_triggered>>
limits  == <<active, law>>
courtVars == <<moneyVars, daily, raised, frozen, trades_today, limits, granted, breached>>

CourtTypeOK ==
  /\ equity \in Money /\ balance \in Money /\ peak_equity \in Nat
  /\ day_start_balance \in Nat /\ daily_drawdown \in Nat /\ session_drawdown \in Nat
  /\ daily_stop_triggered \in BOOLEAN /\ dd_block_triggered \in BOOLEAN
  /\ frozen \in BOOLEAN
  /\ trades_today \in 0 .. MaxTrades
  /\ IsLimits(active) /\ IsLimits(law)
  /\ granted \subseteq Intents
  /\ breached \subseteq {"daily_stop", "dd_block"}

-----------------------------------------------------------------------------
(* RiskLimitResolver: the tighter of both laws; for symbols, the dashboard's *)
(* as soon as it has any.                                                   *)

(* Defective variant: the dashboard's number wins over the code's.          *)
DashboardFirst(base, act) == IF act = {} THEN base ELSE act

Pick(base, act) == {n \in base \cup act : \A m \in base \cup act : n <= m}

Effective(act) ==
  [number  |-> [f \in Fields |-> Pick(Base.number[f], act.number[f])],
   symbols |-> IF act.symbols = {} THEN Base.symbols ELSE act.symbols]

(* ActiveRiskLimits.update: what a command leaves out stays.                *)
Amended(act, cmd) ==
  [number  |-> [f \in Fields |-> IF cmd.number[f] = {} THEN act.number[f]
                                 ELSE cmd.number[f]],
   symbols |-> IF cmd.symbols = {} THEN act.symbols ELSE cmd.symbols]

Unlimited == [number |-> [f \in Fields |-> {}], symbols |-> {}]

CourtInit ==
  /\ equity \in Money /\ balance = equity /\ peak_equity = equity
  /\ day_start_balance = equity /\ daily_drawdown = 0 /\ session_drawdown = 0
  /\ daily_stop_triggered = FALSE /\ dd_block_triggered = FALSE /\ frozen = FALSE
  /\ trades_today = 0
  /\ active = Unlimited /\ law = Effective(Unlimited)
  /\ granted = {} /\ breached = {}

-----------------------------------------------------------------------------
(* RiskProtectionEngine.on_equity_update.                                   *)

Below(high, low) == IF low < high THEN high - low ELSE 0

Exceeds(drawdown, reference, pct) ==
  \E p \in pct : drawdown * 100 >= reference * p

(* Defective variant: the flag follows the latest balance.                  *)
DailyStop_Unlatched(drawdown) ==
  Exceeds(drawdown, day_start_balance, law.number["daily_stop_pct"])

DailyStop(drawdown) ==
  \/ daily_stop_triggered
  \/ Exceeds(drawdown, day_start_balance, law.number["daily_stop_pct"])

Blocks(drawdown, peak) ==
  /\ ~ dd_block_triggered
  /\ Exceeds(drawdown, peak, law.number["daily_dd_block_pct"])

Breaches(lost, sunk, peak) ==
  (IF Exceeds(lost, day_start_balance, Base.number["daily_stop_pct"])
     THEN {"daily_stop"} ELSE {})
  \cup (IF Exceeds(sunk, peak, Base.number["daily_dd_block_pct"])
          THEN {"dd_block"} ELSE {})

EquityUpdate(eq, bal) ==
  LET peak == IF eq > peak_equity THEN eq ELSE peak_equity
      lost == Below(day_start_balance, bal)
      sunk == Below(peak, eq)
  IN /\ equity' = eq /\ balance' = bal /\ peak_equity' = peak
     /\ daily_drawdown' = lost /\ session_drawdown' = sunk
     /\ daily_stop_triggered' = DailyStop(lost)
     /\ dd_block_triggered' = (dd_block_triggered \/ Blocks(sunk, peak))
     /\ frozen' = (frozen \/ Blocks(sunk, peak))
     /\ breached' = breached \cup Breaches(lost, sunk, peak)
     /\ UNCHANGED <<day_start_balance, trades_today, limits, granted>>

(* RiskSupervisor.rollover_day: peak_equity and the freeze outlive the day.  *)
Rollover ==
  /\ day_start_balance' = balance /\ daily_drawdown' = 0
  /\ trades_today' = 0
  /\ daily_stop_triggered' = FALSE /\ dd_block_triggered' = FALSE
  /\ breached' = {}
  /\ UNCHANGED <<moneyVars, session_drawdown, frozen, limits, granted>>

-----------------------------------------------------------------------------
(* RiskControlManager.                                                      *)

ManualFreeze ==
  /\ frozen' = TRUE
  /\ UNCHANGED <<moneyVars, daily, raised, trades_today, limits, granted, breached>>

(* Defective variant: the dashboard lifts any freeze.                       *)
MayUnfreeze_Always == TRUE
MayUnfreeze == ~ dd_block_triggered

ManualUnfreeze ==
  /\ MayUnfreeze /\ frozen' = FALSE
  /\ UNCHANGED <<moneyVars, daily, raised, trades_today, limits, granted, breached>>

UpdateLimits(cmd) ==
  /\ active' = Amended(active, cmd)
  /\ UNCHANGED <<moneyVars, daily, raised, frozen, trades_today, law, granted, breached>>

(* The engines are built again, with the limits of now.                     *)
Rebuild ==
  /\ law' = Effective(active)
  /\ UNCHANGED <<moneyVars, daily, raised, frozen, trades_today, active, granted, breached>>

-----------------------------------------------------------------------------
(* RiskEngine.assess: the first law that objects decides.  A notional that   *)
(* cannot be computed gives the verdict FREEZE, and freezes nothing.        *)

SymbolLaw(i) == law.symbols = {} \/ i.symbol \in law.symbols

SizeLaw(i) == \A max \in law.number["max_position_size"] : i.size <= max

NotionalLaw(i) ==
  \A max \in law.number["max_notional"] :
    i.mark # {} /\ \A price \in i.mark : i.size * price <= max

(* The minimal interval between trades only refuses more: Grant may wait.    *)
FrequencyLaw == \A max \in law.number["max_trades_per_day"] : trades_today < max

Assess(i) == ~ frozen /\ SymbolLaw(i) /\ SizeLaw(i) /\ NotionalLaw(i) /\ FrequencyLaw

(* RiskDailyGuard.assess.                                                   *)
DailyGuard == ~ dd_block_triggered /\ ~ daily_stop_triggered

Grant(i) ==
  /\ granted = {} /\ Assess(i) /\ DailyGuard
  /\ granted' = {i}
  /\ UNCHANGED <<moneyVars, daily, raised, frozen, trades_today, limits, breached>>

(* RiskSupervisor.mark_trade, or the order failed.                          *)
MarkTrade ==
  /\ granted # {} /\ granted' = {}
  /\ trades_today < MaxTrades /\ trades_today' = trades_today + 1
  /\ UNCHANGED <<moneyVars, daily, raised, frozen, limits, breached>>

Abandon ==
  /\ granted # {} /\ granted' = {}
  /\ UNCHANGED <<moneyVars, daily, raised, frozen, trades_today, limits, breached>>

-----------------------------------------------------------------------------
CourtNext ==
  \/ \E eq, bal \in Money : EquityUpdate(eq, bal)
  \/ Rollover
  \/ ManualFreeze \/ ManualUnfreeze
  \/ \E cmd \in Updates : UpdateLimits(cmd)
  \/ Rebuild
  \/ \E i \in Intents : Grant(i)
  \/ MarkTrade \/ Abandon

CourtSpec == CourtInit /\ [][CourtNext]_courtVars

-----------------------------------------------------------------------------
(***************************************************************************)
(* A drawdown from the peak that the code law forbids keeps the system      *)
(* frozen until the day rolls over: neither the dashboard, nor new limits,  *)
(* nor a recovery lifts it.                                                *)
(***************************************************************************)
DrawdownFreezes == "dd_block" \in breached => frozen

(***************************************************************************)
(* A day whose balance once fell by the code law's daily stop has no        *)
(* further intents granted, whatever is regained or relaxed later that day. *)
(***************************************************************************)
StopLastsTheDay == "daily_stop" \in breached => ~ DailyGuard

(***************************************************************************)
(* No day holds more trades than the code law allows, the one on its way    *)
(* included: the dashboard only ever tightens it, whenever the engines are  *)
(* built again.                                                            *)
(***************************************************************************)
TradesWithinLaw ==
  \A max \in Base.number["max_trades_per_day"] :
    trades_today + (IF granted = {} THEN 0 ELSE 1) <= max

=============================================================================
