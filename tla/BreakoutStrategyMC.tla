------------------------- MODULE BreakoutStrategyMC -------------------------
(***************************************************************************)
(* Values of the constants of BreakoutStrategy for TLC: one rule that ends *)
(* the day by counting losses, one that ends it by the drawdown.          *)
(***************************************************************************)
EXTENDS BreakoutStrategy

(* Candles one price high, and two that cross all prices.                 *)
MCRows == {r \in [low : Prices, close : Prices, high : Prices] :
             /\ r.close \in {r.low, r.high}
             /\ r.high - r.low \in {1, 3}}

Config(mode, counts, stop, dd) ==
  [trade_mode |-> mode, counts |-> counts, daily_stop_losses |-> stop, daily_dd_limit |-> dd]
MCConfigs == {Config("dual", TRUE, 1, 2), Config("long", TRUE, 2, 1),
              Config("short", FALSE, 1, 1)}
=============================================================================
