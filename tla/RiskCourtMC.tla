------------------------------ MODULE RiskCourtMC ------------------------------
(* A code law with a loose size and a dashboard that tightens and relaxes.   *)
EXTENDS RiskCourt

CourtMoney == {0, 2, 3, 4}

Law(stop, block, size, notional, trades, symbols) ==
  [number |-> [f \in Fields |->
      CASE f = "daily_stop_pct"     -> stop
        [] f = "daily_dd_block_pct" -> block
        [] f = "max_position_size"  -> size
        [] f = "max_notional"       -> notional
        [] OTHER                    -> trades],
   symbols |-> symbols]

CourtIntents ==
  {[symbol |-> "btc", size |-> 1, mark |-> {2}],
   [symbol |-> "eth", size |-> 2, mark |-> {}]}

CourtBase == Law({25}, {50}, {2}, {}, {2}, {"btc"})

CourtUpdates ==
  {Law({10}, {}, {1}, {}, {1}, {}),
   Law({60}, {75}, {}, {}, {3}, {"btc", "eth"}),
   Law({}, {25}, {}, {3}, {}, {})}
=============================================================================
