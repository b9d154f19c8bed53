-------------------------- MODULE TradingSessionMC --------------------------
(* TradingSession for TLC: symbols and threads may be permuted.            *)
EXTENDS TradingSession, TLC

Symmetry == Permutations(Symbols) \cup Permutations(Switchers)

(* Three requests beside two intents, or four beside one.                  *)
Bounded == requests + Len(tasks) <= 5
=============================================================================
