----------------------------- MODULE TradeJournalMC -----------------------------
(* Only whether two fills share a price matters. *)
EXTENDS TradeJournal, TLC

Symmetry == Permutations(Prices)
=============================================================================
