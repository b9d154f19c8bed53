---------------------------- MODULE SystemStateMC ----------------------------
(***************************************************************************)
(* SystemState for TLC.  A hub task runs in the event loop's next turn, so *)
(* orders in which more than two deltas wait at once are left out.         *)
(***************************************************************************)
EXTENDS SystemState

MaxQueued == 2

Bounded == Len(outbox) <= MaxQueued

=============================================================================
