---------------------------- MODULE Reconciliation ----------------------------
(***************************************************************************)
(* What the supervisor concludes from comparing the local position with    *)
(* the exchange's (execution/reconciliation): the drifts DriftDetector      *)
(* finds for the traded symbol, the severity InvariantEngine gives them and *)
(* which of them the strict mode lets pass.  Positions are signed.         *)
(***************************************************************************)
EXTENDS Integers

(***************************************************************************)
(* DriftDetector.detect.  listed: the REST snapshot has a row for the       *)
(* symbol although the position is flat; such a row has side None and       *)
(* therefore matches no local entry.  A failing REST read leaves only       *)
(* MISSING_EVENT.                                                          *)
(***************************************************************************)
PositionDrift(local, exch, listed) ==
  CASE local = 0 /\ exch # 0             -> {"GHOST_POSITION"}
    [] local = 0 /\ exch = 0             -> IF listed THEN {"GHOST_POSITION"} ELSE {}
    [] local # 0 /\ exch = 0             ->
         {IF listed THEN "PARTIAL_REVERSE" ELSE "PHANTOM_LOCAL_POSITION"}
    [] local # 0 /\ exch # 0 /\ (local > 0) # (exch > 0) -> {"PARTIAL_REVERSE"}
    [] OTHER                             ->
         IF local = exch THEN {} ELSE {"MINOR_NUMERIC_DRIFT"}

Detect(local, exch, readOk, listed, stale) ==
  (IF readOk THEN PositionDrift(local, exch, listed) ELSE {"MISSING_EVENT"})
  \cup (IF stale THEN {"STALE_STATE"} ELSE {})

FatalDrifts == {"GHOST_POSITION", "PHANTOM_LOCAL_POSITION", "PARTIAL_REVERSE"}

(***************************************************************************)
(* InvariantEngine.check: staleness alone is ignored while no execution    *)
(* runs.                                                                   *)
(***************************************************************************)
Severity(drifts, idle) ==
  CASE drifts = {"STALE_STATE"} /\ idle -> "SAFE"
    [] drifts \cap FatalDrifts # {}     -> "FATAL"
    [] drifts = {}                      -> "SAFE"
    [] OTHER                            -> "RECOVERABLE"

(* The "TEMP FIX" of _handle_strict: these fatal drifts change nothing.    *)
LetPass(drifts) == drifts \cap {"GHOST_POSITION", "PHANTOM_LOCAL_POSITION"} # {}

Judgements == {"SAFE", "RECOVERABLE", "FATAL"}

=============================================================================
