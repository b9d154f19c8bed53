--------------------------- MODULE ExecutionPolicy ---------------------------
(***************************************************************************)
(* The pure decision layer every order intent passes through before an     *)
(* execution starts (trading_core/execution_policy) and the planner that   *)
(* turns an allowed target into steps (execution/orchestrator/planner.py). *)
(*                                                                         *)
(* Quantities are integers counted in a unit smaller than the lot; StepSize *)
(* is the exchange's LOT_SIZE step in that unit.  The list of positions the *)
(* sync engine holds is a sequence, because the planner depends on its     *)
(* order: [symbol, side, size] with at most one entry per symbol and side. *)
(***************************************************************************)
EXTENDS Integers, Sequences, FiniteSetsExt

CONSTANTS
  Symbols,      \* the symbols the account may hold positions in
  MaxSize,      \* bound on the quantities enumerated
  StepSize      \* LOT_SIZE step of the traded symbol

ASSUME PolicyAssumption == /\ MaxSize \in Nat \ {0}
                           /\ StepSize \in Nat \ {0}

HoldingSides == {"LONG", "SHORT"}

Lots == {q \in 1 .. MaxSize : q % StepSize = 0}

Entry == [symbol : Symbols, side : HoldingSides, size : Lots]

(***************************************************************************)
(* intent_schema.ExecutionIntent; qty 0 also stands for a missing qty,     *)
(* which every rule below treats alike.                                    *)
(***************************************************************************)
PolicyIntents ==
  [type : {"SET_POSITION"}, symbol : Symbols, side : HoldingSides,
   qty : 0 .. MaxSize, source : {"strategy"}]
  \cup [type : {"SET_FLAT"}, symbol : Symbols, side : {"FLAT"},
        qty : {0, 1}, source : {"strategy"}]
  \cup [type : {"EMERGENCY"}, symbol : Symbols, side : {"FLAT"},
        qty : {0}, source : {"system", "strategy"}]

Flat == [side |-> "FLAT", size |-> 0]

-----------------------------------------------------------------------------
(* NetPositionProjector.project: one net position out of the whole list.   *)

Amount(p) == IF p.side = "SHORT" THEN - p.size ELSE p.size

HedgeDetected(positions) ==
  /\ \E i \in DOMAIN positions : Amount(positions[i]) > 0
  /\ \E i \in DOMAIN positions : Amount(positions[i]) < 0

NetOf(amount) ==
  CASE amount > 0 -> [side |-> "LONG", size |-> amount]
    [] amount < 0 -> [side |-> "SHORT", size |-> - amount]
    [] OTHER      -> Flat

Project(positions) ==
  NetOf(MapThenSumSet(LAMBDA i : Amount(positions[i]), DOMAIN positions))

-----------------------------------------------------------------------------
(* QuantityPolicy.map_intent_to_target and TransitionValidator.classify.   *)

ValidIntent(intent) ==
  \/ intent.type = "SET_FLAT" /\ intent.qty = 0
  \/ intent.type = "SET_POSITION" /\ intent.side \in HoldingSides /\ intent.qty > 0

FloorToStep(qty) == (qty \div StepSize) * StepSize

MapIntentToTarget(intent) ==
  IF intent.type = "SET_FLAT"
    THEN [symbol |-> intent.symbol, side |-> "FLAT", qty |-> 0]
    ELSE [symbol |-> intent.symbol, side |-> intent.side,
          qty |-> FloorToStep(intent.qty)]

IllegalState(net, target) ==
  \/ target.side = "FLAT" /\ target.qty # 0
  \/ net.side = "FLAT" /\ net.size # 0

Classify(net, target) ==
  CASE net.side = target.side /\ net.size = target.qty  -> "NOOP"
    [] net.side = "FLAT" /\ target.side \in HoldingSides       -> "OPEN"
    [] net.side # "FLAT" /\ target.side = "FLAT"        -> "CLOSE"
    [] net.side \in HoldingSides /\ net.side = target.side
         /\ net.size # target.qty                       -> "ADJUST"
    [] {net.side, target.side} = HoldingSides                  -> "REVERSE"
    [] OTHER                                            -> "ILLEGAL"

(***************************************************************************)
(* ExecutionPolicyEngine.evaluate_intent.  A system EMERGENCY is allowed    *)
(* with the current net position as its target; that value has no qty, so  *)
(* the planner fails on it (target "none" below).                          *)
(***************************************************************************)
NoTarget == [symbol |-> "none", side |-> "none", qty |-> 0]

Decision(verdict, transition, target) ==
  [verdict |-> verdict, transition |-> transition, target |-> target]

EvaluateIntent(intent, net) ==
  IF intent.type = "EMERGENCY"
  THEN Decision(IF intent.source = "system" THEN "ALLOW" ELSE "FREEZE",
                "EMERGENCY", NoTarget)
  ELSE IF ~ ValidIntent(intent)
  THEN Decision("REFUSE", "none", NoTarget)
  ELSE LET target == MapIntentToTarget(intent)
       IN  IF IllegalState(net, target)
           THEN Decision("FREEZE", "none", NoTarget)
           ELSE LET t == Classify(net, target)
                IN  Decision(IF t = "NOOP" THEN "REFUSE" ELSE "ALLOW", t, target)

(***************************************************************************)
(* ExecutionPolicyEngine.verify_execution_result: strict side, size within *)
(* 0.1 percent.                                                            *)
(***************************************************************************)
VerifyWithinStrictly(target, net) ==
  /\ net.side = target.side
  /\ LET d == net.size - target.qty
     IN  1000 * (IF d < 0 THEN - d ELSE d) < target.qty

VerifyExecutionResult(target, net) ==
  /\ net.side = target.side
  /\ LET d == net.size - target.qty
     IN  1000 * (IF d < 0 THEN - d ELSE d) <= target.qty

-----------------------------------------------------------------------------
(* ExecutionPlanner.build_plan.                                            *)

PlanSymbol(positions, target) ==
  IF positions = <<>> THEN target.symbol ELSE Head(positions).symbol

ParseTargetSide(target) == IF target.qty = 0 THEN "FLAT" ELSE target.side

StepClose(p) ==
  [action |-> "CLOSE", side |-> p.side, qty |-> p.size,
   reduceOnly |-> TRUE, symbol |-> p.symbol]

StepOpen(side, qty, symbol) ==
  [action |-> "OPEN", side |-> side, qty |-> qty,
   reduceOnly |-> FALSE, symbol |-> symbol]

(***************************************************************************)
(* The planner raises on a target without qty and on a target of the side  *)
(* already held ("scale-in forbidden at execution layer").                 *)
(***************************************************************************)
PlanFails(positions, target) ==
  \/ target = NoTarget
  \/ positions # <<>> /\ Head(positions).side = ParseTargetSide(target)

BuildPlanOpenFirst(positions, target) ==
  LET side  == ParseTargetSide(target)
      open  == IF side = "FLAT" THEN <<>>
               ELSE <<StepOpen(side, target.qty, PlanSymbol(positions, target))>>
  IN  IF positions = <<>> THEN open ELSE open \o <<StepClose(Head(positions))>>

BuildPlan(positions, target) ==
  LET side  == ParseTargetSide(target)
      close == IF positions = <<>> THEN <<>> ELSE <<StepClose(Head(positions))>>
      open  == IF side = "FLAT" THEN <<>>
               ELSE <<StepOpen(side, target.qty, PlanSymbol(positions, target))>>
  IN  close \o open

=============================================================================
