--------------------------- MODULE PolicyPipeline ----------------------------
(***************************************************************************)
(* The decision path of ExecutionOrchestrator.submit_intent, run against   *)
(* an exchange that fills every market order at once: project the account,  *)
(* ask the policy, build the plan, execute its steps, verify the result.   *)
(* Concurrency, partial fills and failures are in OrderExecution; here the  *)
(* question is whether the policy, the planner and the verifier agree with  *)
(* one another on every account and every intent.                          *)
(***************************************************************************)
EXTENDS ExecutionPolicy

VARIABLES
  positions,   \* what SyncEngine.position.get_all() returns
  pc,          \* where submit_intent is
  intent,      \* the intent being handled
  decision,    \* the policy's decision on it
  plan,        \* steps still to execute
  built,       \* the plan as the planner built it
  outcome,     \* what the last submission came to
  before       \* history: the account when the intent was evaluated

pipelineVars == <<positions, pc, intent, decision, plan, built, outcome, before>>

NoIntent   == [type |-> "none", symbol |-> "none", side |-> "none",
               qty |-> 0, source |-> "none"]
NoDecision == Decision("none", "none", NoTarget)

Outcomes == {"none", "HEDGE", "REFUSED", "FROZEN", "PLAN_FAILED",
             "FINALIZE_MISMATCH", "COMPLETED"}

Steps == {StepClose(p) : p \in Entry}
         \cup {StepOpen(s, q, y) : s \in HoldingSides, q \in Lots, y \in Symbols}

Accounts ==
  {<<>>} \cup {<<p>> : p \in Entry}
  \cup {<<p, q>> : p \in Entry, q \in Entry}

OneEntryPerSide(account) ==
  \A i, j \in DOMAIN account :
    /\ account[i].symbol = account[j].symbol
    /\ account[i].side = account[j].side
    => i = j

PipelineInit ==
  /\ positions \in {a \in Accounts : OneEntryPerSide(a)}
  /\ pc = "idle"
  /\ intent = NoIntent
  /\ decision = NoDecision
  /\ plan = <<>> /\ built = <<>>
  /\ outcome = "none"
  /\ before = positions

Ends(o) == /\ pc' = "idle"
           /\ outcome' = o
           /\ plan' = <<>>
           /\ built' = <<>>

-----------------------------------------------------------------------------
(* submit_intent up to the point where the lock is taken.                  *)
Evaluate(i) ==
  /\ pc = "idle"
  /\ outcome # "FROZEN"
  /\ intent' = i
  /\ before' = positions
  /\ UNCHANGED positions
  /\ IF HedgeDetected(positions)
       THEN decision' = NoDecision /\ Ends("HEDGE")
       ELSE LET d == EvaluateIntent(i, Project(positions))
            IN  /\ decision' = d
                /\ CASE d.verdict = "REFUSE" -> Ends("REFUSED")
                     [] d.verdict = "FREEZE" -> Ends("FROZEN")
                     [] d.verdict = "ALLOW"  ->
                          /\ pc' = "planning"
                          /\ UNCHANGED <<plan, built, outcome>>

Plan ==
  /\ pc = "planning"
  /\ UNCHANGED <<positions, intent, decision, before>>
  /\ IF PlanFails(positions, decision.target)
       THEN Ends("PLAN_FAILED")
       ELSE /\ plan' = BuildPlan(positions, decision.target)
            /\ built' = plan'
            /\ pc' = "executing"
            /\ UNCHANGED outcome

(***************************************************************************)
(* One step of the plan: a CLOSE sells what the local list holds in the    *)
(* step's symbol, an OPEN buys step.qty.                                   *)
(***************************************************************************)
Without(symbol, list) ==
  LET kept[i \in 0 .. Len(list)] ==
        IF i = 0 THEN <<>>
        ELSE IF list[i].symbol = symbol THEN kept[i - 1]
        ELSE Append(kept[i - 1], list[i])
  IN  kept[Len(list)]

ExecuteStep ==
  /\ pc = "executing" /\ plan # <<>>
  /\ LET step == Head(plan)
     IN  positions' =
           IF step.action = "CLOSE"
             THEN Without(step.symbol, positions)
             ELSE Append(positions, [symbol |-> step.symbol, side |-> step.side,
                                     size |-> step.qty])
  /\ plan' = Tail(plan)
  /\ UNCHANGED <<pc, intent, decision, built, outcome, before>>

Finalize ==
  /\ pc = "executing" /\ plan = <<>>
  /\ UNCHANGED <<positions, intent, decision, before>>
  /\ Ends(IF HedgeDetected(positions)
             \/ ~ VerifyExecutionResult(decision.target, Project(positions))
          THEN "FINALIZE_MISMATCH" ELSE "COMPLETED")

PipelineNext == (\E i \in PolicyIntents : Evaluate(i)) \/ Plan \/ ExecuteStep \/ Finalize

PipelineSpec == PipelineInit /\ [][PipelineNext]_pipelineVars

-----------------------------------------------------------------------------
(* Every variable holds a value of its type.                               *)
PipelineTypeOK ==
  /\ positions \in Seq(Entry)
  /\ pc \in {"idle", "planning", "executing"}
  /\ intent \in PolicyIntents \cup {NoIntent}
  /\ plan \in Seq(Steps) /\ built \in Seq(Steps)
  /\ outcome \in Outcomes

(***************************************************************************)
(* The asserts planner_guard.py spells out but does not run: the plan of a  *)
(* REVERSE starts with a reduce-only CLOSE, the plan of a CLOSE opens       *)
(* nothing, the plan of an OPEN closes nothing.                             *)
(***************************************************************************)
PlanMatchesTransition ==
  pc = "executing" =>
    LET actions == {built[i].action : i \in DOMAIN built}
    IN  /\ decision.transition = "REVERSE" =>
             built[1].action = "CLOSE" /\ built[1].reduceOnly
        /\ decision.transition = "CLOSE" => "OPEN" \notin actions
        /\ decision.transition = "OPEN"  => "CLOSE" \notin actions

(***************************************************************************)
(* On an account that only holds the intent's symbol, the one allowed      *)
(* intents the pipeline cannot carry out are a change of size on the same  *)
(* side, the system emergency, and a quantity the lot size floors to zero; *)
(* every other allowed intent ends with the target reached.                *)
(***************************************************************************)
ForeignHolding == \E i \in DOMAIN before : before[i].symbol # intent.symbol

AllowedIntentCompletes ==
  (pc = "idle" /\ outcome \in {"PLAN_FAILED", "FINALIZE_MISMATCH"}
     /\ ~ ForeignHolding)
  => \/ decision.transition \in {"ADJUST", "EMERGENCY"}
     \/ decision.target.side # "FLAT" /\ decision.target.qty = 0

=============================================================================
