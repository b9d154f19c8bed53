SPECIFICATION PipelineSpec
CONSTANTS
  Symbols = {"BTCUSDT", "ETHUSDT"}
  MaxSize = 4
  StepSize = 2
INVARIANTS
  PlanMatchesTransition
  AllowedIntentCompletes
CHECK_DEADLOCK FALSE
