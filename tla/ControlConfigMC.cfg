SPECIFICATION Spec
CONSTANTS
  RuntimeKeys = {"trading_enabled", "risk_percent"}
  SessionKeys = {"risk_percent", "initial_balance"}
  Risk = "risk_percent"
  Values = {0, 1}
  Default = 0
  NoValue = NoValue
  Sessions = {"backtest"}
  Threads = {t1, t2}
  MaxRequests = 3
  MaxRuns = 2
  MaxCrashes = 1
INVARIANTS

  RuntimeIsDurable
  SettingIsKept
  RiskConverges
PROPERTIES
  BacktestEnds
CHECK_DEADLOCK FALSE
