SPECIFICATION CourtSpec
CONSTANTS
  Money <- CourtMoney
  Base <- CourtBase
  Updates <- CourtUpdates
  Intents <- CourtIntents
  MaxTrades = 3
INVARIANTS
  DrawdownFreezes
  StopLastsTheDay
  TradesWithinLaw
