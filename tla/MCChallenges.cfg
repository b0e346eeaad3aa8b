CONSTANTS
  Users = {1, 2}
  Workers = {w1, w2}
  Ticker = Ticker
  Free = Free
  Lost = Lost
  StartWorth = 1
  MaxRounds = 1
  Plans <- ShortPlans
  MaxFaults = 1
  Kinds = {"NetWorth", "SpecificStock", "StockWorth"}
  Goal = 0
  Reward = 1
  MaxDay = 2
  None = None
SPECIFICATION ChallengesSpec
INVARIANTS BoardsRight RewardedOnce StatesJudged
PROPERTY CallsEnd
CHECK_DEADLOCK FALSE
