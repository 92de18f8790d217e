SPECIFICATION RescueSpec
CONSTANTS
  ann = ann
  bob = bob
  cat = cat
  dan = dan
  Players <- Three
  InitialWallet <- WalletOf80
  SmallBlind = 10
  BigBlind = 20
  Ante = 0
  Structure <- NoLimit
  Straddle <- NoStraddle
  RakeBps = 500
  JackpotShareBps = 5000
  VarianceShareBps = 1000
  Timeout = 1
  MinPlayers = 2
  MaxPlayers = 2
  MaxQueue = 1
  BuyIns = {80}
  MinBuyIn = 40
  MaxBuyIn = 80
  MaxRebuys = 0
  BetSizes = {20, 40}
  HasTreasury = TRUE
  DeadChipTimeout = 1
  ClosureNotice = 1
  MaxHands = 2
CHECK_DEADLOCK FALSE
INVARIANTS
  SunsetFinal
PROPERTIES
  PausedPotStays
  RefundedOnce
