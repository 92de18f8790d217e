SPECIFICATION PairSpec
CONSTANTS
  ann = ann
  bob = bob
  cat = cat
  dan = dan
  Players <- Two
  InitialWallet <- WalletOf100
  SmallBlind = 10
  BigBlind = 20
  Ante = 0
  Structure <- NoLimit
  Straddle <- NoStraddle
  RakeBps = 0
  JackpotShareBps = 0
  VarianceShareBps = 0
  Timeout = 1
  MinPlayers = 2
  MaxPlayers = 4
  MaxQueue = 0
  BuyIns = {40}
  MinBuyIn = 40
  MaxBuyIn = 100
  MaxRebuys = 0
  BetSizes = {20}
  HasTreasury = FALSE
  DeadChipTimeout = 0
  ClosureNotice = 1
  MaxHands = 1
CHECK_DEADLOCK FALSE
INVARIANT
  StalledCanBeFolded
