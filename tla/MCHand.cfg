SPECIFICATION HandSpec
CONSTANTS
  ann = ann
  bob = bob
  cat = cat
  dan = dan
  Players <- Three
  InitialWallet <- WalletOf100
  SmallBlind = 10
  BigBlind = 20
  Ante = 5
  Structure <- NoLimit
  Straddle <- NoStraddle
  RakeBps = 500
  JackpotShareBps = 5000
  VarianceShareBps = 1000
  Timeout = 1
  MinPlayers = 2
  MaxPlayers = 3
  MaxQueue = 1
  BuyIns = {100}
  MinBuyIn = 40
  MaxBuyIn = 100
  MaxRebuys = 0
  BetSizes = {20, 40}
  HasTreasury = FALSE
  DeadChipTimeout = 0
  ClosureNotice = 1
  MaxHands = 1
CHECK_DEADLOCK FALSE
INVARIANTS
  TypeOK
  Solvent
  PotIsCommitted
  BoardMatchesPhase
  DeadlineOnlyInBetting
PROPERTIES
  RoundsEndMatched
  FoldedStayOut
  EscrowSteps
  HandEnds
