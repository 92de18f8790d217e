SPECIFICATION Spec
CONSTANTS
  Seating <- MCSeating
  Commitments = {0, 20, 33, 61}
  RakeBps = 500
CHECK_DEADLOCK FALSE
INVARIANTS
  PotsMatchChips
  OnlyMatchedChipsWon
  PaidInFull
  DeepWinnerTakesAll
