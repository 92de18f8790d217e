CONSTANTS
  HotReload = FALSE
  MaxHands = 2
SPECIFICATION Fair
PROPERTY HandsGoOn
CHECK_DEADLOCK FALSE
