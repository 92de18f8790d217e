SPECIFICATION Spec
INVARIANTS
  RegistrySound
  PoolBalanced
  PayoutsCovered
  StreetNotAhead
  SlotsRespected
  OneRunPerJob
  NoKeyStranded
  ProofsWhole
  StandingsSound
  AnswersFresh
  CardsToOwner
PROPERTIES
  ChangesHadSupport
  VersionsInOrder
  HandsAddUp
  WaitsBounded
  LeavesAsPlanned
  LeasesKept
  JobsSettle
CHECK_DEADLOCK FALSE
