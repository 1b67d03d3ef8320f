SPECIFICATION FrameSpec
CONSTANTS
  TopicInfo <- MCTopicInfo
  TypeInfo <- MCTypeInfo
  Scenarios <- MCScenarios
  kStatsWriterInstanceLimit = 10
  Infinite = 9
INVARIANTS
  TopicsTrue
  VerdictFastest
  SharingTrue
  OrderFree
  DeliverySaid
  CountsTrue
  DocumentTrue
  RestartQuiet
