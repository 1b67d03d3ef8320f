SPECIFICATION FrameSpec
CONSTANTS
  TopicInfo <- MCTopicInfo
  TypeInfo <- MCTypeInfo
  Scenarios <- FilterScenarios
  kStatsWriterInstanceLimit = 10
  Infinite = 9
INVARIANT EveryReaderShares
