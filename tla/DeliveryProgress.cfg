CONSTANTS
  n1 = n1
  c1 = c1
  Messages = {n1, c1}
  Channels = {"TELEGRAM"}
  TopicOf <- MCTopicOf
  Topics <- MCTopics
  Gateways = {"TELEGRAM"}
  Handlers = {h1, h2}
  JobIds = {j1}
  NoOne = NoOne
  ClaimLimit = 2
  FailureLimit = 2
  MaxCrashes = 0
  MaxRetries = 0
SPECIFICATION FairSpec
CHECK_DEADLOCK FALSE
PROPERTY EveryMessageDelivered
