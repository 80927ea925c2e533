\* Handlers that publish, subscribe, request, reply and clear in each other's dispatch.
SPECIFICATION FairSpec
CONSTANTS
  Word = {"a", "b"}
  Used = {"a"}
  Req = {q1}
  NoReq = NoReq
  MaxSubs = 2
  MaxMsgs = 3
  MaxDead = 2
  MaxTokens = 3
INVARIANTS
  TopicMatchesFits
  EveryDeliveryIsCalled
  AnsweredReleases
  DeadLettersAreLatest
PROPERTIES
  RequestSettles
CHECK_DEADLOCK FALSE
