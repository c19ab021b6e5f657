SPECIFICATION FairSpec
CONSTANTS
  a1 = a1
  a2 = a2
  Attempts <- MCAttempts
INVARIANTS
  TypeOK
  HandedOver
  CallbackTargetAlive
  AwaitIsAnswered
PROPERTIES
  ConnectResolves
  AnswerEndsCall
