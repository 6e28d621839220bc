SPECIFICATION Spec
CONSTANTS
  Calls = {c1, c2}
  Sessions <- MCSessions
  SessionOf <- MCSessionOf
  Intents <- MCIntents
  Names <- MCNames
  Agents <- MCAgents
  RoutingTable <- MCRoutingTable
  Labels <- MCLabels
  Steps = 1
  PoolSize = 2
  MaxFailures = 1
  NoIntent = "no intent"
  NoAgent = "no agent"
  NoId = NoId
INVARIANTS
  TypeOK
  EdgesFitAnswers
  EarlierRepliesInContext
  AnswersOnRecord
PROPERTIES
  EveryCallAnswered
