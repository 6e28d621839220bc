SPECIFICATION Spec
CONSTANTS
  Calls = {c1}
  Sessions <- MCSessions
  SessionOf <- MCSessionOf
  Intents <- MCIntents
  Names <- MCNames
  Agents <- MCAgents
  RoutingTable <- MCRoutingTable
  Labels <- MCLabels
  Steps = 3
  PoolSize = 4
  MaxFailures = 1
  NoIntent = "no intent"
  NoAgent = "no agent"
  NoId = NoId
INVARIANTS
  OrdersDense
