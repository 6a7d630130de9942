SPECIFICATION LiveSpec
CONSTANTS
  k1 = k1
  k2 = k2
  agent = agent
  other = other
  Calls = {k1, k2}
  Agents = {agent, other}
  AgentOf <- OneAgent
  NoAnswer = NoAnswer
INVARIANTS DeliveryNeverBlocks
PROPERTIES PromiseKept CallsAnswered
CHECK_DEADLOCK FALSE
