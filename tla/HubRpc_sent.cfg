SPECIFICATION SpecAll
CONSTANTS
  c1 = c1
  c2 = c2
  k1 = k1
  k2 = k2
  agent = agent
  owner = owner
  Conns = {c1, c2}
  Agents = {agent}
  Users = {owner}
  Channels = {}
  Member <- MCMember
  Owner <- MCOwner
  Calls = {k1}
  AgentOf <- MCAgentOf
  NoAnswer = NoAnswer
SYMMETRY Symmetry
INVARIANTS SentFailsFast
CHECK_DEADLOCK FALSE
