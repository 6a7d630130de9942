SPECIFICATION LiveSpec
CONSTANTS
  c1 = c1
  c2 = c2
  c3 = c3
  agent = agent
  owner = owner
  notes = notes
  Conns = {c1, c2}
  Agents = {agent}
  Users = {owner}
  Channels = {}
  Member <- AgentMember
  Owner <- MCOwner
INVARIANTS OnlineWillEnd
PROPERTIES BothPumpsReturn PresenceHeals
CHECK_DEADLOCK FALSE
