SPECIFICATION Spec
CONSTANTS
  c1 = c1
  c2 = c2
  c3 = c3
  agent = agent
  owner = owner
  notes = notes
  Conns = {c1, c2, c3}
  Agents = {agent}
  Users = {owner}
  Channels = {notes}
  Member <- UserMember
  Owner <- MCOwner
SYMMETRY Symmetry
INVARIANTS RoutedAreOpen OpenAreRouted NothingLeft
CHECK_DEADLOCK FALSE
