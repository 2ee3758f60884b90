SPECIFICATION FairSpec
CONSTANTS
  v1 = v1  v2 = v2  c1 = c1
  server = server  client = client  add = add
  NoOne = NoOne  Unnamed = Unnamed
  Servers = {v1, v2}
  Clients = {c1}
  Mortal = {v1}
  NodeName <- MCNodeName
  Service <- MCService
  MAX_NODES = 2
  MAX_SERVICES = 1
INVARIANTS Exclusion TwoAtMost WithinTables NodesFound OnlyKilledRemain LastServerFound
PROPERTY ClientAttaches
CHECK_DEADLOCK FALSE
