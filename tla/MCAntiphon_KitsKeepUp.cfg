SPECIFICATION FairSpec
CONSTANTS
  Client = {c1, c2}
  MaxClients = 1
  Path = {machine, level}
  Machine = machine
  Malformed = {2}
  BatchCap = 2
  MaxChanges = 3
  MaxSessions = 2
  NoClient = NoClient
INVARIANT KitsKeepUp
