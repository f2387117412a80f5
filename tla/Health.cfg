SPECIFICATION Spec
CONSTANTS
  s1 = s1
  s2 = s2
  i1 = i1
  c1 = c1
  Servers <- MCServers
  Instances <- MCInstances
  Clients <- MCClients
  Hash <- MCHash
  Mixes <- MCMixes
INVARIANTS TypeOK NeverForgotten
PROPERTIES NoFalseAlarm Owned StatusFollows
CHECK_DEADLOCK FALSE
