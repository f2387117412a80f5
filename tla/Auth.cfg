SPECIFICATION Spec
CONSTANTS
  NoRow = NoRow
  NoMeta = NoMeta
  NoCheck = NoCheck
  SystemNamespace = "Polaris"
  Substr <- MCSubstr
  RangeSize = 3
  InterfaceSize = 3
  ButLast = 0
  Prefix = {}
  MaxBatchSize = 2
  IllegalNames = {}
  LongValues = {}
  AutoCreate = TRUE
  Themes = {"user", "group", "strategy", "resource"}
  MaxWrites <- MCMaxWrites
INVARIANTS
  Interchangeable
  OneDefault
  LinksMatch
  AuthDelivered
CHECK_DEADLOCK FALSE
