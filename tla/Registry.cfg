SPECIFICATION Spec
CONSTANTS
  NoRow = NoRow
  NoMeta = NoMeta
  NoCheck = NoCheck
  SystemNamespace = "Polaris"
  Substr <- MCSubstr
  RangeSize = 3
  InterfaceSize = 3
  ButLast <- MCButLast
  Prefix <- MCPrefix
  MaxBatchSize = 2
  IllegalNames = {}
  LongValues = {}
  AutoCreate = TRUE
  Routes <- MCRoutes
  Rules <- MCRules
  Themes = {"namespace", "service", "alias", "instance", "lag", "job", "client",
            "limit", "breaker", "tag", "fault", "routing"}
  MaxWrites <- MCMaxWrites
  MaxPolls = 2
  Clients = {"c1", "c2"}
  JobBatch = 1
  NamespaceNames = {"n1", "n2"}
  ServiceNames = {"s1", "s2"}
  Hosts = {"h1", "h2"}
  Checks <- MCChecks
  LimitedService <- MCLimitedService
  RuleNames = {"r1", "r2"}
  Targets <- MCTargets
  TargetsMove = FALSE
INVARIANTS
  Interchangeable
  NamingDelivered
  RulesDelivered
PROPERTIES
  NoOrphans
  RevisionTells
  JobsSpare
CHECK_DEADLOCK FALSE
