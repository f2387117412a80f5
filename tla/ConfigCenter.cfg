SPECIFICATION Spec
CONSTANTS
  NoRow = NoRow
  NoMeta = NoMeta
  NoCheck = NoCheck
  SystemNamespace = "Polaris"
  Substr <- MCSubstr
  RangeSize = 3
  InterfaceSize = 3
  ButLast <- MCButLast
  Prefix <- MCPrefix
  MaxBatchSize = 2
  IllegalNames = {}
  LongValues = {}
  AutoCreate = TRUE
  MaxPageSize = 4
  Algorithms = {"AES"}
  Dashed = {}
  MaxRelease = 5
  NamespaceName = "n"
  Groups = {"g"}
  FileNames = {"a", "b"}
  Users = {"u", "w"}
  Operators = {"u"}
  Texts = {"x", "y"}
  NewTexts = {"x"}
  TagLists <- MCTagLists
  MaxWrites = 4
INVARIANTS
  Interchangeable
  NoStrays
  HistoryTells
PROPERTIES
  StaysReadable
  Implements
CHECK_DEADLOCK FALSE
