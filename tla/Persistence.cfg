CONSTANTS
  Half = 16
  DefaultPerPage = 2
  MaxPerPage = 3
  HandlerDefault = 2
  Clients = {"c1", "c2"}
  Runner = "c1"
  Backends = {"postgres", "mongodb", "redis"}
  Texts <- MCTexts
  Names <- MCNames
  Tenants = {"t1", "t."}
  Patterns = {"t."}
  Flags <- MCFlags
  ChangedFlags <- MCChangedFlags
  ListPages <- MCListPages
  KeyPages <- MCKeyPages
  Script <- Suite
  MaxCalls = 3
  NoRequest = NoRequest
  NoReply = NoReply
SPECIFICATION Spec
CHECK_DEADLOCK FALSE
INVARIANTS
  TypeOK
  SuitePasses
  KeyFound
  HashFindsOwnTenant
  QuietListExact
