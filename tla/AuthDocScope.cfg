CONSTANTS
  r1 = r1
  r2 = r2
  r3 = r3
  k1 = k1
  k2 = k2
  p1 = p1
  p2 = p2
  t1 = t1
  raw1 = raw1
  raw2 = raw2
  NoKid = NoKid
  NoKey = NoKey
  NoTenant = NoTenant
  NoScope = NoScope
  NoEntry = NoEntry
  NoAsk = NoAsk
  DefaultTenant = t1
  Requests = {r1}
  Kids = {k1, k2}
  PublicKeys = {p1, p2}
  Tenants = {t1}
  RawKeys = {raw1, raw2}
  KeyStore <- MCKeyStore
  KeySets <- Rotations
  Asks <- BearerAsks
  Configs <- NoScopeClaim
  HasFaults = FALSE
SPECIFICATION Spec
INVARIANTS
  ScopeFromEndpoint
