CONSTANTS
  c1 = c1  c2 = c2  c3 = c3  s1 = s1  s2 = s2  v1 = v1  v2 = v2  None = None
  Store = {v1, v2}  Command = {c1, c2, c3}  StoreOf <- StoreOfCommand  Secret = {s1, s2}  Nobody = None
  MaxCommands = 4  MaxBuffers = 3  MaxKeys = 2  MaxFaults = 1
SPECIFICATION SpecStores
SYMMETRY Symmetry
INVARIANTS
  OwnersKeepTheirLock
  StoreIsSound
  AcknowledgedChangesStay
  SecretsStayReadable
  ReplayIsFaithful
  LinksReachTheirPage
  CompletedRenderIsSound
  RefusalIsFinal
  KeyOpensVault
CHECK_DEADLOCK FALSE
