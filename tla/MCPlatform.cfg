CONSTANTS
  far = far
  t1 = t1
  t2 = t2
  t3 = t3
  s1 = s1
  s2 = s2
  None = None
  Actors = {p1, p2}
  Users = {u1, u2}
  RefreshTokens = {t1, t2, t3}
  IPs = {ip}
  MaxAttempts = 2
  IPMaxAttempts = 3
  Window = 2
  Lockout = 2
  IPLockout = 3
  MaxPerIP = 4
  MaxLogouts = 1
  BackupCodes = {code}
  MaxGenerated = 2
  WebhookRetries = 2
  WebhookSlots = 1
  MaxEdits = 2
  SigningKeys = {key1, key2}
  ConfigKey = vendor
  MaxRows = 2
  Watched = {"api_keys"}
  MaxUpdates = 1
  Servers = {s1, s2}
  FlagRequests = {p1, p2, far}
  HomeOf <- HomeOfRequest
  MaxChanges = 2
  Monitors = {mon}
  Heartbeats = {beat}
  CheckTimeout = 1
  MaxChecks = 2
  Releases <- TwoReleases
  Kept = 1
  Lifetime = 1
  Suffix = ".bak"
  MaxBackupTime = 2
  AccessUsers = {u1}
  AccessTokens = {t1, t2}
  AccessRequests = {far}
  Resources = {app}
  ResourceKind <- KindOfResource
  TokenLife = 2
  CacheLife = 1
  MaxAccessTime = 3
  Apps = 4
  MaxConcurrent = 2
  DefaultConcurrent = 3
  MaxPanics = 1
  Rate = 2
  Minute = 2
  StaleAfter = 4
  CodeAttempts = 2
  CodeWindow = 2
  MaxLimitTime = 8
  OriginalDays = 1
  MaxDays = 2
  Grace = 1
  MaxExtended = 2
  MaxTrialTime = 3
  PageLimit = 2
  MaxAuditRows = 3
  MaxKeys = 2
  Admin = u1
  MaxTokens = 2
  MaxCalls = 2
  Names = {"a", "b"}
  PageSize = 1
  ListingLife = 1
  MaxVersions = 2
  MaxDnsTime = 3
SPECIFICATION Spec
INVARIANTS
  LimitsHold
  SessionsHold
  SecondFactorHolds
  WebhooksHold
  SigningKeysHold
  ReleasesHold
  CachesHold
  ChecksHold
  BatchHolds
  TrialsHold
  RequestsHold
  AuditHolds
  HandlersHold
  SharesRestore
  RecordsHold
  TypeOK
PROPERTIES
  RetentionKeeps
  RevokedStaysOut
  ConvertedStays
CHECK_DEADLOCK FALSE
SYMMETRY Symmetry
