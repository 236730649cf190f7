CONSTANTS
  r1 = r1
  r2 = r2
  r3 = r3
  local = local
  remote = remote
  web = web
  v1 = v1
  v2 = v2
  built = built
  none = none
  Requests = {r1, r2}
  Calls = {"deploy", "rollback"}
  Local = local
  Remotes = {remote}
  Names = {web}
  Images = {v1, v2, built}
  NoImage = none
  Fallback = v1
  Published = {v1, v2}
  WithApp = {web}
  MaxCrashes = 0
SPECIFICATION Spec
PROPERTY
  FailedPullKeepsContainer
CHECK_DEADLOCK FALSE
