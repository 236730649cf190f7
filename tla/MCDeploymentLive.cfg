CONSTANTS
  r1 = r1
  r2 = r2
  r3 = r3
  local = local
  remote = remote
  web = web
  v1 = v1
  v2 = v2
  built = built
  none = none
  Requests = {r1, r2}
  Calls = {"async", "rollback"}
  Local = local
  Remotes = {remote}
  Names = {web}
  Images = {v1, v2}
  NoImage = none
  Fallback = v1
  Published = {v1}
  WithApp = {web}
  MaxCrashes = 1
SPECIFICATION Spec
PROPERTY
  TaskEnds
CHECK_DEADLOCK FALSE
