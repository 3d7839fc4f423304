CONSTANTS
  Pids = {p1, p2}
  Commands = {c1}
  NoFile = NoFile
  Blank = Blank
  Streamed = {k1}
  Writers = {w1, w2}
  PageLimit = 2
  MaxRows = 3
  Calls = {a, b}
  Keys = {k}
  NoKey = NoKey
  Bodies = {x, y}
  Servers = {v1, v2}
  MaxRetries = 1
  RateLimit = 2
  MaxLapses = 1
  Bearers = {b1, b2, b3}
  NoToken = NoToken
  MaxTokens = 4
  Destinations = {d1}
  Owners = {o1, o2}
  Grants = {g1}
  Messages = {m1, m2}
  RemoteHandlers = {h1, h2}
  Nobody = Nobody
  Approvals = {a1}
  DeployKeys = {k1}
  Deployers = {e1, e2}
  NoApproval = NoApproval
  Webhooks = {d1}
  Chats = {c1}
  Orders = {o1}
  Mails = {m1, m2}
  Replies = {m2}
  OldTask = OldTask
  NoTask = NoTask
  Receivers = {h1, h2}
  MaxSent = 4
  Attempts = {a1, a2}
  Builders = {b1, b2}
  MaxFences = 2
  Callers = {o1, o2}
  Inspectors = {i1, i2}
  MaxRepositories = 2
  MaxInspections = 3
  Shells = {x1, x2}
  Names = {local, other}
  Local = local
  Secrets = {k1, k2}
  Nothing = Nothing
  Tasks = {t1, t2, t3}
  Sessions = {s1, s2, s3}
SPECIFICATION ServicesSpec
CHECK_DEADLOCK FALSE
INVARIANTS
  ServicesTypeOK
  NoShortCycle
  HolderIsRecorded
  MovesReachTheirReader
  RepeatsNeedALapse
  TokensAreNotMultiplied
  ActsOnce
  DeployedOnceAsApproved
  AcceptedIsQueuedOnce
  HeldWorktreeStays
  WorkIsOnInspected
  ProfilesAreUsable
