SPECIFICATION Spec
CONSTANTS
  Requests = {r1, r2}
  Callers = {c1}
  Count = 2
  MaxStarts = 3
  Learner = learner
  Uploaders = {p1}
  MaxModels = 2
  MaxPushes = 1
  MaxLives = 1
  Calls = {b1, b2}
  BatchSize = 2
  MaxAttempts = 2
  MaxCodes = 3
  MaxKeys = 2
  Settings = {"smtp", "development", "production"}
  Threads = {t1, t2, t3}
  Limit = 2
  Window = 2
  MaxTime = 5
  Sockets = {s1}
  Quota = 2
  MaxDevices = 2
  MaxEvents = 4
  Providers = {"ollama", "openrouter"}
  N = 3
  Loop = loop
  Zones = {z1, z2}
  MaxLists = 2
  HasDatabase = TRUE
  Subscribers = {u1, u2}
  MaxDocs = 2
INVARIANTS
  QuotaEnforced
CHECK_DEADLOCK FALSE
