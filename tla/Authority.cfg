SPECIFICATION Spec
CONSTANTS
  e1 = e1
  flat = flat
  twin = twin
  bare = bare
  small = small
  anon = anon
  Bodies = {flat, twin, bare, small, anon}
  Body <- MCBody
  Envelopes = {e1}
  NoEnvelope = NoEnvelope
  Stamps = {t1, t2}
  Orgs <- MCOrgs
  NoOrg = NoOrg
  NoEvent = NoEvent
  Handlers = {h1, h2}
  Conns = {c1, c2}
  Free = Free
  Adjustments <- MCAdjustments
  MaxPosts = 2
  MaxRestarts = 1
SYMMETRY MCConnSymmetry
INVARIANTS
  TypeOK
  BroadcastExclusive
  BroadcastReachesAll
  StoredAsClaimed
CHECK_DEADLOCK FALSE
