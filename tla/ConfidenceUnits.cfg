SPECIFICATION Spec
CONSTANTS
  e1 = e1
  e2 = e2
  Nodes = {n1}
  Envelopes = {e1}
  NoNode = NoNode
  NoEnvelope = NoEnvelope
  TopicOf <- MCTopicOf
  Confidence <- MCConfidence
  Capacity = 1
  RedispatchTimeout = 0
  MaxTime = 1
  MaxCrashes = 0
  MaxStray = 1
  Stamps = {}
  Orgs <- MCOrgs
  NoOrg = NoOrg
  NoEvent = NoEvent
  Handlers = {h1, h2}
  Conns = {}
  Free = Free
  Adjustments = {}
  MaxPosts = 2
  MaxRestarts = 0
  KeyOrg <- MCKeyOrg
  Nobody = Nobody
INVARIANTS
  ConfidenceSurvives
