SPECIFICATION FairSpec
CONSTANTS
  e1 = e1
  e2 = e2
  e3 = e3
  Nodes = {n1, n2}
  Envelopes = {e1, e2}
  NoNode = NoNode
  NoEnvelope = NoEnvelope
  TopicOf <- MCTopicOf
  Confidence <- MCConfidence
  Capacity = 1
  RedispatchTimeout = 0
  MaxTime = 1
  MaxCrashes = 1
INVARIANTS
  TypeOK
  OnlyOriginForwards
  DedupWindow
  NoSilentSkip
PROPERTIES
  AcceptedIsAttempted
