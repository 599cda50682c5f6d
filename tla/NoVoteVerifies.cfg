SPECIFICATION Spec
CONSTANTS
  e1 = e1
  e2 = e2
  e3 = e3
  f1 = f1
  f2 = f2
  Envelopes = {e1, e2}
  Frames = {f1, f2}
  FrameOf <- MCFrameOf
  Confident = {e1}
  Threads = {t1, t2}
  Free = Free
  NoEnvelope = NoEnvelope
  MaxInMemory = 2
  VoteThreshold = 2
  MaxRequests = 2
  MaxVotes = 2
  MaxFailures = 0
  MaxRestarts = 1
INVARIANTS
  VerifiedByYesVotes
CHECK_DEADLOCK FALSE
