SPECIFICATION FairSpec
CONSTANTS
  e1 = e1
  e2 = e2
  e3 = e3
  f1 = f1
  f2 = f2
  Envelopes = {e1, e2, e3}
  Frames = {f1, f2}
  FrameOf <- MCFrameOf
  Confident = {e1}
  Threads = {t1, t2}
  Free = Free
  NoEnvelope = NoEnvelope
  MaxInMemory = 2
  VoteThreshold = 2
  MaxRequests = 3
  MaxVotes = 1
  MaxFailures = 1
  MaxRestarts = 1
INVARIANTS
  TypeOK
  MemoryIsLogTail
  OncePerEnvelope
  AnnouncedIsWritten
  VotesCountOnce
PROPERTIES
  EverySubmissionAnswered
CHECK_DEADLOCK FALSE
