SPECIFICATION Spec
CONSTANTS
  Updates = {u1, u2, u3}
  Threads = {t1, t2}
  NoUpdate = NoUpdate
  NoFile = NoFile
  Empty = Empty
  Garbled = Garbled
  MinUpdates = 2
  MaxPending = 2
  MaxFailures = 0
  MaxRestarts = 0
INVARIANTS
  MinimumRespected
CHECK_DEADLOCK FALSE
