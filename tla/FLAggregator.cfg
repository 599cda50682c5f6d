SPECIFICATION Spec
CONSTANTS
  Updates = {u1, u2, u3, u4}
  Threads = {t1, t2}
  NoUpdate = NoUpdate
  NoFile = NoFile
  Empty = Empty
  Garbled = Garbled
  MinUpdates = 2
  MaxPending = 2
  MaxFailures = 2
  MaxRestarts = 2
SYMMETRY MCSymmetry
INVARIANTS
  TypeOK
  OncePerModel
  VersionResumes
  SerialIsExact
CHECK_DEADLOCK FALSE
