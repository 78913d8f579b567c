SPECIFICATION Spec
CHECK_DEADLOCK FALSE
CONSTANTS
  t1 = t1
  t2 = t2
  p = p
  Thread <- MCThread
  Private <- MCPrivate
  Job = {"j1", "j2"}
  MaxAttempts = 2
  MaxOps = 3
  MaxFaults = 1
SYMMETRY MCSymmetry
INVARIANTS
  TypeOK
  SettledMeansSynced
  PrivateStaysLocal
  UploadedIsOwned
  LoadedQueueIsCurrent
PROPERTIES
  DeletedStaysDeleted
  JobsProgress
