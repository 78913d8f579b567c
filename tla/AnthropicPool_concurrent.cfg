SPECIFICATION FairSpec
CONSTANTS
  Account = {"acc1", "acc2"}
  Stored = {"acc1"}
  Request = {"req1"}
  Admin = {"adm1"}
  Refresher = "refresher"
  None = None
  MaxAdds = 1
  MaxFaults = 2
INVARIANTS
  TypeOK
  VectorsParallel
  CallsUseMembers
  
PROPERTIES
  OnlyCulpritsMarked
  EverythingReturns
