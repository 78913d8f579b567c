SPECIFICATION Spec
CONSTANTS
  Account = {"acc1", "acc2"}
  Stored = {"acc1", "acc2"}
  Request = {"req1"}
  Admin = {"adm1", "adm2"}
  Refresher = "refresher"
  None = None
  MaxAdds = 0
  MaxFaults = 0
PROPERTIES
  DocRemoveOnlyNamed
