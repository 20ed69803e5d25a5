SPECIFICATION Spec
CONSTANTS
  a1 = a1
  a2 = a2
  s1 = s1
  s2 = s2
  s3 = s3
  s4 = s4
  p1 = p1
  p2 = p2
  k1 = k1
  k2 = k2
  Agent = {a1, a2}
  Pid = {p1, p2}
  NoPid = NoPid
  Absent = Absent
  Empty = Empty
  MaxForeign = 1
  Check = Check
  Session <- MCSession
  ProcessOf <- MCProcessOf
  Address = {"device"}
  AddressOf <- MCAddressOf
  HostKey = {k1, k2}
  NoKey = NoKey
  Vendor = {"cisco"}
  VendorOf <- MCVendorOf
  None = None
SYMMETRY Symmetry
CONSTRAINT OneExcuse
INVARIANTS
  TypeOK
  ServesAlone
  LockNamesServer
  FirstKeyStays
  FiltersOfModel
CHECK_DEADLOCK FALSE
