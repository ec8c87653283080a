SPECIFICATION Spec
CONSTANTS
  IPs = {ip1, ip2}
  Rate = 2
  Minute = 2
  MaxTime = 6
  MaxRequests = 5
SYMMETRY VisitorSymmetry
INVARIANTS
  TypeOK
  WithinRate
PROPERTIES
  RefusedOnlyAfterRate
