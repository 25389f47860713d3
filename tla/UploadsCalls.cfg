SPECIFICATION Spec
CONSTANTS
  admin = admin
  user = user
  c1 = c1
  c2 = c2
  None = None
  Principal = {admin, user}
  Admin = {admin}
  Path <- MCPath
  RouteOf <- MCRouteOf
  Canister = {c1}
  DayInMs = 1
  MaxTime = 1
INVARIANTS
  TypeOK
  LockMatchesCalls
  CallsStayAuthorised
PROPERTY LockReleased
