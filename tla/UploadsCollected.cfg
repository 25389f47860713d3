SPECIFICATION Spec
CONSTANTS
  admin = admin
  user = user
  c1 = c1
  c2 = c2
  None = None
  Principal = {admin}
  Admin = {admin}
  Path <- MCPath
  RouteOf <- MCRouteOf
  Canister = {c1, c2}
  DayInMs = 1
  MaxTime = 1
INVARIANT UploadsBacked
