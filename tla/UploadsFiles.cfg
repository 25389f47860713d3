SPECIFICATION ToolSpec
CONSTANTS
  admin = admin
  c1 = c1
  c2 = c2
  None = None
  Principal = {admin}
  Admin = {admin}
  ToolCaller = admin
  Destination = {"a.png"}
  Path <- MCPath
  RouteOf <- MCRouteOf
  Canister = {c1, c2}
  DayInMs = 1
  MaxTime = 1
INVARIANTS
  UploadsOnKnownCanisters
  RedirectionsServed
  RouterServesRedirections
  ReportedIsPublished
PROPERTY FinalizedForGood
