SPECIFICATION AccessSpec
CONSTANTS
  u1 = u1
  p1 = p1
  p2 = p2
  login = login
  me = me
  review = review
  Users = {u1}
  Permissions = {p1, p2}
  Active = Active
  Routes = {login, me, review}
  Public = {login}
  Mutating = {login, review}
  Required <- NeededHere
  TokenLife = 1
  CompareTime = 1
  Calls = {1, 2}
  MaxLogins = 1
  LastInstant = 3
  MayFail = TRUE
  Nobody = Nobody
  NoRoute = NoRoute
INVARIANTS AccessInv TrailIsTrue
PROPERTIES LetThroughHeldRight
CHECK_DEADLOCK FALSE
