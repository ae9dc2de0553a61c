SPECIFICATION Spec
CONSTANTS
  p1 = p1  p2 = p2  r1 = r1  r2 = r2  a1 = a1  a2 = a2  e1 = e1  e2 = e2  m1 = m1  m2 = m2
  None = none
  Client = {p1}
  Req = {r1, r2}
  Account = {a1}
  Email = {e1}
  Mobile = {m1}
  Number <- SpelledAlike
  Handler <- RaceHandlers
  MaxLogin = 1
  MaxFaults = 0
INVARIANTS AccountsCanSignIn
SYMMETRY Alike
