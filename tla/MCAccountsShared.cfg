SPECIFICATION Spec
CONSTANTS
  p1 = p1  p2 = p2  r1 = r1  r2 = r2  a1 = a1  a2 = a2  e1 = e1  e2 = e2  m1 = m1  m2 = m2
  None = none
  Client = {p1, p2}
  Req = {r1}
  Account = {a1, a2}
  Email = {e1}
  Mobile = {m1, m2}
  Number <- SpelledAlike
  Handler <- TwoAccountHandlers
  MaxLogin = 2
  MaxFaults = 0
PROPERTIES NoContactTaken
SYMMETRY AlikeAccounts
