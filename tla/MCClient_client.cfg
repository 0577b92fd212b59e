SPECIFICATION Spec
CONSTANTS
  Requests = {r1, r2, r3}
  Config = config
  Cookies = {"plain", "secure"}
  Jar <- CookieJar
  Urls <- Sites
  OwnHeaders <- Own
  None = none
  MaxSends = 2
SYMMETRY Symmetry
INVARIANTS TypeOK OnlyHeaderlessLeak MisframedOnlyByLeak CookieScope
CHECK_DEADLOCK FALSE
