\* The window is one tick, the clocks are one tick apart, a body takes up to
\* one more; the signature outlives all three by one.  The second signature
\* has no room beside the first.
CONSTANTS
  r1 = r1
  r2 = r2
  c1 = c1
  c2 = c2
  c3 = c3
  Requests = {r1, r2}
  Copies = {c1, c2, c3}
  RequestOf <- CopyOf
  Calls = {c1, c2}
  Skew = 1
  Drift = 1
  BodyTime = 1
  TTL = 4
  SeenMax = 1
  Horizon = 4
  MaxRestarts = 1
  MaxLosses = 2
  MaxBreaks = 2
SYMMETRY Twins
SPECIFICATION DownlinkSpec
INVARIANTS
  TypeOK
  ServedOnce
  DownNeverSent
PROPERTIES
  OldNeverServed
  PublishPromiseKept
\* Time, requests and copies are bounded.
CHECK_DEADLOCK FALSE
