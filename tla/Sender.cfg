SPECIFICATION Spec
CONSTANTS
  vip = vip
  vips = vips
  all = all
  r1 = r1
  r2 = r2
  r3 = r3
  Keys = {vip, vips}
  Values = {v1}
  Absent = absent
  Receivers = {r1, r2, r3}
  Nil = nil
  Watched <- MCPrefixes
  Under <- MCUnder
  MaxClock = 3
CHECK_DEADLOCK FALSE
INVARIANTS IInv ListedOnce DoomedClosed CaughtUp BroadcastNeverWaits
PROPERTIES EventsInOrder
SYMMETRY MCSymmetry
