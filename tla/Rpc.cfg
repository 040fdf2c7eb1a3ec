SPECIFICATION Spec
CONSTANTS
  a = a
  odd = odd
  c1 = c1
  c2 = c2
  Calls = {c1, c2}
  Values = {a, odd}
  Odd = {odd}
  Unset = unset
  MaxPast = 3
CHECK_DEADLOCK FALSE
INVARIANTS QuietCurrent IInv
PROPERTIES NeverBack CallEnds
