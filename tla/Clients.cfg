SPECIFICATION Spec
CONSTANTS
  n1 = n1
  n2 = n2
  Callers = {n1, n2}
  Part = part
  Nil = nil
  MaxSent = 3
CHECK_DEADLOCK FALSE
INVARIANTS IInv InOrder NilMeansError
PROPERTIES ChannelCloses AllGiven GetReturns
