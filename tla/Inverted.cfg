SPECIFICATION Spec
CONSTANTS
  vip = vip
  vips = vips
  root = root
  ip1 = ip1
  ip12 = ip12
  none = none
  one = one
  two = two
  both = both
  Leaves <- MCLeaves
  Dirs = {root}
  Below <- MCBelow
  Matches <- MCMatches
  Sorted <- MCSorted
  Vals = {none, one, two, both, bad}
  Lists <- MCLists
  Longer <- MCLonger
  Items = {ip1, ip12}
  Bad = bad
  Absent = absent
  Nil = nil
  Drop = drop
  MaxRev = 3
  Window = 1
INVARIANTS IInv ContainersExact AddressKnown Revoked DependsKnown Announced
PROPERTIES FeedsSender
