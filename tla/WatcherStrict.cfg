SPECIFICATION LiveSpec
CONSTANTS
  vip = vip
  vips = vips
  root = root
  v1 = v1
  v2 = v2
  Leaves <- MCLeaves
  Dirs <- MCDirs
  Below <- MCBelow
  Matches <- MCMatches
  Vals = {v1, v2, bad}
  Bad = bad
  Absent = absent
  Strict = TRUE
  MaxRev = 4
  Window = 2
INVARIANT IInv
PROPERTIES LastIndexMonotone ImplementsSource EventuallyFresh
