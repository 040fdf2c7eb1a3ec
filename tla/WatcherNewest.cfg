SPECIFICATION LiveSpec
CONSTANTS
  vip = vip
  vips = vips
  root = root
  v1 = v1
  v2 = v2
  Leaves <- MCOneLeaf
  Dirs <- MCDirs
  Below <- MCOneBelow
  Matches <- MCOneMatches
  Vals = {v1, v2}
  Bad = bad
  Absent = absent
  Strict = FALSE
  MaxRev = 3
  Window = 2
PROPERTIES NewestData
