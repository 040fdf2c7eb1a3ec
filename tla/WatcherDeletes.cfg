SPECIFICATION Spec
CONSTANTS
  vip = vip
  vips = vips
  root = root
  v1 = v1
  v2 = v2
  Leaves <- MCLeaves
  Dirs <- MCDirs
  Below <- MCBelow
  Matches <- MCMatches
  Vals = {v1}
  Bad = bad
  Absent = absent
  Strict = FALSE
  MaxRev = 3
  Window = 2
PROPERTIES DeletesOnlyDeleted
