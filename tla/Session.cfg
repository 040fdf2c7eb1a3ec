SPECIFICATION LiveSessionSpec
CONSTANTS
  web = web
  other = other
  all = all
  r1 = r1
  up = up
  moved = moved
  down = down
  Keys = {web}
  Values = {up, down}
  Absent = absent
  Receivers = {r1}
  Nil = nil
  Watched <- MCWatched
  Under <- MCUnder
  Seen <- MCSeen
  Dead = {}
  Guarded = TRUE
  MaxClock = 4
CHECK_DEADLOCK FALSE
INVARIANTS SessionInv ShownIsCached
PROPERTIES IdsGrow SessionEnds
