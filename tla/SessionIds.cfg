SPECIFICATION SessionSpec
CONSTANTS
  web = web
  other = other
  all = all
  r1 = r1
  up = up
  moved = moved
  down = down
  Keys = {web}
  Values = {up, moved, down}
  Absent = absent
  Receivers = {r1}
  Nil = nil
  Watched <- MCWatched
  Under <- MCUnder
  Seen <- MCSeen
  Dead = {down}
  Guarded = FALSE
  MaxClock = 3
CHECK_DEADLOCK FALSE
PROPERTIES IdsConsecutive
