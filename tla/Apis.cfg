SPECIFICATION Spec
CONSTANTS
  vip = vip
  vips = vips
  here = here
  there = there
  noIp = noIp
  Host = here
  NoIp = noIp
  Gone = gone
  Active = TRUE
  Names = {vip, vips}
  Unset = unset
  Star = star
  Denied = denied
  Unknown = unknown
  Longer <- MCLonger
  Secret = {vip, vips}
  LocalName = vip
  Maps = {map}
  Requests <- MCRequests
  Samples <- MCSamples
CHECK_DEADLOCK FALSE
INVARIANTS IInv OnlyAsked HasUpstream HalfAlive
PROPERTIES SilentWhenUnchanged
