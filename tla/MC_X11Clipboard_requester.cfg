CONSTANTS
  c1 = c1
  c2 = c2
  Cookies <- MCCookies
  NoCookie = NoCookie
  NoReq = NoReq
  None = None
  PeerOfferings <- MCPeerOfferings
  PeerAsks <- MCPeerAsks
  AnnounceMasks <- MCAnnounceMasks
  HostAsks <- MCHostAsks
  MaxPeerOps = 1
  MaxPeerReqs = 0
  MaxAnnounce = 1
SPECIFICATION Spec
CHECK_DEADLOCK FALSE
INVARIANTS
  TypeOK
  OneTransferInFlight
  UpdateNeededOnlyWhenBusy
  EachRequestAccounted
