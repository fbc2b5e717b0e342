CONSTANTS
  Vifs = {wlan, p2p}
  wlan = wlan
  p2p = p2p
  None = None
  Type0 <- MCType0
  Changes = {"STATION", "P2P_CLIENT", "MONITOR"}
  Present = {wlan}
  VirtDevMax = 2
  AliveCount = 2
  MaxOps = 5
  MayDie = TRUE
  Rtnl = TRUE
  ConnOps = 8
  Cfm = {"OK", "BUSY"}
  Kinds = {"open", "sae", "sae_noext"}
  Mac = {m1, m2}
  StaIdx = {i1, i2}
  StaOps = 4
  MaxInd = 1
  Ctx = {0, 1}
  PulseMax = 2
  RadarOps = 5
  Overlap = FALSE
  RcSta = {s1, s2}
  RcSlots = 4
  RcOps = 6
SPECIFICATION MCSpec
INVARIANTS   ConnectionAgrees   RcDirs
PROPERTIES ConnectionWanted 
CHECK_DEADLOCK FALSE
