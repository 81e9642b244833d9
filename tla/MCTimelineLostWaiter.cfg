\* Waiters on the SOFT timeline while soft jobs finish out of order.
CONSTANTS
  s1 = s1
  s2 = s2
  w1 = w1
  w2 = w2
  w3 = w3
  Gp = {}
  PhyPp = {}
  VirtPp = {}
  Soft = {s1, s2}
  Wait = {w1, w2, w3}
  GpFence = {}
  PpFence = {}
  SoftFence = {}
  WaitFence = {"SOFT"}
  PointModulus = 12
  MaxPointSpan = 4
  StartPoint = 9
  SyncTracker = {}
  DmaTracker = {}
  PairedGp = {}
  MaxAdvance = 4
  MayFill = FALSE
  AllocMayFail = FALSE
  GpuMayFail = FALSE
  NoTracker = NoTracker
  Tracker <- AllTrackers
  Kind <- KindOf
  FenceOn <- FenceOnOf
SYMMETRY Symmetry
SPECIFICATION Spec
INVARIANTS SoftWaitersReachable
CHECK_DEADLOCK FALSE
