\* A fence wait for a sync fence times out, and its session is closed.
CONSTANTS
  g1 = g1
  w1 = w1
  Gp = {g1}
  PhyPp = {}
  VirtPp = {}
  Soft = {}
  Wait = {w1}
  GpFence = {"GP"}
  PpFence = {"GP"}
  SoftFence = {}
  WaitFence = {"GP"}
  PointModulus = 10
  MaxPointSpan = 3
  StartPoint = 8
  SyncTracker = {w1}
  DmaTracker = {}
  PairedGp = {}
  MaxAdvance = 3
  MayFill = FALSE
  AllocMayFail = FALSE
  GpuMayFail = FALSE
  NoTracker = NoTracker
  Tracker <- AllTrackers
  Kind <- KindOf
  FenceOn <- FenceOnOf
SPECIFICATION WaitSpec
INVARIANTS NoTrackerLeft
CHECK_DEADLOCK FALSE
