\* A soft job that times out while it is signaled.
\* The system may stop: user space may do nothing more.
CONSTANTS
  s1 = s1
  Gp = {}
  PhyPp = {}
  VirtPp = {}
  Soft = {s1}
  Wait = {}
  GpFence = {}
  PpFence = {}
  SoftFence = {"SOFT"}
  WaitFence = {}
  PointModulus = 12
  MaxPointSpan = 4
  StartPoint = 5
  SyncTracker = {}
  DmaTracker = {}
  PairedGp = {}
  MaxAdvance = 3
  MayFill = FALSE
  AllocMayFail = FALSE
  GpuMayFail = FALSE
  NoTracker = NoTracker
  Tracker <- AllTrackers
  Kind <- KindOf
  FenceOn <- FenceOnOf
  SelfSignaled = {}
SPECIFICATION SoftSpec
INVARIANTS JobOutlivesCalls
CHECK_DEADLOCK FALSE
