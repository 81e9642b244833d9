\* A GP and two PP jobs with a sync fence, a dma fence and a paired start, and a
\* fence wait.  The system may stop: user space may create no more jobs.
CONSTANTS
  g1 = g1
  p1 = p1
  p2 = p2
  w1 = w1
  Gp = {g1}
  PhyPp = {p1}
  VirtPp = {p2}
  Soft = {}
  Wait = {w1}
  GpFence = {"PP"}
  PpFence = {"GP"}
  SoftFence = {}
  WaitFence = {"PP"}
  PointModulus = 10
  MaxPointSpan = 3
  StartPoint = 8
  SyncTracker = {p1}
  DmaTracker = {p2}
  PairedGp = {g1}
  MaxAdvance = 4
  MayFill = FALSE
  AllocMayFail = FALSE
  GpuMayFail = TRUE
  NoTracker = NoTracker
  Tracker <- AllTrackers
  Kind <- KindOf
  FenceOn <- FenceOnOf
SPECIFICATION Spec
INVARIANTS RefCountExact ActivatedHoldsNothing GpuWaitersReachable TrackerCounts
PROPERTIES RefinesFenceSpec GpuReleasedInOrder
CHECK_DEADLOCK FALSE
