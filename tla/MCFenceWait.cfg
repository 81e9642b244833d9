\* A GP job that may fail, a PP job and a fence wait until the session closes, under
\* fairness, also when a waiter cannot be allocated.
CONSTANTS
  g1 = g1
  p1 = p1
  w1 = w1
  Gp = {g1}
  PhyPp = {p1}
  VirtPp = {}
  Soft = {}
  Wait = {w1}
  GpFence = {"PP"}
  PpFence = {"PP"}
  SoftFence = {}
  WaitFence = {"GP"}
  PointModulus = 10
  MaxPointSpan = 3
  StartPoint = 8
  SyncTracker = {p1}
  DmaTracker = {}
  PairedGp = {g1}
  MaxAdvance = 2
  MayFill = FALSE
  AllocMayFail = TRUE
  GpuMayFail = TRUE
  NoTracker = NoTracker
  Tracker <- AllTrackers
  Kind <- KindOf
  FenceOn <- FenceOnOf
SPECIFICATION WaitFairSpec
INVARIANTS WaitReferences NoTrackerLeft
PROPERTIES AddedIsActivated CloseDestroys WaitReturns
CHECK_DEADLOCK FALSE
