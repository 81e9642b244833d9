\* Soft jobs signaled in any order, points that wrap, a timeline that may be full.
\* The system may stop: user space may create no more jobs.
CONSTANTS
  s1 = s1
  s2 = s2
  s3 = s3
  Gp = {}
  PhyPp = {}
  VirtPp = {}
  Soft = {s1, s2, s3}
  Wait = {}
  GpFence = {}
  PpFence = {}
  SoftFence = {"SOFT"}
  WaitFence = {}
  PointModulus = 12
  MaxPointSpan = 4
  StartPoint = 9
  SyncTracker = {}
  DmaTracker = {}
  PairedGp = {}
  MaxAdvance = 12
  MayFill = TRUE
  AllocMayFail = FALSE
  GpuMayFail = FALSE
  NoTracker = NoTracker
  Tracker <- AllTrackers
  Kind <- KindOf
  FenceOn <- FenceOnOf
SYMMETRY Symmetry
SPECIFICATION Spec
INVARIANTS TypeOK TrackersInOrder WaitersInOrder
PROPERTIES RefinesFenceSpec
CHECK_DEADLOCK FALSE
