\* User-signaled and self-signaled soft jobs until the session closes, under fairness.
\* The system may stop: user space may do nothing more.
CONSTANTS
  s1 = s1
  s2 = s2
  s3 = s3
  Gp = {}
  PhyPp = {}
  VirtPp = {}
  Soft = {s1, s2, s3}
  Wait = {}
  GpFence = {}
  PpFence = {}
  SoftFence = {"SOFT"}
  WaitFence = {}
  PointModulus = 12
  MaxPointSpan = 4
  StartPoint = 9
  SyncTracker = {}
  DmaTracker = {}
  PairedGp = {}
  MaxAdvance = 5
  MayFill = FALSE
  AllocMayFail = FALSE
  GpuMayFail = FALSE
  NoTracker = NoTracker
  Tracker <- AllTrackers
  Kind <- KindOf
  FenceOn <- FenceOnOf
  SelfSignaled = {s3}
SPECIFICATION SoftFairSpec
INVARIANTS SoftTypeOK JobRefCount JobOutlivesTracker ReleasedOnce TimeoutSeesActivated AbortStates
PROPERTIES SignalReturns CloseFreesJobs
CHECK_DEADLOCK FALSE
