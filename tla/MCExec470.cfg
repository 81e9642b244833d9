\* A Mali-470 MP2 with a virtual and a physical PP job, and the device suspended and
\* resumed at any time.
CONSTANTS
  gpcore = gpcore
  c1 = c1
  c2 = c2
  vgroup = vgroup
  d0 = d0
  d1 = d1
  dummy = dummy
  s1 = s1
  s2 = s2
  g1 = g1
  v1 = v1
  p1 = p1
  p2 = p2
  p3 = p3
  NoJob = NoJob
  Gp = gpcore
  Virtual = vgroup
  Dummy = dummy
  Job = {v1, p1}
  Session = {s1}
  HighPriority = {}
  DeferredJob = {p1}
  MayFail = {v1}
  MaxPpGroups = 8
  PpCore = {c1, c2}
  HasVirtual = TRUE
  Switchable = {}
  MayPause = TRUE
  Domain <- MCDomain
  DomainOf <- MCDomainOf
  L2Of <- MCL2Of
  JobKind <- MCJobKind
  SubJobs <- MCSubJobs
  SessionOf <- MCSessionOf
SPECIFICATION Spec
INVARIANTS PoweredWhileWorking RefsExact VirtualInStep VirtualIsAwaited OffWhenSuspended PoweredDownQuiet NoLostPowerUp
