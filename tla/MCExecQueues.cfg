\* A Mali-400 MP1 with three alike PP jobs of two parts and a GP job in the queues.
CONSTANTS
  gpcore = gpcore
  c1 = c1
  c2 = c2
  vgroup = vgroup
  d0 = d0
  d1 = d1
  dummy = dummy
  s1 = s1
  s2 = s2
  g1 = g1
  v1 = v1
  p1 = p1
  p2 = p2
  p3 = p3
  NoJob = NoJob
  Gp = gpcore
  Virtual = vgroup
  Dummy = dummy
  Job = {g1, p1, p2, p3}
  Session = {s1}
  HighPriority = {}
  DeferredJob = {}
  MayFail = {}
  MaxPpGroups = 8
  PpCore = {c1}
  HasVirtual = FALSE
  Switchable = {}
  MayPause = FALSE
  Domain <- MCDomain
  DomainOf <- MCDomainOf
  L2Of <- MCL2Of
  JobKind <- MCJobKind
  SubJobs <- MCAlikeSubJobs
  SessionOf <- MCSessionOf
SYMMETRY AlikeJobs
SPECIFICATION Spec
INVARIANTS QueuesInOrder
