\* A PP job of two parts, queued from the work item, on the only core of a Mali-470 that is
\* suspended and resumed, under fairness.
CONSTANTS
  gpcore = gpcore
  c1 = c1
  c2 = c2
  vgroup = vgroup
  d0 = d0
  d1 = d1
  dummy = dummy
  s1 = s1
  s2 = s2
  g1 = g1
  v1 = v1
  p1 = p1
  p2 = p2
  p3 = p3
  NoJob = NoJob
  Gp = gpcore
  Virtual = vgroup
  Dummy = dummy
  Job = {p1}
  Session = {s1}
  HighPriority = {}
  DeferredJob = {p1}
  MayFail = {}
  MaxPpGroups = 8
  PpCore = {c1}
  HasVirtual = TRUE
  Switchable = {}
  MayPause = TRUE
  Domain <- MCDomain
  DomainOf <- MCDomainOf
  L2Of <- MCL2Of
  JobKind <- MCJobKind
  SubJobs <- MCSubJobs
  SessionOf <- MCSessionOf
SPECIFICATION FairSpec
PROPERTIES QueuedEnds CloseEnds PauseEnds
