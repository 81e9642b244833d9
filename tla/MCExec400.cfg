\* A Mali-400 MP2 with PP jobs of two sessions, one of high priority; user space disables
\* and enables a core.
CONSTANTS
  gpcore = gpcore
  c1 = c1
  c2 = c2
  vgroup = vgroup
  d0 = d0
  d1 = d1
  dummy = dummy
  s1 = s1
  s2 = s2
  g1 = g1
  v1 = v1
  p1 = p1
  p2 = p2
  p3 = p3
  NoJob = NoJob
  Gp = gpcore
  Virtual = vgroup
  Dummy = dummy
  Job = {p1, p2}
  Session = {s1, s2}
  HighPriority = {s2}
  DeferredJob = {p1}
  MayFail = {p1}
  MaxPpGroups = 8
  PpCore = {c1, c2}
  HasVirtual = FALSE
  Switchable = {c2}
  MayPause = FALSE
  Domain <- MCDomain
  DomainOf <- MCDomainOf
  L2Of <- MCL2Of
  JobKind <- MCJobKind
  SubJobs <- MCSubJobs
  SessionOf <- MCSessionOf
SPECIFICATION Spec
INVARIANTS ExecTypeOK SubJobsAccounted AssignFindsJob AbortedGone
PROPERTIES RefinesJobSpec
