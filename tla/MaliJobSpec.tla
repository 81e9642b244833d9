----------------------------- MODULE MaliJobSpec -----------------------------
(***************************************************************************)
(* What the scheduler and the executor promise together: every sub job of  *)
(* a job runs at most once, one at a time on a group; a job is given back  *)
(* only when none of its sub jobs runs and either none is left or none was *)
(* ever started; and a session that closes ends without jobs.              *)
(***************************************************************************)
EXTENDS Integers

CONSTANTS Job, NoJob, SubJobs, Session, SessionOf, Group

VARIABLES
  live,    \* jobs that were submitted and not yet given back
  todo,    \* sub jobs of each job that are neither started nor cancelled
  busy,    \* the job each group runs
  closing  \* sessions that are being closed

jobSpecVars == <<live, todo, busy, closing>>

JobsOf(s) == {j \in live : SessionOf[j] = s}

JobSpecInit ==
  /\ live = {} /\ todo = [j \in Job |-> 0]
  /\ busy = [g \in Group |-> NoJob] /\ closing = {}

Submit(j) ==
  /\ j \notin live /\ SessionOf[j] \notin closing
  /\ live' = live \cup {j} /\ todo' = [todo EXCEPT ![j] = SubJobs[j]]
  /\ UNCHANGED <<busy, closing>>

Start(g, j) ==
  /\ j \in live /\ todo[j] > 0 /\ busy[g] = NoJob
  /\ todo' = [todo EXCEPT ![j] = @ - 1] /\ busy' = [busy EXCEPT ![g] = j]
  /\ UNCHANGED <<live, closing>>

Finish(g) ==
  /\ busy[g] # NoJob /\ busy' = [busy EXCEPT ![g] = NoJob]
  /\ UNCHANGED <<live, todo, closing>>

\* what is left of some jobs of a closing session will not be started
Cancel(s) ==
  /\ s \in closing
  /\ \E S \in SUBSET JobsOf(s) : todo' = [j \in Job |-> IF j \in S THEN 0 ELSE todo[j]]
  /\ UNCHANGED <<live, busy, closing>>

Release(j) ==
  /\ j \in live /\ \A g \in Group : busy[g] # j
  /\ todo[j] \in {0, SubJobs[j]}
  /\ live' = live \ {j} /\ todo' = [todo EXCEPT ![j] = 0]
  /\ UNCHANGED <<busy, closing>>

Close(s) ==
  /\ s \notin closing /\ closing' = closing \cup {s}
  /\ UNCHANGED <<live, todo, busy>>

Closed(s) ==
  /\ s \in closing /\ JobsOf(s) = {} /\ closing' = closing \ {s}
  /\ UNCHANGED <<live, todo, busy>>

JobSpecNext ==
  \/ \E j \in Job : Submit(j) \/ Release(j) \/ \E g \in Group : Start(g, j)
  \/ \E g \in Group : Finish(g)
  \/ \E s \in Session : Cancel(s) \/ Close(s) \/ Closed(s)

JobSpec == JobSpecInit /\ [][JobSpecNext]_jobSpecVars
==============================================================================
