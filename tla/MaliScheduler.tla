---------------------------- MODULE MaliScheduler ----------------------------
(***************************************************************************)
(* The job scheduler (mali_scheduler.c) with the counters and the list     *)
(* functions of its jobs (mali_pp_job.h, mali_pp_job.c, mali_gp_job.c).    *)
(*                                                                         *)
(* A job is known to the driver from its submission (its tracker is on a   *)
(* timeline) until its object is deleted.  When the timeline activates it, *)
(* it is queued by priority; the executor takes GP jobs, virtual PP jobs   *)
(* and the sub jobs of physical PP jobs from the queues.  Closing a        *)
(* session takes its jobs off the queues.                                  *)
(*                                                                         *)
(* An action here is one region of mali_scheduler_lock.  What the executor *)
(* does with the queues under both locks is in MaliExecutor.               *)
(***************************************************************************)
EXTENDS Integers, SequencesExt, FiniteSetsExt

CONSTANTS
  Job,          \* job objects; each is reused once it is deleted
  NoJob,        \* NULL
  JobKind,      \* "gp", "virtual" or "physical"
  SubJobs,      \* sub_jobs_num; 1 for a GP job
  Session,
  SessionOf,
  HighPriority, \* sessions with use_high_priority_job_queue
  DeferredJob,  \* PP jobs whose memory is mapped before they are queued
  MayFail,      \* PP jobs that may be activated with an error or fail to swap in
  MaxPpGroups   \* MALI_MAX_NUMBER_OF_PHYSICAL_PP_GROUPS (8)

ASSUME SchedulerAssumption ==
  /\ NoJob \notin Job
  /\ JobKind \in [Job -> {"gp", "virtual", "physical"}]
  /\ SubJobs \in [Job -> Nat \ {0}]
  /\ \A j \in Job : JobKind[j] # "physical" => SubJobs[j] = 1
  /\ SessionOf \in [Job -> Session]
  /\ HighPriority \subseteq Session
  /\ DeferredJob \subseteq {j \in Job : JobKind[j] # "gp"}
  /\ MayFail \subseteq {j \in Job : JobKind[j] # "gp"}
  /\ MaxPpGroups \in Nat \ {0}

VARIABLES
  job_phase,          \* "free", "timeline", "deferred", "queued" (or running), "done"
  created,            \* live jobs in the order of their ids
  job_queue_gp,       \* high_pri and normal_pri
  job_queue_pp,
  depth,              \* job_queue_gp.depth and job_queue_pp.depth
  sub_jobs_started,
  sub_jobs_completed,
  session_phase,      \* "open", or how far _mali_ukk_close got
  schedule_due        \* somebody is about to call mali_executor_schedule

jobVars   == <<job_phase, created, sub_jobs_started, sub_jobs_completed>>
queueVars == <<job_queue_gp, job_queue_pp, depth>>
schedulerVars == <<jobVars, queueVars, session_phase, schedule_due>>

Physical(j)    == JobKind[j] = "physical"
Virtual_(j)    == JobKind[j] = "virtual"
HasStarted(j)  == sub_jobs_started[j] > 0
Unstarted(j)   == SubJobs[j] - sub_jobs_started[j]
UnstartedOf(S) == SumFunctionOnSet([j \in Job |-> Unstarted(j)], S)

\* (mutant: the first sub job that ends takes the job with it)
completes_any(j) == TRUE

\* the sub job of j that ends is the last
completes(j) == sub_jobs_completed[j] + 1 = SubJobs[j]

is_aborting(j) == session_phase[SessionOf[j]] # "open"
QueueOf(j)     == IF SessionOf[j] \in HighPriority THEN "high" ELSE "normal"

\* the list q after a walk over it that unlinks the jobs outside S
Kept(q, S) ==
  LET walk[n \in 0..Len(q)] ==
        IF n = 0 THEN <<>>
        ELSE IF q[n] \in S THEN Append(walk[n - 1], q[n]) ELSE walk[n - 1]
  IN  walk[Len(q)]

Without(q, j)  == Kept(q, Job \ {j})
CreatedBefore(i, j) == SelectInSeq(created, LAMBDA k : k = i)
                         < SelectInSeq(created, LAMBDA k : k = j)

\* a job counts for gp_tracker_count and its sisters until its tracker is released
HasTracker(kind) ==
  \E j \in Job : JobKind[j] = kind /\ job_phase[j] \in {"timeline", "deferred", "queued"}

(***************************************************************************)
(* What the executor asks the queues.                                      *)
(***************************************************************************)
Leading(q, P(_)) == {q[i] : i \in {k \in DOMAIN q : \A l \in 1..k : P(q[l])}}

\* the partially started job of the normal queue, if any (it is physical)
Partial ==
  LET normal == job_queue_pp.normal
  IN  {j \in Range(normal) : j = Head(normal) /\ HasStarted(j)}

\* physical jobs at the front of the queues
physical_heads ==
  LET high    == Leading(job_queue_pp.high, Physical)
      normal  == IF high = Range(job_queue_pp.high)
                 THEN Leading(job_queue_pp.normal,
                              LAMBDA j : Physical(j) /\ ~HasStarted(j))
                 ELSE {}
  IN  Partial \cup high \cup normal

physical_head_count == Min({MaxPpGroups, UnstartedOf(physical_heads)})

physical_peek ==
  LET normal == {j \in Range(job_queue_pp.normal) : j = Head(job_queue_pp.normal) /\ Physical(j)}
      high   == {j \in Range(job_queue_pp.high) : j = Head(job_queue_pp.high) /\ Physical(j)}
      best   == IF Partial = {} /\ high # {} THEN high ELSE normal
  IN  IF best = {} THEN NoJob ELSE CHOOSE j \in best : TRUE

virtual_peek ==
  LET heads(q) == {j \in Range(q) : j = Head(q) /\ Virtual_(j)}
      high     == heads(job_queue_pp.high)
      best     == IF high # {} THEN high ELSE heads(job_queue_pp.normal)
  IN  IF best = {} THEN NoJob ELSE CHOOSE j \in best : TRUE

next_is_virtual == virtual_peek # NoJob

gp_peek == Head(IF job_queue_gp.high # <<>> THEN job_queue_gp.high ELSE job_queue_gp.normal)

\* (mutant: off by one)
last_sub_job_early(j) == Unstarted(j) <= 2

last_sub_job(j) == Unstarted(j) = 1

\* physical_get, virtual_get and gp_get: start the next sub job of j and take
\* j off its queue with the last one
pp_get(j) ==
  /\ sub_jobs_started' = [sub_jobs_started EXCEPT ![j] = @ + 1]
  /\ job_queue_pp' = IF last_sub_job(j)
                     THEN [job_queue_pp EXCEPT ![QueueOf(j)] = Without(@, j)]
                     ELSE job_queue_pp
  /\ depth' = [depth EXCEPT !.pp = @ - 1]
  /\ UNCHANGED job_queue_gp

gp_get(j) ==
  /\ sub_jobs_started' = [sub_jobs_started EXCEPT ![j] = @ + 1]
  /\ job_queue_gp' = [job_queue_gp EXCEPT ![QueueOf(j)] = Without(@, j)]
  /\ depth' = [depth EXCEPT !.gp = @ - 1]
  /\ UNCHANGED job_queue_pp

(***************************************************************************)
(* Queueing.                                                               *)
(***************************************************************************)
\* (mutant: does not look further than the tail)
list_add_tail(j, q) ==
  LET before == {i \in DOMAIN q : HasStarted(q[i]) \/ CreatedBefore(q[i], j)}
  IN  InsertAt(q, Max(before \cup {0, Len(q) - 1}) + 1, j)

\* from the tail to behind a job that is in progress or older
list_add(j, q) ==
  LET before == {i \in DOMAIN q : HasStarted(q[i]) \/ CreatedBefore(q[i], j)}
  IN  InsertAt(q, Max(before \cup {0}) + 1, j)

queue_gp_job(j) ==
  /\ job_phase' = [job_phase EXCEPT ![j] = "queued"]
  /\ job_queue_gp' = [job_queue_gp EXCEPT ![QueueOf(j)] = list_add(j, @)]
  /\ depth' = [depth EXCEPT !.gp = @ + 1]
  /\ UNCHANGED <<created, job_queue_pp, sub_jobs_started, sub_jobs_completed>>

queue_pp_job(j) ==
  /\ job_phase' = [job_phase EXCEPT ![j] = "queued"]
  /\ job_queue_pp' = [job_queue_pp EXCEPT ![QueueOf(j)] = list_add(j, @)]
  /\ depth' = [depth EXCEPT !.pp = @ + SubJobs[j]]
  /\ UNCHANGED <<created, job_queue_gp, sub_jobs_started, sub_jobs_completed>>

\* j may be activated by the release of a PP job that fails: that is a job of its session,
\* whose failed activation is not over yet
may_drop(j) == \E f \in MayFail \ {j} : SessionOf[f] = SessionOf[j] /\ job_phase[f] = "timeline"

\* the mask of the activation of j gets to mali_executor_schedule_from_mask, unless it is
\* dropped by the failed activation that releases what j waits for
return_mask(j) == schedule_due' = TRUE \/ (may_drop(j) /\ schedule_due' = schedule_due)

delete_job(j) ==
  /\ job_phase' = [job_phase EXCEPT ![j] = "free"]
  /\ created' = Without(created, j)
  /\ sub_jobs_started' = [sub_jobs_started EXCEPT ![j] = 0]
  /\ sub_jobs_completed' = [sub_jobs_completed EXCEPT ![j] = 0]

\* release the tracker of a job that was never queued and delete the job
fail_job(j) == delete_job(j) /\ UNCHANGED <<queueVars, schedule_due>>

\* the job object is created and its tracker added to a timeline
start_job(j) ==
  /\ job_phase[j] = "free" /\ ~is_aborting(j)
  /\ job_phase' = [job_phase EXCEPT ![j] = "timeline"]
  /\ created' = Append(created, j)
  /\ UNCHANGED <<queueVars, sub_jobs_started, sub_jobs_completed, session_phase, schedule_due>>

activate_gp_job(j) ==
  /\ JobKind[j] = "gp" /\ job_phase[j] = "timeline"
  /\ IF is_aborting(j) THEN fail_job(j) ELSE queue_gp_job(j) /\ return_mask(j)
  /\ UNCHANGED session_phase

activate_pp_job(j) ==
  /\ JobKind[j] # "gp" /\ job_phase[j] = "timeline"
  /\ \/ j \in MayFail /\ fail_job(j) \* activation error
     \/ /\ j \in DeferredJob
        /\ job_phase' = [job_phase EXCEPT ![j] = "deferred"]
        /\ UNCHANGED <<created, queueVars, sub_jobs_started, sub_jobs_completed, schedule_due>>
     \/ /\ j \notin DeferredJob
        /\ \/ is_aborting(j) /\ fail_job(j)
           \/ ~is_aborting(j) /\ queue_pp_job(j) /\ return_mask(j)
  /\ UNCHANGED session_phase

\* (mutant: does not look at the session)
do_pp_job_queue_late(j) ==
  /\ job_phase[j] = "deferred"
  /\ queue_pp_job(j) /\ schedule_due' = TRUE
  /\ UNCHANGED session_phase

\* the work item of the deferred queue; the tracker of a job that fails is
\* released, and the mask of that release is honoured
do_pp_job_queue(j) ==
  /\ job_phase[j] = "deferred"
  /\ \/ (is_aborting(j) \/ j \in MayFail) /\ fail_job(j)
     \/ ~is_aborting(j) /\ queue_pp_job(j) /\ schedule_due' = TRUE
  /\ UNCHANGED session_phase

(***************************************************************************)
(* Completion and closing.                                                 *)
(***************************************************************************)
\* the object is deleted and the runtime PM reference of its queueing is put
complete_job(j) ==
  /\ job_phase[j] = "done" /\ delete_job(j)
  /\ UNCHANGED <<queueVars, session_phase, schedule_due>>

begin_close(s) ==
  /\ session_phase[s] = "open"
  /\ session_phase' = [session_phase EXCEPT ![s] = "scheduler"]
  /\ UNCHANGED <<jobVars, queueVars, schedule_due>>

\* (mutant: jobs that were never started are forgotten)
ended_started(pp) ==
  {j \in pp : HasStarted(j) /\ sub_jobs_completed[j] + Unstarted(j) = SubJobs[j]}

\* jobs that are complete once the sub jobs not started count as completed
ended(pp) == {j \in pp : sub_jobs_completed[j] + Unstarted(j) = SubJobs[j]}

\* (mutant: also the sub jobs that were started leave the depth)
depth_without_all(gp, pp) ==
  [gp |-> depth.gp - Cardinality(gp), pp |-> depth.pp - SumFunctionOnSet(SubJobs, pp)]

depth_without(gp, pp) ==
  [gp |-> depth.gp - Cardinality(gp), pp |-> depth.pp - UnstartedOf(pp)]

abort_session(s) ==
  /\ session_phase[s] = "scheduler"
  /\ LET Mine(q)  == {j \in Range(q) : SessionOf[j] = s}
         Rest(q)  == Kept(q, {j \in Job : SessionOf[j] # s})
         gp       == Mine(job_queue_gp.high) \cup Mine(job_queue_gp.normal)
         pp       == Mine(job_queue_pp.high) \cup Mine(job_queue_pp.normal)
     IN  /\ job_queue_gp' = [p \in DOMAIN job_queue_gp |-> Rest(job_queue_gp[p])]
         /\ job_queue_pp' = [p \in DOMAIN job_queue_pp |-> Rest(job_queue_pp[p])]
         /\ depth' = depth_without(gp, pp)
         /\ sub_jobs_started' = [j \in Job |-> IF j \in pp THEN SubJobs[j] ELSE sub_jobs_started[j]]
         /\ sub_jobs_completed' =
              [j \in Job |-> sub_jobs_completed[j] + IF j \in pp THEN Unstarted(j) ELSE 0]
         /\ job_phase' = [j \in Job |-> IF j \in gp \cup ended(pp) THEN "done" ELSE job_phase[j]]
  /\ session_phase' = [session_phase EXCEPT ![s] = "executor"]
  /\ UNCHANGED <<created, schedule_due>>

\* timeline_system_abort has activated what was left and all jobs are deleted;
\* the session may be opened anew
end_close(s) ==
  /\ session_phase[s] = "drain"
  /\ \A j \in Job : SessionOf[j] = s => job_phase[j] = "free"
  /\ session_phase' = [session_phase EXCEPT ![s] = "open"]
  /\ UNCHANGED <<jobVars, queueVars, schedule_due>>

SchedulerInit ==
  /\ job_phase = [j \in Job |-> "free"]
  /\ created = <<>>
  /\ job_queue_gp = [high |-> <<>>, normal |-> <<>>]
  /\ job_queue_pp = [high |-> <<>>, normal |-> <<>>]
  /\ depth = [gp |-> 0, pp |-> 0]
  /\ sub_jobs_started = [j \in Job |-> 0]
  /\ sub_jobs_completed = [j \in Job |-> 0]
  /\ session_phase = [s \in Session |-> "open"]
  /\ schedule_due = FALSE
==============================================================================
