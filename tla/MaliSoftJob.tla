------------------------------ MODULE MaliSoftJob ------------------------------
(***************************************************************************)
(* The soft job system of one session (mali_soft_job.c) on top of its      *)
(* timeline system.  A soft job is work of the CPU that takes part in the  *)
(* timelines: it is started with a fence, activated, and then signaled by  *)
(* user space, timed out by the timeline timer, or, for the self-signaled  *)
(* type, complete on activation.  A signal that comes before the           *)
(* activation sleeps; one that comes after the time-out only collects the  *)
(* job.  Whoever finishes the job releases its tracker and drops a         *)
(* reference of the job; the last reference frees it.                      *)
(*                                                                         *)
(* Each action takes one step of MaliTimeline, or changes only the soft    *)
(* job variables: SoftSpec => Spec holds by construction, and what is      *)
(* proved or checked of the timelines holds here.                          *)
(***************************************************************************)
EXTENDS MaliTimeline

CONSTANT SelfSignaled \* jobs of type MALI_SOFT_JOB_TYPE_SELF_SIGNALED

ASSUME SoftJobAssumption == SelfSignaled \subseteq {t \in Tracker : IsSoft(t)}

VARIABLES
  job_state,  \* job->state; "FREE" is memory that is not a job
  refcount,   \* job->refcount
  activated,  \* jobs with job->activated
  signaler,   \* what the thread that signals (or aborts) the job does next
  abort_list, \* jobs on the local list of soft_job_system_abort
  aborted     \* soft_job_system_abort has emptied jobs_used

softVars == <<job_state, refcount, activated, signaler, abort_list, aborted>>
allVars == <<vars, softVars>>

Job == {t \in Tracker : IsSoft(t)}
Allocated == {t \in Job : job_state[t] # "FREE"}

SoftInit ==
  /\ Init
  /\ job_state = [t \in Job |-> "FREE"]
  /\ refcount = [t \in Job |-> 0]
  /\ activated = {}
  /\ signaler = [t \in Job |-> "none"]
  /\ abort_list = {}
  /\ aborted = FALSE

\* mali_soft_job_destroy: drop a reference; the last one frees the job
destroy(t) ==
  /\ refcount' = [refcount EXCEPT ![t] = @ - 1]
  /\ IF refcount[t] = 1
     THEN /\ job_state' = [job_state EXCEPT ![t] = "FREE"]
          /\ activated' = activated \ {t}
     ELSE UNCHANGED <<job_state, activated>>

------------------------------------------------------------------------------
(* Starting a job: soft_job_start_wrapper                                    *)

\* soft_job_start begins; the tracker is not initialised yet
Starting(t) ==
  job_state[t] \in {"STARTED", "SIGNALED"} /\ phase[t] = "free" /\ t \notin activated

\* Jobs that still have to get a point, for the bound MaxAdvance: a job that is created
\* can be added.  One is left for the number 0 that is skipped.
Unadded == {t \in Job : job_state[t] = "ALLOCATED" \/ Starting(t) \/ phase[t] = "init"}

\* (mutant: no reference for the creator)
initial_refcount_zero == 0

\* _mali_osk_atomic_init of the reference count
initial_refcount == 1

soft_job_create(t) ==
  /\ ~is_aborting
  /\ minus(point_next["SOFT"], StartPoint) + Cardinality(Unadded) + 1 < MaxAdvance
  /\ t \in Job /\ job_state[t] = "FREE" /\ phase[t] = "free"
  /\ job_state' = [job_state EXCEPT ![t] = "ALLOCATED"]
  /\ refcount' = [refcount EXCEPT ![t] = initial_refcount]
  /\ UNCHANGED <<vars, activated, signaler, abort_list, aborted>>

\* the job id could not be copied to user space
create_failed(t) ==
  /\ t \in Job /\ job_state[t] = "ALLOCATED"
  /\ destroy(t)
  /\ UNCHANGED <<vars, signaler, abort_list, aborted>>

\* mali_soft_job_start in three steps: the state, the tracker, the timeline.  User
\* space knows the job id before the first.
soft_job_start(t) ==
  /\ t \in Job /\ job_state[t] = "ALLOCATED"
  /\ job_state' = [job_state EXCEPT ![t] = "STARTED"]
  /\ UNCHANGED <<vars, refcount, activated, signaler, abort_list, aborted>>

start_tracker(t) ==
  /\ t \in Job /\ Starting(t)
  /\ tracker_init(t)
  /\ UNCHANGED softVars

start_add(t) ==
  /\ t \in Job
  /\ add_tracker_any(t)
  /\ UNCHANGED softVars

------------------------------------------------------------------------------
(* Signaling a job: mali_soft_job_system_signal_job                          *)

\* (mutant: a signaled job can be signaled again)
may_signal_twice(t) == job_state[t] \in {"STARTED", "SIGNALED", "TIMED_OUT"}

\* the job is waiting for its signal
may_signal(t) == job_state[t] \in {"STARTED", "TIMED_OUT"}

\* A job that timed out is only destroyed; the signaler of a started job first
\* waits until it is activated.
signal_job(t) ==
  /\ ~is_aborting
  /\ t \in Job \ SelfSignaled
  /\ may_signal(t)
  /\ job_state' = [job_state EXCEPT ![t] = "SIGNALED"]
  /\ signaler' = [signaler EXCEPT ![t] =
                    IF job_state[t] = "STARTED" THEN "wait" ELSE "destroy"]
  /\ UNCHANGED <<vars, refcount, activated, abort_list, aborted>>

\* the wait is over: tracker_release
signal_release(t) ==
  /\ t \in Job /\ signaler[t] = "wait" /\ t \in activated
  /\ soft_release(t)
  /\ signaler' = [signaler EXCEPT ![t] = "release"]
  /\ UNCHANGED <<job_state, refcount, activated, abort_list, aborted>>

signal_destroy(t) ==
  /\ t \in Job \ abort_list /\ signaler[t] = "destroy"
  /\ destroy(t)
  /\ signaler' = [signaler EXCEPT ![t] = "none"]
  /\ UNCHANGED <<vars, abort_list, aborted>>

------------------------------------------------------------------------------
(* What the timeline system calls, under its lock                            *)

\* (mutant: nobody is told)
activated_after_never(t) == activated

\* job->activated, which ends the wait of the signaler
activated_after(t) == IF is_aborting THEN activated ELSE activated \cup {t}

\* mali_soft_job_system_activate_job: a self-signaled job is complete, and an
\* aborting session releases any job, without a change of its state
activate_job(t) ==
  /\ t \in Job
  /\ activate_soft_job(t, is_aborting \/ t \in SelfSignaled)
  /\ activated' = activated_after(t)
  /\ job_state' = IF t \in SelfSignaled /\ ~is_aborting
                  THEN [job_state EXCEPT ![t] = "SIGNALED"] ELSE job_state
  /\ UNCHANGED <<refcount, signaler, abort_list, aborted>>

\* (mutant: a job that is being signaled is timed out too)
times_out_always(t) == ~is_aborting /\ t \in Allocated

\* a time-out is ignored when the session aborts or when a signal was first
times_out(t) == ~is_aborting /\ t \in Job /\ job_state[t] = "STARTED"

\* (mutant: no reference is taken)
time_out_unreferenced(t) ==
  /\ job_state' = [job_state EXCEPT ![t] = "TIMED_OUT"]
  /\ UNCHANGED refcount

\* the job stays for the late signal, so it takes a reference for its own destroy
time_out(t) ==
  /\ job_state' = [job_state EXCEPT ![t] = "TIMED_OUT"]
  /\ refcount' = [refcount EXCEPT ![t] = @ + 1]

\* mali_soft_job_system_timeout_job, called by timer_callback
timeout_job ==
  LET t    == First(tracker_list["SOFT"])
      done == timer_enabled /\ t \in timer_active /\ t \in due /\ times_out(t)
  IN  /\ timer_callback(done)
      /\ IF done THEN time_out(t) ELSE UNCHANGED <<job_state, refcount>>
      /\ UNCHANGED <<activated, signaler, abort_list, aborted>>

\* mali_soft_job_destroy at the end of an activation or a time-out
destroy_locked(t) ==
  /\ t \in Job
  /\ soft_job_destroy(t)
  /\ destroy(t)
  /\ UNCHANGED <<signaler, abort_list, aborted>>

\* The outermost call returns: a signaler that released its tracker goes on.
return_from_release ==
  /\ unlock
  /\ signaler' = [t \in Job |-> IF signaler[t] = "release" THEN "destroy" ELSE signaler[t]]
  /\ UNCHANGED <<job_state, refcount, activated, abort_list, aborted>>

------------------------------------------------------------------------------
(* Closing the session: _mali_ukk_close and mali_soft_job_system_abort       *)

\* The last reference of the file is gone: no ioctl is under way.
close ==
  /\ \A t \in Tracker : phase[t] # "init"
  /\ \A t \in Job : job_state[t] # "ALLOCATED" /\ ~Starting(t) /\ signaler[t] = "none"
  /\ abort
  /\ UNCHANGED softVars

\* (mutant: forgets the jobs that are active)
unsignaled_none == {}

\* jobs that user space will not signal any more
unsignaled == {t \in Job : job_state[t] = "STARTED" /\ t \in activated}

\* first loop, under the soft job lock: what is activated or timed out must be
\* destroyed here, the rest when it is activated
abort_collect ==
  /\ is_aborting /\ ~aborted
  /\ ~timer_enabled /\ ~work_pending /\ ~work_running /\ ~timeline_timer
  /\ job_state' = [t \in Job |-> IF t \in unsignaled THEN "SIGNALED" ELSE job_state[t]]
  /\ abort_list' = unsignaled \cup {t \in Job : job_state[t] = "TIMED_OUT"}
  /\ aborted' = TRUE
  /\ UNCHANGED <<vars, refcount, activated, signaler>>

\* second loop, one job at a time: release the tracker (unless the job timed out),
\* then move the job back and destroy it
abort_release(t) ==
  /\ t \in abort_list /\ job_state[t] = "SIGNALED"
  /\ \A u \in Job : signaler[u] = "none"
  /\ soft_release(t)
  /\ signaler' = [signaler EXCEPT ![t] = "release"]
  /\ UNCHANGED <<job_state, refcount, activated, abort_list, aborted>>

\* back to jobs_used, without the lock of the soft job system; signal_destroy follows
abort_move(t) ==
  /\ t \in abort_list
  /\ \A u \in Job : signaler[u] = IF u = t /\ job_state[t] = "SIGNALED" THEN "destroy"
                                  ELSE "none"
  /\ abort_list' = abort_list \ {t}
  /\ signaler' = [signaler EXCEPT ![t] = "destroy"]
  /\ UNCHANGED <<vars, job_state, refcount, activated, aborted>>

------------------------------------------------------------------------------
\* steps of MaliTimeline that do not touch a soft job
Timeline ==
  /\ \/ \E t \in Tracker \ Job : tracker_init(t) \/ add_tracker_any(t)
     \/ \E g, p \in Tracker : gp_job_create(g, p)
     \/ \E tl \in TimelineId : update_oldest_point(tl)
     \/ \E p \in Point, c \in Tracker \cup {NoTracker} : release_depended(p, c)
     \/ \E t \in Tracker :
          \/ tracker_release(t) \/ activate_gp_job(t) \/ activate_pp_job(t)
          \/ activate_wait(t) \/ put_failed(t) \/ end_timeout(t) \/ Device(t)
     \/ update_delayed_work
     \/ drop_mask
     \/ timer_expires
     \/ \E t \in Tracker : time_passes(t)
     \/ executor_schedule
     \/ stop_timer
     \/ cancel_work_sync
  /\ UNCHANGED softVars

SoftNext ==
  \/ Timeline
  \/ \E t \in Job :
       \/ soft_job_create(t) \/ create_failed(t) \/ soft_job_start(t)
       \/ start_tracker(t) \/ start_add(t)
       \/ signal_job(t) \/ signal_release(t) \/ signal_destroy(t)
       \/ activate_job(t) \/ destroy_locked(t)
       \/ abort_release(t) \/ abort_move(t)
  \/ timeout_job
  \/ return_from_release
  \/ close
  \/ abort_collect

SoftSpec == SoftInit /\ [][SoftNext]_allVars

\* Whoever holds the lock runs.
UnderLock ==
  \/ Timeline /\ stack # <<>>
  \/ \E t \in Job : activate_job(t) \/ destroy_locked(t)
  \/ return_from_release

\* So do the other threads in the kernel: an ioctl that started a job adds it, a
\* signaler and the closing thread go on, and the timer expires.
Threads ==
  \/ Timeline /\ (timer_expires \/ stop_timer \/ cancel_work_sync)
  \/ timeout_job
  \/ abort_collect
  \/ \E t \in Job :
       \/ start_tracker(t) \/ start_add(t)
       \/ signal_release(t) \/ signal_destroy(t)
       \/ abort_release(t) \/ abort_move(t)

\* These need the lock, which others take in between: strong fairness.  MaxAdvance
\* leaves finitely many of them, so it is enough that one is taken when one can be
\* again and again.  Nothing is assumed of user space: it need not signal a job or
\* close the session.
SoftFairness == WF_allVars(UnderLock) /\ SF_allVars(Threads)

SoftFairSpec == SoftSpec /\ SoftFairness
------------------------------------------------------------------------------
(* Properties                                                                *)

SoftTypeOK ==
  /\ job_state \in [Job -> {"FREE", "ALLOCATED", "STARTED", "SIGNALED", "TIMED_OUT"}]
  /\ refcount \in [Job -> Nat]
  /\ activated \in SUBSET Job
  /\ signaler \in [Job -> {"none", "wait", "release", "destroy"}]
  /\ abort_list \in SUBSET Job
  /\ aborted \in BOOLEAN

Frames(op, t) == Cardinality({i \in DOMAIN stack : stack[i] = Call(op, t)})

\* The reference count of a job is what is still owed to it: the reference of its
\* creation, which passes to whoever signals, aborts or completes it, and one for
\* each mali_soft_job_destroy that an activation or time-out has ahead of it.
JobRefCount ==
  \A t \in Job :
    refcount[t] =
      Frames("destroy", t)
      + Count(/\ job_state[t] \in {"ALLOCATED", "STARTED", "TIMED_OUT"}
              /\ ~(job_state[t] = "STARTED" /\ Frames("destroy", t) > 0))
      + Count(job_state[t] = "SIGNALED" /\ (signaler[t] # "none" \/ t \in abort_list))

\* The memory of a job, which holds its tracker, is there as long as the tracker is in
\* use, a signaler or the abort works on the job, or a call that activates, releases
\* or destroys it is on the stack.  Not as long as the delayed work uses it: see
\* JobOutlivesCalls.
JobOutlivesTracker ==
  \A t \in Job :
    \/ phase[t] # "free" \/ signaler[t] # "none" \/ t \in abort_list
    \/ \E op \in {"activate", "release", "destroy"} : Frames(op, t) > 0
    => job_state[t] # "FREE"

\* What the reference count is for (mali_soft_job.h:69): no call on the stack works on a
\* job that was freed.  It fails: timeout_job drops its reference before timer_callback
\* clears tracker->timer_active of the tracker in the job.
JobOutlivesCalls ==
  \A t \in Job, op \in {"activate", "release", "destroy", "end_timeout"} :
    Frames(op, t) > 0 => job_state[t] # "FREE"

\* The tracker of a job is released once, by one of the signaler, the time-out, the
\* activation or the abort, and it is active then (the asserts of tracker_release:
\* trigger_ref_count is 0, the tracker is still on its timeline).
ReleasedOnce ==
  \A t \in Job :
    LET pending == Frames("release", t)
                     + Count(signaler[t] = "wait" /\ t \in activated)
                     + Count(/\ t \in abort_list /\ job_state[t] = "SIGNALED"
                             /\ signaler[t] = "none")
    IN  pending > 0 => pending = 1 /\ phase[t] = "active"

\* When the delayed work times out the tail of the SOFT timeline, the job is activated
\* and either started or already signaled (the asserts of timeout_job).
TimeoutSeesActivated ==
  LET t == First(tracker_list["SOFT"])
  IN  LockFree /\ work_running /\ timer_enabled /\ t \in timer_active =>
        t \in activated /\ job_state[t] \in {"STARTED", "SIGNALED"}

\* Once stop_timer has held the lock, every job of a session that closes is started
\* or timed out: nothing that began before is_aborting was set is half done (the
\* assert in the first loop of soft_job_system_abort).
AbortStates ==
  is_aborting /\ ~timer_enabled /\ ~aborted =>
    \A t \in Allocated : job_state[t] \in {"STARTED", "TIMED_OUT"}

\* The oldest soft job is active and marked as timed, but no work is queued for it: a
\* late timer_callback has cleared timer_active of the timeline.
Untimed ==
  LET tail == First(tracker_list["SOFT"])
  IN  timer_enabled /\ tail \in timer_active /\ ~work_pending /\ ~work_running

\* A job that is never activated: it waits for itself or its waiter is lost.
NeverActivated == Stuck \/ ~SoftWaitersReachable

\* A signal returns: the job it waits for is activated, because the timer completes
\* the jobs that user space forgets.
SignalReturns ==
  \/ <>[]Untimed
  \/ \A t \in Job : signaler[t] # "none" ~> signaler[t] = "none" \/ NeverActivated

\* Closing the session frees every soft job, activated or not, unless one of them can
\* never be activated.
CloseFreesJobs == is_aborting ~> Allocated = {} \/ NeverActivated
==============================================================================
