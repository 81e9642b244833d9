----------------------------- MODULE MaliFenceWait -----------------------------
(***************************************************************************)
(* The fence wait ioctl (mali_timeline_fence_wait.c) and the end of a      *)
(* session (_mali_ukk_close) on top of the timeline system.                *)
(*                                                                         *)
(* A thread that waits for a fence adds a tracker that is on no timeline   *)
(* and sleeps until it is activated, or until a time-out.  The thread and  *)
(* the activation each have a reference of the memory that holds the       *)
(* tracker, so after a time-out the tracker stays behind.                  *)
(*                                                                         *)
(* The session is closed when its file is, so no ioctl is under way then.  *)
(* Its timeline system is freed as soon as the timelines are empty.        *)
(***************************************************************************)
EXTENDS MaliTimeline

VARIABLES
  thread,    \* what the thread that waits does next: "none", "add", "sleep", "put"
  timed,     \* waits with a time-out
  refcount,  \* wait->refcount
  activated, \* wait->activated
  destroyed  \* the timeline system is freed

waitVars == <<thread, timed, refcount, activated, destroyed>>
sessionVars == <<vars, waitVars>>

Waiter == {t \in Tracker : Kind[t] = "wait"}

WaitInit ==
  /\ Init
  /\ thread = [t \in Waiter |-> "none"]
  /\ timed = {}
  /\ refcount = [t \in Waiter |-> 0]
  /\ activated = {}
  /\ destroyed = FALSE

\* (mutant: one reference for both)
initial_references_one == 1

\* one for the thread and one for the activation
initial_references == 2

\* the last reference frees the memory
put(t) ==
  /\ refcount' = [refcount EXCEPT ![t] = @ - 1]
  /\ activated' = IF refcount[t] = 1 THEN activated \ {t} ELSE activated

\* mali_timeline_fence_wait, up to system_add_tracker; t is new memory
fence_wait(t) ==
  /\ refcount[t] = 0
  /\ tracker_init(t)
  /\ thread' = [thread EXCEPT ![t] = "add"]
  /\ refcount' = [refcount EXCEPT ![t] = initial_references]
  /\ timed' \in {timed \ {t}, timed \cup {t}}
  /\ UNCHANGED <<activated, destroyed>>

fence_wait_add(t) ==
  /\ thread[t] = "add"
  /\ add_tracker_any(t)
  /\ thread' = [thread EXCEPT ![t] = "sleep"]
  /\ UNCHANGED <<timed, refcount, activated, destroyed>>

\* the wait ends and wait->activated is read
fence_wait_wakes(t) ==
  /\ thread[t] = "sleep" /\ (t \in activated \/ t \in timed)
  /\ thread' = [thread EXCEPT ![t] = "put"]
  /\ UNCHANGED <<vars, timed, refcount, activated, destroyed>>

fence_wait_returns(t) ==
  /\ thread[t] = "put"
  /\ put(t)
  /\ thread' = [thread EXCEPT ![t] = "none"]
  /\ UNCHANGED <<vars, timed, destroyed>>

\* (mutant: the thread is not told)
fence_wait_activate_mute(t) ==
  /\ t \in Waiter
  /\ activate_wait(t)
  /\ UNCHANGED waitVars

\* mali_timeline_fence_wait_activate, up to tracker_release
fence_wait_activate(t) ==
  /\ t \in Waiter
  /\ activate_wait(t)
  /\ activated' = activated \cup {t}
  /\ UNCHANGED <<thread, timed, refcount, destroyed>>

\* its rest; nothing uses the tracker between the release and the put
fence_wait_release(t) ==
  /\ t \in Waiter
  /\ tracker_release(t)
  /\ put(t)
  /\ UNCHANGED <<thread, timed, destroyed>>

------------------------------------------------------------------------------
\* the last reference of the file is gone: _mali_ukk_close sets is_aborting
close ==
  /\ \A t \in Waiter : thread[t] = "none"
  /\ \A t \in Tracker : phase[t] # "init"
  /\ abort
  /\ UNCHANGED waitVars

\* (mutant: does not sleep until the timelines are empty)
abort_done_early == sync_queue = {}

\* mali_timeline_system_abort has slept until the timelines are empty, and the
\* work queue was flushed
abort_done ==
  /\ \A tl \in TimelineId : tracker_list[tl] = <<>>
  /\ sync_queue = {}

\* mali_timeline_system_destroy
system_destroy ==
  /\ is_aborting /\ ~timer_enabled /\ ~work_running /\ ~work_pending
  /\ LockFree /\ abort_done /\ ~destroyed
  /\ destroyed' = TRUE
  /\ UNCHANGED <<vars, thread, timed, refcount, activated>>

------------------------------------------------------------------------------
\* steps of MaliTimeline without a fence wait
UnderLock ==
  /\ \/ \E tl \in TimelineId : update_oldest_point(tl)
     \/ \E p \in Point, c \in Tracker \cup {NoTracker} : release_depended(p, c)
     \/ \E t \in Tracker :
          \/ t \notin Waiter /\ tracker_release(t)
          \/ activate_gp_job(t) \/ activate_pp_job(t) \/ put_failed(t)
     \/ drop_mask
     \/ unlock
  /\ UNCHANGED waitVars

Jobs ==
  /\ \/ \E t \in Tracker \ Waiter : tracker_init(t) \/ add_tracker_any(t)
     \/ \E g, p \in Tracker : gp_job_create(g, p)
     \/ \E t \in Tracker : Device(t)
     \/ executor_schedule
     \/ stop_timer
  /\ UNCHANGED waitVars

FenceWait(t) ==
  fence_wait_add(t) \/ fence_wait_wakes(t) \/ fence_wait_returns(t)

WaitNext ==
  \/ UnderLock \/ Jobs
  \/ \E t \in Waiter :
       \/ fence_wait(t) \/ FenceWait(t)
       \/ fence_wait_activate(t) \/ fence_wait_release(t)
  \/ close \/ system_destroy

WaitSpec == WaitInit /\ [][WaitNext]_sessionVars

\* The GPU finishes its jobs, fences signal, work items run and the thread that
\* closes the session goes on.  MaxAdvance leaves finitely many of these steps, so it
\* is enough that one of them is taken when one can be again and again.
Progress ==
  \/ \E t \in Tracker : Device(t) \/ (t \in PairedGp /\ add_tracker_any(t))
  \/ stop_timer

\* Whoever holds the lock runs, and so does one that was asked to schedule; a thread
\* in the ioctl goes on (a time-out fires).  The other steps need the lock, which
\* others take in between: strong fairness.
WaitFairness ==
  /\ WF_sessionVars(\/ UnderLock
                    \/ \E t \in Waiter : fence_wait_activate(t) \/ fence_wait_release(t))
  /\ WF_sessionVars(executor_schedule /\ UNCHANGED waitVars)
  /\ SF_sessionVars((Progress /\ UNCHANGED waitVars) \/ system_destroy)
  /\ \A t \in Waiter : SF_sessionVars(FenceWait(t))

WaitFairSpec == WaitSpec /\ WaitFairness
------------------------------------------------------------------------------
(* Properties                                                                *)

\* The memory of a wait has a reference for the thread and one for the tracker,
\* whichever is done with it first: so it is freed once, by the last, and neither
\* uses it afterwards (the comment on the two references in fence_wait).
WaitReferences ==
  \A t \in Waiter :
    refcount[t] = Count(thread[t] # "none") + Count(phase[t] # "free")

\* When the timeline system is freed, no tracker refers to it any more ("Cancel all
\* sync fence waiters to trigger activation of all remaining trackers",
\* mali_kernel_core.c:1282).
NoTrackerLeft == destroyed => \A t \in Tracker : phase[t] = "free"

\* A wait returns, without a time-out too (the fence is signaled and the thread is
\* told), with the same two exceptions as AddedIsActivated.
WaitReturns ==
  \/ <>[]Forgotten
  \/ \A t \in Waiter : thread[t] # "none" ~> thread[t] = "none" \/ Stuck

\* Closing the session gets to the end, whatever its jobs, fences and waits do,
\* unless user space has let a tracker wait for itself: nobody cancels that wait.
CloseDestroys == is_aborting ~> destroyed \/ Stuck
================================================================================
