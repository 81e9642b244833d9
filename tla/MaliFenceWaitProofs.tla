-------------------------- MODULE MaliFenceWaitProofs --------------------------
(***************************************************************************)
(* The fence wait takes its steps on the timeline system as MaliTimeline   *)
(* defines them, the memory of a wait is freed once, whichever of the      *)
(* thread and the activation is done with it first, and no tracker is left *)
(* when the timeline system is freed at the end of the session.            *)
(***************************************************************************)
EXTENDS MaliFenceWait, MaliTimelineOrderProofs

\* Every step of the waits and of the end of the session is a step of the timelines or
\* leaves them alone.
LEMMA WaitStep == [WaitNext]_sessionVars => [Next]_vars
<1> SUFFICES ASSUME WaitNext PROVE [Next]_vars
  BY DEF sessionVars
<1>1. CASE UnderLock
  BY <1>1, Zenon DEF UnderLock, Next, Locked
<1>2. CASE Jobs
  <2>1. CASE \E t \in Tracker \ Waiter : tracker_init(t) \/ add_tracker_any(t)
    BY <2>1, Zenon DEF Next, Ioctl
  <2>2. CASE \E g, p \in Tracker : gp_job_create(g, p)
    BY <2>2, Zenon DEF Next, Ioctl
  <2>3. CASE (\E t \in Tracker : Device(t)) \/ executor_schedule \/ stop_timer
    BY <2>3, Zenon DEF Next, Owner, Close
  <2> QED BY <1>2, <2>1, <2>2, <2>3, Zenon DEF Jobs
<1>3. ASSUME NEW t \in Waiter,
             fence_wait(t) \/ FenceWait(t) \/ fence_wait_activate(t) \/ fence_wait_release(t)
      PROVE  [Next]_vars
  <2>1. t \in Tracker
    BY DEF Waiter
  <2>2. CASE fence_wait(t) \/ fence_wait_add(t)
    BY <2>1, <2>2, Zenon DEF fence_wait, fence_wait_add, Next, Ioctl
  <2>3. CASE fence_wait_wakes(t) \/ fence_wait_returns(t)
    BY <2>3, Zenon DEF fence_wait_wakes, fence_wait_returns
  <2>4. CASE fence_wait_activate(t) \/ fence_wait_release(t)
    BY <2>1, <2>4, Zenon DEF fence_wait_activate, fence_wait_release, Next, Locked
  <2> QED BY <1>3, <2>2, <2>3, <2>4, Zenon DEF FenceWait
<1>4. CASE close \/ system_destroy
  BY <1>4, Zenon DEF close, system_destroy, Next, Close
<1> QED BY <1>1, <1>2, <1>3, <1>4, Zenon DEF WaitNext

\* The fence waits implement the timeline system: a wait never adds its tracker twice
\* nor releases it before it is activated.
THEOREM FenceWaitsImplementTimelines == WaitSpec => Spec
<1>1. WaitInit => Init
  BY DEF WaitInit
<1> QED BY <1>1, WaitStep, PTL DEF WaitSpec, Spec

\* So the reference counts of the trackers are exact with fence waits too: no late
\* waiter or fence callback decrements the count of a wait that was activated.
THEOREM FenceWaitsKeepCounts == WaitSpec => [](RefCountExact /\ ActivatedHoldsNothing)
BY FenceWaitsImplementTimelines, RefCountCorrect, ActivatedCorrect, PTL

------------------------------------------------------------------------------
(* The memory of a wait                                                      *)

WaitInv ==
  /\ thread \in [Waiter -> {"none", "add", "sleep", "put"}]
  /\ refcount \in [Waiter -> Int]
  /\ WaitReferences

\* Steps that leave the waits alone, and the phase of their trackers.
LEMMA WaitsSame ==
  ASSUME WaitInv, UNCHANGED <<thread, refcount>>, \A t \in Waiter : phase'[t] = phase[t]
  PROVE  WaitInv'
BY DEF WaitInv, WaitReferences, Count

\* Steps on trackers that are no waits leave the phase of the waits alone.
LEMMA JobPhases ==
  ASSUME TypeInv, Jobs
  PROVE  \A t \in Waiter : phase'[t] = phase[t]
<1>0. phase \in [Tracker -> {"free", "init", "waiting", "active"}] /\ Waiter \subseteq Tracker
  BY DEF TypeInv, TypeOK, TrackerTypes, Waiter
<1>1. ASSUME NEW u \in Tracker \ Waiter, tracker_init(u) PROVE \A t \in Waiter : phase'[t] = phase[t]
  BY <1>0, <1>1 DEF tracker_init
<1>2. ASSUME NEW u \in Tracker \ Waiter, add_tracker_any(u) PROVE \A t \in Waiter : phase'[t] = phase[t]
  BY <1>0, <1>2 DEF add_tracker_any, add_tracker
<1>3. ASSUME NEW g \in Tracker, NEW p \in Tracker, gp_job_create(g, p)
      PROVE  \A t \in Waiter : phase'[t] = phase[t]
  <2>1. g \notin Waiter
    BY <1>3, TimelineAssumption DEF gp_job_create, Waiter
  <2> QED BY <1>0, <1>3, <2>1 DEF gp_job_create
<1>4. ASSUME NEW u \in Tracker, Device(u) PROVE phase' = phase
  BY <1>4, Zenon DEF Device, complete_job, lock, signal_pp_tracker, tracker_put, sync_fence_callback,
     do_sync_fence_callback, dma_fence_callback, trackerVars
<1>5. CASE executor_schedule \/ stop_timer
  BY <1>5, Zenon DEF executor_schedule, stop_timer, trackerVars
<1> QED BY <1>1, <1>2, <1>3, <1>4, <1>5, Zenon DEF Jobs

\* The same for steps under the lock that belong to no wait.
LEMMA LockPhases ==
  ASSUME TypeInv, UnderLock
  PROVE  \A t \in Waiter : phase'[t] = phase[t]
<1>0. phase \in [Tracker -> {"free", "init", "waiting", "active"}] /\ Waiter \subseteq Tracker
  BY DEF TypeInv, TypeOK, TrackerTypes, Waiter
<1>1. CASE \/ \E tl \in TimelineId : update_oldest_point(tl)
           \/ \E p \in Point, c \in Tracker \cup {NoTracker} : release_depended(p, c)
           \/ drop_mask \/ unlock
  <2>1. phase' = phase
    BY <1>1, Zenon DEF update_oldest_point, release_depended, drop_mask, unlock, trackerVars
  <2> QED BY <2>1
<1>2. ASSUME NEW u \in Tracker, u \notin Waiter, tracker_release(u)
      PROVE  \A t \in Waiter : phase'[t] = phase[t]
  BY <1>0, <1>2 DEF tracker_release
<1>3. ASSUME NEW u \in Tracker, activate_gp_job(u) \/ activate_pp_job(u)
      PROVE  \A t \in Waiter : phase'[t] = phase[t]
  <2>1. u \notin Waiter
    BY <1>3, HomeValues DEF activate_gp_job, activate_pp_job, Waiter, Home
  <2>2. phase' = [phase EXCEPT ![u] = "active"]
    BY <1>3, Zenon DEF activate_gp_job, activate_pp_job, activate
  <2> QED BY <1>0, <2>1, <2>2
<1>4. ASSUME NEW u \in Tracker, put_failed(u) PROVE phase' = phase
  BY <1>4, Zenon DEF put_failed, tracker_put, trackerVars
<1> QED BY <1>1, <1>2, <1>3, <1>4, Zenon DEF UnderLock

\* The steps of a wait keep a reference for the thread and one for the tracker.
LEMMA WaitSteps ==
  ASSUME WaitInv, RefInv, NEW t \in Waiter,
         fence_wait(t) \/ FenceWait(t) \/ fence_wait_activate(t) \/ fence_wait_release(t)
  PROVE  WaitInv'
<1>0. phase \in [Tracker -> {"free", "init", "waiting", "active"}] /\ t \in Tracker
        /\ Waiter \subseteq Tracker
  BY DEF RefInv, TypeInv, TypeOK, TrackerTypes, Waiter
<1> USE DEF WaitInv, WaitReferences, Count
<1>1. CASE fence_wait(t)
  <2>1. /\ refcount[t] = 0 /\ phase' = [phase EXCEPT ![t] = "init"]
        /\ thread' = [thread EXCEPT ![t] = "add"] /\ refcount' = [refcount EXCEPT ![t] = 2]
    BY <1>1 DEF fence_wait, tracker_init, initial_references
  <2> QED BY <1>0, <2>1
<1>2. CASE fence_wait_add(t)
  <2>1. /\ thread[t] = "add" /\ phase[t] = "init" /\ phase' = [phase EXCEPT ![t] = "waiting"]
        /\ thread' = [thread EXCEPT ![t] = "sleep"] /\ refcount' = refcount
    BY <1>2, ZenonT(40) DEF fence_wait_add, add_tracker_any, add_tracker
  <2> QED BY <1>0, <2>1
<1>3. CASE fence_wait_wakes(t)
  <2>1. /\ thread[t] = "sleep" /\ phase' = phase
        /\ thread' = [thread EXCEPT ![t] = "put"] /\ refcount' = refcount
    BY <1>3, Zenon DEF fence_wait_wakes, vars, trackerVars
  <2> QED BY <1>0, <2>1
<1>4. CASE fence_wait_returns(t)
  <2>1. /\ thread[t] = "put" /\ phase' = phase
        /\ thread' = [thread EXCEPT ![t] = "none"]
        /\ refcount' = [refcount EXCEPT ![t] = @ - 1]
    BY <1>4, Zenon DEF fence_wait_returns, put, vars, trackerVars
  <2> QED BY <1>0, <2>1
<1>5. CASE fence_wait_activate(t)
  <2>1. /\ Running("activate", t) /\ phase' = [phase EXCEPT ![t] = "active"]
        /\ thread' = thread /\ refcount' = refcount
    BY <1>5, Zenon DEF fence_wait_activate, activate_wait, activate
  <2>2. phase[t] = "waiting"
    BY <1>0, <2>1 DEF RefInv, CallsOK
  <2> QED BY <1>0, <2>1, <2>2
<1>6. CASE fence_wait_release(t)
  <2>1. /\ Running("release", t) /\ phase' = [phase EXCEPT ![t] = "free"]
        /\ thread' = thread /\ refcount' = [refcount EXCEPT ![t] = @ - 1]
    BY <1>6, Zenon DEF fence_wait_release, tracker_release, put
  <2>2. phase[t] = "active"
    BY <1>0, <2>1 DEF RefInv, CallsOK
  <2> QED BY <1>0, <2>1, <2>2
<1> QED BY <1>1, <1>2, <1>3, <1>4, <1>5, <1>6, Zenon DEF FenceWait

\* The memory of a wait is freed once and not used after: it has a reference exactly for
\* the thread that waits and for a tracker that is in use (mali_timeline_fence_wait).
THEOREM WaitMemory == WaitSpec => []WaitReferences
<1>1. WaitInit => WaitInv
  BY DEF WaitInit, Init, WaitInv, WaitReferences, Count, Waiter
<1>2. WaitInv /\ RefInv /\ [WaitNext]_sessionVars => WaitInv'
  <2> SUFFICES ASSUME WaitInv, RefInv, [WaitNext]_sessionVars PROVE WaitInv'
    OBVIOUS
  <2>0. TypeInv
    BY DEF RefInv
  <2>1. CASE UnderLock
    <3>1. UNCHANGED <<thread, refcount>>
      BY <2>1, Zenon DEF UnderLock, waitVars
    <3> QED BY <2>0, <2>1, <3>1, LockPhases, WaitsSame
  <2>2. CASE Jobs
    <3>1. UNCHANGED <<thread, refcount>>
      BY <2>2, Zenon DEF Jobs, waitVars
    <3> QED BY <2>0, <2>2, <3>1, JobPhases, WaitsSame
  <2>3. CASE \E t \in Waiter : \/ fence_wait(t) \/ FenceWait(t)
                               \/ fence_wait_activate(t) \/ fence_wait_release(t)
    BY <2>3, WaitSteps, Zenon
  <2>4. CASE close \/ system_destroy \/ UNCHANGED sessionVars
    <3>1. UNCHANGED <<thread, refcount, phase>>
      BY <2>4, Zenon DEF close, abort, system_destroy, sessionVars, waitVars, vars, trackerVars
    <3> QED BY <3>1, WaitsSame
  <2> QED BY <2>1, <2>2, <2>3, <2>4, Zenon DEF WaitNext
<1>3. WaitInv => WaitReferences
  BY DEF WaitInv
<1> QED BY <1>1, <1>2, <1>3, FenceWaitsImplementTimelines, RefInvariant, PTL DEF WaitSpec

------------------------------------------------------------------------------
(* Nothing is left behind                                                    *)

\* Every job has a point: no timeline is full when its tracker is added.
Placed ==
  \A t \in Tracker :
    phase[t] \in {"waiting", "active"} /\ Kind[t] # "wait" => point[t] # NoPoint

\* A wait is held by waiters on the timelines of the GPU only.
WaitsOnGpu ==
  \A t \in Waiter : /\ holders[t] \subseteq {"init"} \cup GpuTimeline
                    /\ phase[t] = "waiting" => "init" \notin holders[t]

\* A wait that is activated is released in the same breath.
ReleasedAtOnce == \A t \in Waiter : phase[t] = "active" => Running("release", t)

NoneInInit == is_aborting => \A t \in Tracker : phase[t] # "init"

NoneAfter == destroyed => is_aborting /\ \A t \in Tracker : phase[t] = "free"

TrackersGo == Placed /\ WaitsOnGpu /\ ReleasedAtOnce

LeftInv == GpuInv /\ TrackersGo /\ NoneInInit /\ NoneAfter

\* What finding 3, a lost waiter of the SOFT timeline and a full timeline leave behind.
LeftAssumed ==
  /\ ~MayFill
  /\ Waiter \cap SyncTracker = {}
  /\ \A t \in Waiter : "SOFT" \notin FenceOn[t]

\* No tracker changes its phase and none is held by more.
LeftKept ==
  /\ UNCHANGED <<phase, point>>
  /\ \A t \in Tracker : holders'[t] \subseteq holders[t]
  /\ stack' = stack \/ stack = <<>> \/ Head(stack).op # "release"

LEMMA HoldersSame ==
  ASSUME UNCHANGED <<phase, point, holders>>,
         stack' = stack \/ stack = <<>> \/ Head(stack).op # "release"
  PROVE  LeftKept
BY DEF LeftKept

LEMMA ReferenceGone ==
  ASSUME TypeInv, NEW t \in Tracker, NEW h, NEW rest, release_reference(t, h, rest),
         UNCHANGED <<phase, point>>, stack = <<>> \/ Head(stack).op # "release"
  PROVE  LeftKept
<1>1. /\ holders' = [holders EXCEPT ![t] = holders[t] \ {h}]
      /\ holders \in [Tracker -> SUBSET Holder]
  BY DEF release_reference, TypeInv, TypeOK, RefTypes
<1> QED BY <1>1 DEF LeftKept

\* The steps in which a tracker changes its phase, and the others.
LEMMA LeftSteps ==
  ASSUME RefInv, [Next]_vars
  PROVE  \/ \E t \in Tracker :
              \/ tracker_init(t) \/ (\E p \in Tracker : gp_job_create(t, p))
              \/ add_tracker_any(t) \/ tracker_release(t)
              \/ activate_gp_job(t) \/ activate_pp_job(t)
              \/ (\E done \in BOOLEAN : activate_soft_job(t, done)) \/ activate_wait(t)
         \/ LeftKept
<1>1. TypeInv /\ \A t \in Tracker : pp_tracker[t] # NoTracker => pp_tracker[t] \in Tracker
  BY DEF RefInv, TypeInv, TypeOK, TrackerTypes
<1>2. ASSUME \/ drop_mask \/ unlock \/ update_delayed_work
             \/ \E t \in Tracker : soft_job_destroy(t) \/ end_timeout(t)
      PROVE  LeftKept
  <2>1. stack # <<>> /\ Head(stack).op # "release"
    BY <1>2 DEF drop_mask, unlock, update_delayed_work, soft_job_destroy, end_timeout, Running, OnTop
  <2>2. UNCHANGED <<trackerVars, refVars>>
    <3>1. CASE drop_mask
      BY <3>1, Zenon DEF drop_mask
    <3>2. CASE unlock
      BY <3>2, Zenon DEF unlock
    <3>3. CASE update_delayed_work
      BY <3>3, Zenon DEF update_delayed_work
    <3>4. ASSUME NEW t \in Tracker, soft_job_destroy(t) \/ end_timeout(t)
          PROVE  UNCHANGED <<trackerVars, refVars>>
      BY <3>4 DEF soft_job_destroy, end_timeout
    <3> QED BY <1>2, <3>1, <3>2, <3>3, <3>4
  <2> QED BY <2>1, <2>2, HoldersSame DEF trackerVars, refVars
<1>3. ASSUME NEW g \in Tracker, NEW success \in BOOLEAN, NEW rest, pp_tracker[g] # NoTracker,
             tracker_put(g, success, rest), stack = <<>> \/ Head(stack).op # "release"
      PROVE  LeftKept
  <2>1. release_reference(pp_tracker[g], "gp_job", rest) /\ UNCHANGED <<phase, point>>
    BY <1>3 DEF tracker_put
  <2> QED BY <1>1, <1>3, <2>1, ReferenceGone
<1>4. ASSUME NEW g \in Tracker, put_failed(g) PROVE LeftKept
  <2>1. /\ stack # <<>> /\ Head(stack).op = "put"
        /\ IF pp_tracker[g] = NoTracker THEN UNCHANGED <<trackerVars, refVars>>
           ELSE tracker_put(g, FALSE, Caller)
    BY <1>4, Zenon DEF put_failed, Running, OnTop
  <2>2. CASE pp_tracker[g] = NoTracker
    BY <2>1, <2>2, HoldersSame DEF trackerVars, refVars
  <2>3. CASE pp_tracker[g] # NoTracker
    BY <1>3, <2>1, <2>3
  <2> QED BY <2>2, <2>3
<1>5. ASSUME NEW t \in Tracker,
             \/ do_sync_fence_callback(t) \/ dma_fence_callback(t)
             \/ complete_job(t) \/ soft_release(t)
             \/ \E success \in BOOLEAN : signal_pp_tracker(t, success)
      PROVE  LeftKept
  <2>1. stack = <<>>
    BY <1>5 DEF do_sync_fence_callback, dma_fence_callback, complete_job, soft_release, lock,
                signal_pp_tracker, LockFree
  <2>2. CASE do_sync_fence_callback(t)
    BY <1>1, <2>1, <2>2, ReferenceGone DEF do_sync_fence_callback, trackerVars
  <2>3. CASE dma_fence_callback(t)
    BY <1>1, <2>1, <2>3, ReferenceGone DEF dma_fence_callback, trackerVars
  <2>4. CASE complete_job(t) \/ soft_release(t)
    BY <2>1, <2>4, HoldersSame DEF complete_job, soft_release, lock, refVars, trackerVars
  <2>5. ASSUME NEW success \in BOOLEAN, signal_pp_tracker(t, success) PROVE LeftKept
    BY <1>3, <2>1, <2>5 DEF signal_pp_tracker
  <2> QED BY <1>5, <2>2, <2>3, <2>4, <2>5
<1>6. ASSUME NEW done \in BOOLEAN, timer_callback(done) PROVE LeftKept
  BY <1>6, HoldersSame DEF timer_callback, LockFree, refVars, trackerVars
<1>7. ASSUME \/ timer_expires \/ executor_schedule \/ Close \/ UNCHANGED vars
             \/ \E t \in Tracker : time_passes(t) \/ sync_fence_callback(t)
      PROVE  LeftKept
  <2>1. UNCHANGED <<trackerVars, refVars, stack>>
    <3>1. ASSUME NEW t \in Tracker, time_passes(t) \/ sync_fence_callback(t)
          PROVE  UNCHANGED <<trackerVars, refVars, stack>>
      BY <3>1 DEF time_passes, sync_fence_callback
    <3>2. CASE timer_expires \/ executor_schedule \/ Close \/ UNCHANGED vars
      BY <3>2 DEF timer_expires, executor_schedule, Close, abort, stop_timer, cancel_work_sync, vars
    <3> QED BY <1>7, <3>1, <3>2
  <2> QED BY <2>1, HoldersSame DEF refVars, trackerVars
<1>8. ASSUME NEW tl \in TimelineId, update_oldest_point(tl) PROVE LeftKept
  <2> DEFINE s == waiter_list[tl]
             done == s = <<>> \/ OnPoint(tl, wait_point[Head(s)][tl])
  <2>1. /\ UNCHANGED <<phase, point>> /\ stack # <<>> /\ Head(stack).op # "release"
        /\ IF done THEN UNCHANGED refVars ELSE release_reference(Head(s), tl, stack)
    <3>1. UNCHANGED trackerVars /\ OnTop("update_oldest_point")
          /\ IF done THEN UNCHANGED <<refVars, waiter_list, waiter_head_null>>
             ELSE release_reference(Head(s), tl, stack)
      BY <1>8, Zenon DEF update_oldest_point
    <3> QED BY <3>1 DEF trackerVars, OnTop
  <2>2. CASE done
    BY <2>1, <2>2, HoldersSame DEF refVars
  <2>3. CASE ~done
    <3>1. s # <<>> /\ s \in Seq(Tracker)
      BY <1>1, <2>3 DEF TypeInv, TypeOK, ListTypes
    <3>2. Head(s) \in Tracker
      BY <3>1
    <3> QED BY <1>1, <2>1, <2>3, <3>2, ReferenceGone
  <2> QED BY <2>2, <2>3
<1>9. ASSUME NEW p \in Point, NEW c \in Tracker \cup {NoTracker}, release_depended(p, c)
      PROVE  LeftKept
  <2> DEFINE hits == Hits(p, c)
  <2>1. /\ UNCHANGED trackerVars /\ OnTop("release_depended")
        /\ IF hits = {} THEN UNCHANGED <<refVars, waiter_list, waiter_head_null>> ELSE TRUE
    BY <1>9, Zenon DEF release_depended, Hits
  <2>2. UNCHANGED <<phase, point>> /\ stack # <<>> /\ Head(stack).op # "release"
    BY <2>1 DEF trackerVars, OnTop
  <2>3. CASE hits = {}
    BY <2>1, <2>2, <2>3, HoldersSame DEF refVars
  <2>4. CASE hits # {}
    <3>1. PICK r \in hits, more \in Tracker \cup {NoTracker} :
            release_reference(waiter_list["SOFT"][r], "SOFT", <<Walk(p, more)>> \o Caller)
      BY <1>1, <1>9, <2>4, UnlinkDepended, Zenon
    <3>2. waiter_list["SOFT"][r] \in Tracker
      <4>1. waiter_list["SOFT"] \in Seq(Tracker) /\ r \in DOMAIN waiter_list["SOFT"]
        BY <1>1, <3>1 DEF TypeInv, TypeOK, ListTypes, Hits, TimelineId
      <4> QED BY <4>1
    <3> QED BY <1>1, <2>2, <3>1, <3>2, ReferenceGone
  <2> QED BY <2>3, <2>4
<1>10. CASE Ioctl
  BY <1>10 DEF Ioctl
<1>11. CASE Locked
  BY <1>2, <1>4, <1>8, <1>9, <1>11, Zenon DEF Locked
<1>12. CASE Owner
  BY <1>5, <1>7, <1>12 DEF Owner, Device
<1>13. CASE Timer
  BY <1>6, <1>7, <1>13 DEF Timer
<1> QED BY <1>7, <1>10, <1>11, <1>12, <1>13 DEF Next

\* An activated tracker leaves "waiting" with the frames that its owner pushes.
LEMMA ActivateSteps ==
  ASSUME RefInv, NEW t \in Tracker,
         \/ activate_gp_job(t) \/ activate_pp_job(t)
         \/ (\E done \in BOOLEAN : activate_soft_job(t, done)) \/ activate_wait(t)
  PROVE  /\ phase[t] = "waiting" /\ phase' = [phase EXCEPT ![t] = "active"]
         /\ UNCHANGED <<point, holders>>
         /\ Running("activate", t)
         /\ t \in Waiter => Running("release", t)'
<1>1. PICK frames : activate(t, frames) /\ (t \in Waiter => frames = <<Call("release", t)>>)
  <2>1. CASE activate_gp_job(t) \/ activate_pp_job(t)
    <3>1. t \notin Waiter
      BY <2>1, HomeValues DEF activate_gp_job, activate_pp_job, Waiter, Home
    <3>2. \E frames : activate(t, frames)
      BY <2>1, Zenon DEF activate_gp_job, activate_pp_job
    <3> QED BY <3>1, <3>2
  <2>2. ASSUME NEW done \in BOOLEAN, activate_soft_job(t, done)
        PROVE  \E frames : activate(t, frames) /\ (t \in Waiter => frames = <<Call("release", t)>>)
    <3>1. t \notin Waiter
      BY <2>2, Zenon DEF activate_soft_job, Waiter, IsSoft
    <3>2. \E frames : activate(t, frames)
      BY <2>2, Zenon DEF activate_soft_job
    <3> QED BY <3>1, <3>2
  <2>3. CASE activate_wait(t)
    BY <2>3, Zenon DEF activate_wait
  <2> QED BY <2>1, <2>2, <2>3
<1>2. /\ Running("activate", t) /\ phase' = [phase EXCEPT ![t] = "active"]
      /\ UNCHANGED <<point, holders>> /\ stack' = frames \o Caller
  BY <1>1, Zenon DEF activate, refVars
<1>3. phase[t] = "waiting"
  BY <1>2 DEF RefInv, CallsOK
<1>4. ASSUME t \in Waiter PROVE Running("release", t)'
  <2>1. stack \in Seq(Frame) /\ stack # <<>>
    BY <1>2 DEF RefInv, TypeInv, TypeOK, Running, OnTop
  <2>2. Caller \in Seq(Frame)
    BY <2>1, StackTypes
  <2>3. Call("release", t) \in Frame
    BY FrameTypes
  <2>4. stack' = <<Call("release", t)>> \o Caller
    BY <1>1, <1>2, <1>4
  <2>5. stack' # <<>> /\ Head(stack') = Call("release", t)
    BY <2>2, <2>3, <2>4
  <2> QED BY <2>5 DEF Running, OnTop, Call
<1> QED BY <1>2, <1>3, <1>4

\* A tracker that is added has a point if it is of a job, and waits on the GPU if it is not.
LEMMA AddLeft ==
  ASSUME RefInv, TrackersGo, LeftAssumed, NEW t \in Tracker, add_tracker_any(t)
  PROVE  TrackersGo' /\ phase[t] = "init"
<1>0. /\ phase \in [Tracker -> {"free", "init", "waiting", "active"}]
      /\ point \in [Tracker -> AnyPoint] /\ holders \in [Tracker -> SUBSET Holder]
      /\ point_next \in [TimelineId -> Point]
  BY DEF RefInv, TypeInv, TypeOK, TrackerTypes, RefTypes, ListTypes
<1>1. PICK f \in [FenceOn[t] -> AnyPoint], sync \in BOOLEAN :
        \E granted : add_tracker(t, f, granted, sync)
  BY Zenon DEF add_tracker_any
<1>2. PICK granted : add_tracker(t, f, granted, sync)
  BY <1>1
<1> DEFINE tl == Home[Kind[t]]
           added == new_holders(t, f, granted, sync)
<1>3. /\ phase[t] = "init" /\ LockFree /\ phase' = [phase EXCEPT ![t] = "waiting"]
      /\ tl \in TimelineId => MayFill \/ inserted(t)
      /\ sync => t \in SyncTracker
      /\ point' = [point EXCEPT ![t] = IF inserted(t) THEN point_next[tl] ELSE NoPoint]
      /\ holders' = [holders EXCEPT ![t] = (holders[t] \ {"init"}) \cup added]
  BY <1>2, Zenon DEF add_tracker
<1>4. Placed'
  <2>1. ASSUME Kind[t] # "wait" PROVE point'[t] # NoPoint
    <3>1. Kind[t] \in {"gp", "phy_pp", "virt_pp", "soft", "wait"}
      BY TimelineAssumption DEF Home
    <3>2. tl \in TimelineId
      BY <2>1, <3>1 DEF Home, TimelineId
    <3>3. inserted(t)
      BY <1>3, <3>2 DEF LeftAssumed
    <3>4. point'[t] = point_next[tl] /\ point_next[tl] \in Point
      BY <1>0, <1>3, <3>2, <3>3
    <3> QED BY <3>4, PointAssumption DEF Point, NoPoint
  <2>2. \A u \in Tracker \ {t} : phase'[u] = phase[u] /\ point'[u] = point[u]
    BY <1>0, <1>3
  <2> QED BY <2>1, <2>2 DEF TrackersGo, Placed
<1>5. WaitsOnGpu'
  <2>1. ASSUME t \in Waiter PROVE holders'[t] \subseteq GpuTimeline
    <3>1. ~sync /\ t \notin DmaTracker /\ "SOFT" \notin FenceOn[t]
      BY <1>3, <2>1, TimelineAssumption, HomeValues DEF LeftAssumed, Waiter
    <3>2. waits_on(t, f, granted) \subseteq FenceOn[t]
      BY DEF waits_on
    <3>3. added = waits_on(t, f, granted)
      BY <3>1 DEF new_holders
    <3>4. added \subseteq GpuTimeline
      BY <3>1, <3>2, <3>3, NewHolders DEF GpuTimeline, TimelineId
    <3>5. holders[t] \ {"init"} = {}
      BY <1>3, <2>1 DEF TrackersGo, WaitsOnGpu, RefInv, PhaseHolders, GpuTimeline
    <3> HIDE DEF added
    <3> QED BY <1>0, <1>3, <3>4, <3>5
  <2>2. \A u \in Tracker \ {t} : phase'[u] = phase[u] /\ holders'[u] = holders[u]
    BY <1>0, <1>3
  <2>3. "init" \notin GpuTimeline /\ Waiter \subseteq Tracker
    BY DEF GpuTimeline, Waiter
  <2> QED BY <2>1, <2>2, <2>3 DEF TrackersGo, WaitsOnGpu
<1>6. ReleasedAtOnce'
  <2>1. ASSUME NEW u \in Waiter, phase'[u] = "active" PROVE FALSE
    <3>1. phase[u] = "active" /\ u \in Tracker
      BY <1>0, <1>3, <2>1 DEF Waiter
    <3> QED BY <1>3, <3>1 DEF TrackersGo, ReleasedAtOnce, Running, OnTop, LockFree
  <2> QED BY <2>1 DEF ReleasedAtOnce
<1> QED BY <1>3, <1>4, <1>5, <1>6 DEF TrackersGo

\* The other steps: no tracker loses its point, a wait is held by less and released.
LEMMA GoNext ==
  ASSUME RefInv, TrackersGo, LeftAssumed, [Next]_vars
  PROVE  TrackersGo'
<1>0. /\ phase \in [Tracker -> {"free", "init", "waiting", "active"}]
      /\ point \in [Tracker -> AnyPoint] /\ holders \in [Tracker -> SUBSET Holder]
      /\ Waiter \subseteq Tracker
  BY DEF RefInv, TypeInv, TypeOK, TrackerTypes, RefTypes, Waiter
<1>1. ASSUME NEW t \in Tracker, tracker_init(t) \/ \E p \in Tracker : gp_job_create(t, p)
      PROVE  TrackersGo'
  <2> DEFINE made == /\ phase[t] = "free" /\ phase' = [phase EXCEPT ![t] = "init"]
                     /\ point' = point
                     /\ \A u \in Waiter \ {t} : holders'[u] = holders[u]
                     /\ t \in Waiter => holders'[t] = {"init"}
  <2>1. made
    <3>1. CASE tracker_init(t)
      BY <1>0, <3>1 DEF tracker_init
    <3>2. ASSUME NEW p \in Tracker, gp_job_create(t, p) PROVE made
      <4>1. p \notin Waiter /\ t \notin Waiter
        BY <3>2, HomeValues, TimelineAssumption DEF gp_job_create, Waiter
      <4> QED BY <1>0, <3>2, <4>1 DEF gp_job_create
    <3> HIDE DEF made
    <3> QED BY <1>1, <3>1, <3>2
  <2>2. UNCHANGED stack
    BY <1>1 DEF tracker_init, gp_job_create
  <2>3. ReleasedAtOnce'
    BY <1>0, <2>1, <2>2 DEF TrackersGo, ReleasedAtOnce, Running, OnTop
  <2>4. Placed'
    BY <1>0, <2>1 DEF TrackersGo, Placed
  <2>5. WaitsOnGpu'
    BY <1>0, <2>1 DEF TrackersGo, WaitsOnGpu
  <2> QED BY <2>3, <2>4, <2>5 DEF TrackersGo
<1>2. ASSUME NEW t \in Tracker, tracker_release(t) PROVE TrackersGo'
  <2>1. /\ Running("release", t) /\ phase' = [phase EXCEPT ![t] = "free"]
        /\ point' = [point EXCEPT ![t] = NoPoint] /\ holders' = holders
    BY <1>2, Zenon DEF tracker_release, refVars
  <2>2. \A u \in Waiter : phase[u] = "active" => u = t
    BY <2>1 DEF TrackersGo, ReleasedAtOnce, Running
  <2>3. \A u \in Waiter : phase'[u] # "active"
    BY <1>0, <2>1, <2>2
  <2>4. ReleasedAtOnce'
    BY <2>3 DEF ReleasedAtOnce
  <2>5. Placed'
    BY <1>0, <2>1 DEF TrackersGo, Placed
  <2>6. WaitsOnGpu'
    BY <1>0, <2>1 DEF TrackersGo, WaitsOnGpu
  <2> QED BY <2>4, <2>5, <2>6 DEF TrackersGo
<1>3. ASSUME NEW t \in Tracker,
             \/ activate_gp_job(t) \/ activate_pp_job(t)
             \/ (\E done \in BOOLEAN : activate_soft_job(t, done)) \/ activate_wait(t)
      PROVE  TrackersGo'
  <2>1. /\ phase[t] = "waiting" /\ phase' = [phase EXCEPT ![t] = "active"]
        /\ UNCHANGED <<point, holders>> /\ Running("activate", t)
        /\ t \in Waiter => Running("release", t)'
    BY <1>3, ActivateSteps
  <2>2. \A u \in Waiter : phase[u] # "active"
    BY <2>1 DEF TrackersGo, ReleasedAtOnce, Running, OnTop
  <2>3. ReleasedAtOnce'
    BY <1>0, <2>1, <2>2 DEF ReleasedAtOnce
  <2>4. Placed'
    BY <1>0, <2>1 DEF TrackersGo, Placed
  <2>5. WaitsOnGpu'
    BY <1>0, <2>1 DEF TrackersGo, WaitsOnGpu
  <2> QED BY <2>3, <2>4, <2>5 DEF TrackersGo
<1>4. ASSUME LeftKept PROVE TrackersGo'
  <2>1. Placed'
    BY <1>4 DEF TrackersGo, Placed, LeftKept
  <2>2. WaitsOnGpu'
    BY <1>0, <1>4 DEF TrackersGo, WaitsOnGpu, LeftKept
  <2>3. ReleasedAtOnce'
    BY <1>4 DEF TrackersGo, ReleasedAtOnce, LeftKept, Running, OnTop
  <2> QED BY <2>1, <2>2, <2>3 DEF TrackersGo
<1> QED BY <1>1, <1>2, <1>3, <1>4, LeftSteps, AddLeft

------------------------------------------------------------------------------
(* The end of the session                                                    *)

\* is_aborting is set by the close only.
LEMMA AbortSteps ==
  ASSUME [WaitNext]_sessionVars
  PROVE  close \/ UNCHANGED is_aborting
<1>1. CASE UnderLock
  <2>1. ASSUME NEW t \in Tracker,
               activate_gp_job(t) \/ activate_pp_job(t) \/ put_failed(t) \/ tracker_release(t)
        PROVE  UNCHANGED is_aborting
    BY <2>1, Zenon DEF activate_gp_job, activate_pp_job, activate, put_failed, tracker_put,
       tracker_release, extVars
  <2>2. CASE \/ \E tl \in TimelineId : update_oldest_point(tl)
             \/ \E p \in Point, c \in Tracker \cup {NoTracker} : release_depended(p, c)
             \/ drop_mask \/ unlock
    BY <2>2, Zenon DEF update_oldest_point, release_depended, drop_mask, unlock, extVars
  <2> QED BY <1>1, <2>1, <2>2, Zenon DEF UnderLock
<1>2. ASSUME NEW t \in Tracker, tracker_init(t) \/ add_tracker_any(t) PROVE UNCHANGED is_aborting
  BY <1>2, Zenon DEF tracker_init, add_tracker_any, add_tracker, extVars
<1>3. CASE Jobs
  <2>1. ASSUME NEW g, NEW p, gp_job_create(g, p) PROVE UNCHANGED is_aborting
    BY <2>1, Zenon DEF gp_job_create, extVars
  <2>2. ASSUME NEW t \in Tracker, Device(t) PROVE UNCHANGED is_aborting
    BY <2>2, Zenon DEF Device, complete_job, signal_pp_tracker, tracker_put, sync_fence_callback,
       do_sync_fence_callback, dma_fence_callback, extVars
  <2>3. CASE executor_schedule \/ stop_timer
    BY <2>3, Zenon DEF executor_schedule, stop_timer, extVars
  <2> QED BY <1>2, <1>3, <2>1, <2>2, <2>3, Zenon DEF Jobs
<1>4. ASSUME NEW t \in Waiter,
             fence_wait(t) \/ FenceWait(t) \/ fence_wait_activate(t) \/ fence_wait_release(t)
      PROVE  UNCHANGED is_aborting
  <2>1. t \in Tracker
    BY DEF Waiter
  <2>2. CASE fence_wait(t) \/ fence_wait_add(t)
    BY <1>2, <2>1, <2>2, Zenon DEF fence_wait, fence_wait_add
  <2>3. CASE fence_wait_wakes(t) \/ fence_wait_returns(t)
    BY <2>3, Zenon DEF fence_wait_wakes, fence_wait_returns, vars, extVars
  <2>4. CASE fence_wait_activate(t) \/ fence_wait_release(t)
    BY <2>4, Zenon DEF fence_wait_activate, activate_wait, activate, fence_wait_release,
       tracker_release, extVars
  <2> QED BY <1>4, <2>2, <2>3, <2>4, Zenon DEF FenceWait
<1>5. CASE system_destroy \/ UNCHANGED sessionVars
  BY <1>5, Zenon DEF system_destroy, sessionVars, vars, extVars
<1> QED BY <1>1, <1>3, <1>4, <1>5, Zenon DEF WaitNext

\* No tracker is initialised once the session aborts.
LEMMA InitNext ==
  ASSUME LeftInv, LeftAssumed, [WaitNext]_sessionVars
  PROVE  NoneInInit'
<1>0. RefInv /\ [Next]_vars /\ phase \in [Tracker -> {"free", "init", "waiting", "active"}]
  BY WaitStep DEF LeftInv, GpuInv, OrderInv, RefInv, TypeInv, TypeOK, TrackerTypes
<1>1. CASE close
  <2>1. UNCHANGED phase /\ \A t \in Tracker : phase[t] # "init"
    BY <1>1, Zenon DEF close, abort, trackerVars
  <2> QED BY <2>1 DEF NoneInInit
<1>2. CASE UNCHANGED is_aborting
  <2> SUFFICES ASSUME is_aborting, NEW u \in Tracker PROVE phase'[u] # "init"
    BY <1>2 DEF NoneInInit
  <2>1. phase[u] # "init"
    BY DEF LeftInv, NoneInInit
  <2>2. ASSUME NEW t \in Tracker, tracker_init(t) \/ \E p \in Tracker : gp_job_create(t, p)
        PROVE  FALSE
    BY <2>2 DEF tracker_init, gp_job_create
  <2>3. ASSUME NEW t \in Tracker, add_tracker_any(t) PROVE FALSE
    <3>1. phase[t] = "init"
      BY <1>0, <2>3, AddLeft DEF LeftInv
    <3> QED BY <3>1 DEF LeftInv, NoneInInit
  <2>4. ASSUME NEW t \in Tracker, tracker_release(t) PROVE phase'[u] # "init"
    <3>1. phase' = [phase EXCEPT ![t] = "free"]
      BY <2>4, Zenon DEF tracker_release
    <3> QED BY <1>0, <2>1, <3>1
  <2>5. ASSUME NEW t \in Tracker,
               \/ activate_gp_job(t) \/ activate_pp_job(t)
               \/ (\E done \in BOOLEAN : activate_soft_job(t, done)) \/ activate_wait(t)
        PROVE  phase'[u] # "init"
    <3>1. phase' = [phase EXCEPT ![t] = "active"]
      BY <1>0, <2>5, ActivateSteps
    <3> QED BY <1>0, <2>1, <3>1
  <2>6. LeftKept => phase'[u] # "init"
    BY <2>1 DEF LeftKept
  <2> QED BY <1>0, <2>2, <2>3, <2>4, <2>5, <2>6, LeftSteps
<1> QED BY <1>1, <1>2, AbortSteps

\* Once the lists are empty nobody waits: a tracker of a job is on a list, and one of
\* a wait is held by a waiter for a point that is on a timeline.
LEMMA NobodyWaits ==
  ASSUME LeftInv, is_aborting, LockFree, \A tl \in TimelineId : tracker_list[tl] = <<>>,
         NEW t \in Tracker
  PROVE  phase[t] = "free"
<1>0. /\ RefInv /\ OrderInv /\ TypeInv /\ TrackersListed
      /\ phase[t] \in {"free", "init", "waiting", "active"}
  BY DEF LeftInv, GpuInv, OrderInv, RefInv, TypeInv, TypeOK, TrackerTypes
<1>1. phase[t] # "init"
  BY DEF LeftInv, NoneInInit
<1>2. CASE Kind[t] # "wait"
  <2>1. ASSUME phase[t] \in {"waiting", "active"} PROVE FALSE
    <3>1. point[t] # NoPoint
      BY <1>2, <2>1 DEF LeftInv, TrackersGo, Placed
    <3>2. Home[Kind[t]] \in TimelineId /\ t \in Range(tracker_list[Home[Kind[t]]])
      BY <1>0, <3>1 DEF TrackersListed
    <3> QED BY <3>2, RangeOne
  <2> QED BY <1>0, <1>1, <2>1
<1>3. CASE Kind[t] = "wait"
  <2>0. t \in Waiter
    BY <1>3 DEF Waiter
  <2>1. phase[t] # "active"
    BY <2>0 DEF LeftInv, TrackersGo, ReleasedAtOnce, Running, OnTop, LockFree
  <2>2. ASSUME phase[t] = "waiting" PROVE FALSE
    <3>1. holders[t] # {}
      BY <1>0, <2>2 DEF RefInv, PhaseHolders, Running, OnTop, LockFree
    <3>2. PICK tl \in GpuTimeline : tl \in holders[t]
      BY <2>0, <2>2, <3>1 DEF LeftInv, TrackersGo, WaitsOnGpu
    <3>3. tl \in TimelineId /\ t \in Range(waiter_list[tl])
      BY <3>2 DEF LeftInv, GpuInv, GpuWaitersReachable, NoWaiterLost, GpuTimeline, TimelineId
    <3>4. OnPoint(tl, wait_point[t][tl])
      BY <1>0, <3>3, FreeOrder
    <3>5. point_oldest[tl] = point_next[tl]
      BY <1>0, <3>3 DEF OrderInv, TrackersSorted
    <3>6. wait_point[t][tl] \in AnyPoint /\ point_next[tl] \in AnyPoint /\ point_oldest[tl] \in AnyPoint
      BY <1>0, <3>3, TimelineTypes
    <3>7. minus(point_next[tl], point_oldest[tl]) = 0
      <4>1. ASSUME NEW q \in Int PROVE minus(q, q) = 0
        BY DEF minus
      <4>2. point_next[tl] \in Int
        BY <3>6, AnyPointTypes
      <4> QED BY <3>5, <4>1, <4>2
    <3>8. Back(tl, wait_point[t][tl]) \in 1 .. Back(tl, point_oldest[tl])
      BY <1>0, <3>3, <3>4, <3>6, AgeBack
    <3> QED BY <3>7, <3>8 DEF Back
  <2> QED BY <1>0, <1>1, <2>1, <2>2
<1> QED BY <1>2, <1>3

\* The freed system stays empty.
LEMMA NoneAfterNext ==
  ASSUME LeftInv, LeftAssumed, [WaitNext]_sessionVars
  PROVE  NoneAfter'
<1>0. RefInv /\ [Next]_vars /\ phase \in [Tracker -> {"free", "init", "waiting", "active"}]
  BY WaitStep DEF LeftInv, GpuInv, OrderInv, RefInv, TypeInv, TypeOK, TrackerTypes
<1>1. CASE system_destroy
  <2>1. /\ is_aborting /\ LockFree /\ UNCHANGED <<phase, is_aborting>>
        /\ \A tl \in TimelineId : tracker_list[tl] = <<>>
    BY <1>1, Zenon DEF system_destroy, abort_done, vars, trackerVars, extVars
  <2>2. \A t \in Tracker : phase[t] = "free"
    BY <2>1, NobodyWaits
  <2> QED BY <2>1, <2>2 DEF NoneAfter
<1>2. CASE ~system_destroy
  <2>1. UNCHANGED destroyed
    <3>1. CASE UnderLock \/ Jobs \/ close \/ UNCHANGED sessionVars
      BY <3>1, Zenon DEF UnderLock, Jobs, close, sessionVars, waitVars
    <3>2. ASSUME NEW t \in Waiter,
                 fence_wait(t) \/ FenceWait(t) \/ fence_wait_activate(t) \/ fence_wait_release(t)
          PROVE  UNCHANGED destroyed
      BY <3>2, Zenon DEF fence_wait, FenceWait, fence_wait_add, fence_wait_wakes, fence_wait_returns,
         fence_wait_activate, fence_wait_release
    <3> QED BY <1>2, <3>1, <3>2, Zenon DEF WaitNext
  <2> SUFFICES ASSUME destroyed PROVE is_aborting' /\ \A t \in Tracker : phase'[t] = "free"
    BY <2>1 DEF NoneAfter
  <2>2. is_aborting /\ \A t \in Tracker : phase[t] = "free"
    BY DEF LeftInv, NoneAfter
  <2>3. is_aborting'
    BY <2>2, AbortSteps, Zenon DEF close, abort
  <2>4. ASSUME NEW t \in Tracker, tracker_init(t) \/ \E p \in Tracker : gp_job_create(t, p)
        PROVE  FALSE
    BY <2>2, <2>4 DEF tracker_init, gp_job_create
  <2>5. ASSUME NEW t \in Tracker, add_tracker_any(t) PROVE FALSE
    <3>1. phase[t] = "init"
      BY <1>0, <2>5, AddLeft DEF LeftInv
    <3> QED BY <2>2, <3>1
  <2>6. ASSUME NEW t \in Tracker, tracker_release(t) PROVE FALSE
    <3>1. phase[t] = "active"
      BY <1>0, <2>6 DEF tracker_release, RefInv, CallsOK
    <3> QED BY <2>2, <3>1
  <2>7. ASSUME NEW t \in Tracker,
               \/ activate_gp_job(t) \/ activate_pp_job(t)
               \/ (\E done \in BOOLEAN : activate_soft_job(t, done)) \/ activate_wait(t)
        PROVE  FALSE
    <3>1. phase[t] = "waiting"
      BY <1>0, <2>7, ActivateSteps
    <3> QED BY <2>2, <3>1
  <2>8. LeftKept
    BY <1>0, <2>4, <2>5, <2>6, <2>7, LeftSteps
  <2> QED BY <2>2, <2>3, <2>8 DEF LeftKept
<1> QED BY <1>1, <1>2

\* When the timeline system is freed at the end of a session, no tracker refers to it: every
\* job and every wait has been released by then, whatever order their fences signal and their
\* references are dropped in (mali_kernel_core.c on the close of a session).  What finding 3, a
\* lost waiter of the SOFT timeline or a full timeline leaves behind is excluded.
THEOREM NoTrackerLeftCorrect == ASSUME LeftAssumed PROVE WaitSpec => []NoTrackerLeft
<1>1. WaitInit => LeftInv
  <2> SUFFICES ASSUME WaitInit PROVE LeftInv
    OBVIOUS
  <2>1. Init /\ destroyed = FALSE /\ Waiter \subseteq Tracker
    BY DEF WaitInit, Waiter
  <2>2. /\ \A t \in Tracker : phase[t] = "free" /\ holders[t] = {}
        /\ is_aborting = FALSE
    BY <2>1 DEF Init
  <2>3. Placed /\ WaitsOnGpu /\ ReleasedAtOnce
    BY <2>1, <2>2 DEF Placed, WaitsOnGpu, ReleasedAtOnce
  <2>4. NoneInInit /\ NoneAfter
    BY <2>1, <2>2 DEF NoneInInit, NoneAfter
  <2> QED BY <2>1, <2>3, <2>4, GpuInit DEF LeftInv, TrackersGo
<1>2. LeftInv /\ [WaitNext]_sessionVars => LeftInv'
  <2> SUFFICES ASSUME LeftInv, [WaitNext]_sessionVars PROVE LeftInv'
    OBVIOUS
  <2>1. GpuInv /\ RefInv /\ TrackersGo /\ [Next]_vars
    BY WaitStep DEF LeftInv, GpuInv, OrderInv
  <2>2. GpuInv' /\ TrackersGo'
    BY <2>1, GpuNext, GoNext
  <2> QED BY <2>2, InitNext, NoneAfterNext DEF LeftInv
<1>3. LeftInv => NoTrackerLeft
  BY DEF LeftInv, NoneAfter, NoTrackerLeft
<1> QED BY <1>1, <1>2, <1>3, PTL DEF WaitSpec
================================================================================
