----------------------------- MODULE MaliTimeline -----------------------------
(***************************************************************************)
(* The timeline system of one session (mali_timeline.c).                   *)
(*                                                                         *)
(* A session has three timelines (GP, PP, SOFT).  Every job has a tracker; *)
(* adding the tracker gives it the next point of its timeline and one      *)
(* waiter for each point of its fence that is not released yet.            *)
(* trigger_ref_count counts what the tracker still waits for; at 0 it is   *)
(* activated (its job may run).  Its owner releases it when the job is     *)
(* done, which releases waiters, which activates trackers, some of which   *)
(* are released on the spot, and so on, all under system->spinlock.        *)
(*                                                                         *)
(* `stack' is the call stack of the thread that holds system->spinlock:    *)
(* <<>> means that the lock is free, and one step runs one iteration of    *)
(* the function on top.  So steps that do not take this lock interleave    *)
(* with a cascade where they can in the code, and no recursion is needed.  *)
(***************************************************************************)
EXTENDS MaliTimelinePoint, SequencesExt

CONSTANTS
  Tracker,      \* tracker objects; each is reused once its job is gone
  Kind,         \* Kind[t]: which job the tracker belongs to
  NoTracker,    \* NULL
  StartPoint,   \* first point of every timeline (1, or near the wrap in debug)
  FenceOn,      \* FenceOn[t]: the timelines t's fence may name
  SyncTracker,  \* trackers whose fence holds a sync fd
  DmaTracker,   \* PP trackers that wait for dma-buf fences
  PairedGp,     \* GP jobs that may be started together with a PP job
  MaxAdvance,   \* bound: how far point_next moves from StartPoint (PointModulus: no bound)
  MayFill,      \* bound: may a tracker be added to a timeline that is full?
  AllocMayFail, \* may _mali_osk_calloc return NULL?
  GpuMayFail    \* may a GP job fail?

TimelineId == {"GP", "PP", "SOFT"}
Order == [GP |-> 0, PP |-> 1, SOFT |-> 2]
GpuKind == {"gp", "phy_pp", "virt_pp"}
\* "wait" stands for the trackers on MALI_TIMELINE_NONE (fence wait, sync fence)
Home == [gp |-> "GP", phy_pp |-> "PP", virt_pp |-> "PP", soft |-> "SOFT",
         wait |-> "NONE"]
\* who can hold a reference in trigger_ref_count: the initial one of
\* tracker_init, a GP job (tracker_get), a waiter on a timeline, on the sync
\* fence or on the dma fences
Holder == TimelineId \cup {"init", "gp_job", "sync", "dma"}

ASSUME TimelineAssumption ==
  /\ Kind \in [Tracker -> DOMAIN Home]
  /\ NoTracker \notin Tracker
  /\ StartPoint \in Point
  /\ FenceOn \in [Tracker -> SUBSET TimelineId]
  /\ SyncTracker \subseteq Tracker
  /\ DmaTracker \subseteq {t \in Tracker : Home[Kind[t]] = "PP"}
  /\ PairedGp \subseteq {t \in Tracker : Kind[t] = "gp"}
  /\ MaxAdvance \in Nat
  /\ MayFill \in BOOLEAN
  /\ AllocMayFail \in BOOLEAN
  /\ GpuMayFail \in BOOLEAN

VARIABLES
  phase,             \* "free", "init", "waiting", "active"
  point,             \* tracker->point; NoPoint also means tracker->timeline is NULL
  wait_point,        \* wait_point[t][tl]: point of t's waiter on tl, or NoPoint
  holders,           \* who holds a reference of trigger_ref_count
  trigger_ref_count,
  fatal,             \* trackers with MALI_TIMELINE_ACTIVATION_ERROR_FATAL_BIT
  pp_tracker,        \* gp_job->pp_tracker
  deps,              \* history: trackers behind t's fence points, until released
  point_next, point_oldest,
  tracker_list,      \* per timeline, from tracker_tail (oldest) to tracker_head
  waiter_list,       \* trackers whose waiters are reached from waiter_tail on
  waiter_head_null,  \* NULL = timeline->waiter_head
  stack,             \* frames of the thread that holds system->spinlock
  mask,              \* schedule mask accumulated by that thread
  runnable,          \* GPU jobs queued since the executor last scheduled
  schedule_due,      \* a thread or work item is about to call executor_schedule
  tracker_count,     \* gp_tracker_count, phy_pp_tracker_count, virt_pp_tracker_count
  timer_enabled,     \* system->timer_enabled
  timeline_timer,    \* timer_active of the SOFT timeline
  timer_active,      \* soft trackers with timer_active set
  work_pending,      \* the timeline's delayed work is queued
  work_running,      \* mali_timeline_timer_callback is running
  armed_for,         \* soft trackers already active when the work was queued
  due,               \* soft trackers active for MALI_TIMELINE_TIMEOUT_HZ
  sync_queue,        \* sync_fence_callback_queue
  dma_pending,       \* PP jobs whose dma fence context has not fired
  is_aborting        \* session->is_aborting

listVars    == <<point_next, point_oldest, tracker_list, waiter_list, waiter_head_null>>
trackerVars == <<phase, point, fatal, pp_tracker, deps>>
refVars     == <<holders, trigger_ref_count, wait_point>>
schedVars   == <<mask, runnable, schedule_due, tracker_count>>
timerVars   == <<timer_enabled, timeline_timer, timer_active, work_pending,
                 work_running, armed_for, due>>
extVars     == <<sync_queue, dma_pending, is_aborting>>
vars == <<listVars, trackerVars, refVars, stack, schedVars, timerVars, extVars>>

Frame ==
  [op: {"activate", "release", "put", "destroy", "end_timeout"}, tracker: Tracker]
    \cup [op: {"update_oldest_point"}, timeline: TimelineId]
    \cup [op: {"release_depended"}, point: Point, cursor: Tracker \cup {NoTracker}]
    \cup [op: {"update_delayed_work"}]
    \cup [op: {"drop_mask"}, mask: SUBSET {"GP", "PP"}]
    \cup [op: {"unlock"}, schedule: {"mask", "always", "never"}, timer: BOOLEAN]

Call(op, t) == [op |-> op, tracker |-> t]
Walk(p, cursor) == [op |-> "release_depended", point |-> p, cursor |-> cursor]
Unlock(how) == [op |-> "unlock", schedule |-> how, timer |-> FALSE]
UnlockTimer == [op |-> "unlock", schedule |-> "mask", timer |-> TRUE]
DropMask    == [op |-> "drop_mask", mask |-> mask]
Caller      == Tail(stack)
LockFree    == stack = <<>>
OnTop(op)   == stack # <<>> /\ Head(stack).op = op
Running(op, t) == OnTop(op) /\ Head(stack).tracker = t

IsSoft(t) == Kind[t] = "soft"
Queued(t, tl) == t \in Range(waiter_list[tl])
Without(s, x) == RemoveAt(s, CHOOSE i \in DOMAIN s : s[i] = x)
First(s) == IF s = <<>> THEN NoTracker ELSE Head(s)
OnPoint(tl, p) == is_point_on(p, point_oldest[tl], point_next[tl])

Init ==
  /\ phase = [t \in Tracker |-> "free"]
  /\ point = [t \in Tracker |-> NoPoint]
  /\ wait_point = [t \in Tracker |-> [tl \in TimelineId |-> NoPoint]]
  /\ holders = [t \in Tracker |-> {}]
  /\ trigger_ref_count = [t \in Tracker |-> 0]
  /\ fatal = {}
  /\ pp_tracker = [t \in Tracker |-> NoTracker]
  /\ deps = [t \in Tracker |-> {}]
  /\ point_next = [tl \in TimelineId |-> StartPoint]
  /\ point_oldest = [tl \in TimelineId |-> StartPoint]
  /\ tracker_list = [tl \in TimelineId |-> <<>>]
  /\ waiter_list = [tl \in TimelineId |-> <<>>]
  /\ waiter_head_null = [tl \in TimelineId |-> TRUE]
  /\ stack = <<>>
  /\ mask = {}
  /\ runnable = {}
  /\ schedule_due = FALSE
  /\ tracker_count = [k \in GpuKind |-> 0]
  /\ timer_enabled = TRUE
  /\ timeline_timer = FALSE
  /\ timer_active = {}
  /\ work_pending = FALSE
  /\ work_running = FALSE
  /\ armed_for = {}
  /\ due = {}
  /\ sync_queue = {}
  /\ dma_pending = {}
  /\ is_aborting = FALSE

------------------------------------------------------------------------------
(* Creating and adding trackers (ioctls; none runs once the session aborts)  *)

\* tracker_init: the owner fills in the tracker; no lock is taken
tracker_init(t) ==
  /\ ~is_aborting
  /\ phase[t] = "free"
  /\ pp_tracker[t] = NoTracker
  /\ phase' = [phase EXCEPT ![t] = "init"]
  /\ fatal' = fatal \ {t}
  /\ holders' = [holders EXCEPT ![t] = {"init"}]
  /\ trigger_ref_count' = [trigger_ref_count EXCEPT ![t] = 1]
  /\ UNCHANGED <<point, pp_tracker, deps, wait_point, listVars, stack, schedVars,
                 timerVars, extVars>>

\* mali_gp_job_create with a PP job: tracker_get on the PP tracker, then
\* tracker_init of the GP tracker
gp_job_create(g, p) ==
  /\ ~is_aborting
  /\ LockFree
  /\ g \in PairedGp /\ phase[g] = "free" /\ pp_tracker[g] = NoTracker
  /\ Home[Kind[p]] = "PP" /\ phase[p] = "init" /\ "gp_job" \notin holders[p]
  /\ pp_tracker' = [pp_tracker EXCEPT ![g] = p]
  /\ phase' = [phase EXCEPT ![g] = "init"]
  /\ fatal' = fatal \ {g}
  /\ holders' = [holders EXCEPT ![g] = {"init"}, ![p] = @ \cup {"gp_job"}]
  /\ trigger_ref_count' = [trigger_ref_count EXCEPT ![g] = 1, ![p] = @ + 1]
  /\ UNCHANGED <<point, deps, wait_point, listVars, stack, schedVars, timerVars,
                 extVars>>

\* insert_tracker: a full timeline leaves the tracker without a point
full(tl) == is_full(point_oldest[tl], point_next[tl])
inserted(t) == Home[Kind[t]] \in TimelineId /\ ~full(Home[Kind[t]])

\* insert_waiter: from waiter_head backwards to the first waiter whose point is
\* not after p; a list whose waiter_head is NULL is taken for empty
insert_waiter(tl, t, p) ==
  LET chain == IF waiter_head_null[tl] THEN <<>> ELSE waiter_list[tl]
      fits  == {j \in DOMAIN chain : ~point_after(wait_point[chain[j]][tl], p)}
  IN  InsertAt(chain, Max({0} \cup fits) + 1, t)

\* (mutant: compares with any one tracker)
is_tracker_released_any(tl, p) == \E u \in Range(tracker_list[tl]) : point[u] # p

\* is_tracker_released: no tracker of the timeline has point p
is_tracker_released(tl, p) == \A u \in Range(tracker_list[tl]) : point[u] # p

Count(b) == IF b THEN 1 ELSE 0

\* fence_num_waiters, plus one for the dma fences
num_waiters(t, f) ==
  Cardinality({tl \in DOMAIN f : f[tl] # NoPoint})
    + Count(t \in SyncTracker) + Count(t \in DmaTracker)

\* (mutant: a PP job always counts as physical)
count_inserted_phy(t) ==
  [tracker_count EXCEPT ![IF Kind[t] = "gp" THEN "gp" ELSE "phy_pp"] = @ + 1]

\* the counter that insert_tracker increments
count_inserted(t) == [tracker_count EXCEPT ![Kind[t]] = @ + 1]

\* point_next once t has been inserted
next_after(t) ==
  IF inserted(t) THEN [point_next EXCEPT ![Home[Kind[t]]] = next_point(@)] ELSE point_next

\* the point that insert_tracker has given to t on timeline tl when the waiters are
\* created, so that t is on the timeline itself
own_point(t, tl) ==
  IF inserted(t) /\ tl = Home[Kind[t]] THEN point_next[tl] ELSE NoPoint

\* (mutant: a soft job that finished out of order is waited for)
waits_on_finished(t, f, granted) ==
  {tl \in DOMAIN f : f[tl] # NoPoint /\ is_point_on(f[tl], point_oldest[tl], next_after(t)[tl])}

\* The timelines on which create_waiters puts a waiter for fence f of tracker t,
\* as long as there are waiters: granted is how many could be allocated.  The points
\* come from user space unchecked, and t's own point counts as one to wait for.
waits_on(t, f, granted) ==
  LET wanted ==
        {tl \in DOMAIN f :
           /\ f[tl] # NoPoint
           /\ is_point_valid(f[tl], point_oldest[tl], next_after(t)[tl])
           /\ ~is_point_released(f[tl], point_oldest[tl], next_after(t)[tl])
           /\ tl = "SOFT" => f[tl] = own_point(t, tl) \/ ~is_tracker_released(tl, f[tl])}
  IN  {x \in wanted : Cardinality({y \in wanted : Order[y] <= Order[x]}) <= granted}

\* Everything create_waiters makes t wait for.  sync tells whether the sync fence
\* has not signaled yet (sync_fence_wait_async left a waiter on it).  A fence that
\* is bad or already signaled jumps to exit, past the dma waiter.
new_holders(t, f, granted, sync) ==
  LET spare == granted - Cardinality(waits_on(t, f, granted))
      dma   == /\ t \in DmaTracker /\ inserted(t)
               /\ t \in SyncTracker => sync
               /\ spare > Count(sync)
  IN  waits_on(t, f, granted) \cup (IF sync THEN {"sync"} ELSE {})
                              \cup (IF dma THEN {"dma"} ELSE {})

\* (mutant: the initial reference is kept)
refs_after_add_kept(t, added) == trigger_ref_count[t] + Cardinality(added)

\* one reference for each waiter, and the initial one is released
refs_after_add(t, added) == trigger_ref_count[t] + Cardinality(added) - 1

\* system_add_tracker and create_waiters_and_unlock up to the first call of
\* tracker_activate
add_tracker(t, f, granted, sync) ==
  LET tl     == Home[Kind[t]]
      served == waits_on(t, f, granted)
      added  == new_holders(t, f, granted, sync)
  IN  /\ phase[t] = "init" /\ LockFree /\ ~is_aborting
      /\ tl \in TimelineId => /\ minus(point_next[tl], StartPoint) < MaxAdvance
                              /\ MayFill \/ inserted(t)
      /\ \A g \in Tracker : pp_tracker[g] = t => phase[g] # "init"
      /\ sync => t \in SyncTracker /\ granted > Cardinality(served)
      /\ phase' = [phase EXCEPT ![t] = "waiting"]
      /\ point' = [point EXCEPT ![t] = IF inserted(t) THEN point_next[tl] ELSE NoPoint]
      /\ point_next' = next_after(t)
      /\ tracker_list' = IF inserted(t)
                         THEN [tracker_list EXCEPT ![tl] = Append(@, t)]
                         ELSE tracker_list
      /\ tracker_count' = IF inserted(t) /\ Kind[t] \in GpuKind
                          THEN count_inserted(t) ELSE tracker_count
      /\ wait_point' = [wait_point EXCEPT ![t] =
                          [x \in TimelineId |-> IF x \in served THEN f[x] ELSE NoPoint]]
      /\ waiter_list' = [x \in TimelineId |->
                           IF x \in served THEN insert_waiter(x, t, f[x])
                           ELSE waiter_list[x]]
      /\ waiter_head_null' = [x \in TimelineId |-> waiter_head_null[x] /\ x \notin served]
      /\ holders' = [holders EXCEPT ![t] = (@ \ {"init"}) \cup added]
      /\ trigger_ref_count' = [trigger_ref_count EXCEPT ![t] = refs_after_add(t, added)]
      /\ stack' = IF trigger_ref_count'[t] = 0
                  THEN <<Call("activate", t), Unlock("mask")>>
                  ELSE <<Unlock("mask")>>
      /\ dma_pending' = IF t \in DmaTracker THEN dma_pending \cup {t} ELSE dma_pending
      /\ deps' = [deps EXCEPT ![t] =
                    {u \in Tracker : \E x \in DOMAIN f :
                       u \in Range(tracker_list'[x]) /\ point'[u] = f[x]}
                      \cup {g \in Tracker : pp_tracker[g] = t /\ phase[g] # "free"}]
      /\ UNCHANGED <<fatal, pp_tracker, point_oldest, mask, runnable, schedule_due,
                     timerVars, sync_queue, is_aborting>>

add_tracker_any(t) ==
  \E f \in [FenceOn[t] -> AnyPoint], sync \in BOOLEAN :
    \E granted \in IF AllocMayFail THEN 0 .. num_waiters(t, f) ELSE {num_waiters(t, f)} :
      add_tracker(t, f, granted, sync)

------------------------------------------------------------------------------
(* The cascade under system->spinlock: one step per loop iteration or call    *)

\* (mutant: one reference may be left)
last_reference_early(t) == trigger_ref_count[t] <= 2

\* (mutant: tested before the decrement)
last_reference_late(t) == trigger_ref_count[t] = 0

\* the reference that is dropped is the last one: trigger_ref_count becomes 0
last_reference(t) == trigger_ref_count[t] = 1

\* system_release_waiter (and the reference half of tracker_put): drop the
\* reference `h' of t; the last one activates t.  `rest' is the calling stack.
release_reference(t, h, rest) ==
  /\ holders' = [holders EXCEPT ![t] = @ \ {h}]
  /\ trigger_ref_count' = [trigger_ref_count EXCEPT ![t] = @ - 1]
  /\ wait_point' = IF h \in TimelineId
                   THEN [wait_point EXCEPT ![t] = [@ EXCEPT ![h] = NoPoint]]
                   ELSE wait_point
  /\ stack' = IF last_reference(t) THEN <<Call("activate", t)>> \o rest ELSE rest

\* (mutant: the timeline is not marked empty)
new_oldest_stuck(tl, list) == IF list = <<>> THEN point_oldest[tl] ELSE point[Head(list)]

\* (mutant: the timeline is taken for empty)
new_oldest_next(tl, list) == point_next[tl]

\* update_oldest_point, before its loop: the point of the oldest tracker left
new_oldest(tl, list) == IF list = <<>> THEN point_next[tl] ELSE point[Head(list)]

\* tracker_release: unlink the tracker, then release what waited for it.  The
\* flags of the dead tracker (timer, point) are cleared with it.
tracker_release(t) ==
  LET tl   == Home[Kind[t]]
      list == Without(tracker_list[tl], t)
      tail == Head(tracker_list[tl]) = t
      loop == IF tail THEN <<[op |-> "update_oldest_point", timeline |-> tl]>>
              ELSE IF tl = "SOFT"
              THEN <<Walk(point[t], First(waiter_list[tl]))>>
              ELSE <<>>
      timer == IF tl = "SOFT" THEN <<[op |-> "update_delayed_work"]>> ELSE <<>>
  IN  /\ Running("release", t)
      /\ phase' = [phase EXCEPT ![t] = "free"]
      /\ deps' = [u \in Tracker |-> deps[u] \ {t}]
      /\ runnable' = runnable \ {t}
      /\ timer_active' = timer_active \ {t}
      /\ armed_for' = armed_for \ {t}
      /\ due' = due \ {t}
      /\ point' = [point EXCEPT ![t] = NoPoint]
      /\ IF point[t] = NoPoint
         THEN /\ stack' = Caller
              /\ UNCHANGED <<tracker_list, point_oldest>>
         ELSE /\ stack' = loop \o timer \o Caller
              /\ tracker_list' = [tracker_list EXCEPT ![tl] = list]
              /\ point_oldest' =
                   IF ~tail THEN point_oldest
                   ELSE [point_oldest EXCEPT ![tl] = new_oldest(tl, list)]
      /\ UNCHANGED <<fatal, pp_tracker, refVars, point_next, waiter_list,
                     waiter_head_null, mask, schedule_due, tracker_count,
                     timer_enabled, timeline_timer, work_pending, work_running, extVars>>

\* (mutant: waiter_head is always cleared)
last_waiter_any(tl) == TRUE

\* the oldest waiter has no timeline_next
last_waiter(tl) == Len(waiter_list[tl]) = 1

\* update_oldest_point, one iteration of its loop: release the oldest waiter
\* unless its point is still on the timeline
update_oldest_point(tl) ==
  LET list == waiter_list[tl]
      done == list = <<>> \/ OnPoint(tl, wait_point[Head(list)][tl])
  IN  /\ OnTop("update_oldest_point") /\ Head(stack).timeline = tl
      /\ IF done
         THEN /\ stack' = Caller
              /\ UNCHANGED <<refVars, waiter_list, waiter_head_null>>
         ELSE /\ waiter_list' = [waiter_list EXCEPT ![tl] = Tail(@)]
              /\ waiter_head_null' = [waiter_head_null EXCEPT ![tl] = @ \/ last_waiter(tl)]
              /\ release_reference(Head(list), tl, stack)
      /\ UNCHANGED <<trackerVars, point_next, point_oldest, tracker_list, schedVars,
                     timerVars, extVars>>

\* release_with_depended_point: from the cursor on, unlink and release the next
\* waiter for point p.  The successor of that waiter is kept in the frame across
\* the release.  Unlinking the waiter at waiter_head sets waiter_head to NULL.
\* A cursor that is no longer on the list was released by a nested call: its
\* link was cleared, so reading it ends the walk (if the memory was not reused).
release_depended(p, cursor) ==
  LET list == waiter_list["SOFT"]
      hits == {i \in DOMAIN list :
                 /\ \E j \in 1 .. i : list[j] = cursor
                 /\ wait_point[list[i]]["SOFT"] = p}
      i    == Min(hits)
      more == IF i = Len(list) THEN NoTracker ELSE list[i + 1]
  IN  /\ OnTop("release_depended")
      /\ p = Head(stack).point /\ cursor = Head(stack).cursor
      /\ IF hits = {}
         THEN /\ stack' = Caller
              /\ UNCHANGED <<refVars, waiter_list, waiter_head_null>>
         ELSE /\ waiter_list' = [waiter_list EXCEPT !["SOFT"] = RemoveAt(@, i)]
              /\ waiter_head_null' =
                   [waiter_head_null EXCEPT !["SOFT"] = @ \/ i = Len(list)]
              /\ release_reference(list[i], "SOFT",
                                   <<Walk(p, more)>> \o Caller)
      /\ UNCHANGED <<trackerVars, point_next, point_oldest, tracker_list, schedVars,
                     timerVars, extVars>>

\* update_delayed_work: time out the oldest soft tracker once it is active
update_delayed_work ==
  LET list   == tracker_list["SOFT"]
      active == list # <<>> /\ trigger_ref_count[Head(list)] = 0
  IN  /\ OnTop("update_delayed_work")
      /\ stack' = Caller
      /\ IF \/ ~timer_enabled
            \/ active /\ Head(list) \in timer_active
            \/ ~active /\ ~timeline_timer
         THEN UNCHANGED <<timeline_timer, timer_active, work_pending, armed_for>>
         ELSE IF active
         THEN /\ timer_active' = timer_active \cup {Head(list)}
              /\ timeline_timer' = TRUE
              /\ work_pending' = TRUE
              \* an armed timer is cancelled first, so the work is queued anew
              /\ armed_for' = IF work_pending /\ ~timeline_timer THEN armed_for
                              ELSE {t \in Tracker : IsSoft(t) /\ phase[t] = "active"}
         ELSE /\ work_pending' = FALSE
              /\ timeline_timer' = FALSE
              /\ UNCHANGED <<timer_active, armed_for>>
      /\ UNCHANGED <<trackerVars, refVars, listVars, schedVars, timer_enabled,
                     work_running, due, extVars>>

\* tracker_activate, first half, common to all types of tracker
activate(t, frames) ==
  /\ Running("activate", t)
  /\ phase' = [phase EXCEPT ![t] = "active"]
  /\ stack' = frames \o Caller
  /\ UNCHANGED <<point, fatal, pp_tracker, deps, refVars, listVars, schedule_due,
                 timerVars, extVars>>

\* tracker_activate for GP: scheduler_activate_gp_job queues the job, or, when the
\* session aborts, releases it with an error and ignores the mask
activate_gp_job(t) ==
  /\ Kind[t] = "gp"
  /\ tracker_count' = [tracker_count EXCEPT !["gp"] = @ - 1]
  /\ IF is_aborting
     THEN /\ activate(t, <<Call("release", t), Call("put", t), DropMask>>)
          /\ UNCHANGED <<runnable, mask>>
     ELSE /\ activate(t, <<>>)
          /\ runnable' = runnable \cup {t}
          /\ mask' = mask \cup {"GP"}

\* tracker_activate for PP: scheduler_activate_pp_job queues the job, or releases
\* it (a fatal activation error, or the session aborts) and ignores the mask
activate_pp_job(t) ==
  /\ Home[Kind[t]] = "PP"
  /\ tracker_count' = [tracker_count EXCEPT ![Kind[t]] = @ - 1]
  /\ IF is_aborting \/ t \in fatal
     THEN /\ activate(t, <<Call("release", t), DropMask>>)
          /\ UNCHANGED <<runnable, mask>>
     ELSE /\ activate(t, <<>>)
          /\ runnable' = runnable \cup {t}
          /\ mask' = mask \cup {"PP"}

\* tracker_activate for SOFT: the soft job system may release the tracker and
\* destroy the job at once (`done'; when the session aborts it also ignores the
\* mask), then the timer
activate_soft_job(t, done) ==
  /\ IsSoft(t)
  /\ activate(t, (IF done THEN <<Call("release", t), Call("destroy", t)>> ELSE <<>>)
                  \o (IF is_aborting THEN <<DropMask>> ELSE <<>>)
                  \o <<[op |-> "update_delayed_work"]>>)
  /\ UNCHANGED <<mask, runnable, tracker_count>>

\* tracker_activate for WAIT and SYNC: the waiter is woken (the flag signaled) and
\* the tracker, which is on no timeline, is released
activate_wait(t) ==
  /\ Kind[t] = "wait"
  /\ activate(t, <<Call("release", t)>>)
  /\ UNCHANGED <<mask, runnable, tracker_count>>

\* gp_job_signal_pp_tracker and system_tracker_put: give back the reference that
\* the GP job g holds on its PP job, with a fatal error if g failed
tracker_put(g, success, rest) ==
  /\ pp_tracker' = [pp_tracker EXCEPT ![g] = NoTracker]
  /\ fatal' = IF success THEN fatal ELSE fatal \cup {pp_tracker[g]}
  /\ release_reference(pp_tracker[g], "gp_job", rest)
  /\ UNCHANGED <<phase, point, deps, listVars, mask, runnable, tracker_count, timerVars,
                 extVars>>

\* the call of gp_job_signal_pp_tracker in scheduler_activate_gp_job
put_failed(g) ==
  /\ Running("put", g)
  /\ UNCHANGED schedule_due
  /\ IF pp_tracker[g] = NoTracker
     THEN /\ stack' = Caller
          /\ UNCHANGED <<trackerVars, refVars, listVars, mask, runnable, tracker_count,
                         timerVars, extVars>>
     ELSE tracker_put(g, FALSE, Caller)

\* a caller that ignores the mask its callee returned
drop_mask ==
  /\ OnTop("drop_mask")
  /\ mask' = Head(stack).mask
  /\ stack' = Caller
  /\ UNCHANGED <<trackerVars, refVars, listVars, runnable, schedule_due,
                 tracker_count, timerVars, extVars>>

\* mali_soft_job_destroy called under the lock (the job is MaliSoftJob's)
soft_job_destroy(t) ==
  /\ Running("destroy", t)
  /\ stack' = Caller
  /\ UNCHANGED <<trackerVars, refVars, listVars, schedVars, timerVars, extVars>>

\* the last statement of timer_callback before it unlocks
end_timeout(t) ==
  /\ Running("end_timeout", t)
  /\ timer_active' = timer_active \ {t}
  /\ stack' = Caller
  /\ UNCHANGED <<trackerVars, refVars, listVars, schedVars, timer_enabled,
                 timeline_timer, work_pending, work_running, armed_for, due, extVars>>

\* spinlock_reentrant_signal by the outermost function, which then calls
\* executor_schedule_from_mask (or executor_schedule in any case, or neither)
unlock ==
  /\ OnTop("unlock")
  /\ stack' = Caller
  /\ mask' = {}
  /\ schedule_due' = CASE Head(stack).schedule = "mask"   -> schedule_due \/ mask # {}
                       [] Head(stack).schedule = "always" -> TRUE
                       [] OTHER -> schedule_due
  /\ work_running' = (work_running /\ ~Head(stack).timer)
  /\ UNCHANGED <<trackerVars, refVars, listVars, runnable, tracker_count,
                 timer_enabled, timeline_timer, timer_active, work_pending, armed_for,
                 due, extVars>>

Locked ==
  \/ \E tl \in TimelineId : update_oldest_point(tl)
  \/ \E p \in Point, c \in Tracker \cup {NoTracker} : release_depended(p, c)
  \/ \E t \in Tracker :
       \/ tracker_release(t)
       \/ activate_gp_job(t)
       \/ activate_pp_job(t)
       \/ \E done \in BOOLEAN : activate_soft_job(t, done)
       \/ activate_wait(t)
       \/ put_failed(t)
       \/ soft_job_destroy(t)
       \/ end_timeout(t)
  \/ update_delayed_work
  \/ drop_mask
  \/ unlock

------------------------------------------------------------------------------
(* Events that take the lock, and steps of other threads                     *)

lock(frames) ==
  /\ LockFree
  /\ stack' = frames
  /\ UNCHANGED <<trackerVars, refVars, listVars, schedVars>>

\* executor_complete_gp and executor_complete_pp: the GPU finished the job (or, on
\* abort, it was dequeued).  A GP job with a PP job goes on to signal_pp_tracker,
\* and the executor schedules after that.
complete_job(t) ==
  /\ Kind[t] \in GpuKind /\ phase[t] = "active"
  /\ t \notin runnable \/ is_aborting
  /\ lock(<<Call("release", t),
            Unlock(IF pp_tracker[t] = NoTracker THEN "always" ELSE "never")>>)
  /\ UNCHANGED <<timerVars, extVars>>

signal_pp_tracker(g, success) ==
  /\ LockFree
  /\ phase[g] = "free" /\ pp_tracker[g] # NoTracker
  /\ success \/ GpuMayFail \/ is_aborting
  /\ tracker_put(g, success, <<Unlock("always")>>)
  /\ UNCHANGED schedule_due

\* tracker_release called by the soft job system from outside the timeline
soft_release(t) ==
  /\ IsSoft(t) /\ phase[t] = "active"
  /\ lock(<<Call("release", t), Unlock("mask")>>)
  /\ UNCHANGED <<timerVars, extVars>>

\* sync_fence_callback: the fence signaled, or cancel_sync_fence_waiters calls it.
\* Only the callback list lock is taken.
sync_fence_callback(t) ==
  /\ "sync" \in holders[t] /\ t \notin sync_queue
  /\ sync_queue' = sync_queue \cup {t}
  /\ UNCHANGED <<trackerVars, refVars, listVars, stack, schedVars, timerVars,
                 dma_pending, is_aborting>>

\* do_sync_fence_callback, the work item, for one tracker of its list
do_sync_fence_callback(t) ==
  /\ LockFree
  /\ t \in sync_queue
  /\ sync_queue' = sync_queue \ {t}
  /\ release_reference(t, "sync", <<Unlock(IF is_aborting THEN "never" ELSE "mask")>>)
  /\ UNCHANGED <<trackerVars, listVars, schedVars, timerVars, dma_pending, is_aborting>>

\* dma_fence_callback: the last dma fence signaled, or cancel_dma_fence_waiters.
\* Without a waiter the code dereferences NULL.
dma_fence_callback(t) ==
  /\ LockFree
  /\ t \in dma_pending /\ "dma" \in holders[t]
  /\ dma_pending' = dma_pending \ {t}
  /\ release_reference(t, "dma", <<Unlock(IF is_aborting THEN "never" ELSE "mask")>>)
  /\ UNCHANGED <<trackerVars, listVars, schedVars, timerVars, sync_queue, is_aborting>>

\* the delayed work expires: MALI_TIMELINE_TIMEOUT_HZ after it was queued, so what
\* was active then has timed out.  The same work never runs twice at once.
timer_expires ==
  /\ work_pending /\ ~work_running
  /\ work_pending' = FALSE
  /\ work_running' = TRUE
  /\ due' = due \cup armed_for
  /\ armed_for' = {}
  /\ UNCHANGED <<trackerVars, refVars, listVars, stack, schedVars, timer_enabled,
                 timeline_timer, timer_active, extVars>>

\* time passes for a soft job that was activated
time_passes(t) ==
  /\ IsSoft(t) /\ phase[t] = "active" /\ t \notin due
  /\ due' = due \cup {t}
  /\ UNCHANGED <<trackerVars, refVars, listVars, stack, schedVars, timer_enabled,
                 timeline_timer, timer_active, work_pending, work_running, armed_for,
                 extVars>>

\* timer_callback: nothing if the timer is disabled, if no tracker is being timed
\* or if its time has not come; else the soft job system times the job out, which
\* releases the tracker (`done') unless the job is already signaled
timer_callback(done) ==
  LET tail  == First(tracker_list["SOFT"])
      fires == timer_enabled /\ tail \in timer_active /\ tail \in due
      end   == <<Call("end_timeout", tail), UnlockTimer>>
  IN  /\ LockFree /\ work_running
      /\ done => fires
      /\ timeline_timer' = (timeline_timer /\ ~timer_enabled)
      /\ work_running' = fires
      /\ stack' = IF ~fires THEN <<>>
                  ELSE IF done THEN <<Call("release", tail), Call("destroy", tail)>> \o end
                  ELSE end
      /\ UNCHANGED <<trackerVars, refVars, listVars, schedVars, timer_enabled,
                     timer_active, work_pending, armed_for, due, extVars>>

\* executor_schedule, by the thread or work item that was asked to: every queued
\* job is considered.  It takes the executor and scheduler locks, not this one.
executor_schedule ==
  /\ schedule_due
  /\ schedule_due' = FALSE
  /\ runnable' = {}
  /\ UNCHANGED <<trackerVars, refVars, listVars, stack, mask, tracker_count,
                 timerVars, extVars>>

\* _mali_ukk_close sets is_aborting
abort ==
  /\ ~is_aborting
  /\ is_aborting' = TRUE
  /\ UNCHANGED <<trackerVars, refVars, listVars, stack, schedVars, timerVars,
                 sync_queue, dma_pending>>

\* (mutant: does not take the lock)
stop_timer_unlocked ==
  /\ is_aborting /\ timer_enabled
  /\ timer_enabled' = FALSE
  /\ UNCHANGED <<trackerVars, refVars, listVars, stack, schedVars, timeline_timer,
                 timer_active, work_pending, work_running, armed_for, due, extVars>>

\* system_stop_timer: disable the timer under the lock, then wait for the work
stop_timer ==
  /\ is_aborting /\ LockFree /\ timer_enabled
  /\ timer_enabled' = FALSE
  /\ UNCHANGED <<trackerVars, refVars, listVars, stack, schedVars, timeline_timer,
                 timer_active, work_pending, work_running, armed_for, due, extVars>>

cancel_work_sync ==
  /\ ~timer_enabled /\ ~work_running
  /\ work_pending \/ timeline_timer
  /\ work_pending' = FALSE
  /\ timeline_timer' = FALSE
  /\ UNCHANGED <<trackerVars, refVars, listVars, stack, schedVars, timer_enabled,
                 timer_active, work_running, armed_for, due, extVars>>

Ioctl ==
  \E t \in Tracker :
    \/ tracker_init(t)
    \/ \E p \in Tracker : gp_job_create(t, p)
    \/ add_tracker_any(t)

\* what the GPU, the fences and their work items do to tracker t
Device(t) ==
  \/ complete_job(t)
  \/ \E success \in BOOLEAN : signal_pp_tracker(t, success)
  \/ sync_fence_callback(t)
  \/ do_sync_fence_callback(t)
  \/ dma_fence_callback(t)

Owner == \E t \in Tracker : Device(t) \/ soft_release(t)

Timer ==
  \/ timer_expires
  \/ \E t \in Tracker : time_passes(t)
  \/ \E done \in BOOLEAN : timer_callback(done)

Close == abort \/ stop_timer \/ cancel_work_sync

Next == Ioctl \/ Locked \/ Owner \/ Timer \/ executor_schedule \/ Close

Spec == Init /\ [][Next]_vars

------------------------------------------------------------------------------
(* Properties                                                                *)

ListTypes ==
  /\ point_next \in [TimelineId -> Point]
  /\ point_oldest \in [TimelineId -> Point]
  /\ tracker_list \in [TimelineId -> Seq(Tracker)]
  /\ waiter_list \in [TimelineId -> Seq(Tracker)]
  /\ waiter_head_null \in [TimelineId -> BOOLEAN]

TrackerTypes ==
  /\ phase \in [Tracker -> {"free", "init", "waiting", "active"}]
  /\ point \in [Tracker -> AnyPoint]
  /\ fatal \in SUBSET Tracker
  /\ pp_tracker \in [Tracker -> Tracker \cup {NoTracker}]
  /\ deps \in [Tracker -> SUBSET Tracker]

RefTypes ==
  /\ holders \in [Tracker -> SUBSET Holder]
  /\ trigger_ref_count \in [Tracker -> Int]
  /\ wait_point \in [Tracker -> [TimelineId -> AnyPoint]]

SchedTypes ==
  /\ mask \in SUBSET {"GP", "PP"}
  /\ runnable \in SUBSET Tracker
  /\ schedule_due \in BOOLEAN
  /\ tracker_count \in [GpuKind -> Int]

TimerTypes ==
  /\ timer_enabled \in BOOLEAN
  /\ timeline_timer \in BOOLEAN
  /\ timer_active \in SUBSET Tracker
  /\ work_pending \in BOOLEAN
  /\ work_running \in BOOLEAN
  /\ armed_for \in SUBSET Tracker
  /\ due \in SUBSET Tracker

ExtTypes ==
  /\ sync_queue \in SUBSET Tracker
  /\ dma_pending \in SUBSET Tracker
  /\ is_aborting \in BOOLEAN

\* Types: points handed out are never NoPoint, also after the wrap, and every frame
\* names a tracker or a point that exists; the hardware counters may go below 0
\* (see TrackerCounts).
TypeOK ==
  /\ ListTypes /\ TrackerTypes /\ RefTypes
  /\ stack \in Seq(Frame)
  /\ SchedTypes /\ TimerTypes /\ ExtTypes

\* trigger_ref_count is exactly the number of references somebody still has to
\* give back: no release is counted twice or forgotten, so that 0 means that
\* nothing is left to wait for (release_waiter, tracker_get, tracker_put).
RefCountExact == \A t \in Tracker : trigger_ref_count[t] = Cardinality(holders[t])

\* A tracker that is active, or about to be activated, does not wait on anything:
\* no list, queue or GP job can decrement its count a second time.
ActivatedHoldsNothing ==
  \A t \in Tracker :
    phase[t] = "active" \/ Running("activate", t) =>
      /\ holders[t] = {}
      /\ t \notin sync_queue
      /\ \A g \in Tracker : pp_tracker[g] # t
      /\ \A tl \in TimelineId : ~Queued(t, tl)

\* Distance of a point of timeline tl from its oldest point.
Age(tl, p) == minus(p, point_oldest[tl])

\* The tracker list is in point order, starts at point_oldest and lies within the
\* points handed out, also when the numbers wrap (insert_tracker, tracker_release).
TrackersInOrder ==
  \A tl \in TimelineId :
    LET list == tracker_list[tl]
    IN  /\ point_oldest[tl] = IF list = <<>> THEN point_next[tl] ELSE point[Head(list)]
        /\ \A i \in DOMAIN list : OnPoint(tl, point[list[i]])
        /\ \A i, j \in DOMAIN list :
             i < j => Age(tl, point[list[i]]) < Age(tl, point[list[j]])

\* When the lock is free, the waiters of a timeline are sorted by point and each
\* one waits for a point that is still on the timeline; on the SOFT timeline, where
\* jobs finish out of order, for a tracker that is still there (insert_waiter,
\* update_oldest_point, release_with_depended_point).
WaitersInOrder ==
  LockFree =>
    \A tl \in TimelineId :
      LET list == waiter_list[tl]
      IN  /\ \A i \in DOMAIN list :
               /\ OnPoint(tl, wait_point[list[i]][tl])
               /\ tl = "SOFT" => ~is_tracker_released(tl, wait_point[list[i]][tl])
          /\ \A i, j \in DOMAIN list : i < j =>
               Age(tl, wait_point[list[i]][tl]) <= Age(tl, wait_point[list[j]][tl])

\* Every waiter on timeline tl is on the list that starts at its waiter_tail.
NoWaiterLost(tl) == {t \in Tracker : tl \in holders[t]} = Range(waiter_list[tl])

\* No waiter is forgotten on the timelines of the GPU, whose lists only
\* update_oldest_point shortens, and their waiter_head is NULL only when the list
\* is empty, so that insert_waiter finds the waiters that are there.
GpuWaitersReachable ==
  \A tl \in {"GP", "PP"} :
    NoWaiterLost(tl) /\ (waiter_head_null[tl] <=> waiter_list[tl] = <<>>)

\* No waiter is forgotten on the SOFT timeline either (mali_timeline.h on
\* add_tracker: once added, the tracker is guaranteed to be activated).
SoftWaitersReachable == NoWaiterLost("SOFT")

\* The timeline system implements MaliFenceSpec: activation after all the
\* dependencies, once, and release after activation, once.
ImplementsFences ==
  INSTANCE MaliFenceSpec WITH Tracker <- Tracker, phase <- phase, deps <- deps
RefinesFenceSpec == ImplementsFences!FenceSpec

\* The counters that keep the GPU cores powered count the GPU trackers that wait
\* on a timeline (insert_tracker increments, tracker_activate decrements).
TrackerCounts ==
  \A k \in GpuKind :
    tracker_count[k] = Cardinality({t \in Tracker : Kind[t] = k /\ phase[t] = "waiting"})

\* On the GPU timelines a waiter is released in order: not before every tracker up
\* to its point is gone (update_oldest_point).
GpuReleasedInOrder ==
  [][\A t \in Tracker, tl \in {"GP", "PP"} :
       tl \in holders[t] /\ tl \notin holders'[t] =>
         \A u \in Range(tracker_list[tl]) : point_after(point[u], wait_point[t][tl])]_vars

\* A tracker whose fence named the point that it was itself about to get: it is
\* never activated, and what waits for it is not either.
WaitsForItself(t) ==
  /\ phase[t] = "waiting" /\ point[t] # NoPoint
  /\ wait_point[t][Home[Kind[t]]] = point[t]

Stuck == \E t \in Tracker : WaitsForItself(t)

\* A job is queued and nobody is going to call executor_schedule: the mask that its
\* activation returned was dropped (scheduler_activate_pp_job releases a failed job).
Forgotten == runnable # {} /\ mask = {} /\ ~schedule_due

\* Once added, a tracker is activated (without soft jobs, whose owner is the user),
\* unless user space has let a tracker wait for itself, or a queued job stays forgotten
\* for ever because nothing else makes the executor schedule.
AddedIsActivated ==
  \/ <>[]Forgotten
  \/ \A t \in Tracker : phase[t] = "waiting" ~> phase[t] = "active" \/ Stuck
==============================================================================
