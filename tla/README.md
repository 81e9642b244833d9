# Verification of the Mali Utgard kernel driver

The repository holds the Linux kernel drivers of several generations of Mali GPUs. This project
verifies the newest Utgard driver, `src/mali` (r10p0, 45 500 lines): its job core, in which jobs of
user space wait for each other, are queued, run on the cores of the GPU or on the CPU, fail, time out and are
cancelled, while the cores and the device go to sleep and wake up.
The other drivers (`src/utgard`: older releases of the same program; `src/midgard`, `src/t83x`,
`src/bifrost`, `src/dvalin`: the kbase driver of later GPUs; `src/ump`, `src/umplock`, `src/egl`,
`src/bindings`) are different programs or older copies and are left alone.

## 1. Inventory

A *session* is one open file of a process. User space submits GP jobs (geometry), PP jobs
(fragments) and soft jobs (work of the CPU) with a *fence* each: points on the three timelines of the session
(GP, PP, SOFT) and possibly a sync file descriptor. The timeline system decides when a job may
start; then the scheduler queues it and the executor runs it.

| component | state | operations | interacts with |
|---|---|---|---|
| timeline points (`mali_timeline.h`) | two numbers per timeline, oldest and next point | next, on, released, valid, full | timeline system |
| timeline system (`mali_timeline.c`) | per timeline: tracker list, waiter list, points, timer; per tracker: `trigger_ref_count`, point, flags; hardware counters | `tracker_init`, `add_tracker`, `tracker_get/put/release`, fence callbacks, timer, abort | everyone below; calls the owner of a tracker when it is activated, under `system->spinlock` |
| reentrant spinlock (`mali_spinlock_reentrant.c`) | owner, nesting counter | wait, signal | lets an activation release further trackers |
| soft job system (`mali_soft_job.c`) | list of jobs; per job: state, reference count, activated | create, start, signal, activate, time-out, abort | its jobs hold trackers; user space signals them |
| fence wait, sync fence (`mali_timeline_fence_wait.c`, `mali_timeline_sync_fence.c`) | trackers on no timeline | wait, activate | timelines, the sync framework of the kernel |
| GP and PP jobs (`mali_gp_job.c`, `mali_pp_job.c`) | `pp_tracker`, sub jobs, errors | create, signal the PP tracker, delete | timelines, scheduler |
| dma-buf fences (`linux/mali_dma_fence.c`) | a counted set of fences per PP job | add, callback, term | timelines |
| scheduler (`mali_scheduler.c`) | queues of GP and PP jobs, by priority; deferred PP and deletion queues; per job: sub jobs started and completed | activate, queue, take a sub job, abort a session, complete, delete | timelines, executor |
| executor (`mali_executor.c`) | a state per group (disabled, inactive, idle, working; the virtual group may be empty), pause count | schedule, interrupts, time-outs, power notifications, suspend, enable and disable cores, abort | scheduler, groups, power |
| groups (`mali_group.c`) | power state (inactive, pending, active), `power_is_on`, children, running job | activate, deactivate, power up and down, add and take children, start, complete | executor, power domains, hardware |
| session close (`mali_kernel_core.c`, `mali_session.c`) | `is_aborting` | open, close | all of the above, in a fixed order |
| power (`mali_pm.c`, `mali_pm_domain.c`, `mali_pmu.c`) | domains with use counts; the wanted, current and PMU masks; whether runtime PM is active | get and put references, update now or later, OS suspend and resume, runtime suspend and resume | executor, runtime PM of the kernel |
| memory (`linux/mali_memory_*.c`, `mali_mmu_page_directory.c`) | allocations, mappings, their counts | allocate, map, bind, copy on write, swap | jobs |
| utilization and DVFS | measured times, clock step | update | executor |

Hard behaviours. A release runs a cascade under one lock: it releases waiters, which activates
trackers, some of which are released on the spot, which releases further waiters, and so on, through lists that the
outer calls are still walking. References of a tracker are dropped by timelines, by sync and dma
fences and by GP jobs, in any order and from several threads. Soft jobs finish out of order. A soft job is
finished by its signal, its time-out, its own activation or the abort of the session, which race.
Jobs fail; memory runs out; points wrap around 2^32; a timeline holds at most 65536 points. Closing a session
must end all of it. Cores are activated before they have power: the executor takes references on power domains under its own lock,
an update of the hardware follows on a work queue and reports back, and meanwhile the references may be gone, the device
may be suspended, or the core may have moved from the list of single cores to the virtual group that runs one job on all of them.
`PROJECT.json` lists these hazards at their lines, with the properties that cover each.

What makes each component correct: *points* – they classify correctly across the wrap. *Timelines* –
a job does not run before its fence, runs once and is activated eventually; counts are exact; lists are in
order and reachable; closing drains them and leaves nobody behind. *Soft jobs* – each is released once and freed once and not before its last
use; a signal returns. *Fence waits* – the memory is freed once; a wait returns. *Scheduler* – every sub job is waiting, running or done; an
aborted session has no job left. *Executor* – a queued job is run; a group runs one job; no job runs without power. *Power* –
references are exact; no power up is lost; a suspended device is off. *Memory* – what is mapped exists.

## 2. Modules

| module | what it is |
|---|---|
| **MaliTimelinePoint** | the arithmetic of points, with `PointModulus` for 2^32 and `MaxPointSpan` for 65536; operators only |
| **MaliFenceSpec** | abstract: a tracker names others, is activated once after they are all released, and is released once after that. No points, lists, counts or locks |
| **MaliTimeline** | the timeline system with the owners of trackers seen from it (scheduler, executor, fences, timer, close) |
| **MaliSoftJob** | the soft job system; extends MaliTimeline, each of its actions takes one step of the timelines or none |
| **MaliFenceWait** | the fence wait ioctl and the end of a session; extends MaliTimeline in the same way |
| **MaliJobSpec** | abstract: sub jobs run once, one at a time on a group; a job is given back when none of its sub jobs runs and all or none were started (or the rest cancelled); a closed session has no jobs |
| **MaliScheduler** | the job queues, one action per region of `mali_scheduler_lock`, and what the executor asks of them |
| **MaliPower** | power domains, the power state of groups, updates, OS and runtime suspend |
| **MaliExecutor** | the executor; composes MaliScheduler and MaliPower (EXTENDS both) into one system |
| **MCMaliTimeline**, **MCMaliSoftJob**, **MCMaliFenceWait**, **MCMaliExecutor** | instances for TLC, and the symmetry sets |
| **MaliListLemmas**, **MaliTimelineProofs**, **MaliTimelineOrderProofs**, **MaliSoftJobProofs**, **MaliFenceWaitProofs**, **MaliExecutorProofs**, **MaliSuspendProofs**, **MaliJobProofs** | the proofs (section 6) |

The two families meet where a tracker is activated (a job is queued) and released (a job has ended): MaliTimeline has a queued job run to
its end in one step, MaliExecutor has a job come from a timeline at any time. Operators that end in a suffix and are marked *(mutant)* are plausible
mistakes, used only to show that a property can fail.

### Timelines

*Trackers.* A tracker is a model value. `phase` says whether it is unused, initialised, waiting or active (in the code: whether it is
linked and whether `trigger_ref_count` has been 0); `point` is `tracker->point`. A tracker is used again
once its job is gone, as memory is. `holders` is a history variable next to `trigger_ref_count`: *who*
still has to give a reference back. The count is what the code tests; that both agree is `RefCountExact`.
`deps` is another history variable, for the refinement.

*Lists.* `tracker_list` goes from `tracker_tail` (oldest) to `tracker_head`. `waiter_list` is what is
reached from `waiter_tail`; `waiter_head_null` is the one fact about `waiter_head` that is not determined
by it: whether it is NULL. A tracker has at most one waiter per timeline, so a waiter is named by its tracker and its
point is in `wait_point`.

*The lock and the cascade.* `stack` is the call stack of the thread that holds `system->spinlock`; it is
empty when the lock is free. A step runs one iteration of a loop, or one function between two calls, so the order of
effects is that of the code, nested calls see the half-finished work of their callers, and steps that do
not take this lock (the sync fence callback, the executor, `is_aborting`, soft job states) come in
between. The reentrant spinlock is this stack: its owner is the thread, its counter the depth.

*Scheduling.* `mask` is the schedule mask that calls return; a `drop_mask` frame stands for a caller that ignores
it. `runnable` holds the jobs that were queued since the executor last looked; `schedule_due` says that somebody is
about to call it.

*Time.* No clock: `due` holds the soft trackers that have been active for `MALI_TIMELINE_TIMEOUT_HZ`, and
`armed_for` those that will be when the delayed work fires, since the work is queued with that very delay.

*Soft jobs.* `job_state`, `refcount` and `activated` are the fields of the job (`FREE` is freed memory);
`signaler` is the position of the thread in the signal ioctl or in the abort. Starting a job is three
steps, because user space knows the id before the first.

*Fence waits.* `thread` is the position of the thread in the ioctl; a wait in `timed` may wake at any time. `refcount` and `activated` are the fields of the memory
that holds the tracker; this memory is new when both references are gone. `destroyed` is the end of `mali_timeline_system_destroy`.

### Scheduler, executor and power

*Jobs.* `job_phase` follows a job: on a timeline, in the deferred queue, queued or running, done (its tracker released, its object not yet deleted).
`created` is the order of job ids. Queues are sequences; `depth`, `sub_jobs_started` and `sub_jobs_completed` are the counters of the code.

*The executor lock.* `exec` is the program of its holder, as the steps it still has to do; it is empty while the lock is free. Scheduling is eight steps, with one
step per group or job inside, because power management goes on in between; from "physical" to "assign_gp" the holder also has the scheduler lock, so what queues jobs waits
(`InQueues`). `local` has the local variables of `mali_executor_schedule`.

*Groups.* `exec_state` is `gp_group_state` and `virtual_group_state` for these two, and for a core the list it is on, "virtual" for a child of the virtual group. The lists are sets:
which core a loop takes first is left open. `group_state` is `group->state` and `powered` is `group->power_is_on`. A job that ends is a step of its own for
any working group: an interrupt, a time-out, a page fault and an abort do the same to this state.

*Power.* `use_count` counts the references of a domain, `pd_mask_wanted`, `pd_mask_current` and `pmu_mask_current` are the masks.
`pm` is the holder of `pm_lock_exec` with its operation, its next step and the groups to notify: the state lock is dropped between a decision and the notification, and references come and go there. `pm_work` is the
scheduled update. `rpm` is the state runtime PM of the kernel is in. It may suspend when the driver holds no reference, that is, no job is queued and no domain in use, and others may resume it at any time.
`os` is the progress of a suspend and resume of the device, or of `mali_dev_pause` and `mali_dev_resume`, which do the same.

`map` in `PROJECT.json` names the lines of every definition.

## 3. Runs

| run | instance | states | shows |
|---|---|---|---|
| soft | 3 soft jobs that may name any point of the timeline, their own too, modulus 12, span 4, start 9 | 1.6 M | types; lists in order and waiters reachable in order; refinement of MaliFenceSpec |
| gpu | a GP job, a physical and a virtual PP job, a fence wait; sync fd on one, dma fence on the other, paired start | 1.8 M | counts exact, activated trackers hold nothing, no lost waiter, hardware counters, refinement, release in order |
| softjob | 3 soft jobs, one self-signaled, 3 or 4 points across the wrap, fairness | 122 k | reference count and life time of jobs, one release, asserts of the time-out and the abort; signals return; close frees the jobs |
| fence_wait | a GP job that may fail, a PP job started with it that has a sync fence, and a fence wait; 2 points per timeline, failing allocations, close at any time, fairness | 116 k | the memory of a wait is freed once; every tracker is activated; waits return; closing gets to the end and leaves no tracker |
| exec470 | virtual group of 2 cores in two domains, a virtual job that may fail and a deferred physical job (2 sub jobs), suspend and resume | 1.2 M | what runs is powered; references exact; children in step; pending virtual group has a notification to come; off when suspended; quiet power down; no lost power up |
| exec400 | no virtual group, two PP jobs of two sessions with different priority, one of 2 sub jobs, deferred and failing; a core that is enabled and disabled, both sessions close and reopen | 3.4 M | types; sub jobs accounted for; the executor finds the job it counted; nothing of an aborted session comes back; refinement of MaliJobSpec |
| exec_queues | no virtual group, one core, three PP jobs of 2 sub jobs and a GP job | 2.9 M | the order of the queues, with two jobs behind the head |
| exec_live | virtual group of one core, a deferred PP job of 2 sub jobs, suspend and resume, fairness | 70 k | a queued job ends; a close ends; a pause ends |
| lost_waiter, virtual_empty, left_tracker, freed_job | the smallest instances | | findings, below |

Bounds of the timelines. `PointModulus` 10 or 12 with `StartPoint` just before the end: every run passes the wrap and the number 0. `MaxPointSpan` 3 or 4:
the timelines of the run *soft* do fill. A fence names any number, as the code copies what user space gives it (`mali_timeline.c:755-767`) and takes it for a point if it is on the timeline: released
points, points of others, and the point that the tracker itself gets, since it is inserted before its waiters are made (1443-1453; `own_point`). `MaxAdvance` bounds the points handed out where the graph would be too large (equal to `PointModulus`
it bounds nothing; in *softjob* and *fence_wait* it makes the liveness checks possible, and a finite number of points is what strong fairness is stated for). `MayFill` is FALSE where a full timeline only repeats what section 3 says about it. Three trackers on one timeline are the least that have
a first, a middle and a last; two timelines and two kinds of fences are the least at which the last of several references
races. Symmetry is used only for safety and only among trackers of one kind.

Bounds of the executor. Nothing is counted: jobs, sessions and suspensions come again and again. Two cores are the least for which a virtual group can be partly stolen, partly powered, or empty; one core shares its domain with the GP and
the L2 cache and one has its own, so that a domain can be on while another is not. A job with two sub jobs on two cores can be queued, in progress and half done. The runs split the features, since all at once is beyond 10^8 states:
a virtual group with suspensions (exec470), a core that comes and goes, two sessions and priorities (exec400), three jobs in a queue (exec_queues: a third job is the least for which the order behind the head can be wrong; the three are
alike and interchangeable, so they are a symmetry set).

Deadlock is not checked for the timelines, as user space may stop submitting; the executor runs check it.

### Findings

Four runs show that the code does not do what its comments say. Each is reached by legal calls.

1. *lost_waiter* (`mali_timeline.c:506`): unlinking the newest waiter of the SOFT timeline sets `waiter_head` to NULL though older ones remain.
   The next insertion starts a new list; the old waiters are lost and their trackers are never activated.
2. *virtual_empty* (`mali_executor.c:381`): `mali_executor_suspend` adds the cores it finds on the inactive list back to the virtual group, but does not look at
   `virtual_group_state`. When all cores had left an inactive virtual group before, its state is "empty" and stays so. An empty virtual group is never used: after the resume neither virtual nor physical jobs
   get a core, as they are all children of it. `mali_executor_physical_rejoin_virtual` has the missing assignment.
3. *left_tracker* (`mali_timeline.c:856`): a fence wait on a sync file that timed out leaves its tracker behind, on no timeline. Closing the session cancels the fences of trackers on timelines only, sleeps until
   the timelines are empty and frees the system, to which the tracker, and later the callback of the fence, still refers.
4. *freed_job* (`mali_timeline.c:140`): the time-out of a soft job drops its reference in `mali_soft_job_system_timeout_job` (`mali_soft_job.c:382`); a thread that signals the timed out job drops the other one at any moment, without the lock of the timelines.
   Then `mali_timeline_timer_callback` clears `timer_active` of the tracker inside the job that has been freed. `JobOutlivesTracker`, which holds, is about the other calls.

Further disagreements were met. Two end the promise of `mali_timeline.h:408` that a tracker that was added is activated; the liveness properties name them as exceptions, the runs reach them, and without the exception each property below fails in its run:

- A tracker whose fence names its own point waits for itself for ever, and so does what waits for it (`WaitsForItself`, `Stuck`). Closing the session cancels sync and dma fences only, so it sleeps for ever too. Excepted in `AddedIsActivated`, `WaitReturns`, `CloseDestroys` and `CloseFreesJobs`.
- The activation of a failed PP job releases it and drops the mask of this release (`mali_scheduler.c:535`). A GP job that is activated by it stays queued until something else makes the executor schedule (`Forgotten`). Excepted, if it lasts for ever, in `AddedIsActivated` and `WaitReturns`.

A third one is in the way of "the timer ends what user space forgets": a timer callback that runs late clears `timeline->timer_active` although the next job is being timed (`mali_timeline.c:130`), and the work queued for that job can then be lost (`Untimed`). `SignalReturns` excepts behaviours that stay in this state, which the run reaches.

The others are listed in `hazards` with a note, without a run: the cursor that
`release_with_depended_point` keeps across a release (`mali_timeline.c:509`); a soft job on a full SOFT timeline, which has no timer (283); a sync fence that has already signaled together with a dma fence (1291), where the waiter that the dma callback
dereferences is never made; a core that is disabled while the virtual group waits for it (`mali_group.c:339`); and one that is enabled while the device is being suspended (`mali_executor.c:2162`).

What the passing runs do not show. *soft* has the fences of
soft jobs only, where a lost waiter does not violate order or refinement (both are safety; that it is never activated is finding 1). *softjob*: `NeverActivated` also excepts a lost waiter, but this takes two soft jobs and three waiters, more than the run has; it is reached in *lost_waiter*. No run has a sync
fd and a dma fence on one job. *fence_wait* has no sync file on the wait (finding 3), no soft jobs and no dma fences (these are in *gpu*); its dependencies fail to be allocated, which *gpu* and *soft* exclude because the job then runs too early. *exec470* has no core that user space disables.
*exec_live* reaches finding 2: `QueuedEnds` excepts a virtual group that a suspend has left empty, and fails without the exception. It excepts sessions in which another job may fail, too, since that one may drop the mask; the run has one job, which does not fail.
A queued job therefore does *not* end in every case, and the property says when it does.

## 4. Fairness

`SoftFairSpec`: the holder of the lock goes on (weak fairness), and threads that are in the kernel do (starting, signaling, closing, the delayed work). These need the lock, which others take in between: strong fairness, of all these steps together, which is
less than fairness of each. It is enough because `MaxAdvance` leaves finitely many of them. No fairness is given to user space: it may leave any job unsignaled, and the time-out has to end it.

`WaitFairSpec`: the thread that holds the lock goes on, and so does one that is about to schedule (weak fairness). The GPU finishes what it runs
(the executor has a time-out per job), fences signal, work items run, and an ioctl that created a GP job with a PP job adds it; a thread in the fence wait goes on. These need the lock, which
others take in between: strong fairness, as a spinlock gives. User space need not do anything else. Because user space may not signal soft jobs, there are none.

`FairSpec` of MaliExecutor: the holder of the executor lock goes on (weak). The holder of `pm_lock_exec` and the work items get the executor lock in the end, which others take in between (strong). Groups finish or are timed out. A device that is suspended is resumed, which
`mali_utgard.h:506` demands of the caller of `mali_dev_pause` and an operating system does; when it is suspended is left open. Runtime PM resumes a device that the driver holds a reference on. A `QueuedEnds` job may be held up by a device that is paused again
and again, so it is promised an end or another pause. Nothing is assumed of user space, which submits jobs and closes sessions.

## 5. What the abstraction leaves out

- The error bit of a failed sync fence (`ACTIVATION_ERROR_SYNC_BIT`): it reaches user space only. The fatal bit is modelled (`fatal`).
- `allocate_waiters` drops the lock, but before anything is inserted; adding a tracker is therefore one step up to its first call. How many waiters it got is `granted`.
- The context of dma fences counts itself until the tracker is added, so its callback comes after that: `dma_pending` is set by `add_tracker`.
- `point_after` subtracts signed numbers; the kernel is compiled with wrapping arithmetic, and so is the operator.
- `abort` may come at any time in MaliTimeline, a superset of what close allows. In MaliSoftJob and MaliFenceWait `close` waits until no ioctl is in progress, as the last
  reference of a file implies. No ioctl starts afterwards.
- The cancellation of fences on abort calls the callbacks that signaling calls, so it is the same action.
- In MaliExecutor a job that comes from its timeline sets `schedule_due`, unless a job of its session that may fail is still on a timeline: then its activation may be part of the failed job's, whose mask is dropped, and `schedule_due` may stay as it is (`may_drop`, `return_mask`). A session is closed in two steps, the scheduler's and the executor's; what its timelines do is MaliFenceWait.
- References of one deactivation loop are given back in one step, as nobody but the executor sees the domains between them without them being wanted; references that are taken, and their effect on which groups are on, are step by step.
- The secure mode of the GPU, the hint that a GP job is the bottleneck (both only delay jobs), the out-of-memory interrupt of the GP, page tables, L2 caches (they have no state that is decided on), and the number of cores that core scaling aims at: a core that is scaled away
  is disabled in the same way as by user space.
- The PMU is taken to exist and runtime PM to be enabled.
- Notifications to user space, job ids beyond their order, performance counters and printing.

## 6. Proofs

Every safety property of the passing runs is a theorem, for every number of trackers, points, jobs, sessions, cores and domains, and whatever the kinds of the jobs. Where a theorem has a
hypothesis it is because the code does not do without; each is named below with the hazard that it leaves out. The proofs rest on `PointAssumption`, `TimelineAssumption`,
`SoftJobAssumption`, `PowerAssumption`, `WiringAssumption`, `SchedulerAssumption` and `ExecutorAssumption`; TLC evaluates them in every run that has them. The invariants that the proofs use have been checked with TLC first, on the instances of the runs.

### Timelines (MaliTimelineProofs, MaliTimelineOrderProofs)

For every modulus and span that satisfy `PointAssumption`, with failing allocations and full timelines unless said otherwise.

- `TypeCorrect`: `Spec => []TypeOK`. Types are not inductive alone: unlinking an element of a list needs the tracker to be
  on that list. `TypeInv` adds `TrackersListed`, that a tracker with a point is on the list of its timeline, once.
- `RefInvariant`, `RefCountCorrect`, `ActivatedCorrect`: `trigger_ref_count` equals the number of holders, and a tracker that is active, or about to be,
  has none. `RefInv` strengthens this by what each place that can give a reference back must know: a waiter on a list belongs to a tracker that holds this reference
  (`WaitersHold`), likewise for queued sync callbacks (`SyncHolds`) and GP jobs, of which no two share a PP job (`GpJobHolds`); which references each phase has (`PhaseHolders`); and that at any time at most
  the function on top of the stack activates or releases a tracker, a waiting one without references or an active one (`CallsOK`, `TimedActive`).
- `OrderInvariant`, `TrackersInOrderCorrect`, `WaitersInOrderCorrect`. In the middle of a cascade waiters *are* behind the oldest point, so the order at rest is not inductive. `OrderInv` measures
  all points from `point_next`, which stands still while the lock is held, and says of every state of a cascade what is still out of place and who puts it right: a waiter off its timeline has
  `update_oldest_point` for this timeline on the stack (`StaleUpdated`); a waiter for a soft job that finished out of order has a walk of `release_with_depended_point` on the stack whose cursor
  is at or before it and, unless the walk has just begun, waits for the same point (`DependedWalked`), and walks are for released points only (`WalksReleased`).
- `GpuWaitersCorrect`, `GpuReleasedInOrderCorrect`: on the GPU timelines the list that starts at `waiter_tail` has all waiters. The SOFT timeline is left out since it loses waiters (finding 1).
- `RefinesFenceSpecCorrect`: `FenceInv` adds that what a tracker depends on has not been released (`DepsAlive`) and has the tracker's waiter with the very point, or is the GP job that holds it (`DepsHeld`), and
  that the pending `tracker_put` of a GP job comes after the release of that job (`PutsDone`). Hypothesis: `~AllocMayFail`, because `create_waiters` without memory drops the remaining dependencies. A tracker whose fence names its own point depends on itself there, and is never activated.
- `TrackerCountsCorrect`: finitely many trackers and `~MayFill`, because a tracker that does not get a point is not counted when it is inserted but is when it is activated.

### Soft jobs and fence waits (MaliSoftJobProofs, MaliFenceWaitProofs)

- `SoftJobsImplementTimelines`, `SoftJobsKeepCounts`, `FenceWaitsImplementTimelines`, `FenceWaitsKeepCounts`: every step of these systems is a step of MaliTimeline or leaves it alone, so what is proved of timelines holds in them.
- `SoftInvariant` and from it `JobRefCountCorrect`, `JobOutlivesTrackerCorrect`, `ReleasedOnceCorrect`, `TimeoutCorrect`, `AbortStatesCorrect`, `SoftTypeCorrect`. `JobOutlivesTracker` leaves out the end of a time-out, for which it is false (finding 4). None is inductive: whether a step may drop a reference depends on
  the state of the job, its signaler, its place on the list of the abort and the calls on the stack together. `SoftInv` therefore describes the whole life of a job per state (`JobLife`, with `StartedLife`, `TimedOutLife` and `SignaledLife`),
  with the pending `mali_soft_job_destroy` calls on the stack (`Owed`, at most one per job: `Once`), and how far the close of the session got (`CloseSteps`).
- `WaitMemory`: a wait has one reference for its thread and one for its tracker. It needs the phases of trackers from `TypeInv`, and that the release on the stack is of an active tracker, from `RefInv`.
- `NoTrackerLeftCorrect`: `LeftInv` says that jobs have points and so are on lists (`Placed`), that waits are held by waiters of the GPU timelines only (`WaitsOnGpu`), that a wait is released right after its activation (`ReleasedAtOnce`)
  and that nothing is initialised once the session aborts (`NoneInInit`); when the lists are empty a waiter would have a point on an empty timeline, which `OrderInv` excludes. `LeftAssumed` leaves out waits for sync files (finding 3), waits for
  the SOFT timeline (finding 1) and full timelines (`mali_timeline.c:283`).

### Executor and power (MaliExecutorProofs, MaliSuspendProofs)

For every number of cores, domains, jobs and sessions, with or without a virtual group, with suspensions and with cores that come and go.

- `ReferencesExact`, `ChildrenInStep`, `WorkingIsPowered`, `PowerDownIsQuiet` are conjuncts or consequences of one inductive invariant, `ExecInv`. `RefsExact` is close to inductive: it needs `VirtualInStep`, so that deactivating the virtual group
  gives back what its children hold, and `ListsMatch`, that a core on the list of idle or working cores is active and one that is disabled holds nothing. `VirtualWhole` says the same of an active virtual group and its children.
  `ActiveOn` is the heart: a group that is active is powered, and its domains are current; it survives a power down because the domains that go down are not wanted, while those of an active group are. `MasksInStep` relates the masks to the position of the holder of `pm_lock_exec`, `SuspendInOrder` the steps of a suspension to
  what has been given back by then, and `RuntimeActive` that nothing is current while the device is runtime suspended. `PowerTypes`, `ListTypes`, `RunTypes` and `LocalTypes` are what the steps need to know of types.
  The wiring of the domains matters: `WiringAssumption` says that what keeps the domain of a core on also keeps that of its L2 cache on. The default wiring (`mali_pm_set_default_pm_domain_config`, `mali_pm.c:960-1063`) is of this kind; one that is given by the
  platform (`mali_osk_mali.c:326`) need not be, and the executor properties are not claimed for it.
- `PowerUpNotLost` rests on `UpInv`: `UpdateDue` says where the update of a wanted domain that is off is to be found (the work item, the trigger kept in the locals of the executor until a step that it still has
  to take, the operation that holds `pm_lock_exec`, or runtime PM), `Told` what a pending core waits for, `StageOrder` that the executor cannot leave its loop without the step that triggers, and `PmInv` how the operation under way and
  the state of runtime PM go together.
- `SuspendedIsOff` rests on `OsInv`: `SuspendProgress` says what each step of `mali_executor_suspend` has emptied, so that after the last nothing is held (`RestsUnwanted`), which no interrupt, abort or
  work item changes until the resume; `OsOff` that therefore no update turns anything on. It assumes `QuietUserSpace`, that no core is enabled or disabled on a device that may be suspended: while `mali_executor_suspend` waits or has finished nothing in the code keeps user
  space from the switches of the cores (`mali_kernel_sysfs.c:134`), and the hazard at `mali_executor.c:2162` is what happens otherwise; a system suspend freezes user space first.
- `VirtualAwaitedCorrect` rests on `AwaitInv`: a virtual group that waits for its power is on the inactive list (`PendingInactive`), it has a child unless it is marked empty or a suspension is about to give its children back (`Inhabited`), and one of its pending
  children has its power up or its notification to come (`Awaits`). It assumes `CoresStay`, that user space does not switch the PP cores of a virtual group: when it disables the only child that is waited for, the others have no notification
  to come (`mali_group.c:339`, `mali_executor.c:2162`).

### Jobs (MaliJobProofs)

Under the same assumptions as the executor, with any number of sub jobs.

- `SubJobsAccountedCorrect` and `AbortedGoneCorrect` rest on `JobsInv`. `JobInv` says which jobs are in which queue, once (`QueuesMatch`), that what was started and not completed of a job is the number of groups that run it (`CountersMatch`),
  what a session in each step of its close has left (`ClosingMatch`), and that the depths are the number of GP jobs and the sum of the sub jobs that wait (`DepthMatch`). It needs `ExecInv` for one thing, that the group a job is given has none.
- `RefinesJobSpecCorrect`: each step maps to a step of MaliJobSpec or a stutter; giving a job back needs `CountersMatch`, the end of a close `ClosingMatch`.
- `QueuesInOrderCorrect`: only the first job may be in progress, and only then may it stand before an older one; `QueuesOrdered` says this of any two places of a queue, which the removal of a job from the middle needs.
- `AssignFindsJobCorrect`: `mali_executor_schedule` counts the physical jobs and the idle groups once, and then gives the jobs out one at a time, while it activates more groups and takes some from the virtual group. `PhysInv` carries the count over: at any
  time the physical jobs at the head of the queues (`PhysLead`) have as many sub jobs left as are still to be given out (`EnoughJobs`).
- `ExecTypesCorrect`: with `ExecInv` and `JobInv` only the types of three variables are left (`OsTypes`).

A fold (`SumFunctionOnSet`) and the walk over a queue that unlinks jobs (`Kept`) are defined by recursion over data, and induction with an operator as parameter is not available to the prover. What is needed of them is proved instead with sets: the set of the lengths for which the statement fails has a least element, which is led to a
contradiction. MaliListLemmas states what removing from, inserting into and appending to a list does to its elements and their order.

### Only model-checked

The liveness properties of *softjob*, *fence_wait* and *exec_live*: fairness and ENABLED are outside of what the prover handles. The four findings are counterexamples, to which no theorem belongs.

## Not modelled

- Memory management (`linux/mali_memory_*.c`): a system of its own that meets the rest through jobs only.
- Utilization, DVFS and the targets of core scaling: arithmetic on measured times.
- The kernel side of sync files (`linux/mali_sync.c`, `linux/mali_internal_sync.c`), the ioctl layer and wrappers of Linux primitives: copies of arguments, or code that belongs to the kernel.
- Registers and interrupts of the hardware (`mali_gp.c`, `mali_pp.c`, `mali_mmu.c`, `mali_l2_cache.c`, `mali_pmu.c`).
- The drivers of other generations and older releases of this one. They are almost all of the repository by size (1.7 million lines, many of them copies of each other), so the share of it that the map covers is small whatever is modelled of this driver.

## 7. Plan

Done: points, timelines, soft jobs, fence waits, the scheduler, the executor and power, with the abstract specifications of fences and jobs, and the proofs of all safety properties of the runs.

1. Safety halves of the liveness properties as theorems: whoever waits can be told (a waiting tracker always has somebody that gives its reference back, on timelines without soft jobs; a job that is queued has a group that can take it, or a power up to come).
2. **MaliSession**: timelines and executor composed for one job of each kind, with the schedule mask passed between them.
3. **MaliMemory**: allocation and mapping counts, copy on write.
