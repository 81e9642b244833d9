----------------------------- MODULE MaliExecutor -----------------------------
(***************************************************************************)
(* The executor (mali_executor.c): it decides which groups are powered and *)
(* which job runs on which group, and it composes the job scheduler with   *)
(* power management.                                                       *)
(*                                                                         *)
(* Everything here runs under the executor lock.  exec is what its holder  *)
(* still has to do, step by step, because power management goes on in      *)
(* between; it is <<>> while the lock is free.  From the step "physical"   *)
(* to "assign_gp" the holder also has mali_scheduler_lock.                 *)
(*                                                                         *)
(* A physical PP group is in the state of the list it is on, or "virtual"  *)
(* while it is a child of the virtual group.  The lists are sets: which    *)
(* element a loop takes first is left open.                                *)
(***************************************************************************)
EXTENDS MaliScheduler, MaliPower

CONSTANTS
  Switchable, \* groups that user space enables and disables
  MayPause    \* whether the device is suspended or paused

ASSUME ExecutorAssumption ==
  /\ Switchable \subseteq PpCore \cup {Gp}
  /\ MayPause \in BOOLEAN
  /\ HasVirtual \/ \A j \in Job : JobKind[j] # "virtual"

VARIABLES
  exec_state,        \* gp_group_state, virtual_group_state, and the lists
  running,           \* the job of a group, or NoJob
  disable_requested, \* the groups with this flag
  os,                \* the suspend and resume of the device: "running",
                     \* "pausing", "deactivated", "suspending", "suspended", "resuming"
  exec,
  local              \* locals of mali_executor_schedule

executorVars == <<exec_state, running, disable_requested, os, exec, local>>
vars == <<schedulerVars, powerVars, executorVars>>

\* pause_count > 0
Paused == os # "running"

Free   == exec = <<>>
At(op) == exec # <<>> /\ Head(exec) = op
InQueues == exec # <<>> /\ Head(exec) \in {"physical", "virtual", "assign_virtual", "assign_gp"}

NoLocal == [needed |-> 0, process |-> 0, trigger |-> FALSE, todo |-> {}]

OnList(list) == {c \in PpCore : exec_state[c] = list}
Children     == OnList("virtual")
VirtualIs(state) == HasVirtual /\ exec_state[Virtual] = state
WithChildren(g)  == IF g = Virtual THEN {Virtual} \cup Children ELSE {g}

\* mali_executor_group_is_in_state: a child is in the state of the virtual group
StateOf(g) == IF g \in Children THEN exec_state[Virtual] ELSE exec_state[g]

\* (mutant: a group without a job counts)
is_working_idle == \E g \in Group : exec_state[g] \in {"working", "idle"}

is_working == \E g \in Group : exec_state[g] = "working"

\* the state of the virtual group when the children in C leave it
EmptyWithout(C) == IF Children \subseteq C THEN "empty" ELSE exec_state[Virtual]

(***************************************************************************)
(* mali_executor_schedule, from step to step.                              *)
(***************************************************************************)
Continue  == exec' = Tail(exec)
Finished  == Continue /\ local' = NoLocal
Stages == <<"physical", "virtual", "assign_virtual", "assign_gp">>

\* updates of the executor's callers that had to wait are triggered first;
\* then steps 2 and 3, the GP group and the number of groups needed
Schedule ==
  /\ At("schedule")
  /\ pm_work' = (pm_work \/ local.trigger)
  /\ IF Paused
     THEN Finished /\ UNCHANGED <<refVars, exec_state>>
     ELSE LET wake    == exec_state[Gp] = "inactive" /\ depth.gp > 0
              on      == wake /\ ActiveAfter(Gp, {Gp})
              count   == physical_head_count
              process == Min({count, Cardinality(OnList("idle"))})
          IN  /\ IF wake THEN activate(Gp, {Gp}) ELSE UNCHANGED refVars
              /\ exec_state' = IF on THEN [exec_state EXCEPT ![Gp] = "idle"] ELSE exec_state
              /\ local' = [needed |-> count - process, process |-> process,
                           trigger |-> wake /\ ~on, todo |-> OnList("inactive")]
              /\ exec' = Stages \o Tail(exec)
  /\ UNCHANGED <<schedulerVars, maskVars, powered, runtime_active, rpm, pm,
                 running, disable_requested, os>>

\* 3.1 activate a group that is inactive
may_activate == local.needed > 0 /\ local.todo # {}

ActivateInactive ==
  /\ At("physical") /\ may_activate
  /\ \E c \in local.todo :
       /\ activate(c, {c})
       /\ local' = [needed |-> local.needed - 1,
                    process |-> local.process + IF ActiveAfter(c, {c}) THEN 1 ELSE 0,
                    trigger |-> local.trigger \/ ~ActiveAfter(c, {c}),
                    todo |-> local.todo \ {c}]
       /\ exec_state' = IF ActiveAfter(c, {c}) THEN [exec_state EXCEPT ![c] = "idle"]
                        ELSE exec_state
  /\ UNCHANGED <<schedulerVars, maskVars, powered, runtime_active, rpm, pm_work, pm,
                 running, disable_requested, os, exec>>

\* 3.2 steal and activate a child of the virtual group
\* (mutant: a pending virtual group is usable)
virtual_group_is_usable_pending == VirtualIs("inactive") \/ VirtualIs("idle")

virtual_group_is_usable ==
  (VirtualIs("inactive") \/ VirtualIs("idle")) /\ group_state[Virtual] # "pending"

may_steal == local.needed > 0 /\ local.todo = {} /\ virtual_group_is_usable /\ Children # {}

Steal ==
  /\ At("physical") /\ may_steal
  /\ \E c \in Children :
       /\ activate(c, {c})
       /\ local' = [local EXCEPT !.needed = @ - 1,
                                 !.process = @ + IF ActiveAfter(c, {c}) THEN 1 ELSE 0,
                                 !.trigger = @ \/ ~ActiveAfter(c, {c})]
       /\ exec_state' = [exec_state EXCEPT
            ![c] = IF ActiveAfter(c, {c}) THEN "idle" ELSE "inactive",
            ![Virtual] = EmptyWithout({c})]
  /\ UNCHANGED <<schedulerVars, maskVars, powered, runtime_active, rpm, pm_work, pm,
                 running, disable_requested, os, exec>>

\* 3.3 assign a physical sub job to an idle group
may_assign == ~may_activate /\ ~may_steal /\ local.process > 0

AssignPhysical ==
  /\ At("physical") /\ may_assign
  /\ physical_peek # NoJob
  /\ pp_get(physical_peek)
  /\ \E c \in OnList("idle") :
       /\ exec_state' = [exec_state EXCEPT ![c] = "working"]
       /\ running' = [running EXCEPT ![c] = physical_peek]
  /\ local' = [local EXCEPT !.process = @ - 1]
  /\ UNCHANGED <<job_phase, created, sub_jobs_completed, session_phase, schedule_due,
                 powerVars, disable_requested, os, exec>>

\* mali_executor_physical_rejoin_virtual for the groups in C: they take the
\* state of the virtual group and leave an empty one no longer empty
Rejoined(C) ==
  [g \in Group |-> IF g \in C THEN "virtual"
                   ELSE IF g = Virtual /\ C # {} /\ exec_state[g] = "empty"
                   THEN IF group_state[g] = "active" THEN "idle" ELSE "inactive"
                   ELSE exec_state[g]]

\* (mutant: without a look at the virtual group)
gives_back_always(C) == C

\* the groups of C that give their references back: the others bring them along
gives_back(C) == IF HasVirtual /\ group_state[Virtual] # "inactive" THEN {} ELSE C

\* mali_executor_deactivate_list_idle; triggers if domains became unwanted
deactivate_list_idle(deactivate_idle) ==
  LET C == IF HasVirtual \/ deactivate_idle THEN OnList("idle") ELSE {}
  IN  /\ deactivate(gives_back(C))
      /\ exec_state' = IF HasVirtual THEN Rejoined(C)
                       ELSE [g \in Group |-> IF g \in C THEN "inactive" ELSE exec_state[g]]
      /\ local' = [local EXCEPT !.trigger = @ \/ Unwanted(gives_back(C)) # {}]

\* 4. the idle groups rejoin the virtual group or are deactivated
RejoinIdle ==
  /\ At("physical") /\ ~may_activate /\ ~may_steal /\ local.process = 0
  /\ deactivate_list_idle(~HasTracker("physical"))
  /\ Continue
  /\ UNCHANGED <<schedulerVars, maskVars, powered, runtime_active, rpm, pm_work, pm,
                 running, disable_requested, os>>

\* 5. activate the virtual group; 6. trigger a power update
ActivateVirtual ==
  /\ At("virtual")
  /\ LET wake == VirtualIs("inactive") /\ next_is_virtual
         on   == wake /\ ActiveAfter(Virtual, WithChildren(Virtual))
     IN  /\ IF wake THEN activate(Virtual, WithChildren(Virtual)) ELSE UNCHANGED refVars
         /\ exec_state' = IF on THEN [exec_state EXCEPT ![Virtual] = "idle"] ELSE exec_state
         /\ pm_work' = (pm_work \/ local.trigger \/ (wake /\ ~on))
  /\ local' = [local EXCEPT !.trigger = FALSE]
  /\ Continue
  /\ UNCHANGED <<schedulerVars, maskVars, powered, runtime_active, rpm, pm,
                 running, disable_requested, os>>

\* 7. start a virtual job, or deactivate the virtual group
AssignVirtual ==
  /\ At("assign_virtual") /\ Continue
  /\ \/ /\ VirtualIs("idle") /\ next_is_virtual
        /\ pp_get(virtual_peek)
        /\ exec_state' = [exec_state EXCEPT ![Virtual] = "working"]
        /\ running' = [running EXCEPT ![Virtual] = virtual_peek]
        /\ UNCHANGED <<refVars, local>>
     \/ /\ VirtualIs("idle") /\ ~next_is_virtual /\ ~HasTracker("virtual")
        /\ deactivate(WithChildren(Virtual))
        /\ exec_state' = [exec_state EXCEPT ![Virtual] = "inactive"]
        /\ local' = [local EXCEPT !.trigger = @ \/ Unwanted(WithChildren(Virtual)) # {}]
        /\ UNCHANGED <<queueVars, sub_jobs_started, running>>
     \/ /\ ~VirtualIs("idle") \/ (~next_is_virtual /\ HasTracker("virtual"))
        /\ UNCHANGED <<refVars, queueVars, sub_jobs_started, exec_state, running, local>>
  /\ UNCHANGED <<job_phase, created, sub_jobs_completed, session_phase, schedule_due,
                 maskVars, powered, runtime_active, rpm, pm_work, pm, disable_requested, os>>

\* 8. start a GP job, or deactivate the GP group; 11. trigger a power update
AssignGp ==
  /\ At("assign_gp") /\ Finished
  /\ \/ /\ exec_state[Gp] = "idle" /\ depth.gp > 0
        /\ gp_get(gp_peek)
        /\ exec_state' = [exec_state EXCEPT ![Gp] = "working"]
        /\ running' = [running EXCEPT ![Gp] = gp_peek]
        /\ pm_work' = (pm_work \/ local.trigger)
        /\ UNCHANGED refVars
     \/ /\ exec_state[Gp] = "idle" /\ depth.gp = 0 /\ ~HasTracker("gp")
        /\ deactivate({Gp})
        /\ exec_state' = [exec_state EXCEPT ![Gp] = "inactive"]
        /\ pm_work' = (pm_work \/ local.trigger \/ Unwanted({Gp}) # {})
        /\ UNCHANGED <<queueVars, sub_jobs_started, running>>
     \/ /\ exec_state[Gp] # "idle" \/ (depth.gp = 0 /\ HasTracker("gp"))
        /\ pm_work' = (pm_work \/ local.trigger)
        /\ UNCHANGED <<refVars, queueVars, sub_jobs_started, exec_state, running>>
  /\ UNCHANGED <<job_phase, created, sub_jobs_completed, session_phase, schedule_due,
                 maskVars, powered, runtime_active, rpm, pm, disable_requested, os>>

ScheduleStep ==
  Schedule \/ ActivateInactive \/ Steal \/ AssignPhysical \/ RejoinIdle
    \/ ActivateVirtual \/ AssignVirtual \/ AssignGp

(***************************************************************************)
(* Enabling and disabling of a group.  A group that works is disabled when *)
(* its job completes.                                                      *)
(***************************************************************************)
Disabled(C) == [g \in Group |-> IF g \in C THEN "disabled"
                                ELSE IF g = Virtual /\ C \cap Children # {} THEN EmptyWithout(C)
                                ELSE exec_state[g]]

\* mali_executor_group_disable_internal for groups that do not work
disable_internal(C) ==
  LET off == {g \in C : group_state[g] # "inactive"}
  IN  /\ deactivate(off)
      /\ exec_state' = Disabled(C)
      /\ local' = [NoLocal EXCEPT !.trigger = Unwanted(off) # {}]

GroupDisable(g) ==
  /\ Free /\ exec' = <<"schedule">>
  /\ \/ StateOf(g) = "disabled" /\ UNCHANGED <<refVars, exec_state, disable_requested, local>>
     \/ /\ StateOf(g) = "working"
        /\ disable_requested' = disable_requested \cup {g}
                                  \cup (IF g \in Children THEN {Virtual} ELSE {})
        /\ UNCHANGED <<refVars, exec_state, local>>
     \/ /\ StateOf(g) \notin {"working", "disabled"}
        /\ disable_internal({g})
        /\ UNCHANGED disable_requested
  /\ UNCHANGED <<schedulerVars, maskVars, powered, runtime_active, rpm, pm_work, pm,
                 running, os>>

\* a core that is active at once rejoins the virtual group, and gives its
\* references back if that is inactive
GroupEnable(g) ==
  /\ Free /\ exec' = <<"schedule">>
  /\ LET on     == ActiveAfter(g, {g})
         rejoin == on /\ g \in PpCore /\ HasVirtual
         back   == rejoin /\ group_state[Virtual] = "inactive"
     IN  \/ StateOf(g) # "disabled" /\ UNCHANGED <<refVars, exec_state, local>>
         \/ /\ StateOf(g) = "disabled"
            /\ IF back THEN UNCHANGED refVars ELSE activate(g, {g})
            /\ exec_state' = IF rejoin THEN Rejoined({g})
                             ELSE [exec_state EXCEPT ![g] = IF on THEN "idle" ELSE "inactive"]
            /\ local' = [NoLocal EXCEPT !.trigger =
                           ~on \/ (back /\ \E d \in Used({g}) : use_count[d] = 0)]
  /\ UNCHANGED <<schedulerVars, maskVars, powered, runtime_active, rpm, pm_work, pm,
                 running, disable_requested, os>>

(***************************************************************************)
(* Completion of a job, or of a sub job, on group g: in an interrupt, on a *)
(* time-out, or because its session is aborted (then rest follows).        *)
(***************************************************************************)
complete_group(g, rest) ==
  LET j         == running[g]
      requested == IF g = Virtual THEN disable_requested \cap Children ELSE {g}
      released  == [exec_state EXCEPT ![g] = "idle"]
      disable   == ~Paused /\ g \in disable_requested
      off       == IF disable THEN requested ELSE {}
  IN  /\ running' = [running EXCEPT ![g] = NoJob]
      /\ sub_jobs_completed' = [sub_jobs_completed EXCEPT ![j] = @ + 1]
      /\ job_phase' = IF completes(j)
                      THEN [job_phase EXCEPT ![j] = "done"] ELSE job_phase
      /\ deactivate(off)
      /\ exec_state' = [i \in Group |->
           IF i \in off THEN "disabled"
           ELSE IF g = Virtual /\ i = g /\ off # {} /\ Children \subseteq off THEN "empty"
           ELSE released[i]]
      /\ disable_requested' = disable_requested \ (IF disable THEN {g} \cup off ELSE {})
      /\ local' = [NoLocal EXCEPT !.trigger = Unwanted(off) # {}]
      /\ exec' = (IF Paused THEN <<>> ELSE <<"schedule">>) \o rest
      /\ UNCHANGED <<created, queueVars, sub_jobs_started, schedule_due,
                     maskVars, powered, runtime_active, rpm, pm_work, pm, os>>

CompleteGroup(g) ==
  Free /\ running[g] # NoJob /\ complete_group(g, <<>>) /\ UNCHANGED session_phase

\* mali_executor_schedule_from_mask, from any context
ScheduleFromMask ==
  /\ schedule_due /\ Free
  /\ schedule_due' = FALSE
  /\ exec' = <<"schedule">>
  /\ UNCHANGED <<jobVars, queueVars, session_phase, powerVars, exec_state, running,
                 disable_requested, os, local>>

(***************************************************************************)
(* mali_executor_abort_session.                                            *)
(***************************************************************************)
AbortExecutor(s) ==
  /\ Free /\ session_phase[s] = "executor"
  /\ session_phase' = [session_phase EXCEPT ![s] = "aborting"]
  /\ exec' = <<"abort">>
  /\ UNCHANGED <<jobVars, queueVars, schedule_due, powerVars, exec_state, running,
                 disable_requested, os, local>>

RunsFor(g, s) == running[g] # NoJob /\ SessionOf[running[g]] = s

AbortGroup(s) ==
  /\ At("abort") /\ session_phase[s] = "aborting"
  /\ \/ \E g \in Group : RunsFor(g, s) /\ complete_group(g, exec) /\ UNCHANGED session_phase
     \/ /\ \A g \in Group : ~RunsFor(g, s)
        /\ session_phase' = [session_phase EXCEPT ![s] = "drain"]
        /\ Finished
        /\ UNCHANGED <<jobVars, queueVars, schedule_due, powerVars, exec_state, running,
                       disable_requested, os>>

(***************************************************************************)
(* Groups are told about their power by the holder of pm_lock_exec.  It    *)
(* schedules if a group was waiting, and goes on with its update after.    *)
(***************************************************************************)
GroupPowerUp ==
  /\ PmAt("notify_up") /\ Free
  /\ powered' = powered \cup pm.groups
  /\ LET awaited  == {g \in pm.groups : group_state[g] = "pending" /\ StateOf(g) = "inactive"}
         physical == awaited \ (Children \cup {Virtual})
         try      == HasVirtual /\ awaited \cap Children # {} /\ group_state[Virtual] = "pending"
         whole    == Children \subseteq powered'
     IN  \E part \in SUBSET (Children \cap powered') :
           \* the children that mali_group_set_active reaches before one without power
           /\ IF try THEN (whole => part = Children) ELSE part = {}
           /\ LET active == physical \cup part \cup (IF try /\ whole THEN {Virtual} ELSE {})
              IN  /\ group_state' = [g \in Group |-> IF g \in active THEN "active"
                                                     ELSE group_state[g]]
                  /\ exec_state' = [g \in Group |-> IF g \in active \ Children THEN "idle"
                                                    ELSE exec_state[g]]
           /\ IF awaited = {} THEN PmGoto("down", {}) /\ UNCHANGED exec
              ELSE PmGoto("notified", {}) /\ exec' = <<"schedule", "power_up">>
  /\ local' = NoLocal
  /\ UNCHANGED <<schedulerVars, use_count, pd_mask_wanted, maskVars, runtime_active, rpm,
                 pm_work, running, disable_requested, os>>

PowerUpReturn ==
  /\ At("power_up") /\ PmAt("notified") /\ Finished
  /\ PmGoto("down", {})
  /\ UNCHANGED <<schedulerVars, refVars, maskVars, powered, runtime_active, rpm, pm_work,
                 exec_state, running, disable_requested, os>>

GroupPowerDown ==
  Free /\ group_power_down /\ UNCHANGED <<schedulerVars, executorVars>>

(***************************************************************************)
(* Suspend and resume of the device: mali_pm_os_suspend waits until no     *)
(* group works and deactivates every group before it takes pm_lock_exec.   *)
(***************************************************************************)
Pause ==
  /\ MayPause /\ os = "running" /\ Free
  /\ os' = "pausing"
  /\ UNCHANGED <<schedulerVars, powerVars, exec_state, running, disable_requested, exec, local>>

ExecutorSuspend ==
  /\ os = "pausing" /\ Free /\ ~is_working
  /\ exec' = <<"suspend_idle", "suspend_gp", "suspend_virtual", "suspend_inactive">>
  /\ UNCHANGED <<schedulerVars, powerVars, exec_state, running, disable_requested, os, local>>

SuspendIdle ==
  /\ At("suspend_idle") /\ Continue
  /\ deactivate_list_idle(TRUE)
  /\ UNCHANGED <<schedulerVars, maskVars, powered, runtime_active, rpm, pm_work, pm,
                 running, disable_requested, os>>

SuspendGroup(op, g) ==
  /\ At(op) /\ Continue
  /\ IF g \in Group /\ group_state[g] # "inactive"
     THEN /\ exec_state' = [exec_state EXCEPT ![g] = "inactive"]
          /\ deactivate(WithChildren(g))
     ELSE UNCHANGED <<refVars, exec_state>>
  /\ UNCHANGED <<schedulerVars, maskVars, powered, runtime_active, rpm, pm_work, pm,
                 running, disable_requested, os, local>>

\* (mutant: the groups that still wait for power are forgotten)
waiting_none == {}

waiting == {c \in OnList("inactive") : group_state[c] = "pending"}

SuspendInactive ==
  /\ At("suspend_inactive") /\ Finished
  /\ deactivate(waiting)
  /\ exec_state' = IF HasVirtual
                   THEN [g \in Group |-> IF g \in OnList("inactive") THEN "virtual" ELSE exec_state[g]]
                   ELSE exec_state
  /\ os' = "deactivated"
  /\ UNCHANGED <<schedulerVars, maskVars, powered, runtime_active, rpm, pm_work, pm,
                 running, disable_requested>>

PmOsSuspend ==
  /\ os = "deactivated" /\ os_suspend /\ os' = "suspending"
  /\ UNCHANGED <<schedulerVars, exec_state, running, disable_requested, exec, local>>

PmOsResume ==
  /\ os = "suspending" /\ pm.op # "os_suspend" /\ os_resume /\ os' = "resuming"
  /\ UNCHANGED <<schedulerVars, exec_state, running, disable_requested, exec, local>>

\* (mutant: does not schedule)
ExecutorResumeIdle ==
  /\ os = "resuming" /\ pm.op # "os_resume" /\ Free
  /\ os' = "running"
  /\ UNCHANGED <<schedulerVars, powerVars, exec_state, running, disable_requested, exec, local>>

ExecutorResume ==
  /\ os = "resuming" /\ pm.op # "os_resume" /\ Free
  /\ os' = "running"
  /\ exec' = <<"schedule">>
  /\ UNCHANGED <<schedulerVars, powerVars, exec_state, running, disable_requested, local>>

(***************************************************************************)
(* The rest of the system.  What takes mali_scheduler_lock waits for the   *)
(* executor to leave the queues.                                           *)
(***************************************************************************)
DevRefs == \/ \E j \in Job : job_phase[j] \in {"queued", "done"}
           \/ \E d \in Domain : use_count[d] > 0

RuntimeSuspend ==
  /\ rpm = "active" /\ ~DevRefs
  /\ rpm' = "suspending"
  /\ UNCHANGED <<schedulerVars, refVars, maskVars, powered, runtime_active, pm_work, pm,
                 executorVars>>

PowerStep ==
  /\ \/ update_work \/ runtime_suspend \/ runtime_resume \/ os_resume_return
     \/ domain_power_up \/ domain_power_down \/ common_suspend
  /\ UNCHANGED <<schedulerVars, executorVars>>

JobStep ==
  /\ \/ \E j \in Job : start_job(j) \/ complete_job(j)
     \/ \E s \in Session : begin_close(s) \/ end_close(s)
     \/ /\ ~InQueues
        /\ \/ \E j \in Job : activate_gp_job(j) \/ activate_pp_job(j) \/ do_pp_job_queue(j)
           \/ \E s \in Session : abort_session(s)
  /\ UNCHANGED <<powerVars, executorVars>>

ExecutorInit ==
  /\ exec_state = [g \in Group |-> IF g \in PpCore /\ HasVirtual THEN "virtual" ELSE "inactive"]
  /\ running = [g \in Group |-> NoJob]
  /\ disable_requested = {}
  /\ os = "running" /\ exec = <<>> /\ local = NoLocal

Init == SchedulerInit /\ PowerInit /\ ExecutorInit

Next ==
  \/ ScheduleStep \/ ScheduleFromMask
  \/ \E g \in Group : CompleteGroup(g)
  \/ \E g \in Switchable : GroupEnable(g) \/ GroupDisable(g)
  \/ \E s \in Session : AbortExecutor(s) \/ AbortGroup(s)
  \/ GroupPowerUp \/ PowerUpReturn \/ GroupPowerDown
  \/ Pause \/ ExecutorSuspend \/ SuspendIdle \/ SuspendGroup("suspend_gp", Gp)
  \/ SuspendGroup("suspend_virtual", Virtual) \/ SuspendInactive
  \/ PmOsSuspend \/ PmOsResume \/ ExecutorResume
  \/ RuntimeSuspend \/ PowerStep \/ JobStep

Spec == Init /\ [][Next]_vars

(***************************************************************************)
(* The holder of a lock goes on; work items, interrupts and threads that   *)
(* wait for a lock get it; the GPU finishes a job or is timed out; what    *)
(* was suspended is resumed ("must always be called as soon as possible",  *)
(* mali_utgard.h:506).  Nothing is assumed of user space, which submits    *)
(* jobs and closes sessions, nor of when the kernel suspends the device.   *)
(***************************************************************************)
LockHolder ==
  \/ ScheduleStep \/ PowerUpReturn \/ \E s \in Session : AbortGroup(s)
  \/ SuspendIdle \/ SuspendGroup("suspend_gp", Gp) \/ SuspendGroup("suspend_virtual", Virtual)
  \/ SuspendInactive

PmThread ==
  \/ /\ \/ update_work \/ runtime_suspend \/ os_resume_return
        \/ domain_power_up \/ domain_power_down \/ common_suspend
     /\ UNCHANGED <<schedulerVars, executorVars>>
  \/ GroupPowerUp \/ GroupPowerDown

\* pm_runtime_get by the driver
ResumeThread == DevRefs /\ runtime_resume /\ UNCHANGED <<schedulerVars, executorVars>>

SuspendThread == ExecutorSuspend \/ PmOsSuspend \/ PmOsResume \/ ExecutorResume

JobThread(j) ==
  /\ complete_job(j) \/ (~InQueues /\ (activate_gp_job(j) \/ activate_pp_job(j) \/ do_pp_job_queue(j)))
  /\ UNCHANGED <<powerVars, executorVars>>

CloseThread(s) ==
  \/ AbortExecutor(s)
  \/ (end_close(s) \/ (~InQueues /\ abort_session(s))) /\ UNCHANGED <<powerVars, executorVars>>

Fairness ==
  /\ WF_vars(LockHolder)
  /\ SF_vars(PmThread) /\ SF_vars(ResumeThread) /\ SF_vars(SuspendThread) /\ SF_vars(ScheduleFromMask)
  /\ SF_vars(\E g \in Group : CompleteGroup(g))
  /\ \A j \in Job : SF_vars(JobThread(j))
  /\ \A s \in Session : SF_vars(CloseThread(s))

FairSpec == Spec /\ Fairness

(***************************************************************************)
(* Properties.                                                             *)
(***************************************************************************)
QueuedIn(queues, j) == j \in Range(queues.high) \cup Range(queues.normal)
SumUnstarted(q) == UnstartedOf(Range(q))

\* The variables have their types.
ExecTypeOK ==
  /\ job_phase \in [Job -> {"free", "timeline", "deferred", "queued", "done"}]
  /\ Range(created) = {j \in Job : job_phase[j] # "free"}
  /\ \A queues \in {job_queue_gp, job_queue_pp} : DOMAIN queues = {"high", "normal"}
  /\ DOMAIN depth = {"gp", "pp"} /\ Range(depth) \subseteq Nat
  /\ sub_jobs_started \in [Job -> Nat] /\ sub_jobs_completed \in [Job -> Nat]
  /\ session_phase \in [Session -> {"open", "scheduler", "executor", "aborting", "drain"}]
  /\ schedule_due \in BOOLEAN
  /\ group_state \in [Group -> {"inactive", "pending", "active"}]
  /\ powered \subseteq Group /\ use_count \in [Domain -> Nat]
  /\ \A mask \in {pd_mask_wanted, pd_mask_current, pmu_mask_current} : mask \subseteq Domain
  /\ runtime_active \in BOOLEAN /\ pm_work \in BOOLEAN
  /\ rpm \in {"suspended", "resuming", "active", "suspending"}
  /\ pm.groups \subseteq Group
  /\ \A g \in Group : exec_state[g] \in
       IF g = Virtual THEN {"empty", "inactive", "idle", "working"}
       ELSE IF g = Gp THEN {"disabled", "inactive", "idle", "working"}
       ELSE {"virtual", "disabled", "inactive", "idle", "working"}
  /\ running \in [Group -> Job \cup {NoJob}]
  /\ disable_requested \subseteq Group
  /\ os \in {"running", "pausing", "deactivated", "suspending", "resuming"}

\* A job runs only on hardware that is on: the group, its children and the L2
\* caches are powered and wanted, in the model of the driver and in the PMU,
\* and the device is not runtime suspended.
PoweredWhileWorking ==
  \A g \in Group : running[g] # NoJob =>
    LET S == WithChildren(g)
    IN  /\ S \subseteq powered /\ \A i \in S : group_state[i] = "active"
        /\ Used(S) \subseteq pd_mask_wanted \cap pd_mask_current
        /\ Used(S) \ {Dummy} \subseteq pmu_mask_current
        /\ runtime_active

\* The references on the domains are those of the groups that are not
\* inactive, however they moved between the virtual group and the lists, and
\* the wanted domains are those with references (mali_pm_get_domain_refs).
RefsExact ==
  /\ \A d \in Domain : use_count[d] = Refs({g \in Group : group_state[g] # "inactive"}, d)
  /\ pd_mask_wanted = {d \in Domain : use_count[d] > 0}

\* A child holds references exactly if the virtual group does, which the
\* assertion of mali_group_activate on inactive children rests on.
VirtualInStep ==
  \A c \in Children : (group_state[c] = "inactive") <=> (group_state[Virtual] = "inactive")

\* Every sub job of a queued job is waiting, on a group or completed: a queue
\* holds the jobs with sub jobs left, once, and depth counts these.
SubJobsAccounted ==
  /\ \A j \in Job :
       /\ job_phase[j] = "queued" =>
            sub_jobs_started[j] - sub_jobs_completed[j] = Cardinality({g \in Group : running[g] = j})
       /\ job_phase[j] # "queued" => \A g \in Group : running[g] # j
       /\ QueuedIn(IF JobKind[j] = "gp" THEN job_queue_gp ELSE job_queue_pp, j)
            <=> (job_phase[j] = "queued" /\ Unstarted(j) > 0)
  /\ depth.gp = Len(job_queue_gp.high) + Len(job_queue_gp.normal)
  /\ depth.pp = SumUnstarted(job_queue_pp.high) + SumUnstarted(job_queue_pp.normal)

\* A queue is in the order of the job ids (mali_pp_job_list_add), although jobs are
\* activated in any order; only its first job may be in progress, and only a job in
\* progress may stand before an older one.
QueuesInOrder ==
  \A q \in {job_queue_gp.high, job_queue_gp.normal, job_queue_pp.high, job_queue_pp.normal} :
    \A k \in 2..Len(q) :
      ~HasStarted(q[k]) /\ (HasStarted(q[k - 1]) \/ CreatedBefore(q[k - 1], q[k]))

\* Once the executor is aborted, no job of the session is queued or runs
\* ("the GP and PP scheduler no longer has any jobs queued or running from
\* this session", mali_kernel_core.c:1279), whatever is activated meanwhile.
AbortedGone ==
  \A j \in Job : session_phase[SessionOf[j]] = "drain" => job_phase[j] # "queued"

\* The assertions of mali_pm_runtime_resume and mali_pm_os_resume: everything
\* is as the suspend left it.
OffWhenSuspended ==
  /\ rpm = "suspended" => /\ powered = {} /\ pd_mask_current = {} /\ pmu_mask_current = {}
                          /\ ~runtime_active
  /\ (os = "suspending" /\ PmFree) =>
       pd_mask_wanted = {} /\ pd_mask_current = {} /\ pmu_mask_current = {} /\ powered = {}

\* The assertions of mali_executor_group_power_down and mali_group_power_down:
\* a group that loses its power was on and is not in use, although it could be
\* activated between the decision and the notification.
PoweredDownQuiet ==
  (pm.step \in {"notify_down", "notify_suspend"} /\ Free) =>
    /\ pm.groups \subseteq powered
    /\ \A g \in pm.groups : StateOf(g) \in {"disabled", "inactive", "empty"}

\* The assertion of step 3.3: while the executor has groups to give a job to,
\* there is a physical sub job at the head of a queue.
AssignFindsJob ==
  (At("physical") /\ may_assign) => physical_peek # NoJob /\ OnList("idle") # {}

\* the power up of g is still to come, or its notification is under way
Awaited(g) == DomainOf[g] \notin pd_mask_current \/ (PmAt("notify_up") /\ g \in pm.groups)

\* A wanted domain is on, or an update that will power it up is scheduled, is
\* about to be, or comes with the suspend or resume that is next ("Process the
\* power up instead, which could have been lost", mali_pm.c:410); and a pending
\* group outside the virtual group will be told about its power.
NoLostPowerUp ==
  /\ \/ pd_mask_wanted \subseteq pd_mask_current
     \/ pm_work \/ local.trigger \/ PmAt("up") \/ rpm \in {"suspended", "suspending"}
  /\ \A g \in Group \ (Children \cup {Virtual}) : group_state[g] = "pending" => Awaited(g)

\* mali_group_activate: a pending virtual group waits for "power up
\* notification anyway" (mali_group.c:308), so a child has one to come.
VirtualIsAwaited ==
  (HasVirtual /\ group_state[Virtual] = "pending") =>
    \E c \in Children : group_state[c] = "pending" /\ Awaited(c)

\* After a suspend adds the physical groups back to the virtual group
\* (mali_executor.c:372), that is not left empty: it can be used again.
VirtualNotLeftEmpty ==
  (Free /\ VirtualIs("empty")) => Children = {}

\* In a session none of whose other jobs may fail (a job that does drops the mask of what
\* its release activates, mali_scheduler.c:535), a job that is queued ends before the device
\* is paused (again), whatever was pending or suspended on the way, unless a suspend has
\* left the virtual group empty.
QueuedEnds ==
  \A j \in Job :
    (\A f \in MayFail \ {j} : SessionOf[f] # SessionOf[j]) =>
      (job_phase[j] = "queued" ~>
         (job_phase[j] = "free" \/ os = "pausing" \/ ~VirtualNotLeftEmpty))

\* Closing a session ends, also while the device is suspended or has no power.
CloseEnds == \A s \in Session : session_phase[s] # "open" ~> session_phase[s] = "open"

\* A pause gets past the jobs that still run, and the resume past the updates.
PauseEnds == os = "pausing" ~> os = "running"

\* The scheduler and the executor keep the promise of MaliJobSpec.
ImplementsJobs == INSTANCE MaliJobSpec WITH
  live <- {j \in Job : job_phase[j] # "free"},
  todo <- [j \in Job |-> IF job_phase[j] \in {"free", "done"} THEN 0 ELSE Unstarted(j)],
  busy <- running,
  closing <- {s \in Session : session_phase[s] # "open"}

RefinesJobSpec == ImplementsJobs!JobSpec
================================================================================
