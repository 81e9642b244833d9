--------------------------- MODULE MaliSuspendProofs ---------------------------
(***************************************************************************)
(* Suspend and resume with any number of cores, domains and jobs: no power *)
(* up is lost, a suspended GPU is off, and a virtual group that waits for  *)
(* its power is not forgotten by its children.                             *)
(***************************************************************************)
EXTENDS MaliExecutorProofs

------------------------------------------------------------------------------
(* Runtime PM                                                                *)

\* Nothing is on while runtime PM has the GPU suspended, and without an operation under
\* way the PMU is not ahead of the driver.
RpmOff ==
  rpm = "suspended" => /\ powered = {} /\ pd_mask_current = {} /\ pmu_mask_current = {}
                       /\ ~runtime_active

PmuBehind == pm.step \in {"none", "suspend", "return"} => pmu_mask_current \subseteq pd_mask_current

\* What the holder of pm_lock_exec is in is what runtime PM waits for, and the
\* suspend of the device gets no further than its own steps.
OperationOf ==
  /\ pm.op = "runtime_resume" <=> rpm = "resuming"
  /\ pm.op = "runtime_suspend" => rpm = "suspending"
  /\ pm.op = "os_suspend" => pm.step \in {"suspend", "notify_suspend"}
  /\ pm.step \in {"suspend", "notify_suspend"} => pm.op \in {"runtime_suspend", "os_suspend"}

PmInv == RpmOff /\ PmuBehind /\ OperationOf

LEMMA PmInvSame == ASSUME PmInv, PowerSame PROVE PmInv'
BY DEF PmInv, RpmOff, PmuBehind, OperationOf, PowerSame, maskVars

\* The actions that are not of power management leave the power as it is.
LEMMA PowerOr ==
  ASSUME Next
  PROVE  \/ PowerSame \/ GroupPowerUp \/ PowerUpReturn \/ GroupPowerDown
         \/ PmOsSuspend \/ PmOsResume \/ RuntimeSuspend \/ PowerStep
<1>1. ScheduleStep => PowerSame
  BY DEF ScheduleStep, Schedule, ActivateInactive, Steal, AssignPhysical, RejoinIdle,
         ActivateVirtual, AssignVirtual, AssignGp, PowerSame, powerVars
<1>2. ASSUME NEW g \in Group, NEW rest, complete_group(g, rest) PROVE PowerSame
  BY <1>2 DEF complete_group, PowerSame
<1>3. ASSUME NEW g \in Group, CompleteGroup(g) PROVE PowerSame
  BY <1>2, <1>3 DEF CompleteGroup
<1>4. ASSUME NEW s \in Session, AbortExecutor(s) \/ AbortGroup(s) PROVE PowerSame
  <2>1. CASE AbortExecutor(s)
    BY <2>1 DEF AbortExecutor, PowerSame, powerVars
  <2>2. CASE AbortGroup(s)
    BY <2>2, <1>2 DEF AbortGroup, PowerSame, powerVars
  <2> QED BY <1>4, <2>1, <2>2
<1>5. ASSUME NEW g \in Switchable, GroupEnable(g) \/ GroupDisable(g) PROVE PowerSame
  BY <1>5 DEF GroupEnable, GroupDisable, PowerSame
<1>6. ScheduleFromMask \/ Pause \/ ExecutorSuspend \/ SuspendIdle \/ ExecutorResume => PowerSame
  BY DEF ScheduleFromMask, Pause, ExecutorSuspend, SuspendIdle, ExecutorResume, PowerSame, powerVars
<1>7. SuspendGroup("suspend_gp", Gp) \/ SuspendGroup("suspend_virtual", Virtual) \/ SuspendInactive
        => PowerSame
  BY DEF SuspendGroup, SuspendInactive, PowerSame
<1>8. JobStep => PowerSame
  BY DEF JobStep, PowerSame, powerVars
<1> QED BY <1>1, <1>3, <1>4, <1>5, <1>6, <1>7, <1>8 DEF Next

LEMMA PmInvStart ==
  ASSUME ExecInv, PmInv,
         update_work \/ runtime_suspend \/ runtime_resume \/ os_suspend \/ os_resume
  PROVE  PmInv'
<1>1. IsPm(pm)
  BY DEF ExecInv, PowerTypes
<1>2. CASE update_work
  BY <1>2 DEF update_work, Hold, PmFree, Idle, PmInv, RpmOff, PmuBehind, OperationOf, maskVars
<1>3. CASE runtime_suspend
  BY <1>3 DEF runtime_suspend, Hold, PmFree, Idle, PmInv, RpmOff, PmuBehind, OperationOf, maskVars
<1>4. CASE runtime_resume
  BY <1>4 DEF runtime_resume, Hold, PmFree, Idle, PmInv, RpmOff, PmuBehind, OperationOf
<1>5. CASE os_suspend
  BY <1>5 DEF os_suspend, Hold, PmFree, Idle, PmInv, RpmOff, PmuBehind, OperationOf, maskVars
<1>6. CASE os_resume
  BY <1>6 DEF os_resume, Hold, PmFree, Idle, PmInv, RpmOff, PmuBehind, OperationOf
<1> QED BY <1>2, <1>3, <1>4, <1>5, <1>6

\* An operation that returns leaves the GPU off if runtime PM takes it for suspended.
LEMMA PmInvReturn ==
  ASSUME ExecInv, PmInv, NEW suspended \in BOOLEAN, PmReturn(suspended),
         pd_mask_current' \subseteq pd_mask_current, pmu_mask_current' \subseteq pd_mask_current',
         powered' \subseteq powered,
         pm.op = "runtime_suspend" /\ suspended => pd_mask_current' = {} /\ powered' = {}
  PROVE  PmInv'
<1>1. /\ pm' = Idle
      /\ rpm' = IF pm.op = "runtime_resume" THEN "active"
                ELSE IF pm.op # "runtime_suspend" THEN rpm
                ELSE IF suspended THEN "suspended" ELSE "active"
      /\ runtime_active' = (runtime_active /\ ~(suspended /\ pm.op = "runtime_suspend"))
  BY DEF PmReturn
<1>2. pm'.op = "none" /\ pm'.step = "none"
  BY <1>1 DEF Idle
<1>3. RpmOff'
  BY <1>1 DEF PmInv, RpmOff
<1>4. PmuBehind' /\ OperationOf'
  BY <1>1, <1>2 DEF PmInv, PmuBehind, OperationOf
<1> QED BY <1>3, <1>4 DEF PmInv

LEMMA PmInvMasks ==
  ASSUME ExecInv, PmInv, os_resume_return \/ domain_power_up \/ domain_power_down \/ common_suspend
  PROVE  PmInv'
<1>1. IsPm(pm) /\ (\A g \in powered : DomainOf[g] \in pd_mask_current \/ (GoesOff /\ g \in pm.groups))
  BY DEF ExecInv, PowerTypes, MasksInStep
<1>2. pm.step \in {"up", "down"} => runtime_active /\ rpm # "suspended" /\ pm.op # "os_suspend"
  BY DEF ExecInv, RuntimeActive, PmInv, RpmOff, OperationOf
<1>3. CASE os_resume_return
  <2>1. /\ PmReturn(FALSE) /\ pm.step = "return"
        /\ UNCHANGED <<pd_mask_current, pmu_mask_current, powered>>
    BY <1>3 DEF os_resume_return, PmAt, maskVars
  <2>2. pmu_mask_current' \subseteq pd_mask_current'
    BY <2>1 DEF PmInv, PmuBehind
  <2> QED BY <2>1, <2>2, PmInvReturn
<1>4. CASE domain_power_up
  <2>1. /\ pm.step = "up" /\ UNCHANGED <<powered, runtime_active, rpm>>
        /\ \E groups : \E step \in {"down", "notify_up"} : pm' = [pm EXCEPT !.step = step, !.groups = groups]
    BY <1>4, <1>2 DEF domain_power_up, PmAt, PmGoto
  <2>2. pm'.op = pm.op /\ pm'.step \in {"down", "notify_up"}
    BY <1>1, <2>1 DEF IsPm
  <2> QED BY <1>2, <2>1, <2>2 DEF PmInv, RpmOff, PmuBehind, OperationOf
<1>5. CASE domain_power_down
  <2> DEFINE down == (pd_mask_current \ pd_mask_wanted) \ {Dummy}
  <2>1. CASE down = {}
    <3>1. /\ pmu_mask_current' = pmu_mask_current \cap pd_mask_current /\ PmReturn(FALSE)
          /\ UNCHANGED <<pd_mask_current, powered>>
      BY <1>5, <2>1 DEF domain_power_down
    <3> QED BY <3>1, PmInvReturn
  <2>2. CASE down # {}
    <3>1. /\ pm.step = "down" /\ UNCHANGED <<powered, runtime_active, rpm>>
          /\ pm' = [pm EXCEPT !.step = "notify_down", !.groups = GroupsIn(down)]
      BY <1>5, <2>2 DEF domain_power_down, PmAt, PmGoto
    <3>2. pm'.op = pm.op /\ pm'.step = "notify_down"
      BY <1>1, <3>1 DEF IsPm
    <3> QED BY <1>2, <3>1, <3>2 DEF PmInv, RpmOff, PmuBehind, OperationOf
  <2> QED BY <2>1, <2>2
<1>6. CASE common_suspend
  <2>1. pm.step = "suspend" /\ UNCHANGED <<pmu_mask_current, powered>>
    BY <1>6 DEF common_suspend, PmAt
  <2>2. pmu_mask_current \subseteq pd_mask_current /\ \A g \in powered : DomainOf[g] \in pd_mask_current
    BY <1>1, <2>1 DEF PmInv, PmuBehind, GoesOff
  <2>3. CASE pd_mask_wanted # {} /\ pm.op = "runtime_suspend" /\ PmGoto("up", {})
             /\ UNCHANGED <<rpm, runtime_active, pd_mask_current>>
    <3>1. pm'.op = pm.op /\ pm'.step = "up"
      BY <1>1, <2>3 DEF IsPm, PmGoto
    <3> QED BY <2>1, <2>3, <3>1 DEF PmInv, RpmOff, PmuBehind, OperationOf
  <2>4. CASE pm.op = "os_suspend" /\ PmReturn(FALSE) /\ UNCHANGED pd_mask_current
    BY <2>1, <2>2, <2>4, PmInvReturn
  <2>5. CASE pd_mask_current = {} /\ PmReturn(TRUE) /\ UNCHANGED pd_mask_current
    <3>1. powered' = {}
      BY <2>1, <2>2, <2>5
    <3> QED BY <2>1, <2>2, <2>5, <3>1, PmInvReturn
  <2>6. CASE pd_mask_current' = {} /\ PmGoto("notify_suspend", GroupsIn(pd_mask_current))
             /\ UNCHANGED <<rpm, runtime_active>>
    <3>1. pm'.op = pm.op /\ pm'.step = "notify_suspend"
      BY <1>1, <2>6 DEF IsPm, PmGoto
    <3> QED BY <2>1, <2>6, <3>1 DEF PmInv, RpmOff, PmuBehind, OperationOf
  <2> QED BY <1>6, <2>3, <2>4, <2>5, <2>6, Zenon DEF common_suspend, suspend_fails
<1> QED BY <1>3, <1>4, <1>5, <1>6

LEMMA PmInvGroups == ASSUME ExecInv, PmInv, GroupPowerUp \/ PowerUpReturn \/ GroupPowerDown PROVE PmInv'
<1>1. IsPm(pm) /\ (\A g \in powered : DomainOf[g] \in pd_mask_current \/ (GoesOff /\ g \in pm.groups))
  BY DEF ExecInv, PowerTypes, MasksInStep
<1>2. pm.step \in {"notify_up", "notified"} => runtime_active /\ rpm # "suspended" /\ pm.op # "os_suspend"
  BY DEF ExecInv, RuntimeActive, PmInv, RpmOff, OperationOf
<1>3. CASE GroupPowerUp \/ PowerUpReturn
  <2>1. /\ pm.step \in {"notify_up", "notified"}
        /\ UNCHANGED <<pd_mask_current, pmu_mask_current, runtime_active, rpm>>
        /\ \E step \in {"down", "notified"} : pm' = [pm EXCEPT !.step = step, !.groups = {}]
    BY <1>3 DEF GroupPowerUp, PowerUpReturn, PmAt, PmGoto, maskVars
  <2>2. pm'.op = pm.op /\ pm'.step \in {"down", "notified"}
    BY <1>1, <2>1 DEF IsPm
  <2> QED BY <1>2, <2>1, <2>2 DEF PmInv, RpmOff, PmuBehind, OperationOf
<1>4. CASE GroupPowerDown
  <2>1. /\ UNCHANGED pd_mask_current /\ GoesOff /\ powered' = powered \ pm.groups
        /\ pmu_mask_current' = IF PmAt("notify_down") THEN pmu_mask_current \cap pd_mask_current ELSE {}
        /\ PmReturn(PmAt("notify_suspend"))
    BY <1>4 DEF GroupPowerDown, group_power_down, GoesOff
  <2>2. PmAt("notify_suspend") => pd_mask_current = {} /\ powered' = {}
    BY <1>1, <2>1 DEF ExecInv, MasksInStep
  <2>3. PmAt("notify_suspend") \in BOOLEAN
    BY DEF PmAt
  <2> QED BY <2>1, <2>2, <2>3, PmInvReturn
<1> QED BY <1>3, <1>4

LEMMA PmInvNext == ASSUME ExecInv, PmInv, Next PROVE PmInv'
<1>1. CASE RuntimeSuspend
  BY <1>1 DEF RuntimeSuspend, PmInv, RpmOff, PmuBehind, OperationOf, maskVars
<1>2. CASE PmOsSuspend \/ PmOsResume
  BY <1>2, PmInvStart DEF PmOsSuspend, PmOsResume
<1>3. CASE PowerStep
  BY <1>3, PmInvStart, PmInvMasks DEF PowerStep
<1> QED BY <1>1, <1>2, <1>3, PowerOr, PmInvSame, PmInvGroups

LEMMA PmInvInit == Init => PmInv
BY DEF Init, PowerInit, Idle, PmInv, RpmOff, PmuBehind, OperationOf

LEMMA PmInvStutter == ASSUME PmInv, UNCHANGED vars PROVE PmInv'
<1>1. PowerSame
  BY DEF vars, powerVars, PowerSame
<1> QED BY <1>1, PmInvSame

------------------------------------------------------------------------------
(* What the holder of the executor lock has before it                        *)

\* The step "physical" of a schedule is followed by its step "virtual".
StageOrder ==
  \A i \in DOMAIN exec : exec[i] = "physical" => i = 1 /\ 2 \in DOMAIN exec /\ exec[2] = "virtual"

NotPhysical(s) == \A i \in DOMAIN s : s[i] # "physical"

LEMMA StageOrderTail ==
  ASSUME exec \in Seq(Operation), exec # <<>>, StageOrder
  PROVE  NotPhysical(Tail(exec))
<1>1. \A i \in DOMAIN Tail(exec) : i + 1 \in DOMAIN exec /\ Tail(exec)[i] = exec[i + 1] /\ i + 1 # 1
  OBVIOUS
<1> QED BY <1>1 DEF StageOrder, NotPhysical

LEMMA TailHead ==
  ASSUME NEW s \in Seq(Operation), Len(s) >= 2
  PROVE  Tail(s) # <<>> /\ Head(Tail(s)) = s[2]
<1> DEFINE t == Tail(s)
<1>1. t \in Seq(Operation) /\ Len(t) >= 1
  OBVIOUS
<1>2. t[1] = s[2]
  <2>1. t[1] = s[1 + 1]
    OBVIOUS
  <2> QED BY <2>1
<1> HIDE DEF t
<1>3. t # <<>> /\ Head(t) = t[1]
  BY <1>1
<1> QED BY <1>2, <1>3 DEF t

LEMMA NotPhysicalConcat ==
  ASSUME NEW s \in Seq(Operation), NEW t \in Seq(Operation), NotPhysical(s), NotPhysical(t)
  PROVE  NotPhysical(s \o t)
BY DEF NotPhysical

LEMMA ConcatItems ==
  ASSUME NEW s \in Seq(Operation), NEW t \in Seq(Operation)
  PROVE  /\ DOMAIN (s \o t) = 1..(Len(s) + Len(t)) /\ Len(s) \in Nat /\ Len(t) \in Nat
         /\ \A i \in 1..Len(s) : (s \o t)[i] = s[i]
         /\ \A i \in 1..(Len(s) + Len(t)) : i > Len(s) =>
              (s \o t)[i] = t[i - Len(s)] /\ i - Len(s) \in DOMAIN t
OBVIOUS

LEMMA StageOrderStages ==
  ASSUME NEW t \in Seq(Operation), NotPhysical(t), exec' = Stages \o t
  PROVE  StageOrder'
<1>0. Stages \in Seq(Operation)
  BY Programs
<1>1. /\ Len(Stages) = 4
      /\ Stages[1] = "physical" /\ Stages[2] = "virtual"
      /\ Stages[3] # "physical" /\ Stages[4] # "physical"
  BY DEF Stages
<1>2. /\ DOMAIN exec' = 1..(4 + Len(t)) /\ Len(t) \in Nat
      /\ \A i \in 1..4 : exec'[i] = Stages[i]
      /\ \A i \in 1..(4 + Len(t)) : i > 4 => exec'[i] = t[i - 4] /\ i - 4 \in DOMAIN t
  <2>1. /\ DOMAIN (Stages \o t) = 1..(Len(Stages) + Len(t)) /\ Len(t) \in Nat
        /\ \A i \in 1..Len(Stages) : (Stages \o t)[i] = Stages[i]
        /\ \A i \in 1..(Len(Stages) + Len(t)) : i > Len(Stages) =>
             (Stages \o t)[i] = t[i - Len(Stages)] /\ i - Len(Stages) \in DOMAIN t
    BY <1>0, ConcatItems
  <2>2. Len(Stages) = 4
    BY <1>1
  <2> QED BY <2>1, <2>2
<1>3. ASSUME NEW i \in DOMAIN exec', exec'[i] = "physical" PROVE i = 1
  <2>1. i \in 1..(4 + Len(t))
    BY <1>2
  <2>2. i <= 4
    BY <1>2, <1>3, <2>1 DEF NotPhysical
  <2>3. i = 1 \/ i = 2 \/ i = 3 \/ i = 4
    BY <2>1, <2>2
  <2>4. exec'[i] = Stages[i]
    BY <1>2, <2>3
  <2> QED BY <1>1, <1>3, <2>3, <2>4
<1>4. 2 \in DOMAIN exec' /\ exec'[2] = "virtual"
  BY <1>1, <1>2
<1> QED BY <1>3, <1>4 DEF StageOrder

\* What is left to do after a step.
LEMMA ExecAfter ==
  ASSUME ExecInv, Next
  PROVE  \/ exec' = exec
         \/ exec # <<>> /\ exec' \in {Tail(exec), Stages \o Tail(exec)}
         \/ \E rest \in {<<>>, exec} : /\ rest = exec => At("abort")
                                       /\ exec' \in {<<>> \o rest, <<"schedule">> \o rest}
         \/ exec' \in {<<"schedule">>, <<"abort">>, <<"schedule", "power_up">>}
         \/ /\ os = "pausing"
            /\ exec' = <<"suspend_idle", "suspend_gp", "suspend_virtual", "suspend_inactive">>
<1>1. CASE ScheduleStep
  BY <1>1 DEF ScheduleStep, Schedule, ActivateInactive, Steal, AssignPhysical, RejoinIdle,
              ActivateVirtual, AssignVirtual, AssignGp, At, Continue, Finished
<1>2. CASE \E g \in Group : CompleteGroup(g)
  <2>1. PICK g \in Group : complete_group(g, <<>>) /\ exec = <<>>
    BY <1>2 DEF CompleteGroup, Free
  <2>2. exec' \in {<<>> \o <<>>, <<"schedule">> \o <<>>}
    BY <2>1 DEF complete_group
  <2> QED BY <2>1, <2>2
<1>3. CASE \E s \in Session : AbortExecutor(s) \/ AbortGroup(s)
  <2>1. CASE \E s \in Session : AbortExecutor(s)
    BY <2>1 DEF AbortExecutor
  <2>2. CASE \E s \in Session : AbortGroup(s)
    <3>1. At("abort") /\ exec # <<>> /\ (exec' = Tail(exec) \/ \E g \in Group : complete_group(g, exec))
      BY <2>2 DEF AbortGroup, Finished, Continue, At
    <3>2. exec' = Tail(exec) \/ exec' \in {<<>> \o exec, <<"schedule">> \o exec}
      BY <3>1 DEF complete_group
    <3> QED BY <3>1, <3>2
  <2> QED BY <1>3, <2>1, <2>2
<1>4. CASE \E g \in Switchable : GroupEnable(g) \/ GroupDisable(g)
  BY <1>4 DEF GroupEnable, GroupDisable
<1>5. CASE ScheduleFromMask \/ Pause \/ ExecutorSuspend \/ ExecutorResume
  BY <1>5 DEF ScheduleFromMask, Pause, ExecutorSuspend, ExecutorResume
<1>6. CASE SuspendIdle \/ SuspendGroup("suspend_gp", Gp) \/ SuspendGroup("suspend_virtual", Virtual)
           \/ SuspendInactive
  BY <1>6 DEF SuspendIdle, SuspendGroup, SuspendInactive, At, Continue, Finished
<1>7. CASE GroupPowerUp \/ PowerUpReturn \/ GroupPowerDown
  BY <1>7 DEF GroupPowerUp, PowerUpReturn, GroupPowerDown, executorVars, At, Continue, Finished
<1>8. CASE PmOsSuspend \/ PmOsResume \/ RuntimeSuspend \/ PowerStep \/ JobStep
  BY <1>8 DEF PmOsSuspend, PmOsResume, RuntimeSuspend, PowerStep, JobStep, executorVars
<1> QED BY <1>1, <1>2, <1>3, <1>4, <1>5, <1>6, <1>7, <1>8 DEF Next

LEMMA StageOrderNext == ASSUME ExecInv, StageOrder, Next PROVE StageOrder'
<1>0. exec \in Seq(Operation)
  BY DEF ExecInv, LocalTypes
<1>1. ASSUME NotPhysical(exec') PROVE StageOrder'
  BY <1>1 DEF NotPhysical, StageOrder
<1>2. CASE exec' = exec
  BY <1>2 DEF StageOrder
<1>3. CASE exec # <<>> /\ exec' \in {Tail(exec), Stages \o Tail(exec)}
  <2>1. Tail(exec) \in Seq(Operation) /\ NotPhysical(Tail(exec))
    BY <1>0, <1>3, StageOrderTail
  <2> QED BY <1>1, <1>3, <2>1, StageOrderStages
<1>4. ASSUME NEW rest \in {<<>>, exec}, rest = exec => At("abort"),
             exec' \in {<<>> \o rest, <<"schedule">> \o rest}
      PROVE  StageOrder'
  <2>1. NotPhysical(rest) /\ rest \in Seq(Operation)
    <3>1. CASE rest = <<>>
      BY <3>1, Programs DEF NotPhysical
    <3>2. CASE rest = exec
      BY <1>0, <1>4, <3>2 DEF At, StageOrder, NotPhysical
    <3> QED BY <3>1, <3>2
  <2>2. NotPhysical(<<>>) /\ NotPhysical(<<"schedule">>)
    BY DEF NotPhysical
  <2>3. NotPhysical(exec')
    BY <1>4, <2>1, <2>2, Programs, NotPhysicalConcat
  <2> QED BY <1>1, <2>3
<1>5. CASE exec' \in {<<"schedule">>, <<"abort">>, <<"schedule", "power_up">>,
                     <<"suspend_idle", "suspend_gp", "suspend_virtual", "suspend_inactive">>}
  <2>1. NotPhysical(exec')
    BY <1>5 DEF NotPhysical
  <2> QED BY <1>1, <2>1
<1> QED BY <1>2, <1>3, <1>4, <1>5, ExecAfter

------------------------------------------------------------------------------
(* No power up is lost                                                       *)

\* The holder of the executor lock will trigger an update.
TriggerDue == local.trigger /\ (At("schedule") \/ At("physical") \/ At("virtual"))

\* Runtime PM resumes the GPU with an update, or the suspend that is next or under way
\* fails if a domain is wanted and makes up for the update.
SuspendNext ==
  \/ rpm = "suspended"
  \/ rpm = "suspending" /\ (pm.op = "runtime_suspend" => pm.step \in {"suspend", "notify_suspend"})

UpdateDue ==
  pd_mask_wanted \subseteq pd_mask_current \/ pm_work \/ PmAt("up") \/ TriggerDue \/ SuspendNext

\* A group that waits and is not part of the virtual group will be told.
Told ==
  \A g \in Group \ (Children \cup {Virtual}) : group_state[g] = "pending" => Awaited(g)

UpInv == ExecInv /\ PmInv /\ StageOrder /\ UpdateDue /\ Told

\* A step of the executor keeps an update due if it hands over its trigger, and wants
\* another domain that is off only with a trigger.
LEMMA DueKept ==
  ASSUME UpdateDue, PowerSame, pm_work => pm_work', TriggerDue => pm_work' \/ TriggerDue',
         \/ pd_mask_wanted' \subseteq pd_mask_wanted \cup pd_mask_current
         \/ pm_work' \/ TriggerDue'
  PROVE  UpdateDue'
<1>1. (PmAt("up"))' = PmAt("up") /\ SuspendNext' = SuspendNext /\ UNCHANGED pd_mask_current
  BY DEF PowerSame, PmAt, SuspendNext, maskVars
<1> QED BY <1>1 DEF UpdateDue

LEMMA ToldKept ==
  ASSUME Told, PowerSame,
         \A g \in Group \ (Children' \cup {Virtual}) : group_state'[g] = "pending" =>
           Awaited(g) \/ (g \notin Children /\ group_state[g] = "pending")
  PROVE  Told'
<1>1. \A g : Awaited(g)' = Awaited(g)
  BY DEF PowerSame, Awaited, PmAt, maskVars
<1> QED BY <1>1 DEF Told

\* A core that does not become active at once waits for its power.
LEMMA PendingAwaited ==
  ASSUME ExecInv, NEW g \in Core, ~AllOn({g})
  PROVE  Awaited(g)
<1>1. g \in Group /\ {g} \in SUBSET Group
  BY Groups DEF Core
<1>2. CASE g \notin powered
  BY <1>1, <1>2 DEF ExecInv, MasksInStep, Awaited
<1>3. CASE g \in powered
  <2>1. PICK d \in Used({g}) : d \notin pd_mask_current
    BY <1>3 DEF AllOn
  <2>2. Uses(g, d)
    BY <1>1, <2>1, RefsCount DEF Used
  <2>3. DomainOf[g] \notin pd_mask_current
    BY <2>1, <2>2 DEF ExecInv, MasksInStep, Uses
  <2> QED BY <2>3 DEF Awaited
<1> QED BY <1>2, <1>3

\* mali_group_activate: what it wants is on, or the caller is to trigger; and a core that
\* waits is told.
LEMMA ActivateWants ==
  ASSUME ExecInv, NEW g \in Group, NEW S \in SUBSET Group, g \in S, activate(g, S)
  PROVE  /\ ActiveAfter(g, S) \/ group_state[g] # "inactive" =>
              pd_mask_wanted' \subseteq pd_mask_wanted \cup pd_mask_current
         /\ \A i \in Group \ S : group_state'[i] = group_state[i]
         /\ S = {g} /\ g \in Core /\ group_state'[g] = "pending" =>
              Awaited(g) \/ group_state[g] = "pending"
<1>1. CASE group_state[g] # "inactive"
  BY <1>1 DEF activate, refVars
<1>2. CASE group_state[g] = "inactive"
  <2>1. /\ group_state' = [i \in Group |-> IF i \notin S THEN group_state[i]
                                           ELSE IF AllOn(S) THEN "active" ELSE "pending"]
        /\ pd_mask_wanted' = pd_mask_wanted \cup Used(S)
    BY <1>2 DEF activate
  <2>2. ActiveAfter(g, S) => Used(S) \subseteq pd_mask_current
    BY <1>2 DEF ActiveAfter, AllOn
  <2>3. group_state'[g] = "pending" => ~AllOn(S)
    BY <2>1
  <2>4. S = {g} /\ g \in Core /\ group_state'[g] = "pending" => Awaited(g)
    BY <2>3, PendingAwaited
  <2> QED BY <1>2, <2>1, <2>2, <2>4
<1> QED BY <1>1, <1>2

LEMMA DeactivateWants ==
  ASSUME NEW S, deactivate(S)
  PROVE  /\ pd_mask_wanted' \subseteq pd_mask_wanted
         /\ \A i \in Group : group_state'[i] = IF i \in S THEN "inactive" ELSE group_state[i]
BY DEF deactivate

\* Steps of power management that tell nobody.
LEMMA ToldQuiet ==
  ASSUME Told, ExecutorSame, pd_mask_current' \subseteq pd_mask_current, ~PmAt("notify_up")
  PROVE  Told'
<1>1. Children' = Children
  BY DEF ExecutorSame, Children, OnList
<1>2. \A g : Awaited(g) => Awaited(g)'
  BY DEF Awaited, PmAt
<1> QED BY <1>1, <1>2 DEF Told, ExecutorSame, refVars

LEMMA TriggerSame == ASSUME ExecutorSame PROVE TriggerDue' = TriggerDue /\ UNCHANGED pd_mask_wanted
BY DEF ExecutorSame, TriggerDue, At, refVars

LEMMA UpStart ==
  ASSUME UpInv, ExecutorSame,
         update_work \/ runtime_suspend \/ runtime_resume \/ os_suspend \/ os_resume
  PROVE  UpdateDue' /\ Told'
<1>2. UNCHANGED pd_mask_current /\ ~PmAt("up") /\ ~PmAt("notify_up")
  BY DEF update_work, runtime_suspend, runtime_resume, os_suspend, os_resume, Hold, PmFree, Idle,
         maskVars, PmAt
<1>3. Told'
  BY <1>2, ToldQuiet DEF UpInv
<1>4. UpdateDue /\ (~runtime_active => rpm = "suspended")
  BY DEF UpInv, ExecInv, RuntimeActive
<1>5. CASE update_work
  BY <1>3, <1>4, <1>5 DEF update_work, Hold, UpdateDue, PmAt, SuspendNext
<1>6. CASE runtime_suspend
  BY <1>3, <1>6 DEF runtime_suspend, Hold, UpdateDue, SuspendNext
<1>7. CASE runtime_resume
  BY <1>3, <1>7 DEF runtime_resume, Hold, UpdateDue, PmAt
<1>8. CASE os_suspend
  BY <1>3, <1>2, <1>4, <1>8, TriggerSame DEF os_suspend, Hold, UpdateDue, SuspendNext, PmAt
<1>9. CASE os_resume
  BY <1>3, <1>2, <1>4, <1>9, TriggerSame DEF os_resume, Hold, UpdateDue, SuspendNext, PmAt
<1> QED BY <1>3, <1>5, <1>6, <1>7, <1>8, <1>9

\* An operation that returns was not the only one to owe an update, unless it leaves the
\* GPU suspended.
LEMMA UpReturn ==
  ASSUME UpInv, TriggerDue' = TriggerDue, UNCHANGED <<pd_mask_wanted, pm_work>>,
         NEW suspended \in BOOLEAN, PmReturn(suspended), ~PmAt("up"),
         pd_mask_wanted \subseteq pd_mask_current => pd_mask_wanted \subseteq pd_mask_current',
         pm.step \in {"suspend", "notify_suspend"} /\ pm.op = "runtime_suspend" => suspended
  PROVE  UpdateDue'
<1>1. /\ pm' = Idle
      /\ rpm' = IF pm.op = "runtime_resume" THEN "active"
                ELSE IF pm.op # "runtime_suspend" THEN rpm
                ELSE IF suspended THEN "suspended" ELSE "active"
  BY DEF PmReturn
<1>2. /\ pm.op = "runtime_resume" => rpm = "resuming"
      /\ pm.op = "runtime_suspend" => rpm = "suspending"
  BY DEF UpInv, PmInv, OperationOf
<1>3. SuspendNext => SuspendNext'
  BY <1>1, <1>2 DEF SuspendNext, Idle
<1> QED BY <1>3 DEF UpInv, UpdateDue

LEMMA UpMasks ==
  ASSUME UpInv, ExecutorSame,
         os_resume_return \/ domain_power_up \/ domain_power_down \/ common_suspend
  PROVE  UpdateDue' /\ Told'
<1>1. IsPm(pm) /\ UpdateDue /\ Told
  BY DEF UpInv, ExecInv, PowerTypes
<1>2. CASE os_resume_return
  <2>1. PmReturn(FALSE) /\ pm.step = "return" /\ UNCHANGED <<pd_mask_current, pm_work>>
    BY <1>2 DEF os_resume_return, PmAt, maskVars
  <2>2. Told'
    BY <1>1, <2>1, ToldQuiet DEF PmAt
  <2> QED BY <2>1, <2>2, TriggerSame, UpReturn DEF PmAt
<1>3. CASE domain_power_up
  <2> DEFINE up == pd_mask_wanted \ pd_mask_current
  <2>1. pm.step = "up" /\ UNCHANGED pd_mask_wanted
    BY <1>3, TriggerSame DEF domain_power_up, PmAt
  <2>2. CASE up = {}
    <3>1. UNCHANGED pd_mask_current
      BY <1>3, <2>2 DEF domain_power_up, maskVars
    <3>2. Told'
      BY <1>1, <2>1, <3>1, ToldQuiet DEF PmAt
    <3> QED BY <2>1, <2>2, <3>1, <3>2 DEF UpdateDue
  <2>3. CASE up # {}
    <3>1. /\ pd_mask_current' = pd_mask_current \cup up \cup {Dummy}
          /\ pm' = [pm EXCEPT !.step = "notify_up", !.groups = GroupsIn(up \cup {Dummy})]
      BY <1>3, <2>3 DEF domain_power_up, PmGoto
    <3>2. pm'.step = "notify_up" /\ pm'.groups = {g \in Group : DomainOf[g] \in up \cup {Dummy}}
      BY <1>1, <3>1 DEF IsPm, GroupsIn
    <3>3. UpdateDue'
      BY <2>1, <3>1 DEF UpdateDue
    <3>4. \A g \in Group : Awaited(g) => Awaited(g)'
      BY <2>1, <3>1, <3>2 DEF Awaited, PmAt
    <3>5. Children' = Children
      BY DEF ExecutorSame, Children, OnList
    <3> QED BY <1>1, <3>3, <3>4, <3>5 DEF Told, ExecutorSame, refVars
  <2> QED BY <2>2, <2>3
<1>4. CASE domain_power_down
  <2> DEFINE down == (pd_mask_current \ pd_mask_wanted) \ {Dummy}
  <2>1. pm.step = "down" /\ UNCHANGED pm_work
    BY <1>4 DEF domain_power_down, PmAt
  <2>2. CASE down = {}
    <3>1. PmReturn(FALSE) /\ UNCHANGED pd_mask_current
      BY <1>4, <2>2 DEF domain_power_down
    <3>2. Told'
      BY <1>1, <2>1, <3>1, ToldQuiet DEF PmAt
    <3> QED BY <2>1, <3>1, <3>2, TriggerSame, UpReturn DEF PmAt
  <2>3. CASE down # {}
    <3>1. /\ pd_mask_current' = pd_mask_current \ down /\ UNCHANGED rpm
          /\ pm' = [pm EXCEPT !.step = "notify_down", !.groups = GroupsIn(down)]
      BY <1>4, <2>3 DEF domain_power_down, PmGoto
    <3>2. pm'.step = "notify_down" /\ pm'.op = pm.op
      BY <1>1, <3>1 DEF IsPm
    <3>3. Told'
      BY <1>1, <2>1, <3>1, ToldQuiet DEF PmAt
    <3>4. SuspendNext => SuspendNext'
      BY <2>1, <3>1, <3>2 DEF SuspendNext
    <3>5. UpdateDue'
      BY <1>1, <2>1, <3>1, <3>4, TriggerSame DEF UpdateDue, PmAt
    <3> QED BY <3>3, <3>5
  <2> QED BY <2>2, <2>3
<1>5. CASE common_suspend
  <2>1. pm.step = "suspend" /\ UNCHANGED pm_work
    BY <1>5 DEF common_suspend, PmAt
  <2>2. pd_mask_current' \subseteq pd_mask_current
    BY <1>5 DEF common_suspend
  <2>3. Told'
    BY <1>1, <2>1, <2>2, ToldQuiet DEF PmAt
  <2>4. CASE pd_mask_wanted = {}
    BY <2>3, <2>4, TriggerSame DEF UpdateDue
  <2>5. CASE pd_mask_wanted # {} /\ pm.op = "runtime_suspend" /\ PmGoto("up", {})
    <3>1. pm'.step = "up"
      BY <1>1, <2>5 DEF IsPm, PmGoto
    <3> QED BY <2>3, <3>1 DEF UpdateDue, PmAt
  <2>6. CASE pd_mask_wanted # {} /\ pm.op = "os_suspend" /\ PmReturn(FALSE) /\ UNCHANGED pd_mask_current
    BY <2>1, <2>3, <2>6, TriggerSame, UpReturn DEF PmAt
  <2> QED BY <1>5, <2>4, <2>5, <2>6 DEF common_suspend, suspend_fails
<1> QED BY <1>2, <1>3, <1>4, <1>5

LEMMA UpGroupDown == ASSUME UpInv, GroupPowerDown PROVE UpdateDue' /\ Told'
<1>1. /\ ExecutorSame /\ GoesOff /\ UNCHANGED <<pd_mask_current, pm_work>>
      /\ PmReturn(PmAt("notify_suspend"))
  BY DEF GroupPowerDown, group_power_down, executorVars, ExecutorSame, GoesOff
<1>2. pm.step # "up" /\ pm.step # "notify_up" /\ pm.step # "suspend"
      /\ PmAt("notify_suspend") \in BOOLEAN
  BY <1>1 DEF GoesOff, PmAt
<1>3. Told'
  BY <1>1, <1>2, ToldQuiet DEF UpInv, PmAt
<1>4. UpdateDue'
  BY <1>1, <1>2, TriggerSame, UpReturn DEF PmAt
<1> QED BY <1>3, <1>4

\* The groups that wait and are told become active.
LEMMA UpGroupUp == ASSUME UpInv, GroupPowerUp PROVE UpdateDue' /\ Told'
<1>1. /\ pm.step = "notify_up" /\ exec = <<>> /\ UNCHANGED <<pd_mask_wanted, pd_mask_current, rpm, pm_work>>
      /\ \E step \in {"down", "notified"} : pm' = [pm EXCEPT !.step = step, !.groups = {}]
  BY DEF GroupPowerUp, PmAt, PmGoto, Free, maskVars
<1>2. pm'.op = pm.op /\ pm'.step \in {"down", "notified"}
  BY <1>1 DEF UpInv, ExecInv, PowerTypes, IsPm
<1>3. UpdateDue'
  <2>1. ~TriggerDue /\ ~PmAt("up") /\ (SuspendNext => SuspendNext')
    BY <1>1, <1>2 DEF TriggerDue, At, PmAt, SuspendNext
  <2> QED BY <1>1, <2>1 DEF UpInv, UpdateDue
<1> DEFINE awaited == {g \in pm.groups : group_state[g] = "pending" /\ StateOf(g) = "inactive"}
<1>4. PICK active \in SUBSET Group :
        /\ awaited \ (Children \cup {Virtual}) \subseteq active
        /\ group_state' = [g \in Group |-> IF g \in active THEN "active" ELSE group_state[g]]
        /\ exec_state' = [g \in Group |-> IF g \in active \ Children THEN "idle" ELSE exec_state[g]]
  <2> DEFINE physical == awaited \ (Children \cup {Virtual})
             try      == HasVirtual /\ awaited \cap Children # {} /\ group_state[Virtual] = "pending"
             whole    == Children \subseteq powered'
  <2>1. PICK part \in SUBSET (Children \cap powered') :
          LET active == physical \cup part \cup (IF try /\ whole THEN {Virtual} ELSE {})
          IN  /\ group_state' = [g \in Group |-> IF g \in active THEN "active" ELSE group_state[g]]
              /\ exec_state' = [g \in Group |-> IF g \in active \ Children THEN "idle"
                                                ELSE exec_state[g]]
    BY DEF GroupPowerUp
  <2> DEFINE active == physical \cup part \cup (IF try /\ whole THEN {Virtual} ELSE {})
  <2>2. active \in SUBSET Group
    BY Groups DEF UpInv, ExecInv, PowerTypes, IsPm
  <2>3. awaited \ (Children \cup {Virtual}) \subseteq active
    OBVIOUS
  <2> HIDE DEF active
  <2>4. /\ group_state' = [g \in Group |-> IF g \in active THEN "active" ELSE group_state[g]]
        /\ exec_state' = [g \in Group |-> IF g \in active \ Children THEN "idle" ELSE exec_state[g]]
    BY <2>1 DEF active
  <2> QED BY <2>2, <2>3, <2>4
<1>5. Children' = Children
  BY <1>4, Groups DEF Children, OnList
<1>6. ASSUME NEW g \in Group \ (Children' \cup {Virtual}), group_state'[g] = "pending"
      PROVE  Awaited(g)'
  <2>1. group_state[g] = "pending" /\ g \notin active /\ g \notin Children
    BY <1>4, <1>5, <1>6
  <2>2. Awaited(g)
    BY <1>5, <1>6, <2>1 DEF UpInv, Told
  <2>3. exec_state[g] = "inactive"
    BY <1>6, <2>1, Groups DEF UpInv, ExecInv, ListTypes, ListsMatch, Core, Children, OnList
  <2>4. g \notin pm.groups
    BY <1>4, <1>6, <2>1, <2>3 DEF StateOf
  <2> QED BY <1>1, <2>2, <2>4 DEF Awaited
<1> QED BY <1>3, <1>6 DEF Told

LEMMA UpReturnOf == ASSUME UpInv, PowerUpReturn PROVE UpdateDue' /\ Told'
<1>1. /\ At("power_up") /\ pm.step = "notified" /\ UNCHANGED <<refVars, pd_mask_current, rpm, pm_work, exec_state>>
      /\ pm' = [pm EXCEPT !.step = "down", !.groups = {}]
  BY DEF PowerUpReturn, PmGoto, PmAt, maskVars
<1>2. pm'.op = pm.op /\ pm'.step = "down"
  BY <1>1 DEF UpInv, ExecInv, PowerTypes, IsPm
<1>3. UpdateDue'
  <2>1. ~TriggerDue /\ ~PmAt("up") /\ (SuspendNext => SuspendNext')
    BY <1>1, <1>2 DEF TriggerDue, At, PmAt, SuspendNext
  <2> QED BY <1>1, <2>1 DEF UpInv, UpdateDue, refVars
<1>4. Told'
  <2>1. Children' = Children /\ UNCHANGED group_state
    BY <1>1 DEF Children, OnList, refVars
  <2>2. \A g : Awaited(g) => Awaited(g)'
    BY <1>1 DEF Awaited, PmAt
  <2> QED BY <2>1, <2>2 DEF UpInv, Told
<1> QED BY <1>3, <1>4

------------------------------------------------------------------------------
(* The steps of a schedule hand over the trigger                             *)

LEMMA UpSchedule == ASSUME UpInv, Schedule PROVE UpdateDue' /\ Told'
<1> DEFINE wake == exec_state[Gp] = "inactive" /\ depth.gp > 0
           on   == wake /\ ActiveAfter(Gp, {Gp})
<1>1. PowerSame /\ (pm_work' = (pm_work \/ local.trigger))
  BY DEF Schedule, PowerSame
<1>2. Gp \in Group /\ {Gp} \in SUBSET Group /\ Gp \in Core
  BY Groups DEF Core
<1>3. (pm_work => pm_work') /\ (TriggerDue => pm_work')
  BY <1>1 DEF TriggerDue
<1>4. CASE Paused \/ ~wake
  <2>1. UNCHANGED <<refVars, exec_state>>
    BY <1>4 DEF Schedule
  <2>2. Children' = Children /\ UNCHANGED <<group_state, pd_mask_wanted>>
    BY <2>1 DEF Children, OnList, refVars
  <2> QED BY <1>1, <1>3, <2>2, DueKept, ToldKept DEF UpInv
<1>5. CASE ~Paused /\ wake
  <2>1. /\ activate(Gp, {Gp}) /\ exec' = Stages \o Tail(exec)
        /\ exec_state' = IF on THEN [exec_state EXCEPT ![Gp] = "idle"] ELSE exec_state
    BY <1>5 DEF Schedule
  <2>a. PICK needed, process : local' = [needed |-> needed, process |-> process,
                                          trigger |-> wake /\ ~on, todo |-> OnList("inactive")]
    BY <1>5 DEF Schedule
  <2>b. ASSUME ~on PROVE local'.trigger
    <3> HIDE DEF on, wake
    <3> QED BY <1>5, <2>a, <2>b, Zenon
  <2>2. At("physical")'
    <3>1. Tail(exec) \in Seq(Operation) /\ Stages \in Seq(Operation) /\ Stages # <<>> /\ Head(Stages) = "physical"
      <4>1. exec # <<>> /\ exec \in Seq(Operation)
        BY DEF Schedule, At, UpInv, ExecInv, LocalTypes
      <4>2. Stages # <<>> /\ Head(Stages) = "physical"
        BY DEF Stages
      <4> QED BY <4>1, <4>2, Programs
    <3>2. exec' # <<>> /\ Head(exec') = "physical"
      BY <2>1, <3>1
    <3> QED BY <3>2 DEF At
  <2>3. Children' = Children
    BY <2>1, Groups DEF Children, OnList, UpInv, ExecInv, ListTypes
  <2>4. /\ on => pd_mask_wanted' \subseteq pd_mask_wanted \cup pd_mask_current
        /\ \A i \in Group \ {Gp} : group_state'[i] = group_state[i]
        /\ group_state'[Gp] = "pending" => Awaited(Gp) \/ group_state[Gp] = "pending"
    BY <1>2, <2>1, ActivateWants DEF UpInv
  <2>5. ~on => TriggerDue'
    BY <2>b, <2>2 DEF TriggerDue
  <2>6. UpdateDue'
    BY <1>1, <1>3, <2>4, <2>5, DueKept DEF UpInv
  <2>7. Told'
    BY <1>1, <2>3, <2>4, ToldKept DEF UpInv
  <2> QED BY <2>6, <2>7
<1> QED BY <1>4, <1>5

LEMMA UpActivateInactive == ASSUME UpInv, ActivateInactive PROVE UpdateDue' /\ Told'
<1>1. PowerSame /\ UNCHANGED <<pm_work, exec>> /\ At("physical")
  BY DEF ActivateInactive, PowerSame
<1>2. PICK c \in local.todo :
        /\ activate(c, {c})
        /\ local' = [needed |-> local.needed - 1,
                     process |-> local.process + IF ActiveAfter(c, {c}) THEN 1 ELSE 0,
                     trigger |-> local.trigger \/ ~ActiveAfter(c, {c}),
                     todo |-> local.todo \ {c}]
        /\ exec_state' = IF ActiveAfter(c, {c}) THEN [exec_state EXCEPT ![c] = "idle"]
                         ELSE exec_state
  BY DEF ActivateInactive
<1>3. c \in Core /\ c \in Group /\ {c} \in SUBSET Group /\ c \notin Children
  BY Groups DEF UpInv, ExecInv, LocalTypes, OnList, Children, Core
<1>4. (local.trigger => local'.trigger) /\ (~ActiveAfter(c, {c}) => local'.trigger)
  BY <1>2
<1>5. (TriggerDue => TriggerDue') /\ (~ActiveAfter(c, {c}) => TriggerDue')
  BY <1>1, <1>4 DEF TriggerDue, At
<1>6. /\ ActiveAfter(c, {c}) => pd_mask_wanted' \subseteq pd_mask_wanted \cup pd_mask_current
      /\ \A i \in Group \ {c} : group_state'[i] = group_state[i]
      /\ group_state'[c] = "pending" => Awaited(c) \/ group_state[c] = "pending"
  BY <1>2, <1>3, ActivateWants DEF UpInv
<1>7. Children' = Children
  BY <1>2, <1>3 DEF Children, OnList, UpInv, ExecInv, ListTypes
<1>8. UpdateDue'
  BY <1>1, <1>5, <1>6, DueKept DEF UpInv
<1>9. Told'
  BY <1>1, <1>3, <1>6, <1>7, ToldKept DEF UpInv
<1> QED BY <1>8, <1>9

\* A child that is stolen was inactive, or active as the whole virtual group.
LEMMA UpSteal == ASSUME UpInv, Steal PROVE UpdateDue' /\ Told'
<1>1. PowerSame /\ UNCHANGED <<pm_work, exec>> /\ At("physical") /\ virtual_group_is_usable
  BY DEF Steal, PowerSame, may_steal
<1>2. PICK c \in Children :
        /\ activate(c, {c})
        /\ local' = [local EXCEPT !.needed = @ - 1,
                                  !.process = @ + IF ActiveAfter(c, {c}) THEN 1 ELSE 0,
                                  !.trigger = @ \/ ~ActiveAfter(c, {c})]
        /\ exec_state' = [exec_state EXCEPT
             ![c] = IF ActiveAfter(c, {c}) THEN "idle" ELSE "inactive",
             ![Virtual] = EmptyWithout({c})]
  BY DEF Steal
<1>3. c \in Core /\ c \in Group /\ {c} \in SUBSET Group /\ c # Virtual
  BY Groups DEF Core
<1>4. group_state[c] # "pending"
  BY <1>1, <1>3, Groups DEF UpInv, ExecInv, PowerTypes, VirtualInStep, VirtualWhole,
     virtual_group_is_usable, VirtualIs
<1>5. (local.trigger => local'.trigger) /\ (~ActiveAfter(c, {c}) => local'.trigger)
  BY <1>2 DEF UpInv, ExecInv, LocalTypes, IsLocal
<1>6. (TriggerDue => TriggerDue') /\ (~ActiveAfter(c, {c}) => TriggerDue')
  BY <1>1, <1>5 DEF TriggerDue, At
<1>7. /\ ActiveAfter(c, {c}) => pd_mask_wanted' \subseteq pd_mask_wanted \cup pd_mask_current
      /\ \A i \in Group \ {c} : group_state'[i] = group_state[i]
      /\ group_state'[c] = "pending" => Awaited(c) \/ group_state[c] = "pending"
  BY <1>2, <1>3, ActivateWants DEF UpInv
<1>8. Children \ {c} \subseteq Children'
  BY <1>2, <1>3, Groups DEF Children, OnList, UpInv, ExecInv, ListTypes
<1>9. UpdateDue'
  BY <1>1, <1>6, <1>7, DueKept DEF UpInv
<1>10. Told'
  BY <1>1, <1>3, <1>4, <1>7, <1>8, ToldKept DEF UpInv
<1> QED BY <1>9, <1>10

\* A step that only gives references back, and lets no waiting child out of the virtual
\* group.
LEMMA OnlyGives ==
  ASSUME UpInv, PowerSame, pm_work => pm_work', TriggerDue => pm_work' \/ TriggerDue',
         pd_mask_wanted' \subseteq pd_mask_wanted,
         \A i \in Group : group_state'[i] \in {"inactive", group_state[i]},
         \A c \in Children \ Children' : group_state'[c] # "pending"
  PROVE  UpdateDue' /\ Told'
<1>1. UpdateDue'
  BY DueKept DEF UpInv
<1>2. \A g \in Group \ (Children' \cup {Virtual}) :
        group_state'[g] = "pending" => g \notin Children /\ group_state[g] = "pending"
  OBVIOUS
<1> QED BY <1>1, <1>2, ToldKept DEF UpInv

LEMMA UpAssignPhysical == ASSUME UpInv, AssignPhysical PROVE UpdateDue' /\ Told'
<1>1. /\ PowerSame /\ UNCHANGED <<refVars, pm_work, exec>> /\ local' = [local EXCEPT !.process = @ - 1]
      /\ \E c \in OnList("idle") : exec_state' = [exec_state EXCEPT ![c] = "working"]
  BY DEF AssignPhysical, PowerSame, powerVars
<1>2. local'.trigger = local.trigger
  BY <1>1 DEF UpInv, ExecInv, LocalTypes, IsLocal
<1>3. TriggerDue => TriggerDue'
  BY <1>1, <1>2 DEF TriggerDue, At
<1>4. Children' = Children
  BY <1>1 DEF Children, OnList, UpInv, ExecInv, ListTypes
<1> QED BY <1>1, <1>3, <1>4, OnlyGives DEF refVars

\* deactivate_list_idle keeps a trigger, and children stay children.
LEMMA IdleListGives ==
  ASSUME UpInv, NEW b \in BOOLEAN, deactivate_list_idle(b)
  PROVE  /\ pd_mask_wanted' \subseteq pd_mask_wanted
         /\ \A i \in Group : group_state'[i] \in {"inactive", group_state[i]}
         /\ Children \subseteq Children'
         /\ local.trigger => local'.trigger
<1> DEFINE C == IF HasVirtual \/ b THEN OnList("idle") ELSE {}
<1>1. /\ deactivate(gives_back(C))
      /\ exec_state' = IF HasVirtual THEN Rejoined(C)
                       ELSE [g \in Group |-> IF g \in C THEN "inactive" ELSE exec_state[g]]
      /\ local' = [local EXCEPT !.trigger = @ \/ Unwanted(gives_back(C)) # {}]
  BY DEF deactivate_list_idle
<1>2. local.trigger => local'.trigger
  BY <1>1 DEF UpInv, ExecInv, LocalTypes, IsLocal
<1>3. Children \subseteq Children'
  BY <1>1, Groups DEF Rejoined, Children, OnList
<1> QED BY <1>1, <1>2, <1>3, DeactivateWants

LEMMA UpRejoinIdle == ASSUME UpInv, RejoinIdle PROVE UpdateDue' /\ Told'
<1>1. /\ PowerSame /\ UNCHANGED pm_work /\ At("physical") /\ exec' = Tail(exec)
      /\ deactivate_list_idle(~HasTracker("physical"))
  BY DEF RejoinIdle, PowerSame, Continue
<1>2. (~HasTracker("physical")) \in BOOLEAN
  BY DEF HasTracker
<1>3. At("virtual")'
  <2>1. exec # <<>> /\ exec \in Seq(Operation) /\ exec[1] = "physical" /\ 1 \in DOMAIN exec
    BY <1>1 DEF At, UpInv, ExecInv, LocalTypes
  <2>2. 2 \in DOMAIN exec /\ exec[2] = "virtual"
    BY <2>1 DEF UpInv, StageOrder
  <2>3. Len(exec) >= 2
    BY <2>1, <2>2
  <2>4. Tail(exec) # <<>> /\ Head(Tail(exec)) = exec[2]
    BY <2>1, <2>3, TailHead
  <2> QED BY <1>1, <2>2, <2>4 DEF At
<1>4. /\ pd_mask_wanted' \subseteq pd_mask_wanted
      /\ \A i \in Group : group_state'[i] \in {"inactive", group_state[i]}
      /\ Children \subseteq Children'
      /\ local.trigger => local'.trigger
  BY <1>1, <1>2, IdleListGives
<1>5. TriggerDue => TriggerDue'
  BY <1>3, <1>4 DEF TriggerDue
<1> QED BY <1>1, <1>4, <1>5, OnlyGives

LEMMA UpActivateVirtual == ASSUME UpInv, ActivateVirtual PROVE UpdateDue' /\ Told'
<1> DEFINE wake == VirtualIs("inactive") /\ next_is_virtual
           on   == wake /\ ActiveAfter(Virtual, WithChildren(Virtual))
<1>1. /\ PowerSame
      /\ IF wake THEN activate(Virtual, WithChildren(Virtual)) ELSE UNCHANGED refVars
      /\ exec_state' = IF on THEN [exec_state EXCEPT ![Virtual] = "idle"] ELSE exec_state
      /\ (pm_work' = (pm_work \/ local.trigger \/ (wake /\ ~on)))
  BY DEF ActivateVirtual, PowerSame
<1>2. (pm_work => pm_work') /\ (TriggerDue => pm_work')
  BY <1>1 DEF TriggerDue
<1>3. Children' = Children
  BY <1>1, Groups DEF Children, OnList, UpInv, ExecInv, ListTypes
<1>4. CASE ~wake
  <2>1. UNCHANGED <<group_state, pd_mask_wanted>>
    BY <1>1, <1>4 DEF refVars
  <2> QED BY <1>1, <1>2, <1>3, <2>1, DueKept, ToldKept DEF UpInv
<1>5. CASE wake
  <2>1. Virtual \in Group /\ WithChildren(Virtual) \in SUBSET Group
        /\ WithChildren(Virtual) = {Virtual} \cup Children /\ Virtual \in WithChildren(Virtual)
    BY <1>5, Groups DEF VirtualIs, WithChildren
  <2>2. activate(Virtual, WithChildren(Virtual))
    BY <1>1, <1>5
  <2>3. /\ ActiveAfter(Virtual, WithChildren(Virtual)) =>
             pd_mask_wanted' \subseteq pd_mask_wanted \cup pd_mask_current
        /\ \A i \in Group \ WithChildren(Virtual) : group_state'[i] = group_state[i]
    BY <2>1, <2>2, ActivateWants DEF UpInv
  <2>4. ~ActiveAfter(Virtual, WithChildren(Virtual)) => pm_work'
    BY <1>1, <1>5
  <2>5. UpdateDue'
    BY <1>1, <1>2, <2>3, <2>4, DueKept DEF UpInv
  <2>6. Told'
    BY <1>1, <1>3, <2>1, <2>3, ToldKept DEF UpInv
  <2> QED BY <2>5, <2>6
<1> QED BY <1>4, <1>5

LEMMA UpAssignLast == ASSUME UpInv, AssignVirtual \/ AssignGp PROVE UpdateDue' /\ Told'
<1>1. PowerSame /\ ~TriggerDue
  BY DEF AssignVirtual, AssignGp, PowerSame, TriggerDue, At
<1>2. pm_work => pm_work'
  BY DEF AssignVirtual, AssignGp
<1>3. Children' = Children
  BY Groups DEF AssignVirtual, AssignGp, Children, OnList, UpInv, ExecInv, ListTypes, VirtualIs
<1>4. (\E S : deactivate(S)) \/ UNCHANGED refVars
  BY DEF AssignVirtual, AssignGp
<1>5. /\ pd_mask_wanted' \subseteq pd_mask_wanted
      /\ \A i \in Group : group_state'[i] \in {"inactive", group_state[i]}
  BY <1>4, DeactivateWants DEF refVars
<1> QED BY <1>1, <1>2, <1>3, <1>5, OnlyGives

------------------------------------------------------------------------------
(* The other steps of the executor                                           *)

LEMMA UpGroupDisable == ASSUME UpInv, NEW g \in Switchable, GroupDisable(g) PROVE UpdateDue' /\ Told'
<1>1. PowerSame /\ UNCHANGED pm_work /\ ~TriggerDue
  BY DEF GroupDisable, PowerSame, TriggerDue, At, Free
<1>2. CASE UNCHANGED <<refVars, exec_state>>
  BY <1>1, <1>2, OnlyGives DEF refVars, Children, OnList
<1>3. CASE disable_internal({g})
  <2> DEFINE off == {i \in {g} : group_state[i] # "inactive"}
  <2>1. deactivate(off) /\ exec_state' = Disabled({g})
    BY <1>3 DEF disable_internal
  <2>2. /\ pd_mask_wanted' \subseteq pd_mask_wanted
        /\ \A i \in Group : group_state'[i] = IF i \in off THEN "inactive" ELSE group_state[i]
    BY <2>1, DeactivateWants
  <2>3. Children \ Children' \subseteq {g} /\ Children \subseteq Group
    BY <2>1, Groups DEF Disabled, Children, OnList
  <2> QED BY <1>1, <2>2, <2>3, OnlyGives
<1> QED BY <1>2, <1>3 DEF GroupDisable

\* A core that is enabled takes its references, unless it gives them back at once.
LEMMA UpGroupEnable == ASSUME UpInv, NEW g \in Switchable, GroupEnable(g) PROVE UpdateDue' /\ Told'
<1> DEFINE on     == ActiveAfter(g, {g})
           rejoin == on /\ g \in PpCore /\ HasVirtual
           back   == rejoin /\ group_state[Virtual] = "inactive"
<1>1. PowerSame /\ UNCHANGED pm_work /\ ~TriggerDue /\ At("schedule")'
  BY DEF GroupEnable, PowerSame, TriggerDue, At, Free
<1>2. g \in Core /\ g \in Group /\ {g} \in SUBSET Group
  BY Groups, ExecutorAssumption DEF Core
<1>3. CASE UNCHANGED <<refVars, exec_state>>
  BY <1>1, <1>3, OnlyGives DEF refVars, Children, OnList
<1>4. ASSUME exec_state' = IF rejoin THEN Rejoined({g})
                           ELSE [exec_state EXCEPT ![g] = IF on THEN "idle" ELSE "inactive"],
             StateOf(g) = "disabled"
      PROVE  Children \subseteq Children'
  <2>1. g \notin Children
    BY <1>4, Groups DEF StateOf, UpInv, ExecInv, ListTypes
  <2> QED BY <1>4, <2>1, Groups DEF Rejoined, Children, OnList, UpInv, ExecInv, ListTypes
<1>5. CASE UNCHANGED refVars /\ Children \subseteq Children'
  BY <1>1, <1>5, OnlyGives DEF refVars
<1>6. ASSUME activate(g, {g}), Children \subseteq Children', ~on => local'.trigger
      PROVE  UpdateDue' /\ Told'
  <2>1. /\ on => pd_mask_wanted' \subseteq pd_mask_wanted \cup pd_mask_current
        /\ \A i \in Group \ {g} : group_state'[i] = group_state[i]
        /\ group_state'[g] = "pending" => Awaited(g) \/ group_state[g] = "pending"
    BY <1>2, <1>6, ActivateWants DEF UpInv
  <2>2. ~on => TriggerDue'
    BY <1>1, <1>6 DEF TriggerDue
  <2>3. UpdateDue'
    BY <1>1, <2>1, <2>2, DueKept DEF UpInv
  <2>4. g \notin Children \/ g \in Children'
    BY <1>6
  <2>5. Told'
    BY <1>1, <1>6, <2>1, <2>4, ToldKept DEF UpInv
  <2> QED BY <2>3, <2>5
<1>7. CASE /\ StateOf(g) = "disabled"
           /\ IF back THEN UNCHANGED refVars ELSE activate(g, {g})
           /\ exec_state' = IF rejoin THEN Rejoined({g})
                            ELSE [exec_state EXCEPT ![g] = IF on THEN "idle" ELSE "inactive"]
           /\ local' = [NoLocal EXCEPT !.trigger =
                          ~on \/ (back /\ \E d \in Used({g}) : use_count[d] = 0)]
  <2>1. Children \subseteq Children'
    BY <1>4, <1>7
  <2>2. ASSUME ~on PROVE local'.trigger
    <3>1. \E b : local' = [NoLocal EXCEPT !.trigger = ~on \/ b]
      BY <1>7, Zenon
    <3> HIDE DEF on
    <3> QED BY <2>2, <3>1 DEF NoLocal
  <2> QED BY <1>5, <1>6, <1>7, <2>1, <2>2
<1> QED BY <1>3, <1>7 DEF GroupEnable

LEMMA UpComplete ==
  ASSUME UpInv, NEW g \in Group, NEW rest, running[g] # NoJob, complete_group(g, rest), ~TriggerDue
  PROVE  UpdateDue' /\ Told'
<1> DEFINE requested == IF g = Virtual THEN disable_requested \cap Children ELSE {g}
           off       == IF ~Paused /\ g \in disable_requested THEN requested ELSE {}
<1>1. /\ PowerSame /\ UNCHANGED pm_work /\ deactivate(off)
      /\ exec_state' = [i \in Group |->
           IF i \in off THEN "disabled"
           ELSE IF g = Virtual /\ i = g /\ off # {} /\ Children \subseteq off THEN "empty"
           ELSE [exec_state EXCEPT ![g] = "idle"][i]]
  BY DEF complete_group, PowerSame
<1>2. exec_state[g] = "working"
  BY DEF UpInv, ExecInv, ListsMatch
<1> HIDE DEF off
<1>3. Children \ Children' \subseteq off /\ Children \subseteq Group
  BY <1>1, <1>2, Groups DEF Children, OnList, UpInv, ExecInv, ListTypes
<1>4. /\ pd_mask_wanted' \subseteq pd_mask_wanted
      /\ \A i \in Group : group_state'[i] = IF i \in off THEN "inactive" ELSE group_state[i]
  BY <1>1, DeactivateWants
<1> QED BY <1>1, <1>3, <1>4, OnlyGives

LEMMA UpAbortGroup == ASSUME UpInv, NEW s \in Session, AbortGroup(s) PROVE UpdateDue' /\ Told'
<1>1. ~TriggerDue
  BY DEF AbortGroup, TriggerDue, At
<1>2. CASE \E g \in Group : RunsFor(g, s) /\ complete_group(g, exec)
  BY <1>1, <1>2, UpComplete DEF RunsFor
<1>3. CASE UNCHANGED <<powerVars, exec_state>>
  <2>1. PowerSame /\ UNCHANGED <<refVars, pm_work>> /\ Children' = Children
    BY <1>3 DEF PowerSame, powerVars, Children, OnList
  <2> QED BY <1>1, <2>1, OnlyGives DEF refVars
<1> QED BY <1>2, <1>3 DEF AbortGroup, powerVars

LEMMA UpSuspend ==
  ASSUME UpInv, \/ SuspendIdle \/ SuspendGroup("suspend_gp", Gp)
                \/ SuspendGroup("suspend_virtual", Virtual) \/ SuspendInactive
  PROVE  UpdateDue' /\ Told'
<1>1. PowerSame /\ UNCHANGED pm_work /\ ~TriggerDue
  BY DEF SuspendIdle, SuspendGroup, SuspendInactive, PowerSame, TriggerDue, At
<1>2. CASE SuspendIdle
  <2>1. /\ pd_mask_wanted' \subseteq pd_mask_wanted
        /\ \A i \in Group : group_state'[i] \in {"inactive", group_state[i]}
        /\ Children \subseteq Children'
    BY <1>2, IdleListGives DEF SuspendIdle
  <2> QED BY <1>1, <2>1, OnlyGives
<1>3. ASSUME NEW g \in {Gp, Virtual}, NEW op, SuspendGroup(op, g) PROVE UpdateDue' /\ Told'
  <2>1. /\ exec_state' = [exec_state EXCEPT ![g] = "inactive"] \/ UNCHANGED exec_state
        /\ (\E S : deactivate(S)) \/ UNCHANGED refVars
    BY <1>3 DEF SuspendGroup
  <2>2. Children' = Children
    BY <2>1, Groups DEF Children, OnList, UpInv, ExecInv, ListTypes
  <2>3. /\ pd_mask_wanted' \subseteq pd_mask_wanted
        /\ \A i \in Group : group_state'[i] \in {"inactive", group_state[i]}
    BY <2>1, DeactivateWants DEF refVars
  <2> QED BY <1>1, <2>2, <2>3, OnlyGives
<1>4. CASE SuspendInactive
  <2>1. deactivate(waiting) /\ Children \subseteq Children'
    BY <1>4, Groups DEF SuspendInactive, Children, OnList
  <2> QED BY <1>1, <2>1, DeactivateWants, OnlyGives
<1> QED BY <1>2, <1>3, <1>4

\* Steps that leave references, lists and power alone: a holder that had nothing to
\* trigger goes on, or starts.
LEMMA UpQuiet ==
  ASSUME UpInv, UNCHANGED <<powerVars, exec_state>>, TriggerDue => TriggerDue'
  PROVE  UpdateDue' /\ Told'
<1>1. PowerSame /\ UNCHANGED <<refVars, pm_work>> /\ Children' = Children
  BY DEF PowerSame, powerVars, Children, OnList
<1> QED BY <1>1, OnlyGives DEF refVars

LEMMA UpNext == ASSUME UpInv, Next PROVE UpdateDue' /\ Told'
<1>1. CASE ScheduleStep
  BY <1>1, UpSchedule, UpActivateInactive, UpSteal, UpAssignPhysical, UpRejoinIdle,
     UpActivateVirtual, UpAssignLast DEF ScheduleStep
<1>2. ASSUME NEW g \in Group, CompleteGroup(g) PROVE UpdateDue' /\ Told'
  <2>1. ~TriggerDue
    BY <1>2 DEF CompleteGroup, TriggerDue, At, Free
  <2> QED BY <1>2, <2>1, UpComplete DEF CompleteGroup
<1>3. CASE \E g \in Switchable : GroupEnable(g) \/ GroupDisable(g)
  BY <1>3, UpGroupEnable, UpGroupDisable
<1>4. CASE \E s \in Session : AbortGroup(s)
  BY <1>4, UpAbortGroup
<1>5. CASE ScheduleFromMask \/ (\E s \in Session : AbortExecutor(s)) \/ Pause \/ ExecutorSuspend
           \/ ExecutorResume
  <2>1. UNCHANGED <<powerVars, exec_state>> /\ exec = <<>>
    BY <1>5 DEF ScheduleFromMask, AbortExecutor, Pause, ExecutorSuspend, ExecutorResume, Free
  <2>2. ~TriggerDue
    BY <2>1 DEF TriggerDue, At
  <2> QED BY <2>1, <2>2, UpQuiet
<1>6. CASE JobStep
  <2>1. UNCHANGED <<powerVars, exec_state, exec, local>>
    BY <1>6 DEF JobStep, executorVars
  <2> QED BY <2>1, UpQuiet DEF TriggerDue, At
<1>7. CASE GroupPowerUp \/ PowerUpReturn \/ GroupPowerDown
  BY <1>7, UpGroupUp, UpReturnOf, UpGroupDown
<1>8. CASE SuspendIdle \/ SuspendGroup("suspend_gp", Gp)
           \/ SuspendGroup("suspend_virtual", Virtual) \/ SuspendInactive
  BY <1>8, UpSuspend
<1>9. CASE PmOsSuspend \/ PmOsResume
  <2>1. ExecutorSame /\ (os_suspend \/ os_resume)
    BY <1>9 DEF PmOsSuspend, PmOsResume, os_suspend, os_resume, ExecutorSame
  <2> QED BY <2>1, UpStart
<1>10. CASE PowerStep
  <2>1. ExecutorSame
    BY <1>10 DEF PowerStep, ExecutorSame, executorVars, update_work, runtime_suspend, runtime_resume,
         os_resume_return, domain_power_up, domain_power_down, common_suspend
  <2> QED BY <1>10, <2>1, UpStart, UpMasks DEF PowerStep
<1>11. CASE RuntimeSuspend
  <2>1. /\ ExecutorSame /\ UNCHANGED <<pd_mask_current, pm, pm_work>> /\ rpm = "active"
        /\ rpm' = "suspending"
    BY <1>11 DEF RuntimeSuspend, ExecutorSame, executorVars, maskVars
  <2>2. UpdateDue'
    BY <2>1, TriggerSame DEF UpInv, UpdateDue, SuspendNext, PmAt
  <2>3. Children' = Children /\ UNCHANGED group_state /\ \A g : Awaited(g) => Awaited(g)'
    BY <2>1 DEF ExecutorSame, Children, OnList, Awaited, PmAt, refVars
  <2> QED BY <2>2, <2>3 DEF UpInv, Told
<1> QED BY <1>1, <1>2, <1>3, <1>4, <1>5, <1>6, <1>7, <1>8, <1>9, <1>10, <1>11 DEF Next

LEMMA UpInvNext == ASSUME UpInv, [Next]_vars PROVE UpInv'
<1>1. CASE Next
  BY <1>1, ExecInvNext, PmInvNext, StageOrderNext, UpNext DEF UpInv
<1>2. CASE UNCHANGED vars
  <2>1. UNCHANGED <<powerVars, exec_state, exec, local>>
    BY <1>2 DEF vars, executorVars
  <2>2. UpdateDue' /\ Told'
    BY <2>1, UpQuiet DEF TriggerDue, At
  <2>3. StageOrder'
    BY <2>1 DEF UpInv, StageOrder
  <2> QED BY <1>2, <2>2, <2>3, ExecInvStutter, PmInvStutter DEF UpInv
<1> QED BY <1>1, <1>2

LEMMA UpInvInit == ASSUME Init PROVE UpInv
<1>1. pd_mask_wanted = {} /\ exec = <<>> /\ group_state = [g \in Group |-> "inactive"]
  BY DEF Init, PowerInit, ExecutorInit
<1>2. UpdateDue /\ Told
  BY <1>1 DEF UpdateDue, Told
<1>3. StageOrder
  BY <1>1 DEF StageOrder
<1> QED BY <1>2, <1>3, ExecInvInit, PmInvInit DEF UpInv

LEMMA UpInvAlways == Spec => []UpInv
<1>1. Init => UpInv
  BY UpInvInit
<1>2. UpInv /\ [Next]_vars => UpInv'
  BY UpInvNext
<1> QED BY <1>1, <1>2, PTL DEF Spec

\* A domain that is wanted and off has an update to come, whatever was scheduled, taken
\* back or suspended since mali_group_activate, and a group that waits outside the virtual
\* group is told about its power (mali_pm.c, mali_executor_group_power_up).
THEOREM PowerUpNotLost == Spec => []NoLostPowerUp
<1>1. UpInv => NoLostPowerUp
  BY DEF UpInv, UpdateDue, TriggerDue, SuspendNext, Told, NoLostPowerUp
<1> QED BY <1>1, UpInvAlways, PTL

------------------------------------------------------------------------------
(* Suspend of the device                                                     *)

\* From the end of mali_executor_suspend to mali_executor_resume.
Resting == os \in {"deactivated", "suspending", "resuming"}

OnlyAnswers(s) == \A i \in DOMAIN s : s[i] \in {"schedule", "power_up", "abort"}

\* Nothing is wanted then, and the executor only answers.
RestsUnwanted == Resting => pd_mask_wanted = {} /\ OnlyAnswers(exec)

\* How far mali_executor_suspend got.
SuspendProgress ==
  /\ At("suspend_gp") \/ At("suspend_virtual") \/ At("suspend_inactive") => OnList("idle") = {}
  /\ At("suspend_virtual") \/ At("suspend_inactive") => group_state[Gp] = "inactive"

\* The suspend of the device leaves every domain off, and no update changes that.
OsOff == os = "suspending" /\ pm.op # "os_suspend" => pd_mask_current = {}

OsInv ==
  /\ ExecInv /\ PmInv /\ RestsUnwanted /\ SuspendProgress /\ OsOff
  /\ MayPause \/ (os = "running" /\ ~Suspends(exec))

\* User space leaves the groups alone on a device that is suspended.
QuietUserSpace == MayPause => Switchable = {}

LEMMA NothingHeld == ASSUME ExecInv, pd_mask_wanted = {} PROVE \A g \in Group : group_state[g] = "inactive"
BY HeldWanted DEF ExecInv, Held

LEMMA AtHead ==
  ASSUME exec \in Seq(Operation), NEW op, At(op)
  PROVE  1 \in DOMAIN exec /\ exec[1] = op /\ exec # <<>>
BY DEF At

LEMMA OnlyAnswersTail ==
  ASSUME NEW s \in Seq(Operation), s # <<>>, OnlyAnswers(s)
  PROVE  OnlyAnswers(Tail(s))
<1>1. \A i \in DOMAIN Tail(s) : i + 1 \in DOMAIN s /\ Tail(s)[i] = s[i + 1]
  OBVIOUS
<1> QED BY <1>1 DEF OnlyAnswers

\* A suspended device answers, and what it does changes no reference.
LEMMA RestingStep ==
  ASSUME OsInv, QuietUserSpace, Resting, Next, os' # "running"
  PROVE  RestsUnwanted'
<1>1. /\ exec \in Seq(Operation) /\ pd_mask_wanted = {} /\ OnlyAnswers(exec) /\ Paused
      /\ Switchable = {}
  BY DEF OsInv, ExecInv, LocalTypes, RestsUnwanted, Resting, Paused, QuietUserSpace
<1>2. ASSUME NEW op, At(op) PROVE op \in {"schedule", "power_up", "abort"}
  BY <1>1, <1>2, AtHead DEF OnlyAnswers
<1>a. /\ ~At("physical") /\ ~At("virtual") /\ ~At("assign_virtual") /\ ~At("assign_gp")
      /\ ~At("suspend_idle") /\ ~At("suspend_gp") /\ ~At("suspend_virtual") /\ ~At("suspend_inactive")
  BY <1>2
<1>3. \A g \in Group : running[g] = NoJob
  BY <1>1, NothingHeld DEF OsInv, ExecInv, ListsMatch
<1>4. ASSUME UNCHANGED pd_mask_wanted, OnlyAnswers(exec') PROVE RestsUnwanted'
  BY <1>1, <1>4 DEF RestsUnwanted
<1>5. CASE UNCHANGED <<pd_mask_wanted, exec>>
  BY <1>1, <1>4, <1>5
<1>6. CASE UNCHANGED pd_mask_wanted /\ exec # <<>> /\ exec' = Tail(exec)
  BY <1>1, <1>4, <1>6, OnlyAnswersTail
<1>7. CASE UNCHANGED pd_mask_wanted /\ exec' \in {<<"schedule">>, <<"abort">>, <<"schedule", "power_up">>}
  BY <1>4, <1>7 DEF OnlyAnswers
<1>8. CASE ScheduleStep
  <2>1. Schedule
    BY <1>a, <1>8 DEF ScheduleStep, ActivateInactive, Steal, AssignPhysical, RejoinIdle,
       ActivateVirtual, AssignVirtual, AssignGp
  <2>2. UNCHANGED pd_mask_wanted /\ exec # <<>> /\ exec' = Tail(exec)
    BY <1>1, <2>1 DEF Schedule, Finished, Continue, refVars, At
  <2> QED BY <1>6, <2>2
<1>9. CASE ScheduleFromMask \/ \E s \in Session : AbortExecutor(s)
  BY <1>7, <1>9 DEF ScheduleFromMask, AbortExecutor, powerVars, refVars
<1>10. CASE \E g \in Group : CompleteGroup(g)
  BY <1>3, <1>10 DEF CompleteGroup
<1>11. CASE \E s \in Session : AbortGroup(s)
  <2>1. UNCHANGED pd_mask_wanted /\ exec # <<>> /\ exec' = Tail(exec)
    BY <1>3, <1>11 DEF AbortGroup, RunsFor, Finished, Continue, At, powerVars, refVars
  <2> QED BY <1>6, <2>1
<1>12. CASE GroupPowerUp \/ PowerUpReturn \/ GroupPowerDown
  <2>1. CASE GroupPowerUp
    BY <1>5, <1>7, <2>1 DEF GroupPowerUp
  <2>2. CASE PowerUpReturn
    BY <1>6, <2>2 DEF PowerUpReturn, Finished, Continue, At, refVars
  <2>3. CASE GroupPowerDown
    BY <1>5, <2>3 DEF GroupPowerDown, group_power_down, executorVars, refVars
  <2> QED BY <1>12, <2>1, <2>2, <2>3
<1>13. CASE SuspendIdle \/ SuspendGroup("suspend_gp", Gp)
            \/ SuspendGroup("suspend_virtual", Virtual) \/ SuspendInactive
  BY <1>a, <1>13 DEF SuspendIdle, SuspendGroup, SuspendInactive
<1>14. ~Pause /\ ~ExecutorSuspend /\ ~ExecutorResume
  BY DEF Resting, Pause, ExecutorSuspend, ExecutorResume
<1>15. CASE PmOsSuspend \/ PmOsResume
  BY <1>5, <1>15 DEF PmOsSuspend, PmOsResume, os_suspend, os_resume, refVars
<1>16. CASE RuntimeSuspend \/ JobStep
  BY <1>5, <1>16 DEF RuntimeSuspend, JobStep, executorVars, powerVars, refVars
<1>17. CASE PowerStep
  BY <1>5, <1>17 DEF PowerStep, executorVars, refVars, update_work, runtime_suspend, runtime_resume,
     os_resume_return, domain_power_up, domain_power_down, common_suspend
<1> QED BY <1>1, <1>8, <1>9, <1>10, <1>11, <1>12, <1>13, <1>14, <1>15, <1>16, <1>17 DEF Next

\* The last step of mali_executor_suspend gives back what is left.
LEMMA RestingStart == ASSUME OsInv, SuspendInactive PROVE RestsUnwanted'
<1>1. /\ At("suspend_inactive") /\ exec' = Tail(exec) /\ deactivate(waiting)
      /\ ExecInv'
  BY SuspendInactiveInv DEF OsInv, SuspendInactive, Finished, Continue
<1>2. /\ exec \in SuspendPrograms /\ ~is_working
      /\ HasVirtual => group_state[Virtual] = "inactive"
  <2>1. 1 \in DOMAIN exec /\ exec[1] = "suspend_inactive"
    BY <1>1, AtHead DEF OsInv, ExecInv, LocalTypes
  <2>2. Suspends(exec)
    BY <2>1 DEF Suspends, SuspendSteps
  <2> QED BY <1>1, <2>2 DEF OsInv, ExecInv, SuspendInOrder
<1>3. exec' = <<>>
  <2>1. exec = <<"suspend_inactive">>
    BY <1>1, <1>2 DEF SuspendPrograms, At
  <2> QED BY <1>1, <2>1
<1>4. ASSUME NEW g \in Group, g \notin waiting PROVE group_state[g] = "inactive"
  <2>1. OnList("idle") = {} /\ group_state[Gp] = "inactive"
    BY <1>1 DEF OsInv, SuspendProgress
  <2>2. CASE g = Gp \/ g = Virtual
    BY <1>2, <2>1, <2>2, Groups
  <2>3. CASE g \in PpCore
    <3>1. CASE exec_state[g] = "virtual"
      BY <1>2, <2>3, <3>1 DEF OsInv, ExecInv, ListTypes, VirtualInStep, Children, OnList
    <3>2. CASE exec_state[g] = "inactive"
      BY <1>4, <2>3, <3>2, Groups DEF OsInv, ExecInv, PowerTypes, ListsMatch, waiting, OnList
    <3>3. CASE exec_state[g] = "disabled"
      BY <3>3 DEF OsInv, ExecInv, ListsMatch
    <3>4. exec_state[g] # "idle" /\ exec_state[g] # "working"
      BY <1>2, <2>1, <2>3 DEF OnList, is_working
    <3>5. g \in Core
      BY <2>3 DEF Core
    <3> QED BY <3>1, <3>2, <3>3, <3>4, <3>5 DEF OsInv, ExecInv, ListTypes
  <2> QED BY <2>2, <2>3, Groups
<1>5. {g \in Group : group_state'[g] # "inactive"} = {}
  BY <1>1, <1>4, DeactivateWants
<1>6. \A d \in Domain : use_count'[d] = Refs({}, d)
  BY <1>1, <1>5 DEF ExecInv, RefsExact, Refs
<1>7. \A d \in Domain : ~(Refs({}, d) > 0)
  BY RefsCount
<1>8. pd_mask_wanted' = {d \in Domain : use_count'[d] > 0}
  BY <1>1 DEF ExecInv, RefsExact
<1>9. pd_mask_wanted' = {}
  BY <1>6, <1>7, <1>8
<1> QED BY <1>3, <1>9 DEF RestsUnwanted, OnlyAnswers

LEMMA OsSteps ==
  ASSUME Next
  PROVE  UNCHANGED os \/ Pause \/ SuspendInactive \/ PmOsSuspend \/ PmOsResume \/ ExecutorResume
<1>1. CASE ScheduleStep
  BY <1>1 DEF ScheduleStep, Schedule, ActivateInactive, Steal, AssignPhysical, RejoinIdle,
              ActivateVirtual, AssignVirtual, AssignGp
<1>2. CASE \E g \in Group : CompleteGroup(g)
  BY <1>2 DEF CompleteGroup, complete_group
<1>3. CASE \E s \in Session : AbortExecutor(s) \/ AbortGroup(s)
  BY <1>3 DEF complete_group, AbortExecutor, AbortGroup
<1>4. CASE \E g \in Switchable : GroupEnable(g) \/ GroupDisable(g)
  BY <1>4 DEF GroupEnable, GroupDisable
<1>5. CASE ScheduleFromMask \/ GroupPowerUp \/ PowerUpReturn \/ GroupPowerDown
  BY <1>5 DEF ScheduleFromMask, GroupPowerUp, PowerUpReturn, GroupPowerDown, executorVars
<1>6. CASE ExecutorSuspend \/ SuspendIdle \/ SuspendGroup("suspend_gp", Gp)
           \/ SuspendGroup("suspend_virtual", Virtual)
  BY <1>6 DEF ExecutorSuspend, SuspendIdle, SuspendGroup
<1>7. CASE RuntimeSuspend \/ PowerStep \/ JobStep
  BY <1>7 DEF RuntimeSuspend, PowerStep, JobStep, executorVars
<1> QED BY <1>1, <1>2, <1>3, <1>4, <1>5, <1>6, <1>7 DEF Next

\* Only mali_pm_os_suspend leads to a suspended device.
LEMMA StillSuspending == ASSUME Next, ~PmOsSuspend, os' = "suspending" PROVE os = "suspending"
BY OsSteps DEF Pause, SuspendInactive, PmOsResume, ExecutorResume

LEMMA RestsNext == ASSUME OsInv, QuietUserSpace, Next PROVE RestsUnwanted'
<1>1. CASE SuspendInactive
  BY <1>1, RestingStart
<1>2. CASE Resting /\ os' # "running"
  BY <1>2, RestingStep
<1>3. CASE ~Resting' 
  BY <1>3 DEF RestsUnwanted
<1>4. ASSUME Resting' PROVE SuspendInactive \/ (Resting /\ os' # "running")
  <2>1. os' \in {"deactivated", "suspending", "resuming"}
    BY <1>4 DEF Resting
  <2>2. UNCHANGED os \/ Pause \/ SuspendInactive \/ PmOsSuspend \/ PmOsResume \/ ExecutorResume
    BY OsSteps
  <2>3. /\ Pause => os' = "pausing"
        /\ ExecutorResume => os' = "running"
        /\ PmOsSuspend => os = "deactivated"
        /\ PmOsResume => os = "suspending"
    BY DEF Pause, ExecutorResume, PmOsSuspend, PmOsResume
  <2> QED BY <2>1, <2>2, <2>3 DEF Resting
<1> QED BY <1>1, <1>2, <1>3, <1>4

LEMMA NoProgress ==
  ASSUME exec' \in Seq(Operation), ~Suspends(exec')
  PROVE  SuspendProgress'
<1>1. ASSUME NEW op \in SuspendSteps, exec' # <<>>, Head(exec') = op PROVE FALSE
  <2>1. 1 \in DOMAIN exec' /\ exec'[1] = op
    BY <1>1
  <2> QED BY <2>1 DEF Suspends
<1>2. \A op \in SuspendSteps : ~At(op)'
  BY <1>1 DEF At
<1> QED BY <1>2 DEF SuspendProgress, SuspendSteps

\* Without a suspension under way a step begins at most one.
LEMMA SuspendsLater ==
  ASSUME ExecInv, Next, ~Suspends(exec)
  PROVE  \/ exec' \in Seq(Operation) /\ ~Suspends(exec')
         \/ /\ os = "pausing"
            /\ exec' = <<"suspend_idle", "suspend_gp", "suspend_virtual", "suspend_inactive">>
<1>1. exec \in Seq(Operation)
  BY DEF ExecInv, LocalTypes
<1>2. CASE exec' = exec
  BY <1>1, <1>2
<1>3. CASE exec # <<>> /\ exec' \in {Tail(exec), Stages \o Tail(exec)}
  <2>1. Tail(exec) \in Seq(Operation) /\ ~Suspends(Tail(exec))
    BY <1>1, <1>3, SuspendsTail
  <2> QED BY <1>3, <2>1, Programs, SuspendsConcat
<1>4. ASSUME NEW rest \in {<<>>, exec}, exec' \in {<<>> \o rest, <<"schedule">> \o rest}
      PROVE  exec' \in Seq(Operation) /\ ~Suspends(exec')
  <2>1. rest \in Seq(Operation) /\ ~Suspends(rest)
    BY <1>1, Programs
  <2> QED BY <1>4, <2>1, Programs, SuspendsConcat
<1>5. CASE exec' \in {<<"schedule">>, <<"abort">>, <<"schedule", "power_up">>}
  BY <1>5, Programs
<1>6. CASE os = "pausing" /\ exec' = <<"suspend_idle", "suspend_gp", "suspend_virtual", "suspend_inactive">>
  BY <1>6
<1> QED BY <1>2, <1>3, <1>4, <1>5, <1>6, ExecAfter

LEMMA ProgressOther == ASSUME ExecInv, Next, ~Suspends(exec) PROVE SuspendProgress'
<1>1. CASE exec' \in Seq(Operation) /\ ~Suspends(exec')
  BY <1>1, NoProgress
<1>2. CASE exec' = <<"suspend_idle", "suspend_gp", "suspend_virtual", "suspend_inactive">>
  BY <1>2 DEF SuspendProgress, At
<1> QED BY <1>1, <1>2, SuspendsLater

LEMMA ProgressSame ==
  ASSUME SuspendProgress, UNCHANGED <<group_state, exec_state, exec>>
  PROVE  SuspendProgress'
BY DEF SuspendProgress, At, OnList

\* While the executor suspends, each step leaves what the next ones rest on.
LEMMA ProgressSuspend == ASSUME ExecInv, SuspendProgress, Next, Suspends(exec) PROVE SuspendProgress'
<1>1. /\ exec \in SuspendPrograms /\ exec # <<>> /\ Head(exec) \in SuspendSteps
  BY DEF ExecInv, SuspendInOrder, SuspendPrograms, SuspendSteps
<1>2. /\ ~Free /\ ~At("schedule") /\ ~At("physical") /\ ~At("virtual") /\ ~At("assign_virtual")
      /\ ~At("assign_gp") /\ ~At("power_up") /\ ~At("abort")
  BY <1>1 DEF Free, At, SuspendSteps
<1>3. CASE SuspendIdle
  <2>1. /\ At("suspend_idle") /\ exec' = Tail(exec)
        /\ exec_state' = IF HasVirtual THEN Rejoined(OnList("idle"))
                         ELSE [g \in Group |-> IF g \in OnList("idle") THEN "inactive" ELSE exec_state[g]]
    BY <1>3 DEF SuspendIdle, Continue, deactivate_list_idle
  <2>2. OnList("idle")' = {}
    BY <2>1, Groups DEF Rejoined, OnList
  <2>3. exec' = <<"suspend_gp", "suspend_virtual", "suspend_inactive">>
    <3>1. exec = <<"suspend_idle", "suspend_gp", "suspend_virtual", "suspend_inactive">>
      BY <1>1, <2>1 DEF SuspendPrograms, At
    <3> QED BY <2>1, <3>1
  <2>4. ~At("suspend_virtual")' /\ ~At("suspend_inactive")'
    BY <2>3 DEF At
  <2> QED BY <2>2, <2>4 DEF SuspendProgress
<1>4. CASE SuspendGroup("suspend_gp", Gp)
  <2>1. /\ At("suspend_gp") /\ exec' = Tail(exec)
        /\ exec_state' = [exec_state EXCEPT ![Gp] = "inactive"] \/ UNCHANGED exec_state
        /\ IF group_state[Gp] # "inactive" THEN deactivate({Gp}) ELSE UNCHANGED group_state
    BY <1>4, Groups DEF SuspendGroup, Continue, WithChildren, refVars
  <2>2. group_state'[Gp] = "inactive"
    BY <2>1, DeactivateWants, Groups
  <2>3. OnList("idle") = {} /\ OnList("idle")' = OnList("idle")
    BY <2>1, Groups DEF SuspendProgress, ExecInv, ListTypes, OnList
  <2> QED BY <2>2, <2>3 DEF SuspendProgress
<1>5. CASE SuspendGroup("suspend_virtual", Virtual)
  <2>1. /\ At("suspend_virtual")
        /\ exec_state' = [exec_state EXCEPT ![Virtual] = "inactive"] \/ UNCHANGED exec_state
        /\ (\E S : deactivate(S)) \/ UNCHANGED group_state
    BY <1>5 DEF SuspendGroup, refVars
  <2>2. group_state[Gp] = "inactive" /\ group_state'[Gp] = "inactive"
    BY <2>1, DeactivateWants, Groups DEF SuspendProgress
  <2>3. OnList("idle") = {} /\ OnList("idle")' = OnList("idle")
    BY <2>1, Groups DEF SuspendProgress, ExecInv, ListTypes, OnList
  <2> QED BY <2>2, <2>3 DEF SuspendProgress
<1>6. CASE SuspendInactive
  <2>1. At("suspend_inactive") /\ exec' = Tail(exec)
    BY <1>6 DEF SuspendInactive, Continue, Finished
  <2>2. exec = <<"suspend_inactive">>
    BY <1>1, <2>1 DEF SuspendPrograms, At
  <2>3. exec' = <<>>
    BY <2>1, <2>2
  <2> QED BY <2>3, Programs, NoProgress
<1>7. CASE \/ Pause \/ GroupPowerDown \/ PmOsSuspend \/ PmOsResume \/ RuntimeSuspend \/ PowerStep
           \/ JobStep
  <2>1. UNCHANGED <<group_state, exec_state, exec>>
    <3>1. CASE GroupPowerDown \/ PmOsSuspend \/ PmOsResume \/ RuntimeSuspend
      BY <3>1 DEF GroupPowerDown, group_power_down, PmOsSuspend, PmOsResume, os_suspend, os_resume,
                  RuntimeSuspend, executorVars, refVars
    <3>2. CASE PowerStep
      BY <3>2 DEF PowerStep, executorVars, refVars, update_work, runtime_suspend, runtime_resume,
                  os_resume_return, domain_power_up, domain_power_down, common_suspend
    <3>3. CASE Pause \/ JobStep
      BY <3>3 DEF Pause, JobStep, executorVars, powerVars, refVars
    <3> QED BY <1>7, <3>1, <3>2, <3>3
  <2> QED BY <2>1, ProgressSame
<1>8. ~ScheduleStep
  BY <1>2 DEF ScheduleStep, Schedule, ActivateInactive, Steal, AssignPhysical, RejoinIdle,
              ActivateVirtual, AssignVirtual, AssignGp
<1>9. \A s \in Session : ~AbortExecutor(s) /\ ~AbortGroup(s)
  BY <1>2 DEF AbortExecutor, AbortGroup
<1>10. /\ \A g \in Group : ~CompleteGroup(g)
       /\ \A g \in Switchable : ~GroupEnable(g) /\ ~GroupDisable(g)
  BY <1>2 DEF CompleteGroup, GroupEnable, GroupDisable
<1>11. ~ScheduleFromMask /\ ~GroupPowerUp /\ ~PowerUpReturn /\ ~ExecutorSuspend /\ ~ExecutorResume
  BY <1>2 DEF ScheduleFromMask, GroupPowerUp, PowerUpReturn, ExecutorSuspend, ExecutorResume
<1> QED BY <1>3, <1>4, <1>5, <1>6, <1>7, <1>8, <1>9, <1>10, <1>11 DEF Next

\* A thread that changes the domains finds nothing wanted, and leaves them off.
LEMMA OffNext == ASSUME OsInv, Next PROVE OsOff'
<1>1. SUFFICES ASSUME os' = "suspending", pm'.op # "os_suspend"
               PROVE  pd_mask_current' = {}
  BY DEF OsOff
<1>2. CASE PmOsSuspend
  <2>1. pm' = [op |-> "os_suspend", step |-> "suspend", groups |-> {}]
    BY <1>2 DEF PmOsSuspend, os_suspend, Hold
  <2> QED BY <1>1, <2>1
<1>3. CASE ~PmOsSuspend
  <2>2. os = "suspending"
    BY <1>1, <1>3, StillSuspending
  <2>3. pd_mask_wanted = {}
    BY <2>2 DEF OsInv, RestsUnwanted, Resting
  <2>4. IsPm(pm)
    BY DEF OsInv, ExecInv, PowerTypes
  <2>5. CASE PowerSame
    BY <1>1, <2>2, <2>5 DEF PowerSame, OsInv, OsOff, maskVars
  <2>6. CASE pm.op = "os_suspend"
    <3>1. pm.step \in {"suspend", "notify_suspend"} /\ pm # Idle
      BY <2>6 DEF OsInv, PmInv, OperationOf, Idle
    <3>2. CASE GroupPowerDown
      <4>1. pm.step = "notify_suspend"
        BY <3>1, <3>2 DEF GroupPowerDown, group_power_down
      <4> QED BY <3>2, <4>1 DEF GroupPowerDown, group_power_down, OsInv, ExecInv, MasksInStep, PmAt
    <3>3. CASE PowerStep
      <4>1. common_suspend \/ UNCHANGED pm
        BY <3>1, <3>3 DEF PowerStep, update_work, runtime_suspend, runtime_resume, Hold, PmFree,
           os_resume_return, domain_power_up, domain_power_down, PmAt
      <4>2. common_suspend
        BY <1>1, <2>6, <4>1
      <4> QED BY <2>3, <4>2 DEF common_suspend
    <3>4. ~GroupPowerUp /\ ~PowerUpReturn
      BY <3>1 DEF GroupPowerUp, PowerUpReturn, PmAt
    <3>5. ~RuntimeSuspend /\ ~PmOsResume
      BY <1>1, <2>6 DEF RuntimeSuspend, PmOsResume
    <3> QED BY <1>3, <2>5, <3>2, <3>3, <3>4, <3>5, PowerOr
  <2>7. CASE pm.op # "os_suspend"
    <3>1. pd_mask_current = {}
      BY <2>2, <2>7 DEF OsInv, OsOff
    <3>2. CASE PowerStep
      BY <2>3, <3>1, <3>2 DEF PowerStep, update_work, runtime_suspend, runtime_resume, maskVars,
         os_resume_return, domain_power_up, domain_power_down, common_suspend
    <3>3. CASE GroupPowerUp \/ PowerUpReturn \/ GroupPowerDown \/ RuntimeSuspend
      BY <3>1, <3>3 DEF GroupPowerUp, PowerUpReturn, GroupPowerDown, group_power_down, RuntimeSuspend,
         maskVars
    <3>4. ~PmOsResume
      BY <1>1 DEF PmOsResume
    <3> QED BY <1>3, <2>5, <3>2, <3>3, <3>4, PowerOr
  <2> QED BY <2>6, <2>7
<1> QED BY <1>2, <1>3

\* Without MayPause nothing suspends.
LEMMA NeverPauses ==
  ASSUME OsInv, Next, os = "running", ~Suspends(exec), ~MayPause
  PROVE  os' = "running" /\ ~Suspends(exec')
<1>1. ~SuspendInactive
  <2>1. ASSUME SuspendInactive PROVE 1 \in DOMAIN exec /\ exec[1] = "suspend_inactive"
    BY <2>1, AtHead DEF SuspendInactive, OsInv, ExecInv, LocalTypes
  <2> QED BY <2>1 DEF Suspends, SuspendSteps
<1>2. os' = "running"
  BY <1>1, OsSteps DEF Pause, PmOsSuspend, PmOsResume, ExecutorResume
<1> QED BY <1>2, SuspendsLater DEF OsInv

LEMMA OsInvNext == ASSUME OsInv, QuietUserSpace, Next PROVE OsInv'
<1>1. ExecInv' /\ PmInv'
  BY ExecInvNext, PmInvNext DEF OsInv
<1>2. RestsUnwanted' /\ OsOff'
  BY RestsNext, OffNext
<1>3. SuspendProgress'
  BY ProgressOther, ProgressSuspend DEF OsInv
<1>4. MayPause \/ (os' = "running" /\ ~Suspends(exec'))
  BY NeverPauses DEF OsInv
<1> QED BY <1>1, <1>2, <1>3, <1>4 DEF OsInv, Suspends

LEMMA OsInvStutter == ASSUME OsInv, UNCHANGED vars PROVE OsInv'
<1>1. UNCHANGED <<powerVars, exec_state, running, disable_requested, exec, local, os>>
  BY DEF vars, executorVars
<1>2. ExecInv' /\ PmInv'
  BY ExecInvStutter, PmInvStutter DEF OsInv
<1>3. SuspendProgress'
  BY <1>1, ProgressSame DEF OsInv, powerVars, refVars
<1>4. RestsUnwanted' /\ OsOff'
  BY <1>1 DEF OsInv, powerVars, refVars, maskVars, RestsUnwanted, Resting, OsOff
<1> QED BY <1>1, <1>2, <1>3, <1>4 DEF OsInv, Suspends

LEMMA OsInvInit == ASSUME Init PROVE OsInv
<1>1. exec = <<>> /\ os = "running"
  BY DEF Init, ExecutorInit
<1>2. ExecInv /\ PmInv
  BY ExecInvInit, PmInvInit
<1> QED BY <1>1, <1>2, Programs DEF OsInv, RestsUnwanted, Resting, SuspendProgress, At, OsOff

\* What is on without an operation under way is wanted or current, and a suspended
\* device wants nothing.
LEMMA OsInvOff == ASSUME OsInv PROVE OffWhenSuspended
<1>1. ASSUME os = "suspending", PmFree
      PROVE  pd_mask_wanted = {} /\ pd_mask_current = {} /\ pmu_mask_current = {} /\ powered = {}
  <2>1. pm.op = "none" /\ pm.step = "none"
    BY <1>1 DEF PmFree, Idle
  <2>2. pd_mask_wanted = {} /\ pd_mask_current = {}
    BY <1>1, <2>1 DEF OsInv, RestsUnwanted, Resting, OsOff
  <2>3. pmu_mask_current = {}
    BY <2>1, <2>2 DEF OsInv, PmInv, PmuBehind
  <2>4. powered = {}
    BY <2>1, <2>2 DEF OsInv, ExecInv, MasksInStep, GoesOff
  <2> QED BY <2>2, <2>3, <2>4
<1> QED BY <1>1 DEF OsInv, PmInv, RpmOff, OffWhenSuspended

\* A GPU that runtime PM or the kernel has suspended is off, in the driver and in the PMU,
\* although work items, interrupts and aborts go on meanwhile: the assertions of
\* mali_pm_runtime_resume and mali_pm_os_resume.  User space is assumed to enable and
\* disable no groups on a device that may be suspended, as in the runs.
THEOREM SuspendedIsOff == ASSUME QuietUserSpace PROVE Spec => []OffWhenSuspended
<1>1. Init => OsInv
  BY OsInvInit
<1>2. OsInv /\ [Next]_vars => OsInv'
  BY OsInvNext, OsInvStutter
<1>3. OsInv => OffWhenSuspended
  BY OsInvOff
<1> QED BY <1>1, <1>2, <1>3, PTL DEF Spec

------------------------------------------------------------------------------
(* A virtual group that waits for power                                      *)

\* User space leaves the PP cores of a virtual group alone, of which there is one at least.
CoresStay == HasVirtual => PpCore # {} /\ Switchable \cap PpCore = {}

\* The virtual group, which is in the domain that is on with any other, is among the groups
\* with power if there is one.
PoweredWhole == powered # {} => Virtual \in powered

\* It waits for its power on the list of inactive groups.
PendingInactive == group_state[Virtual] = "pending" => exec_state[Virtual] = "inactive"

NoCoreOff == disable_requested \cap PpCore = {} /\ \A c \in PpCore : exec_state[c] # "disabled"

\* It has a child unless it is empty, or about to be given those that were stolen from it.
Inhabited == exec_state[Virtual] = "empty" \/ Children # {} \/ At("suspend_inactive")

Awaits ==
  group_state[Virtual] = "pending" => \E c \in Children : group_state[c] = "pending" /\ Awaited(c)

VirtualSteady == PendingInactive /\ NoCoreOff /\ Inhabited /\ Awaits

AwaitInv == ExecInv /\ SuspendProgress /\ (HasVirtual => PoweredWhole /\ VirtualSteady)

LEMMA PoweredWholeNext == ASSUME ExecInv, HasVirtual, PoweredWhole, Next PROVE PoweredWhole'
<1>1. CASE GroupPowerUp
  BY <1>1 DEF GroupPowerUp, PoweredWhole, ExecInv, MasksInStep
<1>2. CASE GroupPowerDown
  <2>1. powered' = powered \ pm.groups /\ GoesOff
    BY <1>2 DEF GroupPowerDown, group_power_down, GoesOff
  <2>2. Virtual \in pm.groups => powered' = {}
    <3>1. Virtual \in pm.groups => Dummy \notin pd_mask_current
      BY <2>1, GroupDomains DEF ExecInv, MasksInStep
    <3>2. Virtual \in pm.groups => pd_mask_current = {}
      BY <3>1 DEF ExecInv, MasksInStep
    <3> QED BY <2>1, <3>2 DEF ExecInv, MasksInStep
  <2> QED BY <2>1, <2>2 DEF PoweredWhole
<1>3. CASE UNCHANGED powered
  BY <1>3 DEF PoweredWhole
<1>4. PowerSame \/ PowerUpReturn \/ PmOsSuspend \/ PmOsResume \/ RuntimeSuspend \/ PowerStep => UNCHANGED powered
  BY DEF PowerSame, PowerUpReturn, PmOsSuspend, PmOsResume, RuntimeSuspend, PowerStep, os_suspend, os_resume,
         update_work, runtime_suspend, runtime_resume, os_resume_return, domain_power_up, domain_power_down,
         common_suspend
<1> QED BY <1>1, <1>2, <1>3, <1>4, PowerOr

\* A step that takes no child away and leaves a pending virtual group alone.
LEMMA SteadyKept ==
  ASSUME VirtualSteady, UNCHANGED <<pd_mask_current, pm>>,
         \A c \in Children : exec_state'[c] = "virtual",
         \A c \in PpCore : exec_state'[c] # "disabled",
         disable_requested' \cap PpCore = {},
         \/ ~At("suspend_inactive") /\ exec_state'[Virtual] = exec_state[Virtual]
         \/ \E c \in PpCore : exec_state'[c] = "virtual",
         group_state'[Virtual] = "pending" =>
           /\ group_state[Virtual] = "pending" /\ exec_state'[Virtual] = exec_state[Virtual]
           /\ \A c \in Children : group_state'[c] = group_state[c]
  PROVE  VirtualSteady'
<1>1. Children \subseteq Children' /\ ((\E c \in PpCore : exec_state'[c] = "virtual") => Children' # {})
  BY DEF Children, OnList
<1>2. PendingInactive' /\ NoCoreOff'
  BY DEF VirtualSteady, PendingInactive, NoCoreOff
<1>3. Inhabited'
  BY <1>1 DEF VirtualSteady, Inhabited
<1>4. Awaits'
  BY <1>1 DEF VirtualSteady, Awaits, Awaited, PmAt
<1> QED BY <1>2, <1>3, <1>4 DEF VirtualSteady

\* A step of power management that tells no group.
LEMMA SteadyPm ==
  ASSUME VirtualSteady, ExecutorSame,
         \A c \in Children : group_state[c] = "pending" /\ Awaited(c) => Awaited(c)'
  PROVE  VirtualSteady'
<1>1. Children' = Children /\ UNCHANGED <<group_state, exec_state, disable_requested, exec>>
  BY DEF ExecutorSame, refVars, Children, OnList
<1>2. PendingInactive' /\ NoCoreOff' /\ Inhabited'
  BY <1>1 DEF VirtualSteady, PendingInactive, NoCoreOff, Inhabited, At
<1>3. Awaits'
  BY <1>1 DEF VirtualSteady, Awaits
<1> QED BY <1>2, <1>3 DEF VirtualSteady

LEMMA SteadyPower ==
  ASSUME ExecInv, VirtualSteady, PmOsSuspend \/ PmOsResume \/ RuntimeSuspend \/ PowerStep \/ GroupPowerDown
  PROVE  VirtualSteady'
<1>1. ExecutorSame
  <2>1. PmOsSuspend \/ PmOsResume \/ RuntimeSuspend \/ GroupPowerDown => ExecutorSame
    BY DEF PmOsSuspend, PmOsResume, RuntimeSuspend, GroupPowerDown, os_suspend, os_resume, group_power_down,
           executorVars, ExecutorSame
  <2>2. PowerStep => ExecutorSame
    BY DEF PowerStep, update_work, runtime_suspend, runtime_resume, os_resume_return, domain_power_up,
           domain_power_down, common_suspend, executorVars, ExecutorSame
  <2> QED BY <2>1, <2>2
<1>2. ASSUME NEW c \in Children, Awaited(c) PROVE Awaited(c)'
  <2>1. CASE RuntimeSuspend
    BY <1>2, <2>1 DEF RuntimeSuspend, Awaited, PmAt, maskVars
  <2>2. CASE PowerStep /\ domain_power_up
    <3>0. c \in Group /\ DomainOf[c] \in Domain
      BY Groups, GroupDomains DEF Children
    <3>1. PmAt("up") /\ DomainOf[c] \notin pd_mask_current /\ IsPm(pm)
      BY <1>2, <2>2 DEF domain_power_up, Awaited, PmAt, ExecInv, PowerTypes
    <3>2. CASE pd_mask_current' = pd_mask_current
      BY <3>1, <3>2 DEF Awaited
    <3>3. CASE pd_mask_current' # pd_mask_current
      <4>1. PICK up : /\ pd_mask_current' = pd_mask_current \cup up \cup {Dummy}
                      /\ PmGoto("notify_up", GroupsIn(up \cup {Dummy}))
        BY <2>2, <3>3 DEF domain_power_up, maskVars
      <4>2. pm'.step = "notify_up" /\ pm'.groups = GroupsIn(up \cup {Dummy})
        BY <3>1, <4>1 DEF PmGoto, IsPm
      <4>3. DomainOf[c] \in pd_mask_current' => c \in pm'.groups
        BY <3>0, <3>1, <4>1, <4>2 DEF GroupsIn
      <4> QED BY <4>2, <4>3 DEF Awaited, PmAt
    <3> QED BY <3>2, <3>3
  <2>3. CASE ~RuntimeSuspend /\ ~domain_power_up
    <3>1. ~PmAt("notify_up")
      <4>1. PmOsSuspend \/ PmOsResume => ~PmAt("notify_up")
        BY DEF PmOsSuspend, PmOsResume, os_suspend, os_resume, Hold, PmFree, Idle, PmAt
      <4>2. GroupPowerDown => ~PmAt("notify_up")
        BY DEF GroupPowerDown, group_power_down, PmAt
      <4>3. PowerStep => ~PmAt("notify_up")
        <5>1. update_work \/ runtime_suspend \/ runtime_resume => pm = Idle
          BY DEF update_work, runtime_suspend, runtime_resume, Hold, PmFree
        <5>2. pm = Idle => ~PmAt("notify_up")
          BY DEF Idle, PmAt
        <5>3. os_resume_return \/ domain_power_down \/ common_suspend => ~PmAt("notify_up")
          BY DEF os_resume_return, domain_power_down, common_suspend, PmAt
        <5> QED BY <2>3, <5>1, <5>2, <5>3 DEF PowerStep
      <4> QED BY <2>3, <4>1, <4>2, <4>3
    <3>2. pd_mask_current' \subseteq pd_mask_current
      <4>1. PmOsSuspend \/ PmOsResume \/ GroupPowerDown => pd_mask_current' = pd_mask_current
        BY DEF PmOsSuspend, PmOsResume, os_suspend, os_resume, GroupPowerDown, group_power_down, maskVars
      <4>2. PowerStep => pd_mask_current' \subseteq pd_mask_current
        BY <2>3 DEF PowerStep, update_work, runtime_suspend, runtime_resume, os_resume_return,
               domain_power_down, common_suspend, maskVars
      <4> QED BY <2>3, <4>1, <4>2
    <3> QED BY <1>2, <3>1, <3>2 DEF Awaited
  <2> QED BY <2>1, <2>2, <2>3 DEF PmOsSuspend, PmOsResume, GroupPowerDown, os_suspend, os_resume, group_power_down,
                                  domain_power_up, Hold, PmFree, Idle, PmAt
<1> QED BY <1>1, <1>2, SteadyPm

LEMMA PowerKept == PowerSame => UNCHANGED <<pd_mask_current, pm>>
BY DEF PowerSame, maskVars

LEMMA ChildFacts ==
  /\ \A c \in Children : c \in PpCore /\ exec_state[c] = "virtual" /\ c \in Group
  /\ \A c \in PpCore : c \in Group /\ c # Gp /\ c # Virtual
BY Groups DEF Children, OnList

\* A step that leaves the virtual group and its children alone.
LEMMA SteadyAside ==
  ASSUME ExecInv, HasVirtual, VirtualSteady, UNCHANGED <<pd_mask_current, pm>>, ~At("suspend_inactive"),
         exec_state'[Virtual] = exec_state[Virtual], group_state'[Virtual] = group_state[Virtual],
         \A c \in Children : exec_state'[c] = "virtual" /\ group_state'[c] = group_state[c],
         \A c \in PpCore : exec_state'[c] # "disabled",
         disable_requested' \cap PpCore = {}
  PROVE  VirtualSteady'
BY SteadyKept

LEMMA SteadySchedule == ASSUME ExecInv, HasVirtual, VirtualSteady, Schedule PROVE VirtualSteady'
<1>1. /\ At("schedule") /\ PowerSame /\ disable_requested' = disable_requested
      /\ exec_state' = exec_state \/ exec_state' = [exec_state EXCEPT ![Gp] = "idle"]
      /\ activate(Gp, {Gp}) \/ group_state' = group_state
  BY DEF Schedule, PowerSame, refVars
<1>2. \A g \in Group \ {Gp} : exec_state'[g] = exec_state[g] /\ group_state'[g] = group_state[g]
  BY <1>1, ActivateWants, Groups DEF ExecInv, ListTypes
<1>3. ~At("suspend_inactive")
  BY <1>1 DEF At
<1> QED BY <1>1, <1>2, <1>3, PowerKept, ChildFacts, Groups, SteadyAside DEF VirtualSteady, NoCoreOff

LEMMA SteadyActivate == ASSUME ExecInv, HasVirtual, VirtualSteady, ActivateInactive PROVE VirtualSteady'
<1>1. PICK c \in local.todo :
        /\ activate(c, {c})
        /\ exec_state' = [exec_state EXCEPT ![c] = "idle"] \/ exec_state' = exec_state
  BY DEF ActivateInactive
<1>2. At("physical") /\ PowerSame /\ disable_requested' = disable_requested /\ ~At("suspend_inactive")
  BY DEF ActivateInactive, PowerSame, At
<1>3. c \in PpCore /\ exec_state[c] = "inactive"
  BY DEF ExecInv, LocalTypes, OnList
<1>4. /\ \A g \in Group \ {c} : exec_state'[g] = exec_state[g] /\ group_state'[g] = group_state[g]
      /\ exec_state'[c] \in {"idle", "inactive"}
  BY <1>1, <1>3, ActivateWants, Groups DEF ExecInv, ListTypes
<1> QED BY <1>2, <1>3, <1>4, PowerKept, ChildFacts, Groups, SteadyAside DEF VirtualSteady, NoCoreOff

LEMMA SteadySteal == ASSUME ExecInv, HasVirtual, VirtualSteady, Steal PROVE VirtualSteady'
<1>1. PICK c \in Children :
        /\ activate(c, {c})
        /\ exec_state' = [exec_state EXCEPT ![c] = IF ActiveAfter(c, {c}) THEN "idle" ELSE "inactive",
                                            ![Virtual] = EmptyWithout({c})]
  BY DEF Steal
<1>2. /\ At("physical") /\ disable_requested' = disable_requested /\ ~At("suspend_inactive")
      /\ group_state[Virtual] # "pending"
  BY DEF Steal, At, may_steal, virtual_group_is_usable
<1>3. /\ \A g \in PpCore \ {c} : exec_state'[g] = exec_state[g]
      /\ exec_state'[c] \in {"idle", "inactive"} /\ exec_state'[Virtual] = EmptyWithout({c})
  BY <1>1, ChildFacts, Groups DEF ExecInv, ListTypes
<1>4. group_state'[Virtual] # "pending"
  BY <1>1, <1>2, ActivateWants, ChildFacts, Groups
<1>5. Inhabited'
  <2>1. Children \ {c} \subseteq Children'
    BY <1>3, ChildFacts DEF Children, OnList
  <2>2. CASE Children \subseteq {c}
    BY <1>3, <2>2 DEF EmptyWithout, Inhabited
  <2>3. CASE ~(Children \subseteq {c})
    BY <2>1, <2>3 DEF Inhabited
  <2> QED BY <2>2, <2>3
<1>6. NoCoreOff'
  BY <1>2, <1>3 DEF VirtualSteady, NoCoreOff
<1> QED BY <1>4, <1>5, <1>6 DEF VirtualSteady, PendingInactive, Awaits

LEMMA SteadyAssign ==
  ASSUME ExecInv, HasVirtual, VirtualSteady, AssignPhysical \/ AssignGp PROVE VirtualSteady'
<1>1. CASE AssignPhysical
  <2>1. PICK c \in OnList("idle") : exec_state' = [exec_state EXCEPT ![c] = "working"]
    BY <1>1 DEF AssignPhysical
  <2>2. /\ PowerSame /\ disable_requested' = disable_requested /\ ~At("suspend_inactive")
        /\ group_state' = group_state
    BY <1>1 DEF AssignPhysical, PowerSame, At, powerVars, refVars
  <2>3. c \in PpCore /\ exec_state[c] = "idle"
    BY DEF OnList
  <2>4. exec_state'[c] = "working" /\ \A g \in Group \ {c} : exec_state'[g] = exec_state[g]
    BY <2>1, <2>3, Groups DEF ExecInv, ListTypes
  <2> QED BY <2>2, <2>3, <2>4, PowerKept, ChildFacts, Groups, SteadyAside DEF VirtualSteady, NoCoreOff
<1>2. CASE AssignGp
  <2>1. PowerSame /\ disable_requested' = disable_requested /\ ~At("suspend_inactive")
    BY <1>2 DEF AssignGp, PowerSame, At
  <2>2. /\ \/ exec_state' = [exec_state EXCEPT ![Gp] = "working"]
           \/ exec_state' = [exec_state EXCEPT ![Gp] = "inactive"]
           \/ exec_state' = exec_state
        /\ group_state' = group_state \/ deactivate({Gp})
    BY <1>2 DEF AssignGp, refVars
  <2>3. \A g \in Group \ {Gp} : exec_state'[g] = exec_state[g] /\ group_state'[g] = group_state[g]
    BY <2>2, DeactivateWants DEF ExecInv, ListTypes
  <2> QED BY <2>1, <2>3, PowerKept, ChildFacts, Groups, SteadyAside DEF VirtualSteady, NoCoreOff
<1> QED BY <1>1, <1>2

\* Groups that rejoin an empty virtual group bring it back.
LEMMA SteadyIdle ==
  ASSUME ExecInv, HasVirtual, VirtualSteady, RejoinIdle \/ SuspendIdle PROVE VirtualSteady'
<1>1. /\ PowerSame /\ disable_requested' = disable_requested /\ ~At("suspend_inactive")
      /\ \E b : deactivate_list_idle(b)
  BY DEF RejoinIdle, SuspendIdle, PowerSame, At
<1>2. PICK C : C = OnList("idle")
  OBVIOUS
<1>3. deactivate(gives_back(C)) /\ exec_state' = Rejoined(C) /\ gives_back(C) \subseteq C
  BY <1>1, <1>2 DEF deactivate_list_idle, gives_back
<1>4. \A c \in C : c \in PpCore /\ exec_state[c] = "idle"
  BY <1>2 DEF OnList
<1>5. \A g \in Group \ C : group_state'[g] = group_state[g]
  BY <1>3, DeactivateWants
<1>6. \A c \in PpCore : exec_state'[c] = IF c \in C THEN "virtual" ELSE exec_state[c]
  BY <1>3, ChildFacts DEF Rejoined
<1>7. exec_state'[Virtual] = exec_state[Virtual] \/ (exec_state[Virtual] = "empty" /\ C # {})
  BY <1>3, <1>4, ChildFacts, Groups DEF Rejoined
<1>8. C # {} => \E c \in PpCore : exec_state'[c] = "virtual"
  BY <1>4, <1>6
<1>9. group_state'[Virtual] = group_state[Virtual]
  BY <1>4, <1>5, ChildFacts, Groups
<1>10. group_state[Virtual] = "pending" => exec_state[Virtual] # "empty"
  BY DEF VirtualSteady, PendingInactive
<1>11. \A c \in Children : c \notin C /\ exec_state'[c] = "virtual" /\ group_state'[c] = group_state[c]
  BY <1>4, <1>5, <1>6, ChildFacts
<1>12. \A c \in PpCore : exec_state'[c] # "disabled"
  BY <1>6 DEF VirtualSteady, NoCoreOff
<1> QED BY <1>1, <1>7, <1>8, <1>9, <1>10, <1>11, <1>12, PowerKept, SteadyKept DEF VirtualSteady, NoCoreOff

LEMMA SteadyAssignVirtual == ASSUME ExecInv, HasVirtual, VirtualSteady, AssignVirtual PROVE VirtualSteady'
<1>1. PowerSame /\ disable_requested' = disable_requested /\ At("assign_virtual") /\ ~At("suspend_inactive")
  BY DEF AssignVirtual, PowerSame, At
<1>2. CASE UNCHANGED <<refVars, exec_state>>
  BY <1>1, <1>2, PowerKept, ChildFacts, SteadyAside DEF VirtualSteady, NoCoreOff, refVars
<1>3. ASSUME VirtualIs("idle"), NEW s \in {"working", "inactive"}, exec_state' = [exec_state EXCEPT ![Virtual] = s],
             group_state'[Virtual] # "pending"
      PROVE  VirtualSteady'
  <2>1. \A c \in PpCore : exec_state'[c] = exec_state[c]
    BY <1>3, ChildFacts
  <2>2. Children # {}
    BY <1>1, <1>3 DEF VirtualSteady, Inhabited, VirtualIs
  <2>3. \E c \in PpCore : exec_state'[c] = "virtual"
    BY <2>1, <2>2, ChildFacts
  <2>4. \A c \in Children : exec_state'[c] = "virtual"
    BY <2>1, ChildFacts
  <2>5. \A c \in PpCore : exec_state'[c] # "disabled"
    BY <2>1 DEF VirtualSteady, NoCoreOff
  <2> QED BY <1>1, <1>3, <2>3, <2>4, <2>5, PowerKept, SteadyKept DEF VirtualSteady, NoCoreOff
<1>4. ASSUME VirtualIs("idle"), exec_state' = [exec_state EXCEPT ![Virtual] = "working"], group_state' = group_state
      PROVE  VirtualSteady'
  <2>1. group_state[Virtual] = "active"
    BY <1>4, Groups DEF ExecInv, ListsMatch, VirtualIs
  <2> QED BY <1>3, <1>4, <2>1
<1>5. ASSUME VirtualIs("idle"), exec_state' = [exec_state EXCEPT ![Virtual] = "inactive"],
             deactivate(WithChildren(Virtual))
      PROVE  VirtualSteady'
  <2>1. group_state'[Virtual] = "inactive"
    BY <1>5, DeactivateWants, Groups DEF WithChildren
  <2> QED BY <1>3, <1>5, <2>1
<1>6. \/ UNCHANGED <<refVars, exec_state>>
      \/ VirtualIs("idle") /\ exec_state' = [exec_state EXCEPT ![Virtual] = "working"] /\ group_state' = group_state
      \/ /\ VirtualIs("idle") /\ exec_state' = [exec_state EXCEPT ![Virtual] = "inactive"]
         /\ deactivate(WithChildren(Virtual))
  BY DEF AssignVirtual, refVars
<1> QED BY <1>2, <1>4, <1>5, <1>6

\* A virtual group whose children all have their power and their domains on has its own.
LEMMA ChildAwaited ==
  ASSUME ExecInv, HasVirtual, PoweredWhole, Children # {}, ~AllOn(WithChildren(Virtual))
  PROVE  \E c \in Children : Awaited(c)
<1> SUFFICES ASSUME \A c \in Children : ~Awaited(c) PROVE FALSE
  OBVIOUS
<1>1. WithChildren(Virtual) = {Virtual} \cup Children /\ WithChildren(Virtual) \in SUBSET Group
  BY WholeGroup
<1>2. ASSUME NEW c \in Children
      PROVE  c \in powered /\ DomainOf[c] \in pd_mask_current /\ L2Of[c] \in pd_mask_current
  <2>1. c \in Core /\ c \in Group
    BY <1>2, ChildFacts DEF Core
  <2>2. DomainOf[c] \in pd_mask_current /\ ~(PmAt("notify_up") /\ c \in pm.groups)
    BY <1>2 DEF Awaited
  <2> QED BY <2>1, <2>2 DEF ExecInv, MasksInStep
<1>3. Virtual \in powered /\ DomainOf[Virtual] \in pd_mask_current
  BY <1>2, GroupDomains DEF PoweredWhole, ExecInv, MasksInStep
<1>4. ASSUME NEW d \in Used(WithChildren(Virtual)) PROVE d \in pd_mask_current
  <2>1. \E g \in WithChildren(Virtual) : Uses(g, d)
    BY <1>1, RefsCount DEF Used
  <2> QED BY <1>1, <1>2, <1>3, <2>1 DEF Uses
<1> QED BY <1>1, <1>2, <1>3, <1>4 DEF AllOn

LEMMA SteadyActivateVirtual ==
  ASSUME ExecInv, HasVirtual, PoweredWhole, VirtualSteady, ActivateVirtual PROVE VirtualSteady'
<1>1. PowerSame /\ disable_requested' = disable_requested /\ At("virtual") /\ ~At("suspend_inactive")
  BY DEF ActivateVirtual, PowerSame, At
<1>2. PICK on \in BOOLEAN : on <=> ActiveAfter(Virtual, WithChildren(Virtual))
  OBVIOUS
<1>3. \/ UNCHANGED <<refVars, exec_state>>
      \/ /\ VirtualIs("inactive") /\ activate(Virtual, WithChildren(Virtual))
         /\ exec_state' = IF on THEN [exec_state EXCEPT ![Virtual] = "idle"] ELSE exec_state
  BY <1>2 DEF ActivateVirtual
<1>4. CASE UNCHANGED <<refVars, exec_state>>
  BY <1>1, <1>4, PowerKept, ChildFacts, SteadyAside DEF VirtualSteady, NoCoreOff, refVars
<1>5. CASE /\ VirtualIs("inactive") /\ activate(Virtual, WithChildren(Virtual))
           /\ exec_state' = IF on THEN [exec_state EXCEPT ![Virtual] = "idle"] ELSE exec_state
  <2>1. Children # {} /\ exec_state[Virtual] = "inactive"
    BY <1>1, <1>5 DEF VirtualSteady, Inhabited, VirtualIs
  <2>2. /\ \A c \in PpCore : exec_state'[c] = exec_state[c]
        /\ exec_state'[Virtual] = IF on THEN "idle" ELSE "inactive"
    BY <1>5, <2>1, ChildFacts, Groups DEF ExecInv, ListTypes
  <2>3. Children' = Children
    BY <2>2 DEF Children, OnList
  <2>4. /\ WithChildren(Virtual) \in SUBSET Group /\ Virtual \in WithChildren(Virtual) /\ Virtual \in Group
        /\ WithChildren(Virtual) = {Virtual} \cup Children
        /\ group_state[Virtual] = "inactive" => \A i \in WithChildren(Virtual) : group_state[i] = "inactive"
    BY WholeGroup, Groups
  <2>5. CASE on
    <3>1. group_state'[Virtual] = "active"
      <4>1. UNCHANGED <<powered, pd_mask_current>>
        BY <1>1 DEF PowerSame, maskVars
      <4> QED BY <1>2, <1>5, <2>4, <2>5, <4>1, ActivateStep DEF ExecInv
    <3> QED BY <1>1, <2>1, <2>2, <2>3, <3>1
            DEF VirtualSteady, PendingInactive, NoCoreOff, Inhabited, Awaits
  <2>6. CASE ~on /\ group_state[Virtual] # "inactive"
    <3>1. group_state' = group_state
      BY <1>5, <2>6 DEF activate, refVars
    <3> QED BY <1>1, <2>1, <2>2, <2>6, <3>1, PowerKept, ChildFacts, SteadyAside DEF VirtualSteady, NoCoreOff
  <2>7. CASE ~on /\ group_state[Virtual] = "inactive"
    <3>1. ~AllOn(WithChildren(Virtual))
      BY <1>2, <2>7 DEF ActiveAfter
    <3>2. PICK c \in Children : Awaited(c)
      BY <2>1, <3>1, ChildAwaited
    <3>3. group_state'[c] = "pending"
      BY <1>5, <2>4, <2>7, <3>1 DEF activate
    <3>4. Awaited(c)'
      BY <1>1, <3>2, PowerKept DEF Awaited, PmAt
    <3> QED BY <1>1, <2>1, <2>2, <2>3, <2>7, <3>3, <3>4
            DEF VirtualSteady, PendingInactive, NoCoreOff, Inhabited, Awaits
  <2> QED BY <2>5, <2>6, <2>7
<1> QED BY <1>3, <1>4, <1>5

\* Steps that leave the groups alone.
LEMMA SteadyQuiet ==
  ASSUME VirtualSteady, ExecInv, HasVirtual,
         \/ ScheduleFromMask \/ Pause \/ ExecutorSuspend \/ ExecutorResume
         \/ (\E s \in Session : AbortExecutor(s)) \/ JobStep
  PROVE  VirtualSteady'
<1>1. UNCHANGED <<powerVars, exec_state, disable_requested>>
  BY DEF ScheduleFromMask, Pause, ExecutorSuspend, ExecutorResume, AbortExecutor, JobStep, executorVars
<1>2. UNCHANGED <<pd_mask_current, pm, group_state>>
  BY <1>1 DEF powerVars, maskVars, refVars
<1>3. CASE At("suspend_inactive")
  <2>1. exec' = exec
    <3>1. exec # <<>>
      BY <1>3 DEF At
    <3> QED BY <3>1 DEF ScheduleFromMask, Pause, ExecutorSuspend, ExecutorResume, AbortExecutor, JobStep,
                executorVars, Free
  <2> QED BY <1>1, <1>2, <2>1 DEF VirtualSteady, PendingInactive, NoCoreOff, Inhabited, Awaits, Awaited,
                               Children, OnList, At, PmAt
<1>4. CASE ~At("suspend_inactive")
  BY <1>1, <1>2, <1>4, ChildFacts, SteadyAside DEF VirtualSteady, NoCoreOff
<1> QED BY <1>3, <1>4

LEMMA SteadyComplete ==
  ASSUME ExecInv, HasVirtual, VirtualSteady, NEW g \in Group, running[g] # NoJob, NEW rest, complete_group(g, rest),
         ~At("suspend_inactive")
  PROVE  VirtualSteady'
<1>1. PICK off : /\ deactivate(off)
                 /\ off = IF ~Paused /\ g \in disable_requested
                          THEN (IF g = Virtual THEN disable_requested \cap Children ELSE {g}) ELSE {}
                 /\ exec_state' = [i \in Group |->
                      IF i \in off THEN "disabled"
                      ELSE IF g = Virtual /\ i = g /\ off # {} /\ Children \subseteq off THEN "empty"
                      ELSE [exec_state EXCEPT ![g] = "idle"][i]]
                 /\ disable_requested' \subseteq disable_requested
                 /\ UNCHANGED <<pd_mask_current, pm>>
  BY DEF complete_group, maskVars
<1>2. /\ off \cap PpCore = {} /\ Virtual \notin off /\ (g = Virtual => off = {})
      /\ disable_requested' \cap PpCore = {}
  <2>1. disable_requested \cap PpCore = {} /\ disable_requested \cap Children = {}
    BY ChildFacts DEF VirtualSteady, NoCoreOff
  <2> QED BY <1>1, <2>1
<1>3. exec_state[g] = "working" /\ group_state[g] = "active"
  BY DEF ExecInv, ListsMatch
<1>4. \A i \in Group \ off : group_state'[i] = group_state[i]
  BY <1>1, DeactivateWants
<1>5. \A i \in Group \ off : exec_state'[i] = IF i = g THEN "idle" ELSE exec_state[i]
  BY <1>1, <1>2 DEF ExecInv, ListTypes
<1>6. \A c \in PpCore : c \in Group \ off /\ exec_state'[c] # "disabled"
  BY <1>2, <1>5, ChildFacts DEF VirtualSteady, NoCoreOff
<1>7. \A c \in Children : exec_state'[c] = "virtual" /\ group_state'[c] = group_state[c]
  BY <1>3, <1>4, <1>5, <1>6, ChildFacts
<1>8. Virtual \in Group \ off /\ group_state'[Virtual] = group_state[Virtual]
  BY <1>2, <1>4, Groups
<1>9. CASE g = Virtual
  <2>1. \E c \in PpCore : exec_state'[c] = "virtual"
    BY <1>3, <1>7, <1>9, ChildFacts DEF VirtualSteady, Inhabited
  <2> QED BY <1>1, <1>2, <1>3, <1>6, <1>7, <1>8, <1>9, <2>1, SteadyKept
<1>10. CASE g # Virtual
  <2>1. exec_state'[Virtual] = exec_state[Virtual]
    BY <1>5, <1>8, <1>10
  <2> QED BY <1>1, <1>2, <1>6, <1>7, <1>8, <2>1, SteadyAside
<1> QED BY <1>9, <1>10

LEMMA SteadyAborts == ASSUME ExecInv, HasVirtual, VirtualSteady, NEW s \in Session, AbortGroup(s) PROVE VirtualSteady'
<1>1. ~At("suspend_inactive")
  BY DEF AbortGroup, At
<1>2. CASE UNCHANGED <<powerVars, exec_state, disable_requested>>
  BY <1>1, <1>2, ChildFacts, SteadyAside DEF powerVars, maskVars, refVars, VirtualSteady, NoCoreOff
<1>3. CASE \E g \in Group : running[g] # NoJob /\ complete_group(g, exec)
  BY <1>1, <1>3, SteadyComplete
<1> QED BY <1>2, <1>3 DEF AbortGroup, RunsFor

\* User space enables and disables the GP group only.
LEMMA SteadySwitch ==
  ASSUME ExecInv, HasVirtual, VirtualSteady, CoresStay, NEW g \in Switchable, GroupEnable(g) \/ GroupDisable(g)
  PROVE  VirtualSteady'
<1>1. g = Gp /\ g \notin Children /\ g # Virtual
  BY ExecutorAssumption, Groups DEF CoresStay
<1>2. PowerSame /\ Free
  BY DEF GroupEnable, GroupDisable, PowerSame
<1>3. disable_requested' \subseteq disable_requested \cup {Gp}
  BY <1>1, Zenon DEF GroupEnable, GroupDisable
<1>4. \A i \in Group \ {Gp} : exec_state'[i] = exec_state[i] /\ group_state'[i] = group_state[i]
  <2>1. CASE GroupEnable(g)
    <3>1. \/ UNCHANGED <<refVars, exec_state>>
          \/ /\ activate(g, {g}) \/ UNCHANGED refVars
             /\ \E s : exec_state' = [exec_state EXCEPT ![g] = s]
      BY <1>1, <2>1, Groups DEF GroupEnable
    <3> QED BY <1>1, <3>1, ActivateWants, Groups DEF refVars, ExecInv, ListTypes
  <2>2. CASE GroupDisable(g)
    <3>1. UNCHANGED <<refVars, exec_state>> \/ disable_internal({g})
      BY <2>2 DEF GroupDisable
    <3>2. CASE disable_internal({g})
      <4>1. exec_state' = Disabled({Gp}) /\ \E off \in SUBSET {Gp} : deactivate(off)
        BY <1>1, <3>2 DEF disable_internal
      <4>2. \A i \in Group \ {Gp} : exec_state'[i] = exec_state[i]
        BY <1>1, <4>1 DEF Disabled
      <4> QED BY <4>1, <4>2, DeactivateWants
    <3> QED BY <3>1, <3>2 DEF refVars
  <2> QED BY <2>1, <2>2
<1>5. ~At("suspend_inactive")
  BY <1>2 DEF Free, At
<1>6. disable_requested' \cap PpCore = {}
  BY <1>3, ChildFacts DEF VirtualSteady, NoCoreOff
<1> QED BY <1>2, <1>4, <1>5, <1>6, PowerKept, ChildFacts, Groups, SteadyAside DEF VirtualSteady, NoCoreOff

LEMMA SteadySuspendGp ==
  ASSUME ExecInv, HasVirtual, VirtualSteady, SuspendGroup("suspend_gp", Gp) PROVE VirtualSteady'
<1>1. /\ PowerSame /\ disable_requested' = disable_requested /\ ~At("suspend_inactive")
      /\ exec_state' = exec_state \/ exec_state' = [exec_state EXCEPT ![Gp] = "inactive"]
      /\ deactivate({Gp}) \/ group_state' = group_state
  BY Groups DEF SuspendGroup, PowerSame, refVars, At, WithChildren
<1>2. \A g \in Group \ {Gp} : exec_state'[g] = exec_state[g] /\ group_state'[g] = group_state[g]
  BY <1>1, DeactivateWants, Groups DEF ExecInv, ListTypes
<1> QED BY <1>1, <1>2, PowerKept, ChildFacts, Groups, SteadyAside DEF VirtualSteady, NoCoreOff

LEMMA SteadySuspendVirtual ==
  ASSUME ExecInv, HasVirtual, VirtualSteady, SuspendGroup("suspend_virtual", Virtual) PROVE VirtualSteady'
<1>1. /\ PowerSame /\ disable_requested' = disable_requested /\ At("suspend_virtual") /\ ~At("suspend_inactive")
      /\ exec' = Tail(exec)
  BY DEF SuspendGroup, PowerSame, At, Continue
<1>2. CASE UNCHANGED <<refVars, exec_state>>
  BY <1>1, <1>2, PowerKept, ChildFacts, SteadyAside DEF VirtualSteady, NoCoreOff, refVars
<1>3. CASE /\ exec_state' = [exec_state EXCEPT ![Virtual] = "inactive"] /\ deactivate(WithChildren(Virtual))
  <2>1. group_state'[Virtual] = "inactive"
    BY <1>3, DeactivateWants, Groups DEF WithChildren
  <2>2. \A c \in PpCore : exec_state'[c] = exec_state[c]
    BY <1>3, ChildFacts
  <2>3. At("suspend_inactive")'
    <3>1. exec \in SuspendPrograms
      <4>1. exec \in Seq(Operation) /\ 1 \in DOMAIN exec /\ exec[1] = "suspend_virtual"
        BY <1>1 DEF ExecInv, LocalTypes, At
      <4>2. Suspends(exec)
        BY <4>1 DEF Suspends, SuspendSteps
      <4> QED BY <4>2 DEF ExecInv, SuspendInOrder
    <3>2. exec = <<"suspend_virtual", "suspend_inactive">>
      BY <1>1, <3>1 DEF SuspendPrograms, At
    <3>3. exec' = <<"suspend_inactive">>
      BY <1>1, <3>2
    <3> QED BY <3>3 DEF At
  <2> QED BY <1>1, <2>1, <2>2, <2>3 DEF VirtualSteady, PendingInactive, NoCoreOff, Inhabited, Awaits
<1> QED BY <1>2, <1>3, Zenon DEF SuspendGroup

LEMMA SteadySuspendInactive ==
  ASSUME ExecInv, SuspendProgress, HasVirtual, VirtualSteady, CoresStay, SuspendInactive PROVE VirtualSteady'
<1>1. /\ PowerSame /\ disable_requested' = disable_requested /\ At("suspend_inactive")
      /\ deactivate(waiting)
      /\ exec_state' = [g \in Group |-> IF g \in OnList("inactive") THEN "virtual" ELSE exec_state[g]]
  BY DEF SuspendInactive, PowerSame
<1>2. group_state[Virtual] = "inactive" /\ ~is_working /\ OnList("idle") = {}
  <2>1. exec \in Seq(Operation) /\ 1 \in DOMAIN exec /\ exec[1] = "suspend_inactive"
    BY <1>1 DEF ExecInv, LocalTypes, At
  <2>2. Suspends(exec)
    BY <2>1 DEF Suspends, SuspendSteps
  <2> QED BY <1>1, <2>2 DEF ExecInv, SuspendInOrder, SuspendProgress
<1>3. Virtual \in Group /\ Virtual \notin waiting
  BY ChildFacts, Groups DEF waiting, OnList
<1>4. group_state'[Virtual] = "inactive"
  BY <1>1, <1>2, <1>3, DeactivateWants
<1>5. ASSUME NEW c \in PpCore PROVE exec_state'[c] = "virtual"
  <2>1. c \in Group /\ c \in Core /\ exec_state[c] \notin {"idle", "working", "disabled", "empty"}
    BY <1>2, ChildFacts DEF OnList, is_working, VirtualSteady, NoCoreOff, ExecInv, ListTypes, Core
  <2>2. exec_state[c] \in {"virtual", "inactive"}
    BY <2>1 DEF ExecInv, ListTypes
  <2> QED BY <1>1, <2>1, <2>2 DEF OnList
<1>6. \E c \in PpCore : exec_state'[c] = "virtual"
  BY <1>5 DEF CoresStay
<1> QED BY <1>1, <1>4, <1>5, <1>6, ChildFacts, PowerKept, SteadyKept DEF VirtualSteady, NoCoreOff

\* A child that has no power yet has its notification to come; with the power of all the virtual
\* group is active.
LEMMA SteadyPowerUp == ASSUME ExecInv, HasVirtual, VirtualSteady, GroupPowerUp PROVE VirtualSteady'
<1> DEFINE awaited  == {g \in pm.groups : group_state[g] = "pending" /\ StateOf(g) = "inactive"}
           physical == awaited \ (Children \cup {Virtual})
           try      == HasVirtual /\ awaited \cap Children # {} /\ group_state[Virtual] = "pending"
           whole    == Children \subseteq powered'
<1>1. /\ pm.step = "notify_up" /\ ~At("suspend_inactive") /\ powered' = powered \cup pm.groups
      /\ UNCHANGED <<pd_mask_current, disable_requested>>
      /\ pm'.step # "notify_up"
  <2>1. \E step \in {"down", "notified"} : pm' = [pm EXCEPT !.step = step, !.groups = {}]
    BY DEF GroupPowerUp, PmGoto
  <2>2. pm'.step # "notify_up"
    BY <2>1 DEF ExecInv, PowerTypes, IsPm
  <2> QED BY <2>2 DEF GroupPowerUp, PmAt, maskVars, Free, At
<1>2. PICK part \in SUBSET (Children \cap powered') :
        /\ IF try THEN (whole => part = Children) ELSE part = {}
        /\ LET active == physical \cup part \cup (IF try /\ whole THEN {Virtual} ELSE {})
           IN  /\ group_state' = [g \in Group |-> IF g \in active THEN "active" ELSE group_state[g]]
               /\ exec_state' = [g \in Group |-> IF g \in active \ Children THEN "idle"
                                                 ELSE exec_state[g]]
  BY DEF GroupPowerUp
<1> DEFINE active == physical \cup part \cup (IF try /\ whole THEN {Virtual} ELSE {})
<1>3. /\ group_state' = [g \in Group |-> IF g \in active THEN "active" ELSE group_state[g]]
      /\ exec_state' = [g \in Group |-> IF g \in active \ Children THEN "idle" ELSE exec_state[g]]
  BY <1>2
<1>4. /\ Virtual \in active <=> try /\ whole
      /\ \A c \in Children : c \in active <=> c \in part
      /\ Virtual \in Group /\ \A c \in Children : c \in Group
  BY ChildFacts, Groups
<1> HIDE DEF active
<1>5. Children' = Children
  BY <1>3, ChildFacts, Groups DEF Children, OnList
<1>6. NoCoreOff'
  BY <1>1, <1>3, ChildFacts DEF VirtualSteady, NoCoreOff
<1>7. PendingInactive'
  BY <1>3, <1>4 DEF VirtualSteady, PendingInactive
<1>8. Inhabited'
  <2>1. CASE Virtual \in active
    BY <1>4, <1>5, <2>1 DEF Inhabited
  <2>2. CASE Virtual \notin active
    BY <1>1, <1>3, <1>4, <1>5, <2>2 DEF VirtualSteady, Inhabited
  <2> QED BY <2>1, <2>2
<1>9. Awaits'
  <2> SUFFICES ASSUME group_state'[Virtual] = "pending"
               PROVE  \E c \in Children : group_state'[c] = "pending" /\ DomainOf[c] \notin pd_mask_current
    BY <1>1, <1>5 DEF Awaits, Awaited
  <2>1. group_state[Virtual] = "pending" /\ exec_state[Virtual] = "inactive" /\ ~(try /\ whole)
    BY <1>3, <1>4 DEF VirtualSteady, PendingInactive
  <2>2. PICK c \in Children : group_state[c] = "pending" /\ Awaited(c)
    BY <2>1 DEF VirtualSteady, Awaits
  <2>3. CASE try
    <3>1. PICK b \in Children : b \notin powered'
      BY <2>1, <2>3
    <3>2. b \notin part /\ b \in Group /\ DomainOf[b] \notin pd_mask_current
      BY <1>1, <1>4, <3>1 DEF ExecInv, MasksInStep
    <3>3. group_state[b] = "pending"
      <4>1. group_state[b] # "inactive" /\ group_state[b] # "active"
        BY <1>1, <2>1, <3>1, <3>2 DEF ExecInv, VirtualInStep, ActiveOn
      <4> QED BY <3>2, <4>1 DEF ExecInv, PowerTypes
    <3> QED BY <1>3, <1>4, <3>2, <3>3
  <2>4. CASE ~try
    <3>1. c \notin part
      BY <1>2, <2>4
    <3>2. c \notin pm.groups
      <4>1. StateOf(c) = "inactive"
        BY <2>1 DEF StateOf
      <4>2. c \in pm.groups => c \in awaited
        BY <2>2, <4>1
      <4> QED BY <2>1, <2>4, <4>2
    <3> QED BY <1>3, <1>4, <2>2, <3>1, <3>2 DEF Awaited
  <2> QED BY <2>3, <2>4
<1> QED BY <1>6, <1>7, <1>8, <1>9 DEF VirtualSteady

LEMMA SteadyReturn == ASSUME ExecInv, HasVirtual, VirtualSteady, PowerUpReturn PROVE VirtualSteady'
<1>1. /\ PmAt("notified") /\ ~At("suspend_inactive")
      /\ UNCHANGED <<group_state, exec_state, disable_requested, pd_mask_current>>
  BY DEF PowerUpReturn, refVars, maskVars, At
<1>2. Children' = Children
  BY <1>1 DEF Children, OnList
<1> QED BY <1>1, <1>2 DEF VirtualSteady, PendingInactive, NoCoreOff, Inhabited, Awaits, Awaited, PmAt

LEMMA SteadyNext ==
  ASSUME ExecInv, SuspendProgress, HasVirtual, PoweredWhole, VirtualSteady, CoresStay, Next PROVE VirtualSteady'
<1>1. CASE ScheduleStep
  BY <1>1, SteadySchedule, SteadyActivate, SteadySteal, SteadyAssign, SteadyIdle, SteadyActivateVirtual,
     SteadyAssignVirtual DEF ScheduleStep
<1>2. ASSUME NEW g \in Group, CompleteGroup(g) PROVE VirtualSteady'
  BY <1>2, SteadyComplete DEF CompleteGroup, Free, At
<1>3. CASE SuspendIdle \/ SuspendGroup("suspend_gp", Gp) \/ SuspendGroup("suspend_virtual", Virtual) \/ SuspendInactive
  BY <1>3, SteadyIdle, SteadySuspendGp, SteadySuspendVirtual, SteadySuspendInactive
<1>4. CASE GroupPowerUp \/ PowerUpReturn \/ GroupPowerDown
  BY <1>4, SteadyPowerUp, SteadyReturn, SteadyPower
<1>5. ASSUME NEW s \in Session, AbortExecutor(s) \/ AbortGroup(s) PROVE VirtualSteady'
  BY <1>5, SteadyQuiet, SteadyAborts
<1>6. ASSUME NEW g \in Switchable, GroupEnable(g) \/ GroupDisable(g) PROVE VirtualSteady'
  BY <1>6, SteadySwitch
<1> QED BY <1>1, <1>2, <1>3, <1>4, <1>5, <1>6, SteadyQuiet, SteadyPower DEF Next

LEMMA AwaitInvNext == ASSUME AwaitInv, CoresStay, Next PROVE AwaitInv'
<1>1. ExecInv' /\ SuspendProgress'
  BY ExecInvNext, ProgressOther, ProgressSuspend DEF AwaitInv
<1>2. HasVirtual => PoweredWhole' /\ VirtualSteady'
  BY SteadyNext, PoweredWholeNext DEF AwaitInv
<1> QED BY <1>1, <1>2 DEF AwaitInv

LEMMA AwaitInvStutter == ASSUME AwaitInv, UNCHANGED vars PROVE AwaitInv'
<1>1. /\ UNCHANGED <<powerVars, exec_state, disable_requested, exec>>
      /\ UNCHANGED <<powered, pd_mask_current, pm, group_state>>
  BY DEF vars, executorVars, powerVars, maskVars, refVars
<1>2. ExecInv' /\ SuspendProgress'
  BY <1>1, ExecInvStutter, ProgressSame DEF AwaitInv
<1>3. VirtualSteady => VirtualSteady'
  BY <1>1 DEF VirtualSteady, PendingInactive, NoCoreOff, Inhabited, Awaits, Awaited, Children, OnList, At, PmAt
<1> QED BY <1>1, <1>2, <1>3 DEF AwaitInv, PoweredWhole

LEMMA AwaitInvInit == ASSUME Init, CoresStay PROVE AwaitInv
<1>1. /\ exec = <<>> /\ powered = {} /\ disable_requested = {}
      /\ exec_state = [g \in Group |-> IF g \in PpCore /\ HasVirtual THEN "virtual" ELSE "inactive"]
      /\ group_state = [g \in Group |-> "inactive"]
  BY DEF Init, PowerInit, ExecutorInit
<1>2. ExecInv /\ SuspendProgress
  BY <1>1, ExecInvInit DEF SuspendProgress, At
<1>3. ASSUME HasVirtual PROVE VirtualSteady
  <2>1. \A c \in PpCore : c \in Group /\ exec_state[c] = "virtual"
    BY <1>1, <1>3, Groups
  <2>2. Virtual \in Group /\ group_state[Virtual] = "inactive" /\ Children # {}
    BY <1>1, <1>3, <2>1, Groups DEF CoresStay, Children, OnList
  <2> QED BY <1>1, <2>1, <2>2 DEF VirtualSteady, PendingInactive, NoCoreOff, Inhabited, Awaits
<1> QED BY <1>1, <1>2, <1>3 DEF AwaitInv, PoweredWhole

\* A virtual group that waits for its power has a child whose power up or whose notification is
\* still to come, as mali_group_activate assumes (mali_group.c:308), in any order of activations,
\* work items, suspends and resumes and with any number of cores, as long as user space does not
\* disable the cores that it waits for.
THEOREM VirtualAwaitedCorrect == ASSUME CoresStay PROVE Spec => []VirtualIsAwaited
<1>1. Init => AwaitInv
  BY AwaitInvInit
<1>2. AwaitInv /\ [Next]_vars => AwaitInv'
  BY AwaitInvNext, AwaitInvStutter
<1>3. AwaitInv => VirtualIsAwaited
  BY DEF AwaitInv, VirtualSteady, Awaits, VirtualIsAwaited
<1> QED BY <1>1, <1>2, <1>3, PTL DEF Spec
================================================================================
