------------------------------- MODULE MaliPower -------------------------------
(***************************************************************************)
(* Power management (mali_pm.c, mali_pm_domain.c) and the power state of   *)
(* the groups (mali_group.c).                                              *)
(*                                                                         *)
(* A group that is activated takes a reference on its power domain and on  *)
(* that of its L2 cache; the domains with references are wanted.  One      *)
(* thread at a time, the holder of pm_lock_exec, makes the current domains *)
(* follow the wanted ones.  It drops pm_lock_state before it tells the     *)
(* executor about the groups concerned, so that references come and go     *)
(* between the two: pm remembers where the holder is.                      *)
(*                                                                         *)
(* mali_pmu is taken to exist; L2 caches have no state of their own here.  *)
(***************************************************************************)
EXTENDS Integers, FiniteSetsExt

CONSTANTS
  PpCore,     \* groups of one physical PP core
  Gp,         \* gp_group
  Virtual,    \* virtual_group
  HasVirtual, \* mali_executor_has_virtual_group: Mali-450 and Mali-470
  Domain,
  Dummy,      \* the domain that is powered by runtime PM
  DomainOf,   \* group->pm_domain
  L2Of        \* the domain of the L2 cache of a group

Group == PpCore \cup {Gp} \cup (IF HasVirtual THEN {Virtual} ELSE {})

ASSUME PowerAssumption ==
  /\ IsFiniteSet(PpCore) /\ Gp \notin PpCore /\ Virtual \notin PpCore \cup {Gp}
  /\ HasVirtual \in BOOLEAN
  /\ Dummy \in Domain
  /\ DomainOf \in [Group -> Domain]
  /\ L2Of \in [PpCore \cup {Gp} -> Domain]

\* The wiring of mali_pm_set_default_pm_domain_config: who keeps the domain of a
\* group on also keeps the domain of its L2 cache on.
ASSUME WiringAssumption ==
  /\ HasVirtual => DomainOf[Virtual] = Dummy
  /\ \A g \in PpCore \cup {Gp} : DomainOf[g] = Dummy => L2Of[g] = Dummy
  /\ \A g, h \in PpCore \cup {Gp} :
       DomainOf[g] \in {DomainOf[h], L2Of[h]} => L2Of[g] \in {Dummy, DomainOf[h], L2Of[h]}

VARIABLES
  group_state,      \* group->state: "inactive", "pending" or "active"
  powered,          \* groups with power_is_on
  use_count,        \* references on each domain
  pd_mask_wanted,
  pd_mask_current,  \* also the domains with power_is_on
  pmu_mask_current,
  runtime_active,   \* mali_pm_runtime_active
  rpm,              \* runtime PM of the kernel: "suspended", "resuming",
                    \* "active" or "suspending"
  pm_work,          \* mali_pm_update_work is scheduled
  pm                \* the holder of pm_lock_exec: its operation ("none"), its
                    \* next step, and the groups to notify

refVars   == <<group_state, use_count, pd_mask_wanted>>
maskVars  == <<pd_mask_current, pmu_mask_current>>
powerVars == <<refVars, maskVars, powered, runtime_active, rpm, pm_work, pm>>

(***************************************************************************)
(* Activation of a group.  S is the group, with its children if virtual;   *)
(* the virtual group takes no reference for an L2 cache of its own.        *)
(***************************************************************************)
Refs(S, d) == Cardinality({g \in S : DomainOf[g] = d})
                + Cardinality({g \in S \ {Virtual} : L2Of[g] = d})
Used(S)    == {d \in Domain : Refs(S, d) > 0}

\* (mutant: without the group's own flag)
AllOnMasks(S) == Used(S) \subseteq pd_mask_current

\* (mutant: without the domains)
AllOnGroups(S) == S \subseteq powered

\* the references a group takes find everything powered
AllOn(S) == Used(S) \subseteq pd_mask_current /\ S \subseteq powered

\* (mutant: a pending group takes references again)
activate_again(g, S) ==
  /\ group_state' = [i \in Group |-> IF i \notin S THEN group_state[i]
                                   ELSE IF AllOn(S) THEN "active" ELSE "pending"]
  /\ use_count' = [d \in Domain |-> use_count[d] + Refs(S, d)]
  /\ pd_mask_wanted' = pd_mask_wanted \cup Used(S)

activate(g, S) ==
  IF group_state[g] = "inactive"
  THEN /\ group_state' = [i \in Group |-> IF i \notin S THEN group_state[i]
                                          ELSE IF AllOn(S) THEN "active" ELSE "pending"]
       /\ use_count' = [d \in Domain |-> use_count[d] + Refs(S, d)]
       /\ pd_mask_wanted' = pd_mask_wanted \cup Used(S)
  ELSE UNCHANGED refVars

\* the state mali_group_activate returns
ActiveAfter(g, S) == group_state[g] = "active" \/ (group_state[g] = "inactive" /\ AllOn(S))

\* the domains that lose their last reference with S
Unwanted(S) == {d \in Used(S) : use_count[d] = Refs(S, d)}

deactivate(S) ==
  /\ group_state' = [i \in Group |-> IF i \in S THEN "inactive" ELSE group_state[i]]
  /\ use_count' = [d \in Domain |-> use_count[d] - Refs(S, d)]
  /\ pd_mask_wanted' = pd_mask_wanted \ Unwanted(S)

(***************************************************************************)
(* The holder of pm_lock_exec.                                             *)
(***************************************************************************)
GroupsIn(D) == {g \in Group : DomainOf[g] \in D}
Idle        == [op |-> "none", step |-> "none", groups |-> {}]
PmFree      == pm = Idle
Hold(op, step) == PmFree /\ pm' = [op |-> op, step |-> step, groups |-> {}]
PmAt(step)  == pm.step = step
PmGoto(step, groups) == pm' = [pm EXCEPT !.step = step, !.groups = groups]

\* return from the operation and release pm_lock_exec
PmReturn(suspended) ==
  /\ pm' = Idle
  /\ rpm' = IF pm.op = "runtime_resume" THEN "active"
            ELSE IF pm.op # "runtime_suspend" THEN rpm
            ELSE IF suspended THEN "suspended" ELSE "active"
  /\ runtime_active' = (runtime_active /\ ~(suspended /\ pm.op = "runtime_suspend"))

update_work ==
  /\ pm_work /\ pm_work' = FALSE
  /\ IF runtime_active THEN Hold("work", "up") ELSE PmFree /\ UNCHANGED pm
  /\ UNCHANGED <<refVars, maskVars, powered, runtime_active, rpm>>

runtime_suspend ==
  /\ rpm = "suspending" /\ Hold("runtime_suspend", "suspend")
  /\ UNCHANGED <<refVars, maskVars, powered, runtime_active, rpm, pm_work>>

\* (mutant: leaves the power up to an update that was already lost)
runtime_resume_only ==
  /\ rpm = "suspended" /\ Hold("runtime_resume", "return")
  /\ rpm' = "resuming"
  /\ runtime_active' = TRUE
  /\ pmu_mask_current' = Domain \ {Dummy}
  /\ UNCHANGED <<refVars, pd_mask_current, powered, pm_work>>

\* others than the driver may resume the device, so this needs no reference
runtime_resume ==
  /\ rpm = "suspended" /\ Hold("runtime_resume", "up")
  /\ rpm' = "resuming"
  /\ runtime_active' = TRUE
  /\ pmu_mask_current' = Domain \ {Dummy}
  /\ UNCHANGED <<refVars, pd_mask_current, powered, pm_work>>

os_suspend ==
  /\ Hold("os_suspend", "suspend")
  /\ UNCHANGED <<refVars, maskVars, powered, runtime_active, rpm, pm_work>>

os_resume ==
  /\ IF runtime_active
     THEN /\ Hold("os_resume", "up")
          /\ pmu_mask_current' = Domain \ {Dummy}
     ELSE /\ Hold("os_resume", "return")
          /\ UNCHANGED pmu_mask_current
  /\ UNCHANGED <<refVars, pd_mask_current, powered, runtime_active, rpm, pm_work>>

os_resume_return == PmAt("return") /\ PmReturn(FALSE)
                      /\ UNCHANGED <<refVars, maskVars, powered, pm_work>>

\* mali_pm_update_sync_internal, up to the notification of the executor
domain_power_up ==
  /\ PmAt("up")
  /\ LET up == pd_mask_wanted \ pd_mask_current
     IN  IF up = {}
         THEN PmGoto("down", {}) /\ UNCHANGED maskVars
         ELSE /\ pd_mask_current' = pd_mask_current \cup up \cup {Dummy}
              /\ pmu_mask_current' = pmu_mask_current \cup (up \ {Dummy})
              /\ PmGoto("notify_up", GroupsIn(up \cup {Dummy}))
  /\ UNCHANGED <<refVars, powered, runtime_active, rpm, pm_work>>

\* its second half: the Dummy domain stays on until a suspend
domain_power_down ==
  /\ PmAt("down")
  /\ LET down == (pd_mask_current \ pd_mask_wanted) \ {Dummy}
     IN  IF down = {}
         THEN /\ pmu_mask_current' = pmu_mask_current \cap pd_mask_current
              /\ PmReturn(FALSE)
              /\ UNCHANGED pd_mask_current
         ELSE /\ pd_mask_current' = pd_mask_current \ down
              /\ PmGoto("notify_down", GroupsIn(down))
              /\ UNCHANGED <<pmu_mask_current, rpm, runtime_active>>
  /\ UNCHANGED <<refVars, powered, pm_work>>

\* a runtime suspend that fails makes up for a power up that was lost; an OS
\* suspend ignores the failure
suspend_fails ==
  \/ pm.op = "runtime_suspend" /\ PmGoto("up", {}) /\ UNCHANGED <<rpm, runtime_active>>
  \/ pm.op = "os_suspend" /\ PmReturn(FALSE)

\* mali_pm_common_suspend
common_suspend ==
  /\ PmAt("suspend")
  /\ \/ /\ pd_mask_wanted # {}
        /\ suspend_fails
        /\ UNCHANGED pd_mask_current
     \/ /\ pd_mask_wanted = {} /\ pd_mask_current = {}
        /\ PmReturn(TRUE) /\ UNCHANGED pd_mask_current
     \/ /\ pd_mask_wanted = {} /\ pd_mask_current # {}
        /\ pd_mask_current' = {}
        /\ PmGoto("notify_suspend", GroupsIn(pd_mask_current))
        /\ UNCHANGED <<rpm, runtime_active>>
  /\ UNCHANGED <<refVars, pmu_mask_current, powered, pm_work>>

\* the executor has told the groups of pm that they lose their power
group_power_down ==
  /\ pm.step \in {"notify_down", "notify_suspend"}
  /\ powered' = powered \ pm.groups
  /\ pmu_mask_current' = IF PmAt("notify_down") THEN pmu_mask_current \cap pd_mask_current ELSE {}
  /\ PmReturn(PmAt("notify_suspend"))
  /\ UNCHANGED <<refVars, pd_mask_current, pm_work>>

PowerInit ==
  /\ group_state = [g \in Group |-> "inactive"]
  /\ powered = {}
  /\ use_count = [d \in Domain |-> 0]
  /\ pd_mask_wanted = {} /\ pd_mask_current = {} /\ pmu_mask_current = {}
  /\ runtime_active = FALSE /\ rpm = "suspended"
  /\ pm_work = FALSE /\ pm = Idle
================================================================================
