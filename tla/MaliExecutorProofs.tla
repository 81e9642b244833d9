-------------------------- MODULE MaliExecutorProofs --------------------------
(***************************************************************************)
(* Power management with any number of cores, domains and jobs: the        *)
(* references on the power domains are exact, a job runs only on hardware  *)
(* that is on, and only hardware that is not in use is powered down.       *)
(*                                                                         *)
(* The inductive invariant ExecInv relates what the executor, the groups   *)
(* and power management each remember of a group: the list it is on, its   *)
(* state, its references, and how far the holder of pm_lock_exec got.      *)
(***************************************************************************)
EXTENDS MaliExecutor, TLAPS, FiniteSetTheorems

Core    == PpCore \cup {Gp}
Held    == {g \in Group : group_state[g] # "inactive"}
GoesOff == pm.step \in {"notify_down", "notify_suspend"}

IsPm(p) == p = [op |-> p.op, step |-> p.step, groups |-> p.groups] /\ p.groups \subseteq Group

PowerTypes ==
  /\ group_state \in [Group -> {"inactive", "pending", "active"}]
  /\ powered \subseteq Group
  /\ use_count \in [Domain -> Int]
  /\ pd_mask_wanted \subseteq Domain
  /\ pd_mask_current \subseteq Domain
  /\ pmu_mask_current \subseteq Domain
  /\ runtime_active \in BOOLEAN
  /\ rpm \in {"suspended", "resuming", "active", "suspending"}
  /\ IsPm(pm)

SuspendSteps == {"suspend_idle", "suspend_gp", "suspend_virtual", "suspend_inactive"}
OtherStep    == {"schedule", "power_up", "abort", "physical", "virtual", "assign_virtual", "assign_gp"}
Operation    == SuspendSteps \cup OtherStep

ListTypes ==
  /\ exec_state \in [Group -> {"virtual", "disabled", "empty", "inactive", "idle", "working"}]
  /\ \A g \in Core : exec_state[g] # "empty"
  /\ exec_state[Gp] # "virtual"
  /\ HasVirtual => exec_state[Virtual] \notin {"virtual", "disabled"}
  /\ ~HasVirtual => Children = {}

RunTypes ==
  /\ running = [g \in Group |-> running[g]]
  /\ disable_requested \subseteq Group

IsLocal(l) ==
  l = [needed |-> l.needed, process |-> l.process, trigger |-> l.trigger, todo |-> l.todo]

LocalTypes ==
  /\ IsLocal(local) /\ local.todo \subseteq OnList("inactive")
  /\ exec \in Seq(Operation)

\* A group that is to be used is active, a disabled one is not, and a core that
\* waits on the inactive list is at most pending.
ListsMatch ==
  \A g \in Group :
    /\ running[g] # NoJob => exec_state[g] = "working"
    /\ exec_state[g] \in {"idle", "working"} => group_state[g] = "active"
    /\ exec_state[g] = "disabled" => group_state[g] = "inactive"
    /\ g # Virtual /\ exec_state[g] = "inactive" => group_state[g] # "active"

\* The virtual group is active only with all its children.
VirtualWhole ==
  (HasVirtual /\ group_state[Virtual] = "active") => \A c \in Children : group_state[c] = "active"

Suspends(s)  == \E i \in DOMAIN s : s[i] \in SuspendSteps

SuspendPrograms ==
  {<<"suspend_idle", "suspend_gp", "suspend_virtual", "suspend_inactive">>,
   <<"suspend_gp", "suspend_virtual", "suspend_inactive">>,
   <<"suspend_virtual", "suspend_inactive">>, <<"suspend_inactive">>}

\* What the holder of the lock still has to do when it suspends the device; no group
\* works then, and the last step finds the virtual group inactive.
SuspendInOrder ==
  /\ Suspends(exec) => exec \in SuspendPrograms /\ ~is_working
  /\ At("suspend_inactive") /\ HasVirtual => group_state[Virtual] = "inactive"

\* An active group is powered, with its domain and that of its L2 cache.
ActiveOn ==
  \A g \in Group : group_state[g] = "active" =>
    /\ g \in powered /\ DomainOf[g] \in pd_mask_current
    /\ g # Virtual => L2Of[g] \in pd_mask_current

\* Where the domains and the groups stand while the power changes.
MasksInStep ==
  /\ pd_mask_current # {} => Dummy \in pd_mask_current
  /\ \A g \in Core : DomainOf[g] \in pd_mask_current => L2Of[g] \in pd_mask_current
  /\ pd_mask_current \ {Dummy} \subseteq pmu_mask_current
  /\ \A g \in powered : DomainOf[g] \in pd_mask_current \/ (GoesOff /\ g \in pm.groups)
  /\ \A g \in Group : DomainOf[g] \in pd_mask_current =>
       g \in powered \/ (PmAt("notify_up") /\ g \in pm.groups)
  /\ PmAt("notify_up") => \A g \in pm.groups : DomainOf[g] \in pd_mask_current
  /\ PmAt("notify_up") /\ HasVirtual => Virtual \in pm.groups
  /\ GoesOff => \A g \in pm.groups : DomainOf[g] \notin pd_mask_current /\ g \in powered
  /\ PmAt("notify_suspend") => pd_mask_current = {}

\* mali_pm_runtime_active is set while a domain is on or about to be.
RuntimeActive ==
  (\/ pd_mask_current # {} \/ rpm # "suspended"
   \/ pm.op \in {"runtime_suspend", "runtime_resume"}
   \/ pm.step \in {"up", "notify_up", "notified", "down", "notify_down"}) => runtime_active

ExecInv ==
  /\ PowerTypes /\ ListTypes /\ RunTypes /\ LocalTypes
  /\ RefsExact /\ VirtualInStep
  /\ ListsMatch /\ VirtualWhole /\ SuspendInOrder
  /\ ActiveOn /\ MasksInStep /\ RuntimeActive

------------------------------------------------------------------------------
(* References                                                                *)

Uses(g, d) == DomainOf[g] = d \/ (g # Virtual /\ L2Of[g] = d)

LEMMA GroupFinite == IsFiniteSet(Group)
<1>1. IsFiniteSet(PpCore \cup {Gp})
  BY FS_AddElement, PowerAssumption
<1>2. IsFiniteSet(PpCore \cup {Gp} \cup {Virtual})
  BY <1>1, FS_AddElement
<1> QED BY <1>2, FS_Subset DEF Group

\* The references of a set of groups are counted by natural numbers.
LEMMA RefsCount ==
  ASSUME NEW S \in SUBSET Group, NEW d
  PROVE  /\ Refs(S, d) \in Nat
         /\ Refs(S, d) > 0 <=> \E g \in S : Uses(g, d)
<1> DEFINE A == {g \in S : DomainOf[g] = d}
           B == {g \in S \ {Virtual} : L2Of[g] = d}
<1>1. IsFiniteSet(A) /\ IsFiniteSet(B)
  BY GroupFinite, FS_Subset
<1>2. /\ Cardinality(A) \in Nat /\ (Cardinality(A) = 0 <=> A = {})
      /\ Cardinality(B) \in Nat /\ (Cardinality(B) = 0 <=> B = {})
  BY <1>1, FS_CardinalityType, FS_EmptySet
<1>3. Refs(S, d) = Cardinality(A) + Cardinality(B)
  BY DEF Refs
<1>4. (A # {} \/ B # {}) <=> \E g \in S : Uses(g, d)
  BY DEF Uses
<1> HIDE DEF A, B
<1> QED BY <1>2, <1>3, <1>4

LEMMA DisjointCount ==
  ASSUME NEW A, NEW B, IsFiniteSet(A), IsFiniteSet(B), A \cap B = {}
  PROVE  Cardinality(A \cup B) = Cardinality(A) + Cardinality(B)
<1>1. Cardinality(A \cup B) = Cardinality(A) + Cardinality(B) - Cardinality(A \cap B)
  BY FS_Union
<1>2. Cardinality(A \cap B) = 0 /\ Cardinality(A) \in Nat /\ Cardinality(B) \in Nat
  BY FS_EmptySet, FS_CardinalityType
<1> QED BY <1>1, <1>2

\* Disjoint sets of groups add up.
LEMMA RefsUnion ==
  ASSUME NEW S \in SUBSET Group, NEW T \in SUBSET Group, S \cap T = {}, NEW d
  PROVE  Refs(S \cup T, d) = Refs(S, d) + Refs(T, d)
<1> DEFINE A(X) == {g \in X : DomainOf[g] = d}
           B(X) == {g \in X \ {Virtual} : L2Of[g] = d}
<1>1. \A X \in SUBSET Group : IsFiniteSet(A(X)) /\ IsFiniteSet(B(X))
  BY GroupFinite, FS_Subset
<1>2. /\ A(S \cup T) = A(S) \cup A(T) /\ A(S) \cap A(T) = {}
      /\ B(S \cup T) = B(S) \cup B(T) /\ B(S) \cap B(T) = {}
  OBVIOUS
<1>3. \A X \in SUBSET Group : Cardinality(A(X)) \in Nat /\ Cardinality(B(X)) \in Nat
  BY <1>1, FS_CardinalityType
<1>4. \A X : Refs(X, d) = Cardinality(A(X)) + Cardinality(B(X))
  BY DEF Refs
<1> HIDE DEF A, B
<1>5. Cardinality(A(S \cup T)) = Cardinality(A(S)) + Cardinality(A(T))
  BY <1>1, <1>2, DisjointCount
<1>6. Cardinality(B(S \cup T)) = Cardinality(B(S)) + Cardinality(B(T))
  BY <1>1, <1>2, DisjointCount
<1> QED BY <1>3, <1>4, <1>5, <1>6

\* RefsExact depends only on which groups are inactive.
LEMMA SameHeld ==
  ASSUME RefsExact, UNCHANGED <<use_count, pd_mask_wanted>>, Held' = Held
  PROVE  RefsExact'
BY DEF RefsExact, Held, Refs

\* Taking the references of inactive groups keeps the counts exact.
LEMMA RefsTaken ==
  ASSUME PowerTypes, RefsExact, NEW S \in SUBSET Group, S \cap Held = {}, Held' = Held \cup S,
         use_count' = [d \in Domain |-> use_count[d] + Refs(S, d)],
         pd_mask_wanted' = pd_mask_wanted \cup Used(S)
  PROVE  RefsExact'
<1>1. ASSUME NEW d \in Domain PROVE use_count'[d] = Refs(Held \cup S, d)
  <2>1. use_count[d] = Refs(Held, d) /\ Held \in SUBSET Group
    BY DEF RefsExact, Held
  <2>2. Refs(Held \cup S, d) = Refs(Held, d) + Refs(S, d)
    BY <2>1, RefsUnion
  <2>3. use_count'[d] = use_count[d] + Refs(S, d)
    OBVIOUS
  <2> QED BY <2>1, <2>2, <2>3
<1>2. ASSUME NEW d \in Domain PROVE (d \in pd_mask_wanted') <=> use_count'[d] > 0
  <2>1. Refs(S, d) \in Nat /\ Refs(Held, d) \in Nat
    BY RefsCount DEF Held
  <2>2. use_count[d] = Refs(Held, d)
    BY DEF RefsExact, Held
  <2> QED BY <2>1, <2>2 DEF RefsExact, Used
<1>3. pd_mask_wanted' \subseteq Domain
  BY DEF PowerTypes, Used
<1>4. \A d \in Domain : use_count'[d] = Refs(Held', d)
  BY <1>1
<1> QED BY <1>2, <1>3, <1>4 DEF RefsExact, Held, Refs

\* Giving back the references of groups that hold them keeps the counts exact.
LEMMA RefsGiven ==
  ASSUME PowerTypes, RefsExact, NEW S \in SUBSET Held, Held' = Held \ S,
         use_count' = [d \in Domain |-> use_count[d] - Refs(S, d)],
         pd_mask_wanted' = pd_mask_wanted \ Unwanted(S)
  PROVE  RefsExact'
<1>1. ASSUME NEW d \in Domain
      PROVE  /\ use_count[d] = Refs(S, d) + Refs(Held \ S, d)
             /\ Refs(S, d) \in Nat /\ Refs(Held \ S, d) \in Nat
  <2>1. Held = S \cup (Held \ S) /\ S \in SUBSET Group /\ Held \ S \in SUBSET Group
    BY DEF Held
  <2>2. use_count[d] = Refs(Held, d)
    BY DEF RefsExact, Held
  <2> HIDE DEF Held
  <2> QED BY <2>1, <2>2, RefsUnion, RefsCount
<1>2. ASSUME NEW d \in Domain PROVE use_count'[d] = Refs(Held \ S, d)
  <2> DEFINE a == Refs(S, d)
             b == Refs(Held \ S, d)
  <2>1. use_count'[d] = use_count[d] - a
    OBVIOUS
  <2>2. use_count[d] = a + b /\ a \in Nat /\ b \in Nat
    BY <1>1
  <2> HIDE DEF a, b
  <2>3. use_count'[d] = b
    BY <2>1, <2>2
  <2> QED BY <2>3 DEF b
<1>3. ASSUME NEW d \in Domain PROVE (d \in pd_mask_wanted') <=> use_count'[d] > 0
  BY <1>1 DEF RefsExact, Unwanted, Used
<1>4. pd_mask_wanted' \subseteq Domain
  BY DEF PowerTypes
<1>5. \A d \in Domain : use_count'[d] = Refs(Held', d)
  BY <1>2
<1> QED BY <1>3, <1>4, <1>5 DEF RefsExact, Held, Refs

------------------------------------------------------------------------------
(* Activation                                                                *)

\* mali_group_activate keeps the counts exact, leaves the group pending or active, and
\* makes it active only where everything is on.
LEMMA ActivateStep ==
  ASSUME PowerTypes, RefsExact, ActiveOn, UNCHANGED <<powered, pd_mask_current>>,
         NEW g \in Group, NEW S \in SUBSET Group, g \in S,
         group_state[g] = "inactive" => \A i \in S : group_state[i] = "inactive",
         activate(g, S)
  PROVE  /\ group_state' \in [Group -> {"inactive", "pending", "active"}]
         /\ use_count' \in [Domain -> Int] /\ pd_mask_wanted' \subseteq Domain
         /\ RefsExact' /\ ActiveOn'
         /\ \A i \in Group \ S : group_state'[i] = group_state[i]
         /\ group_state[g] # "inactive" => group_state' = group_state
         /\ group_state[g] = "inactive" => \A i \in S : group_state'[i] = group_state'[g]
         /\ group_state'[g] # "inactive"
         /\ (group_state'[g] = "active") <=> ActiveAfter(g, S)
<1>1. CASE group_state[g] # "inactive"
  <2>1. UNCHANGED <<group_state, use_count, pd_mask_wanted>>
    BY <1>1 DEF activate, refVars
  <2>2. RefsExact'
    BY <2>1, SameHeld DEF Held
  <2>3. ActiveOn'
    BY <2>1 DEF ActiveOn
  <2> QED BY <1>1, <2>1, <2>2, <2>3 DEF PowerTypes, ActiveAfter
<1>2. CASE group_state[g] = "inactive"
  <2>1. /\ group_state' = [i \in Group |-> IF i \notin S THEN group_state[i]
                                           ELSE IF AllOn(S) THEN "active" ELSE "pending"]
        /\ use_count' = [d \in Domain |-> use_count[d] + Refs(S, d)]
        /\ pd_mask_wanted' = pd_mask_wanted \cup Used(S)
    BY <1>2 DEF activate
  <2>2. S \cap Held = {} /\ Held' = Held \cup S
    BY <1>2, <2>1 DEF Held
  <2>3. RefsExact'
    BY <2>1, <2>2, RefsTaken
  <2>0. \A d \in Domain : Refs(S, d) \in Nat
    BY RefsCount
  <2>4. /\ use_count' \in [Domain -> Int] /\ pd_mask_wanted' \subseteq Domain
        /\ group_state' \in [Group -> {"inactive", "pending", "active"}]
    BY <2>0, <2>1 DEF PowerTypes, Used
  <2>5. ActiveOn'
    <3> SUFFICES ASSUME NEW i \in Group, group_state'[i] = "active"
                 PROVE  /\ i \in powered /\ DomainOf[i] \in pd_mask_current
                        /\ i # Virtual => L2Of[i] \in pd_mask_current
      BY DEF ActiveOn
    <3>1. CASE i \notin S
      BY <2>1, <3>1 DEF ActiveOn
    <3>2. CASE i \in S
      <4>1. AllOn(S)
        BY <2>1, <3>2
      <4>2. /\ DomainOf[i] \in Domain
            /\ i # Virtual => L2Of[i] \in Domain
        BY PowerAssumption DEF Group
      <4>3. /\ Refs(S, DomainOf[i]) > 0
            /\ i # Virtual => Refs(S, L2Of[i]) > 0
        BY <3>2, RefsCount DEF Uses
      <4> QED BY <3>2, <4>1, <4>2, <4>3 DEF AllOn, Used
    <3> QED BY <3>1, <3>2
  <2> QED BY <1>2, <2>1, <2>3, <2>4, <2>5 DEF ActiveAfter
<1> QED BY <1>1, <1>2

\* mali_group_deactivate of groups that hold references keeps the counts exact.
LEMMA DeactivateStep ==
  ASSUME PowerTypes, RefsExact, ActiveOn, UNCHANGED <<powered, pd_mask_current>>,
         NEW S \in SUBSET Held, deactivate(S)
  PROVE  /\ group_state' \in [Group -> {"inactive", "pending", "active"}]
         /\ use_count' \in [Domain -> Int] /\ pd_mask_wanted' \subseteq Domain
         /\ RefsExact' /\ ActiveOn'
         /\ group_state' = [i \in Group |-> IF i \in S THEN "inactive" ELSE group_state[i]]
<1>1. /\ group_state' = [i \in Group |-> IF i \in S THEN "inactive" ELSE group_state[i]]
      /\ use_count' = [d \in Domain |-> use_count[d] - Refs(S, d)]
      /\ pd_mask_wanted' = pd_mask_wanted \ Unwanted(S)
  BY DEF deactivate
<1>2. Held' = Held \ S
  BY <1>1 DEF Held
<1>3. RefsExact'
  BY <1>1, <1>2, RefsGiven
<1>4. /\ use_count' \in [Domain -> Int] /\ pd_mask_wanted' \subseteq Domain
      /\ group_state' \in [Group -> {"inactive", "pending", "active"}]
  <2>1. S \in SUBSET Group
    BY DEF Held
  <2>2. \A d \in Domain : Refs(S, d) \in Nat
    BY <2>1, RefsCount
  <2> QED BY <1>1, <2>2 DEF PowerTypes
<1>5. ActiveOn'
  BY <1>1 DEF ActiveOn, Held
<1> QED BY <1>1, <1>3, <1>4, <1>5

------------------------------------------------------------------------------
(* What the holder of the executor lock still has to do                      *)

LEMMA SuspendsConcat ==
  ASSUME NEW s \in Seq(Operation), NEW t \in Seq(Operation), ~Suspends(s), ~Suspends(t)
  PROVE  s \o t \in Seq(Operation) /\ ~Suspends(s \o t)
BY DEF Suspends

LEMMA SuspendsTail ==
  ASSUME NEW s \in Seq(Operation), s # <<>>
  PROVE  Tail(s) \in Seq(Operation) /\ (Suspends(Tail(s)) => Suspends(s))
<1>1. Tail(s) \in Seq(Operation) /\ \A i \in DOMAIN Tail(s) : Tail(s)[i] = s[i + 1] /\ i + 1 \in DOMAIN s
  OBVIOUS
<1> QED BY <1>1 DEF Suspends

\* Without a suspension under way nothing is to be shown of one.
LEMMA NoSuspension ==
  ASSUME exec' \in Seq(Operation), ~Suspends(exec')
  PROVE  SuspendInOrder'
<1>1. ~At("suspend_inactive")'
  <2>1. ASSUME exec' # <<>>, Head(exec') = "suspend_inactive" PROVE FALSE
    <3>1. 1 \in DOMAIN exec' /\ exec'[1] = "suspend_inactive"
      BY <2>1
    <3> QED BY <3>1 DEF Suspends, SuspendSteps
  <2> QED BY <2>1 DEF At
<1> QED BY <1>1 DEF SuspendInOrder

\* The other operations of a holder are no part of a suspension.
LEMMA NotSuspending ==
  ASSUME ExecInv, Free \/ \E op : At(op) /\ op \notin SuspendSteps
  PROVE  ~Suspends(exec)
<1>1. ASSUME Suspends(exec) PROVE FALSE
  <2>1. exec \in SuspendPrograms
    BY <1>1 DEF ExecInv, SuspendInOrder
  <2>2. exec # <<>> /\ Head(exec) \in SuspendSteps
    BY <2>1 DEF SuspendPrograms, SuspendSteps
  <2> QED BY <2>2 DEF Free, At
<1> QED BY <1>1

LEMMA OtherSteps ==
  ASSUME NEW s, \A i \in DOMAIN s : s[i] \in OtherStep
  PROVE  ~Suspends(s)
BY DEF Suspends, SuspendSteps, OtherStep

LEMMA Programs ==
  /\ Stages \in Seq(Operation) /\ ~Suspends(Stages)
  /\ <<"schedule">> \in Seq(Operation) /\ ~Suspends(<<"schedule">>)
  /\ <<"schedule", "power_up">> \in Seq(Operation) /\ ~Suspends(<<"schedule", "power_up">>)
  /\ <<"abort">> \in Seq(Operation) /\ ~Suspends(<<"abort">>)
  /\ <<>> \in Seq(Operation) /\ ~Suspends(<<>>)
<1> DEFINE O == Operation
<1>a. \A op \in OtherStep : op \in O
  BY DEF Operation
<1>b. /\ \A a \in O : <<a>> \in Seq(O)
      /\ \A a, b \in O : <<a, b>> \in Seq(O)
      /\ \A a, b, c, d \in O : <<a, b, c, d>> \in Seq(O)
      /\ <<>> \in Seq(O)
  <2> HIDE DEF O
  <2> QED OBVIOUS
<1>c. \A op \in {"schedule", "power_up", "abort", "physical", "virtual", "assign_virtual", "assign_gp"} :
        op \in O
  BY <1>a DEF OtherStep
<1>0. Stages \in Seq(Operation)
  BY <1>b, <1>c DEF Stages
<1>1. /\ <<"schedule">> \in Seq(Operation) /\ <<"schedule", "power_up">> \in Seq(Operation)
      /\ <<"abort">> \in Seq(Operation) /\ <<>> \in Seq(Operation)
  BY <1>b, <1>c
<1>2. \A i \in DOMAIN Stages : Stages[i] \in OtherStep
  BY DEF Stages, OtherStep
<1>3. \A i \in DOMAIN <<"schedule">> : <<"schedule">>[i] \in OtherStep
  BY DEF OtherStep
<1>4. \A i \in DOMAIN <<"schedule", "power_up">> : <<"schedule", "power_up">>[i] \in OtherStep
  BY DEF OtherStep
<1>5. \A i \in DOMAIN <<"abort">> : <<"abort">>[i] \in OtherStep
  BY DEF OtherStep
<1>6. \A i \in DOMAIN <<>> : <<>>[i] \in OtherStep
  OBVIOUS
<1>7. ~Suspends(Stages)
  BY <1>2, OtherSteps
<1>8. ~Suspends(<<"schedule">>)
  BY <1>3, OtherSteps
<1>9. ~Suspends(<<"schedule", "power_up">>)
  BY <1>4, OtherSteps
<1>10. ~Suspends(<<"abort">>)
  BY <1>5, OtherSteps
<1>11. ~Suspends(<<>>)
  BY <1>6, OtherSteps
<1> QED BY <1>0, <1>1, <1>7, <1>8, <1>9, <1>10, <1>11

------------------------------------------------------------------------------
(* Steps of the executor that leave the power as it is                       *)

PowerSame == UNCHANGED <<maskVars, powered, runtime_active, rpm, pm>>

LEMMA MasksSame ==
  ASSUME MasksInStep, RuntimeActive, PowerSame
  PROVE  MasksInStep' /\ RuntimeActive'
BY DEF MasksInStep, RuntimeActive, PowerSame, maskVars, PmAt, GoesOff

LEMMA PowerTypesSame ==
  ASSUME PowerTypes, PowerSame,
         group_state' \in [Group -> {"inactive", "pending", "active"}],
         use_count' \in [Domain -> Int], pd_mask_wanted' \subseteq Domain
  PROVE  PowerTypes'
BY DEF PowerTypes, PowerSame, maskVars

\* What such a step has to keep, once the counts are known to be kept.
GroupsOK == ListTypes /\ RunTypes /\ LocalTypes /\ ListsMatch /\ VirtualInStep /\ VirtualWhole

LEMMA StepDone ==
  ASSUME ExecInv, PowerSame, GroupsOK', SuspendInOrder', RefsExact', ActiveOn',
         group_state' \in [Group -> {"inactive", "pending", "active"}],
         use_count' \in [Domain -> Int], pd_mask_wanted' \subseteq Domain
  PROVE  ExecInv'
BY MasksSame, PowerTypesSame DEF ExecInv, GroupsOK

\* The same for a step that changes no reference and no state of a group.
LEMMA QuietDone ==
  ASSUME ExecInv, PowerSame, UNCHANGED refVars, ListTypes', RunTypes', LocalTypes',
         ListsMatch', SuspendInOrder',
         \A c \in Children' : group_state[Virtual] = "inactive" <=> group_state[c] = "inactive",
         VirtualWhole'
  PROVE  ExecInv'
<1>1. RefsExact'
  BY SameHeld DEF ExecInv, refVars, Held
<1>2. ActiveOn'
  BY DEF ExecInv, ActiveOn, PowerSame, refVars, maskVars
<1>3. VirtualInStep'
  BY DEF VirtualInStep, refVars
<1>4. PowerTypes'
  BY PowerTypesSame DEF ExecInv, PowerTypes, refVars
<1> QED BY <1>1, <1>2, <1>3, <1>4, MasksSame DEF ExecInv

LEMMA Groups ==
  /\ Gp \in Group /\ PpCore \subseteq Group /\ Gp \notin PpCore
  /\ Virtual \notin PpCore /\ Virtual # Gp
  /\ Virtual \in Group <=> HasVirtual
  /\ Group \subseteq PpCore \cup {Gp, Virtual}
  /\ Children \subseteq PpCore
BY PowerAssumption DEF Group, Children, OnList

LEMMA ScheduleInv == ASSUME ExecInv, Schedule PROVE ExecInv'
<1> DEFINE wake == exec_state[Gp] = "inactive" /\ depth.gp > 0
           on   == wake /\ ActiveAfter(Gp, {Gp})
<1>0. PowerSame /\ At("schedule")
  BY DEF Schedule, PowerSame
<1>1. /\ exec # <<>> /\ ~Suspends(exec) /\ exec \in Seq(Operation)
      /\ Tail(exec) \in Seq(Operation) /\ ~Suspends(Tail(exec))
  BY <1>0, NotSuspending, SuspendsTail DEF ExecInv, LocalTypes, At, SuspendSteps
<1>2. CASE Paused
  <2>1. UNCHANGED <<refVars, exec_state, running, disable_requested>> /\ exec' = Tail(exec)
        /\ local'.todo = {} /\ IsLocal(local')
    BY <1>2 DEF Schedule, Finished, Continue, NoLocal, IsLocal
  <2>2. ListTypes' /\ RunTypes'
    BY <2>1 DEF ExecInv, ListTypes, RunTypes, OnList, Children
  <2>6. LocalTypes'
    BY <1>1, <2>1 DEF LocalTypes, IsLocal, OnList
  <2>3. ListsMatch' /\ VirtualWhole'
    BY <2>1 DEF ExecInv, ListsMatch, VirtualWhole, Children, OnList, refVars
  <2>4. SuspendInOrder'
    BY <1>1, <2>1, NoSuspension
  <2>5. \A c \in Children' : group_state[Virtual] = "inactive" <=> group_state[c] = "inactive"
    BY <2>1 DEF ExecInv, VirtualInStep, Children, OnList
  <2> QED BY <1>0, <2>1, <2>2, <2>3, <2>4, <2>5, <2>6, QuietDone
<1>3. CASE ~Paused
  <2>1. /\ IF wake THEN activate(Gp, {Gp}) ELSE UNCHANGED refVars
        /\ exec_state' = IF on THEN [exec_state EXCEPT ![Gp] = "idle"] ELSE exec_state
        /\ local'.todo = OnList("inactive") /\ IsLocal(local')
        /\ exec' = Stages \o Tail(exec)
        /\ UNCHANGED <<running, disable_requested>>
    BY <1>3 DEF Schedule, IsLocal
  <2>2. exec' \in Seq(Operation) /\ SuspendInOrder'
    BY <1>1, <2>1, SuspendsConcat, Programs, NoSuspension
  <2>3. OnList("inactive")' = OnList("inactive") /\ Children' = Children
    BY <2>1, Groups DEF OnList, Children, ExecInv, ListTypes
  <2>4. ListTypes' /\ RunTypes' /\ LocalTypes'
    <3>1. ListTypes'
      BY <2>1, <2>3, Groups DEF ExecInv, ListTypes
    <3>2. RunTypes' /\ LocalTypes'
      BY <2>1, <2>2, <2>3 DEF ExecInv, RunTypes, LocalTypes
    <3> QED BY <3>1, <3>2
  <2>5. CASE ~wake
    <3>1. UNCHANGED <<refVars, exec_state, running>>
      BY <2>1, <2>5
    <3>2. ListsMatch' /\ VirtualWhole'
      BY <3>1, <2>3 DEF ExecInv, ListsMatch, VirtualWhole, refVars
    <3>3. \A c \in Children' : group_state[Virtual] = "inactive" <=> group_state[c] = "inactive"
      BY <2>3 DEF ExecInv, VirtualInStep
    <3> QED BY <1>0, <2>2, <2>4, <3>1, <3>2, <3>3, QuietDone
  <2>6. CASE wake
    <3>1. /\ group_state' \in [Group -> {"inactive", "pending", "active"}]
          /\ use_count' \in [Domain -> Int] /\ pd_mask_wanted' \subseteq Domain
          /\ RefsExact' /\ ActiveOn'
          /\ \A i \in Group \ {Gp} : group_state'[i] = group_state[i]
          /\ group_state'[Gp] # "inactive"
          /\ (group_state'[Gp] = "active") <=> ActiveAfter(Gp, {Gp})
      BY <1>0, <2>1, <2>6, Groups, ActivateStep DEF ExecInv, PowerSame, maskVars
    <3>2. ListsMatch'
      BY <2>1, <2>6, <3>1, Groups DEF ExecInv, ListTypes, ListsMatch
    <3>3. VirtualInStep' /\ VirtualWhole'
      BY <2>3, <3>1, Groups DEF ExecInv, ListTypes, VirtualInStep, VirtualWhole
    <3> QED BY <1>0, <2>2, <2>4, <3>1, <3>2, <3>3, StepDone DEF GroupsOK
  <2> QED BY <2>5, <2>6
<1> QED BY <1>2, <1>3

\* The holder of the lock goes on with the rest of what it has to do.
LEMMA ContinueOther ==
  ASSUME ExecInv, exec' = Tail(exec), NEW op, At(op), op \notin SuspendSteps
  PROVE  exec' \in Seq(Operation) /\ SuspendInOrder'
<1>1. exec # <<>> /\ ~Suspends(exec) /\ exec \in Seq(Operation)
  BY NotSuspending DEF ExecInv, LocalTypes, At
<1> QED BY <1>1, SuspendsTail, NoSuspension

LEMMA StayOther ==
  ASSUME ExecInv, exec' = exec, NEW op, At(op), op \notin SuspendSteps
  PROVE  exec' \in Seq(Operation) /\ SuspendInOrder'
<1>1. ~Suspends(exec) /\ exec \in Seq(Operation)
  BY NotSuspending DEF ExecInv, LocalTypes
<1> QED BY <1>1, NoSuspension

LEMMA ActivateInactiveInv == ASSUME ExecInv, ActivateInactive PROVE ExecInv'
<1>0. PowerSame /\ At("physical") /\ exec' = exec /\ UNCHANGED <<running, disable_requested>>
  BY DEF ActivateInactive, PowerSame
<1>1. PICK c \in local.todo :
        /\ activate(c, {c})
        /\ local' = [needed |-> local.needed - 1,
                     process |-> local.process + IF ActiveAfter(c, {c}) THEN 1 ELSE 0,
                     trigger |-> local.trigger \/ ~ActiveAfter(c, {c}),
                     todo |-> local.todo \ {c}]
        /\ exec_state' = IF ActiveAfter(c, {c}) THEN [exec_state EXCEPT ![c] = "idle"]
                         ELSE exec_state
  BY DEF ActivateInactive
<1>2. c \in PpCore /\ exec_state[c] = "inactive" /\ c \in Group /\ c # Virtual /\ c \notin Children
  BY Groups DEF ExecInv, LocalTypes, OnList, Children
<1>3. /\ group_state' \in [Group -> {"inactive", "pending", "active"}]
      /\ use_count' \in [Domain -> Int] /\ pd_mask_wanted' \subseteq Domain
      /\ RefsExact' /\ ActiveOn'
      /\ \A i \in Group \ {c} : group_state'[i] = group_state[i]
      /\ group_state'[c] # "inactive"
      /\ (group_state'[c] = "active") <=> ActiveAfter(c, {c})
  BY <1>0, <1>1, <1>2, ActivateStep DEF ExecInv, PowerSame, maskVars
<1>4. exec' \in Seq(Operation) /\ SuspendInOrder'
  BY <1>0, StayOther DEF SuspendSteps
<1>5. Children' = Children
  BY <1>1, <1>2, Groups DEF ExecInv, ListTypes, Children, OnList
<1>6. ListTypes' /\ RunTypes' /\ LocalTypes'
  <2>1. local'.todo \subseteq OnList("inactive")'
    BY <1>1, <1>2, Groups DEF ExecInv, ListTypes, LocalTypes, OnList
  <2>2. IsLocal(local')
    BY <1>1 DEF IsLocal
  <2>3. ListTypes'
    BY <1>1, <1>2, <1>5, Groups DEF ExecInv, ListTypes, Core
  <2>4. RunTypes' /\ LocalTypes'
    BY <1>0, <1>4, <2>1, <2>2 DEF ExecInv, RunTypes, LocalTypes
  <2> QED BY <2>3, <2>4
<1>7. ListsMatch'
  BY <1>0, <1>1, <1>2, <1>3, Groups DEF ExecInv, ListTypes, RunTypes, ListsMatch
<1>8. VirtualInStep' /\ VirtualWhole'
  BY <1>2, <1>3, <1>5, Groups DEF ExecInv, ListTypes, VirtualInStep, VirtualWhole
<1> QED BY <1>0, <1>3, <1>4, <1>6, <1>7, <1>8, StepDone DEF GroupsOK

LEMMA StealInv == ASSUME ExecInv, Steal PROVE ExecInv'
<1>0. /\ PowerSame /\ At("physical") /\ exec' = exec /\ UNCHANGED <<running, disable_requested>>
      /\ virtual_group_is_usable
  BY DEF Steal, PowerSame, may_steal
<1>1. PICK c \in Children :
        /\ activate(c, {c})
        /\ local' = [local EXCEPT !.needed = @ - 1,
                                  !.process = @ + IF ActiveAfter(c, {c}) THEN 1 ELSE 0,
                                  !.trigger = @ \/ ~ActiveAfter(c, {c})]
        /\ exec_state' = [exec_state EXCEPT
             ![c] = IF ActiveAfter(c, {c}) THEN "idle" ELSE "inactive",
             ![Virtual] = EmptyWithout({c})]
  BY DEF Steal
<1>2. /\ c \in PpCore /\ exec_state[c] = "virtual" /\ c \in Group /\ c # Virtual
      /\ HasVirtual /\ Virtual \in Group /\ exec_state[Virtual] \in {"inactive", "idle"}
      /\ EmptyWithout({c}) \in {"empty", exec_state[Virtual]}
  BY <1>0, Groups DEF virtual_group_is_usable, VirtualIs, Children, OnList, EmptyWithout
<1>3. /\ group_state' \in [Group -> {"inactive", "pending", "active"}]
      /\ use_count' \in [Domain -> Int] /\ pd_mask_wanted' \subseteq Domain
      /\ RefsExact' /\ ActiveOn'
      /\ \A i \in Group \ {c} : group_state'[i] = group_state[i]
      /\ group_state'[c] # "inactive"
      /\ (group_state'[c] = "active") <=> ActiveAfter(c, {c})
  BY <1>0, <1>1, <1>2, ActivateStep DEF ExecInv, PowerSame, maskVars
<1>4. exec' \in Seq(Operation) /\ SuspendInOrder'
  BY <1>0, StayOther DEF SuspendSteps
<1>5. Children' = Children \ {c}
  BY <1>1, <1>2, Groups DEF ExecInv, ListTypes, Children, OnList
<1>6. ListTypes' /\ RunTypes' /\ LocalTypes'
  <2>1. /\ IsLocal(local')
        /\ local'.todo = local.todo
    BY <1>1 DEF ExecInv, LocalTypes, IsLocal
  <2>2. local'.todo \subseteq OnList("inactive")'
    BY <1>1, <1>2, <2>1, Groups DEF ExecInv, ListTypes, LocalTypes, OnList
  <2>3. ListTypes'
    BY <1>1, <1>2, <1>5, Groups DEF ExecInv, ListTypes, Core
  <2>4. RunTypes' /\ LocalTypes'
    BY <1>0, <1>4, <2>1, <2>2 DEF ExecInv, RunTypes, LocalTypes
  <2> QED BY <2>3, <2>4
<1>7. ListsMatch'
  BY <1>0, <1>1, <1>2, <1>3, Groups DEF ExecInv, ListTypes, RunTypes, ListsMatch
<1>8. VirtualInStep' /\ VirtualWhole'
  BY <1>2, <1>3, <1>5, Groups DEF ExecInv, ListTypes, VirtualInStep, VirtualWhole
<1> QED BY <1>0, <1>3, <1>4, <1>6, <1>7, <1>8, StepDone DEF GroupsOK

\* A group that is idle starts a job: nothing else of it changes.
LEMMA StartJob ==
  ASSUME ExecInv, PowerSame, UNCHANGED refVars, SuspendInOrder', exec' \in Seq(Operation),
         NEW g \in Group, exec_state[g] = "idle", NEW j,
         exec_state' = [exec_state EXCEPT ![g] = "working"],
         running' = [running EXCEPT ![g] = j],
         IsLocal(local'),
         local'.todo \subseteq local.todo, UNCHANGED disable_requested
  PROVE  ExecInv'
<1>1. Children' = Children /\ OnList("inactive")' = OnList("inactive")
  BY DEF ExecInv, ListTypes, Children, OnList
<1>2. ListTypes' /\ RunTypes' /\ LocalTypes'
  <2>1. ListTypes'
    BY <1>1, Groups DEF ExecInv, ListTypes
  <2>2. RunTypes'
    BY DEF ExecInv, RunTypes
  <2>3. LocalTypes'
    BY <1>1 DEF ExecInv, LocalTypes
  <2> QED BY <2>1, <2>2, <2>3
<1>3. ListsMatch' /\ VirtualWhole'
  BY <1>1 DEF ExecInv, ListTypes, RunTypes, ListsMatch, VirtualWhole, refVars
<1>4. \A c \in Children' : group_state[Virtual] = "inactive" <=> group_state[c] = "inactive"
  BY <1>1 DEF ExecInv, VirtualInStep
<1> QED BY <1>2, <1>3, <1>4, QuietDone

LEMMA AssignPhysicalInv == ASSUME ExecInv, AssignPhysical PROVE ExecInv'
<1>1. /\ PowerSame /\ UNCHANGED refVars /\ At("physical") /\ exec' = exec
      /\ local' = [local EXCEPT !.process = @ - 1] /\ UNCHANGED disable_requested
  BY DEF AssignPhysical, PowerSame, powerVars
<1>2. PICK c \in OnList("idle") :
        /\ exec_state' = [exec_state EXCEPT ![c] = "working"]
        /\ running' = [running EXCEPT ![c] = physical_peek]
  BY DEF AssignPhysical
<1>3. c \in Group /\ exec_state[c] = "idle"
  BY Groups DEF OnList
<1>4. exec' \in Seq(Operation) /\ SuspendInOrder'
  BY <1>1, StayOther DEF SuspendSteps
<1>5. /\ IsLocal(local')
      /\ local'.todo \subseteq local.todo
  BY <1>1 DEF ExecInv, LocalTypes, IsLocal
<1> QED BY <1>1, <1>2, <1>3, <1>4, <1>5, StartJob

\* Idle groups that rejoin the virtual group, or are deactivated without one.
LEMMA DeactivateIdle ==
  ASSUME ExecInv, PowerSame, NEW deactivate_idle \in BOOLEAN, deactivate_list_idle(deactivate_idle),
         UNCHANGED <<running, disable_requested>>, exec' \in Seq(Operation), SuspendInOrder'
  PROVE  ExecInv'
<1> DEFINE C    == IF HasVirtual \/ deactivate_idle THEN OnList("idle") ELSE {}
           back == gives_back(C)
<1>1. /\ deactivate(back)
      /\ exec_state' = IF HasVirtual THEN Rejoined(C)
                       ELSE [g \in Group |-> IF g \in C THEN "inactive" ELSE exec_state[g]]
      /\ local' = [local EXCEPT !.trigger = @ \/ Unwanted(back) # {}]
  BY DEF deactivate_list_idle
<1>2. /\ C \subseteq PpCore /\ \A c \in C : exec_state[c] = "idle" /\ group_state[c] = "active"
      /\ C \subseteq Held /\ back \subseteq C
      /\ back = IF HasVirtual /\ group_state[Virtual] # "inactive" THEN {} ELSE C
  BY Groups DEF OnList, ExecInv, ListsMatch, Held, gives_back
<1> HIDE DEF C, back
<1>3. /\ group_state' \in [Group -> {"inactive", "pending", "active"}]
      /\ use_count' \in [Domain -> Int] /\ pd_mask_wanted' \subseteq Domain
      /\ RefsExact' /\ ActiveOn'
      /\ group_state' = [i \in Group |-> IF i \in back THEN "inactive" ELSE group_state[i]]
  <2>1. back \in SUBSET Held /\ UNCHANGED <<powered, pd_mask_current>>
    BY <1>2 DEF PowerSame, maskVars
  <2> QED BY <1>1, <2>1, DeactivateStep DEF ExecInv
<1>4. /\ exec_state' \in [Group -> {"virtual", "disabled", "empty", "inactive", "idle", "working"}]
      /\ \A g \in Group \ (C \cup {Virtual}) : exec_state'[g] = exec_state[g]
      /\ \A c \in C : exec_state'[c] = IF HasVirtual THEN "virtual" ELSE "inactive"
      /\ HasVirtual /\ C # {} /\ exec_state[Virtual] = "empty" =>
           exec_state'[Virtual] = IF group_state[Virtual] = "active" THEN "idle" ELSE "inactive"
      /\ HasVirtual /\ ~(C # {} /\ exec_state[Virtual] = "empty") =>
           exec_state'[Virtual] = exec_state[Virtual]
  BY <1>1, <1>2, Groups DEF Rejoined, ExecInv, ListTypes
<1>5. Children' = IF HasVirtual THEN Children \cup C ELSE Children
  BY <1>2, <1>4, Groups DEF Children, OnList
<1>6. ListTypes'
  BY <1>2, <1>4, <1>5, Groups DEF ExecInv, ListTypes, Core
<1>7. RunTypes' /\ LocalTypes'
  <2>1. IsLocal(local') /\ local'.todo = local.todo
    BY <1>1 DEF ExecInv, LocalTypes, IsLocal
  <2>2. OnList("inactive") \subseteq OnList("inactive")'
    BY <1>2, <1>4, Groups DEF OnList
  <2> QED BY <2>1, <2>2 DEF ExecInv, RunTypes, LocalTypes
<1>8. ListsMatch'
  BY <1>2, <1>3, <1>4, Groups DEF ExecInv, ListTypes, RunTypes, ListsMatch
<1>9. VirtualInStep' /\ VirtualWhole'
  BY <1>2, <1>3, <1>5, Groups DEF ExecInv, ListTypes, VirtualInStep, VirtualWhole
<1> QED BY <1>3, <1>6, <1>7, <1>8, <1>9, StepDone DEF GroupsOK

LEMMA RejoinIdleInv == ASSUME ExecInv, RejoinIdle PROVE ExecInv'
<1>1. /\ PowerSame /\ At("physical") /\ exec' = Tail(exec) /\ UNCHANGED <<running, disable_requested>>
      /\ deactivate_list_idle(~HasTracker("physical"))
  BY DEF RejoinIdle, PowerSame, Continue
<1>2. exec' \in Seq(Operation) /\ SuspendInOrder'
  BY <1>1, ContinueOther DEF SuspendSteps
<1>3. (~HasTracker("physical")) \in BOOLEAN
  OBVIOUS
<1> QED BY <1>1, <1>2, <1>3, DeactivateIdle

\* The virtual group with its children, and what it means to activate or deactivate them.
LEMMA WholeGroup ==
  ASSUME ExecInv, HasVirtual
  PROVE  /\ WithChildren(Virtual) = {Virtual} \cup Children
         /\ WithChildren(Virtual) \in SUBSET Group /\ Virtual \in WithChildren(Virtual)
         /\ group_state[Virtual] = "inactive" =>
              \A i \in WithChildren(Virtual) : group_state[i] = "inactive"
         /\ group_state[Virtual] # "inactive" => WithChildren(Virtual) \in SUBSET Held
BY Groups DEF WithChildren, ExecInv, VirtualInStep, Held

LEMMA ActivateVirtualInv == ASSUME ExecInv, ActivateVirtual PROVE ExecInv'
<1> DEFINE S    == WithChildren(Virtual)
           wake == VirtualIs("inactive") /\ next_is_virtual
           on   == wake /\ ActiveAfter(Virtual, S)
<1>1. /\ PowerSame /\ At("virtual") /\ exec' = Tail(exec) /\ UNCHANGED <<running, disable_requested>>
      /\ IF wake THEN activate(Virtual, S) ELSE UNCHANGED refVars
      /\ exec_state' = IF on THEN [exec_state EXCEPT ![Virtual] = "idle"] ELSE exec_state
      /\ local' = [local EXCEPT !.trigger = FALSE]
  BY DEF ActivateVirtual, PowerSame, Continue
<1>2. exec' \in Seq(Operation) /\ SuspendInOrder'
  BY <1>1, ContinueOther DEF SuspendSteps
<1>3. Children' = Children /\ OnList("inactive")' = OnList("inactive")
  BY <1>1, Groups DEF ExecInv, ListTypes, Children, OnList, VirtualIs
<1>4. ListTypes' /\ RunTypes' /\ LocalTypes'
  <2>1. ListTypes'
    BY <1>1, <1>3, Groups DEF ExecInv, ListTypes, Core, VirtualIs
  <2>2. IsLocal(local') /\ local'.todo = local.todo
    BY <1>1 DEF ExecInv, LocalTypes, IsLocal
  <2> QED BY <1>1, <1>2, <1>3, <2>1, <2>2 DEF ExecInv, RunTypes, LocalTypes
<1>5. CASE ~wake
  <2>1. UNCHANGED <<refVars, exec_state, running>>
    BY <1>1, <1>5
  <2>2. ListsMatch' /\ VirtualWhole'
    BY <2>1, <1>3 DEF ExecInv, ListsMatch, VirtualWhole, refVars
  <2>3. \A c \in Children' : group_state[Virtual] = "inactive" <=> group_state[c] = "inactive"
    BY <1>3 DEF ExecInv, VirtualInStep
  <2> QED BY <1>1, <1>2, <1>4, <2>1, <2>2, <2>3, QuietDone
<1>6. CASE wake
  <2>1. /\ HasVirtual /\ Virtual \in Group /\ exec_state[Virtual] = "inactive"
        /\ S = {Virtual} \cup Children /\ S \in SUBSET Group /\ Virtual \in S
        /\ group_state[Virtual] = "inactive" => \A i \in S : group_state[i] = "inactive"
        /\ activate(Virtual, S) /\ UNCHANGED <<powered, pd_mask_current>>
    BY <1>1, <1>6, Groups, WholeGroup DEF VirtualIs, PowerSame, maskVars
  <2> HIDE DEF S
  <2>2. /\ group_state' \in [Group -> {"inactive", "pending", "active"}]
        /\ use_count' \in [Domain -> Int] /\ pd_mask_wanted' \subseteq Domain
        /\ RefsExact' /\ ActiveOn'
        /\ \A i \in Group \ S : group_state'[i] = group_state[i]
        /\ group_state[Virtual] # "inactive" => group_state' = group_state
        /\ group_state[Virtual] = "inactive" => \A i \in S : group_state'[i] = group_state'[Virtual]
        /\ group_state'[Virtual] # "inactive"
        /\ (group_state'[Virtual] = "active") <=> ActiveAfter(Virtual, S)
    BY <2>1, ActivateStep DEF ExecInv
  <2>3. \A c \in Children : exec_state[c] = "virtual" /\ c # Virtual
    BY Groups DEF Children, OnList
  <2>4. ListsMatch'
    BY <1>1, <1>6, <2>1, <2>2, <2>3, Groups DEF ExecInv, ListTypes, RunTypes, ListsMatch
  <2>5. VirtualInStep' /\ VirtualWhole'
    BY <1>3, <2>1, <2>2, <2>3 DEF ExecInv, VirtualInStep, VirtualWhole
  <2> QED BY <1>1, <1>2, <1>4, <2>2, <2>4, <2>5, StepDone DEF GroupsOK
<1> QED BY <1>5, <1>6

\* The virtual group is deactivated with its children.
LEMMA DeactivateWhole ==
  ASSUME ExecInv, PowerSame, HasVirtual, group_state[Virtual] # "inactive",
         deactivate(WithChildren(Virtual)), exec_state' = [exec_state EXCEPT ![Virtual] = "inactive"],
         exec_state[Virtual] # "working",
         UNCHANGED <<running, disable_requested>>, IsLocal(local'), local'.todo \subseteq local.todo,
         exec' \in Seq(Operation), SuspendInOrder'
  PROVE  ExecInv' /\ group_state'[Virtual] = "inactive"
<1> DEFINE S == WithChildren(Virtual)
<1>1. /\ Virtual \in Group /\ S = {Virtual} \cup Children /\ S \in SUBSET Held
      /\ deactivate(S) /\ UNCHANGED <<powered, pd_mask_current>>
  BY Groups, WholeGroup DEF PowerSame, maskVars
<1> HIDE DEF S
<1>2. /\ group_state' \in [Group -> {"inactive", "pending", "active"}]
      /\ use_count' \in [Domain -> Int] /\ pd_mask_wanted' \subseteq Domain
      /\ RefsExact' /\ ActiveOn'
      /\ group_state' = [i \in Group |-> IF i \in S THEN "inactive" ELSE group_state[i]]
  BY <1>1, DeactivateStep DEF ExecInv
<1>3. Children' = Children /\ OnList("inactive")' = OnList("inactive")
  BY Groups DEF ExecInv, ListTypes, Children, OnList
<1>4. ListTypes' /\ RunTypes' /\ LocalTypes'
  <2>1. ListTypes'
    BY <1>3, Groups DEF ExecInv, ListTypes, Core
  <2> QED BY <1>3, <2>1 DEF ExecInv, RunTypes, LocalTypes
<1>5. \A c \in Children : exec_state[c] = "virtual" /\ c # Virtual
  BY Groups DEF Children, OnList
<1>6. ListsMatch'
  BY <1>1, <1>2, <1>5, Groups DEF ExecInv, ListTypes, RunTypes, ListsMatch
<1>7. VirtualInStep' /\ VirtualWhole' /\ group_state'[Virtual] = "inactive"
  BY <1>1, <1>2, <1>3, <1>5, Groups DEF ExecInv, VirtualInStep, VirtualWhole
<1> QED BY <1>2, <1>4, <1>6, <1>7, StepDone DEF GroupsOK

LEMMA AssignVirtualInv == ASSUME ExecInv, AssignVirtual PROVE ExecInv'
<1>1. /\ PowerSame /\ At("assign_virtual") /\ exec' = Tail(exec) /\ UNCHANGED disable_requested
  BY DEF AssignVirtual, PowerSame, Continue
<1>2. exec' \in Seq(Operation) /\ SuspendInOrder'
  BY <1>1, ContinueOther DEF SuspendSteps
<1>3. IsLocal(local) /\ local.todo \subseteq OnList("inactive")
  BY DEF ExecInv, LocalTypes
<1>4. CASE /\ VirtualIs("idle") /\ exec_state' = [exec_state EXCEPT ![Virtual] = "working"]
           /\ running' = [running EXCEPT ![Virtual] = virtual_peek] /\ UNCHANGED <<refVars, local>>
  <2>1. Virtual \in Group /\ exec_state[Virtual] = "idle"
    BY <1>4, Groups DEF VirtualIs
  <2> QED BY <1>1, <1>2, <1>3, <1>4, <2>1, StartJob
<1>5. CASE /\ VirtualIs("idle") /\ deactivate(WithChildren(Virtual))
           /\ exec_state' = [exec_state EXCEPT ![Virtual] = "inactive"]
           /\ local' = [local EXCEPT !.trigger = @ \/ Unwanted(WithChildren(Virtual)) # {}]
           /\ UNCHANGED running
  <2>1. IsLocal(local') /\ local'.todo \subseteq local.todo
    BY <1>3, <1>5 DEF IsLocal
  <2>2. HasVirtual /\ exec_state[Virtual] = "idle" /\ group_state[Virtual] = "active"
    BY <1>5, Groups DEF VirtualIs, ExecInv, ListsMatch
  <2> QED BY <1>1, <1>2, <1>5, <2>1, <2>2, DeactivateWhole
<1>6. CASE UNCHANGED <<refVars, exec_state, running, local>>
  <2>1. OnList("inactive")' = OnList("inactive") /\ Children' = Children
    BY <1>6 DEF OnList, Children
  <2>2. ListTypes' /\ RunTypes' /\ LocalTypes'
    BY <1>1, <1>2, <1>6, <2>1 DEF ExecInv, ListTypes, RunTypes, LocalTypes
  <2>3. ListsMatch' /\ VirtualWhole'
    BY <1>6, <2>1 DEF ExecInv, ListsMatch, VirtualWhole, refVars
  <2>4. \A c \in Children' : group_state[Virtual] = "inactive" <=> group_state[c] = "inactive"
    BY <2>1 DEF ExecInv, VirtualInStep
  <2> QED BY <1>1, <1>2, <1>6, <2>2, <2>3, <2>4, QuietDone
<1> QED BY <1>4, <1>5, <1>6, Zenon DEF AssignVirtual

\* A step that leaves the groups, their lists and their jobs alone.
LEMMA GroupsSame ==
  ASSUME ExecInv, UNCHANGED <<refVars, exec_state, running>>, disable_requested' \subseteq Group,
         IsLocal(local'), local'.todo \subseteq local.todo, exec' \in Seq(Operation)
  PROVE  /\ ListTypes' /\ RunTypes' /\ LocalTypes' /\ ListsMatch' /\ VirtualWhole'
         /\ \A c \in Children' : group_state[Virtual] = "inactive" <=> group_state[c] = "inactive"
<1>1. OnList("inactive")' = OnList("inactive") /\ Children' = Children
  BY DEF OnList, Children
<1>2. ListTypes' /\ RunTypes' /\ LocalTypes'
  BY <1>1 DEF ExecInv, ListTypes, RunTypes, LocalTypes
<1>3. ListsMatch' /\ VirtualWhole'
  BY <1>1 DEF ExecInv, ListsMatch, VirtualWhole, refVars
<1>4. \A c \in Children' : group_state[Virtual] = "inactive" <=> group_state[c] = "inactive"
  BY <1>1 DEF ExecInv, VirtualInStep
<1> QED BY <1>2, <1>3, <1>4

LEMMA Unmoved ==
  ASSUME ExecInv, PowerSame, UNCHANGED <<refVars, exec_state, running>>,
         disable_requested' \subseteq Group, IsLocal(local'), local'.todo \subseteq local.todo, exec' \in Seq(Operation), SuspendInOrder'
  PROVE  ExecInv'
BY GroupsSame, QuietDone

LEMMA AssignGpInv == ASSUME ExecInv, AssignGp PROVE ExecInv'
<1>1. /\ PowerSame /\ At("assign_gp") /\ exec' = Tail(exec) /\ UNCHANGED disable_requested
      /\ IsLocal(local') /\ local'.todo \subseteq local.todo
  BY DEF AssignGp, PowerSame, Continue, Finished, NoLocal, IsLocal
<1>2. exec' \in Seq(Operation) /\ SuspendInOrder'
  BY <1>1, ContinueOther DEF SuspendSteps
<1>4. CASE /\ exec_state[Gp] = "idle" /\ exec_state' = [exec_state EXCEPT ![Gp] = "working"]
           /\ running' = [running EXCEPT ![Gp] = gp_peek] /\ UNCHANGED refVars
  BY <1>1, <1>2, <1>4, Groups, StartJob
<1>5. CASE /\ exec_state[Gp] = "idle" /\ deactivate({Gp})
           /\ exec_state' = [exec_state EXCEPT ![Gp] = "inactive"] /\ UNCHANGED running
  <2>1. {Gp} \in SUBSET Held /\ UNCHANGED <<powered, pd_mask_current>>
    BY <1>1, <1>5, Groups DEF ExecInv, ListsMatch, Held, PowerSame, maskVars
  <2>2. /\ group_state' \in [Group -> {"inactive", "pending", "active"}]
        /\ use_count' \in [Domain -> Int] /\ pd_mask_wanted' \subseteq Domain
        /\ RefsExact' /\ ActiveOn'
        /\ group_state' = [i \in Group |-> IF i \in {Gp} THEN "inactive" ELSE group_state[i]]
    BY <1>5, <2>1, DeactivateStep DEF ExecInv
  <2>3. Children' = Children /\ OnList("inactive")' = OnList("inactive")
    BY <1>5, Groups DEF ExecInv, ListTypes, Children, OnList
  <2>4. ListTypes' /\ RunTypes' /\ LocalTypes'
    <3>1. ListTypes'
      BY <1>5, <2>3, Groups DEF ExecInv, ListTypes, Core
    <3> QED BY <1>1, <1>2, <1>5, <2>3, <3>1 DEF ExecInv, RunTypes, LocalTypes
  <2>5. ListsMatch'
    BY <1>5, <2>2, Groups DEF ExecInv, ListTypes, ListsMatch
  <2>6. VirtualInStep' /\ VirtualWhole'
    BY <2>2, <2>3, Groups DEF ExecInv, ListTypes, VirtualInStep, VirtualWhole
  <2> QED BY <1>1, <1>2, <2>2, <2>4, <2>5, <2>6, StepDone DEF GroupsOK
<1>6. CASE UNCHANGED <<refVars, exec_state, running>>
  <2>1. disable_requested' \subseteq Group
    BY <1>1 DEF ExecInv, RunTypes
  <2> QED BY <1>1, <1>2, <1>6, <2>1, Unmoved
<1> QED BY <1>4, <1>5, <1>6, Zenon DEF AssignGp

\* The groups in off, none of which works any more, are disabled.
LEMMA DisableStep ==
  ASSUME ExecInv, PowerSame, NEW C \in SUBSET Core, NEW off \in SUBSET C,
         off \in SUBSET Held, \A g \in C \ off : group_state[g] = "inactive", deactivate(off),
         NEW g0 \in Group,
         \A g \in C : exec_state'[g] = "disabled",
         \A g \in Group \ (C \cup {Virtual, g0}) : exec_state'[g] = exec_state[g],
         g0 \in C \/ exec_state'[g0] = exec_state[g0]
           \/ (exec_state[g0] = "working" /\ exec_state'[g0] \in {"idle", "empty"}
                 /\ (g0 \in Core => exec_state'[g0] = "idle")),
         g0 # Virtual /\ HasVirtual => exec_state'[Virtual] \in {"empty", exec_state[Virtual]},
         g0 # Virtual /\ HasVirtual => exec_state'[Virtual] = exec_state[Virtual]
                                         \/ exec_state[Virtual] # "working",
         exec_state' \in [Group -> {"virtual", "disabled", "empty", "inactive", "idle", "working"}],
         running' = [running EXCEPT ![g0] = NoJob] \/ running' = running,
         running' = running =>
           exec_state'[g0] = exec_state[g0] \/ exec_state[g0] # "working",
         \A g \in C : running'[g] = NoJob,
         disable_requested' \subseteq Group,
         IsLocal(local'), local'.todo = {}, exec' \in Seq(Operation), SuspendInOrder'
  PROVE  ExecInv'
<1>1. UNCHANGED <<powered, pd_mask_current>>
  BY DEF PowerSame, maskVars
<1>2. /\ group_state' \in [Group -> {"inactive", "pending", "active"}]
      /\ use_count' \in [Domain -> Int] /\ pd_mask_wanted' \subseteq Domain
      /\ RefsExact' /\ ActiveOn'
      /\ group_state' = [i \in Group |-> IF i \in off THEN "inactive" ELSE group_state[i]]
  BY <1>1, DeactivateStep DEF ExecInv
<1>3. \A g \in C : group_state'[g] = "inactive" /\ g \in Group /\ g # Virtual
  BY <1>2, Groups DEF Core
<1>4. Children' = Children \ C
  BY Groups DEF ExecInv, ListTypes, Children, OnList, Core
<1>5. ListTypes'
  BY <1>4, Groups DEF ExecInv, ListTypes, Core
<1>6. RunTypes' /\ LocalTypes'
  BY DEF ExecInv, RunTypes, LocalTypes
<1>7. ListsMatch'
  BY <1>2, <1>3, Groups DEF ExecInv, ListTypes, RunTypes, ListsMatch, Core
<1>8. VirtualInStep' /\ VirtualWhole'
  BY <1>2, <1>3, <1>4, Groups DEF ExecInv, ListTypes, VirtualInStep, VirtualWhole
<1> QED BY <1>2, <1>5, <1>6, <1>7, <1>8, StepDone DEF GroupsOK
LEMMA GroupDisableInv == ASSUME ExecInv, NEW g \in Switchable, GroupDisable(g) PROVE ExecInv'
<1>1. /\ PowerSame /\ exec' = <<"schedule">> /\ UNCHANGED running
      /\ g \in Core /\ g \in Group /\ g # Virtual
  BY Groups, ExecutorAssumption DEF GroupDisable, PowerSame, Core
<1>2. exec' \in Seq(Operation) /\ SuspendInOrder'
  BY <1>1, Programs, NoSuspension
<1>3. IsLocal(local) /\ local.todo \subseteq OnList("inactive") /\ disable_requested \subseteq Group
  BY DEF ExecInv, LocalTypes, RunTypes
<1>4. CASE UNCHANGED <<refVars, exec_state, disable_requested, local>>
  BY <1>1, <1>2, <1>3, <1>4, Unmoved
<1>5. CASE /\ disable_requested' = disable_requested \cup {g}
                                     \cup (IF g \in Children THEN {Virtual} ELSE {})
           /\ UNCHANGED <<refVars, exec_state, local>>
  <2>1. disable_requested' \subseteq Group
    BY <1>1, <1>3, <1>5, Groups DEF ExecInv, ListTypes
  <2> QED BY <1>1, <1>2, <1>3, <1>5, <2>1, Unmoved
<1>6. CASE StateOf(g) \notin {"working", "disabled"} /\ disable_internal({g}) /\ UNCHANGED disable_requested
  <2> DEFINE off == {c \in {g} : group_state[c] # "inactive"}
  <2>1. /\ deactivate(off) /\ exec_state' = Disabled({g})
        /\ local' = [NoLocal EXCEPT !.trigger = Unwanted(off) # {}]
    BY <1>6 DEF disable_internal
  <2>2. /\ off \in SUBSET {g} /\ off \in SUBSET Held
        /\ \A c \in {g} \ off : group_state[c] = "inactive"
    BY <1>1 DEF Held
  <2> HIDE DEF off
  <2>3. IsLocal(local') /\ local'.todo = {}
    BY <2>1 DEF NoLocal, IsLocal
  <2>4. g \in Children => HasVirtual /\ exec_state[Virtual] # "working" /\ exec_state[g] = "virtual"
    BY <1>6 DEF StateOf, ExecInv, ListTypes, Children, OnList
  <2>5. g \notin Children => exec_state[g] # "working"
    BY <1>6 DEF StateOf
  <2>6. exec_state[g] # "working"
    BY <2>4, <2>5
  <2>7. running' = running /\ \A c \in {g} : running'[c] = NoJob
    BY <1>1, <2>6 DEF ExecInv, ListsMatch
  <2>8. /\ exec_state' \in [Group -> {"virtual", "disabled", "empty", "inactive", "idle", "working"}]
        /\ exec_state'[g] = "disabled"
        /\ \A i \in Group \ {g, Virtual} : exec_state'[i] = exec_state[i]
        /\ HasVirtual => exec_state'[Virtual] \in {"empty", exec_state[Virtual]}
        /\ HasVirtual => exec_state'[Virtual] = exec_state[Virtual] \/ exec_state[Virtual] # "working"
    BY <1>1, <2>1, <2>4, Groups DEF Disabled, EmptyWithout, ExecInv, ListTypes
  <2>9. disable_requested' \subseteq Group /\ {g} \in SUBSET Core
    BY <1>1, <1>3, <1>6
  <2> DEFINE C == {g}
  <2>10. /\ C \in SUBSET Core /\ off \in SUBSET C /\ off \in SUBSET Held /\ g \in C
         /\ \A c \in C \ off : group_state[c] = "inactive"
         /\ \A c \in C : exec_state'[c] = "disabled" /\ running'[c] = NoJob
         /\ \A i \in Group \ (C \cup {Virtual, g}) : exec_state'[i] = exec_state[i]
    BY <2>2, <2>7, <2>8, <2>9
  <2>11. /\ g # Virtual /\ HasVirtual => exec_state'[Virtual] \in {"empty", exec_state[Virtual]}
         /\ g # Virtual /\ HasVirtual => exec_state'[Virtual] = exec_state[Virtual]
                                           \/ exec_state[Virtual] # "working"
         /\ running' = running /\ exec_state[g] # "working"
    BY <2>6, <2>7, <2>8
  <2>12. PowerSame /\ g \in Group /\ exec' \in Seq(Operation) /\ SuspendInOrder'
    BY <1>1, <1>2
  <2> HIDE DEF C
  <2> QED BY ZenonT(60), <2>1, <2>3, <2>8, <2>9, <2>10, <2>11, <2>12, DisableStep
<1> QED BY <1>4, <1>5, <1>6, Zenon DEF GroupDisable

LEMMA GroupEnableInv == ASSUME ExecInv, NEW g \in Switchable, GroupEnable(g) PROVE ExecInv'
<1> DEFINE on     == ActiveAfter(g, {g})
           rejoin == on /\ g \in PpCore /\ HasVirtual
           back   == rejoin /\ group_state[Virtual] = "inactive"
<1>1. /\ PowerSame /\ exec' = <<"schedule">> /\ UNCHANGED <<running, disable_requested>>
      /\ g \in Core /\ g \in Group /\ g # Virtual /\ UNCHANGED <<powered, pd_mask_current>>
  BY Groups, ExecutorAssumption DEF GroupEnable, PowerSame, maskVars, Core
<1>2. exec' \in Seq(Operation) /\ SuspendInOrder'
  BY <1>1, Programs, NoSuspension
<1>3. IsLocal(local) /\ local.todo \subseteq OnList("inactive") /\ disable_requested' \subseteq Group
  BY <1>1 DEF ExecInv, LocalTypes, RunTypes
<1>4. CASE UNCHANGED <<refVars, exec_state, local>>
  BY <1>1, <1>2, <1>3, <1>4, Unmoved
<1>5. CASE /\ StateOf(g) = "disabled"
           /\ IF back THEN UNCHANGED refVars ELSE activate(g, {g})
           /\ exec_state' = IF rejoin THEN Rejoined({g})
                             ELSE [exec_state EXCEPT ![g] = IF on THEN "idle" ELSE "inactive"]
           /\ local' = [NoLocal EXCEPT !.trigger =
                           ~on \/ (back /\ \E d \in Used({g}) : use_count[d] = 0)]
  <2>1. g \notin Children /\ exec_state[g] = "disabled" /\ group_state[g] = "inactive"
    BY <1>1, <1>5, Groups DEF StateOf, ExecInv, ListTypes, ListsMatch, Children
  <2>2. IsLocal(local') /\ local'.todo = {}
    BY <1>5 DEF NoLocal, IsLocal
  <2>3. CASE back
    <3>1. /\ UNCHANGED refVars /\ HasVirtual /\ g \in PpCore /\ exec_state' = Rejoined({g})
          /\ group_state[Virtual] = "inactive"
      BY <1>5, <2>3
    <3>2. /\ exec_state' \in [Group -> {"virtual", "disabled", "empty", "inactive", "idle", "working"}]
          /\ exec_state'[g] = "virtual"
          /\ \A i \in Group \ {g, Virtual} : exec_state'[i] = exec_state[i]
          /\ exec_state'[Virtual] = IF exec_state[Virtual] = "empty" THEN "inactive" ELSE exec_state[Virtual]
      BY <1>1, <3>1, Groups DEF Rejoined, ExecInv, ListTypes
    <3>3. Children' = Children \cup {g}
      BY <1>1, <3>1, <3>2, Groups DEF Children, OnList
    <3>4. ListTypes'
      BY <3>1, <3>2, <3>3, Groups DEF ExecInv, ListTypes, Core
    <3>5. RunTypes' /\ LocalTypes'
      BY <1>1, <1>2, <1>3, <2>2 DEF ExecInv, RunTypes, LocalTypes
    <3>6. ListsMatch'
      BY <1>1, <2>1, <3>1, <3>2, Groups DEF ExecInv, ListTypes, RunTypes, ListsMatch, refVars
    <3>7. /\ \A c \in Children' : group_state[Virtual] = "inactive" <=> group_state[c] = "inactive"
          /\ VirtualWhole'
      BY <2>1, <3>1, <3>3 DEF ExecInv, VirtualInStep, VirtualWhole, refVars
    <3> QED BY <1>1, <1>2, <3>1, <3>4, <3>5, <3>6, <3>7, QuietDone
  <2>4. CASE ~back
    <3>1. /\ group_state' \in [Group -> {"inactive", "pending", "active"}]
          /\ use_count' \in [Domain -> Int] /\ pd_mask_wanted' \subseteq Domain
          /\ RefsExact' /\ ActiveOn'
          /\ \A i \in Group \ {g} : group_state'[i] = group_state[i]
          /\ group_state'[g] # "inactive"
          /\ (group_state'[g] = "active") <=> on
      BY <1>1, <1>5, <2>1, <2>4, ActivateStep DEF ExecInv
    <3>2. RunTypes' /\ LocalTypes'
      BY <1>1, <1>2, <1>3, <2>2 DEF ExecInv, RunTypes, LocalTypes
    <3>3. CASE rejoin
      <4>1. /\ HasVirtual /\ g \in PpCore /\ exec_state' = Rejoined({g}) /\ group_state'[g] = "active"
            /\ group_state[Virtual] # "inactive"
        BY <1>5, <2>4, <3>1, <3>3
      <4>2. /\ exec_state' \in [Group -> {"virtual", "disabled", "empty", "inactive", "idle", "working"}]
            /\ exec_state'[g] = "virtual"
            /\ \A i \in Group \ {g, Virtual} : exec_state'[i] = exec_state[i]
            /\ exec_state'[Virtual] =
                 IF exec_state[Virtual] = "empty"
                 THEN IF group_state[Virtual] = "active" THEN "idle" ELSE "inactive"
                 ELSE exec_state[Virtual]
        BY <1>1, <4>1, Groups DEF Rejoined, ExecInv, ListTypes
      <4>3. Children' = Children \cup {g}
        BY <1>1, <4>1, <4>2, Groups DEF Children, OnList
      <4>4. ListTypes'
        BY <4>1, <4>2, <4>3, Groups DEF ExecInv, ListTypes, Core
      <4>5. ListsMatch'
        <5> SUFFICES ASSUME NEW i \in Group
                     PROVE  /\ running'[i] # NoJob => exec_state'[i] = "working"
                            /\ exec_state'[i] \in {"idle", "working"} => group_state'[i] = "active"
                            /\ exec_state'[i] = "disabled" => group_state'[i] = "inactive"
                            /\ i # Virtual /\ exec_state'[i] = "inactive" => group_state'[i] # "active"
          BY DEF ListsMatch
        <5>1. /\ running' = running
              /\ i # g => group_state'[i] = group_state[i]
              /\ running[i] # NoJob => exec_state[i] = "working"
              /\ exec_state[i] \in {"idle", "working"} => group_state[i] = "active"
              /\ exec_state[i] = "disabled" => group_state[i] = "inactive"
              /\ i # Virtual /\ exec_state[i] = "inactive" => group_state[i] # "active"
          BY <1>1, <3>1 DEF ExecInv, ListsMatch
        <5>2. CASE i = g
          BY <2>1, <4>2, <5>1, <5>2
        <5>3. CASE i = Virtual /\ i # g
          BY <3>1, <4>2, <5>1, <5>3
        <5>4. CASE i \notin {g, Virtual}
          BY <3>1, <4>2, <5>1, <5>4
        <5> QED BY <5>2, <5>3, <5>4
      <4>6. VirtualInStep' /\ VirtualWhole'
        BY <1>1, <3>1, <4>1, <4>3, Groups DEF ExecInv, ListTypes, VirtualInStep, VirtualWhole
      <4> QED BY <1>1, <1>2, <3>1, <3>2, <4>4, <4>5, <4>6, StepDone DEF GroupsOK
    <3>4. CASE ~rejoin
      <4>1. exec_state' = [exec_state EXCEPT ![g] = IF on THEN "idle" ELSE "inactive"]
        BY <1>5, <3>4
      <4>2. Children' = Children
        BY <1>1, <2>1, <4>1, Groups DEF ExecInv, ListTypes, Children, OnList
      <4>4. ListTypes'
        BY <1>1, <4>1, <4>2, Groups DEF ExecInv, ListTypes, Core
      <4>5. ListsMatch'
        BY <1>1, <2>1, <3>1, <4>1, Groups DEF ExecInv, ListTypes, RunTypes, ListsMatch
      <4>6. VirtualInStep' /\ VirtualWhole'
        BY <1>1, <2>1, <3>1, <4>2, Groups DEF ExecInv, ListTypes, VirtualInStep, VirtualWhole
      <4> QED BY <1>1, <1>2, <3>1, <3>2, <4>4, <4>5, <4>6, StepDone DEF GroupsOK
    <3> QED BY <3>3, <3>4
  <2> QED BY <2>3, <2>4
<1> QED BY <1>4, <1>5, Zenon DEF GroupEnable
\* A job, or a sub job, completes on g, which may then be disabled with its children.
LEMMA CompleteStep ==
  ASSUME ExecInv, NEW g \in Group, running[g] # NoJob,
         NEW rest \in Seq(Operation), ~Suspends(rest), complete_group(g, rest)
  PROVE  ExecInv'
<1> DEFINE requested == IF g = Virtual THEN disable_requested \cap Children ELSE {g}
           off       == IF ~Paused /\ g \in disable_requested THEN requested ELSE {}
           gone      == IF ~Paused /\ g \in disable_requested THEN {g} \cup off ELSE {}
<1>1. /\ PowerSame /\ deactivate(off) /\ running' = [running EXCEPT ![g] = NoJob]
      /\ exec_state' = [i \in Group |->
           IF i \in off THEN "disabled"
           ELSE IF g = Virtual /\ i = g /\ off # {} /\ Children \subseteq off THEN "empty"
           ELSE [exec_state EXCEPT ![g] = "idle"][i]]
      /\ disable_requested' = disable_requested \ gone
      /\ local' = [NoLocal EXCEPT !.trigger = Unwanted(off) # {}]
      /\ exec' = (IF Paused THEN <<>> ELSE <<"schedule">>) \o rest
  BY DEF complete_group, PowerSame
<1>2. exec_state[g] = "working" /\ group_state[g] = "active"
  BY DEF ExecInv, ListsMatch
<1>3. /\ off \in SUBSET Core /\ off \in SUBSET Held
      /\ \A c \in off : c = g \/ exec_state[c] = "virtual"
      /\ g \in Core => off \subseteq {g}
      /\ g \in Core \/ g = Virtual
  BY <1>2, Groups DEF Core, Held, ExecInv, VirtualWhole, Children, OnList
<1>4. disable_requested' \subseteq Group
  BY <1>1 DEF ExecInv, RunTypes
<1>5. IsLocal(local') /\ local'.todo = {}
  BY <1>1 DEF NoLocal, IsLocal
<1>6. exec' \in Seq(Operation) /\ SuspendInOrder'
  <2>1. exec' = <<>> \o rest \/ exec' = <<"schedule">> \o rest
    BY <1>1
  <2> QED BY <2>1, Programs, SuspendsConcat, NoSuspension
<1> HIDE DEF off
<1>7. \A c \in off : c \in Group /\ running'[c] = NoJob
  BY <1>1, <1>3, Groups DEF Core, ExecInv, RunTypes, ListsMatch
<1>8. running' # running
  BY <1>1 DEF ExecInv, RunTypes
<1>9. /\ exec_state' \in [Group -> {"virtual", "disabled", "empty", "inactive", "idle", "working"}]
      /\ \A c \in off : exec_state'[c] = "disabled"
      /\ \A i \in Group \ (off \cup {Virtual, g}) : exec_state'[i] = exec_state[i]
      /\ g \in off \/ (/\ exec_state'[g] \in {"idle", "empty"}
                      /\ g \in Core => exec_state'[g] = "idle")
      /\ g # Virtual /\ HasVirtual => exec_state'[Virtual] = exec_state[Virtual]
  BY <1>1, <1>3, Groups DEF ExecInv, ListTypes, Core
<1>10. /\ off \in SUBSET off /\ \A c \in off \ off : group_state[c] = "inactive"
       /\ g \in off \/ exec_state'[g] = exec_state[g]
            \/ (exec_state[g] = "working" /\ exec_state'[g] \in {"idle", "empty"}
                  /\ (g \in Core => exec_state'[g] = "idle"))
       /\ g # Virtual /\ HasVirtual => exec_state'[Virtual] \in {"empty", exec_state[Virtual]}
       /\ g # Virtual /\ HasVirtual => exec_state'[Virtual] = exec_state[Virtual]
                                         \/ exec_state[Virtual] # "working"
       /\ running' = [running EXCEPT ![g] = NoJob] \/ running' = running
       /\ running' = running => exec_state'[g] = exec_state[g] \/ exec_state[g] # "working"
  BY <1>1, <1>2, <1>8, <1>9
<1> QED BY ZenonT(60), <1>1, <1>3, <1>4, <1>5, <1>6, <1>7, <1>9, <1>10, DisableStep

LEMMA CompleteGroupInv == ASSUME ExecInv, NEW g \in Group, CompleteGroup(g) PROVE ExecInv'
<1>1. running[g] # NoJob /\ complete_group(g, <<>>)
  BY DEF CompleteGroup
<1> QED BY <1>1, Programs, CompleteStep

LEMMA ScheduleFromMaskInv == ASSUME ExecInv, ScheduleFromMask PROVE ExecInv'
<1>1. /\ PowerSame /\ UNCHANGED <<refVars, exec_state, running, disable_requested, local>>
      /\ exec' = <<"schedule">>
  BY DEF ScheduleFromMask, PowerSame, powerVars
<1>2. exec' \in Seq(Operation) /\ SuspendInOrder'
  BY <1>1, Programs, NoSuspension
<1>3. IsLocal(local) /\ disable_requested' \subseteq Group
  BY <1>1 DEF ExecInv, LocalTypes, RunTypes
<1> QED BY <1>1, <1>2, <1>3, Unmoved

LEMMA AbortExecutorInv == ASSUME ExecInv, NEW s \in Session, AbortExecutor(s) PROVE ExecInv'
<1>1. /\ PowerSame /\ UNCHANGED <<refVars, exec_state, running, disable_requested, local>>
      /\ exec' = <<"abort">>
  BY DEF AbortExecutor, PowerSame, powerVars
<1>2. exec' \in Seq(Operation) /\ SuspendInOrder'
  BY <1>1, Programs, NoSuspension
<1>3. IsLocal(local) /\ disable_requested' \subseteq Group
  BY <1>1 DEF ExecInv, LocalTypes, RunTypes
<1> QED BY <1>1, <1>2, <1>3, Unmoved

LEMMA AbortGroupInv == ASSUME ExecInv, NEW s \in Session, AbortGroup(s) PROVE ExecInv'
<1>1. At("abort") /\ exec \in Seq(Operation)
  BY DEF AbortGroup, ExecInv, LocalTypes
<1>2. ASSUME NEW g \in Group, RunsFor(g, s), complete_group(g, exec) PROVE ExecInv'
  <2>1. ~Suspends(exec)
    BY <1>1, NotSuspending DEF SuspendSteps
  <2> QED BY <1>1, <1>2, <2>1, CompleteStep DEF RunsFor
<1>3. CASE Finished /\ UNCHANGED <<powerVars, exec_state, running, disable_requested>>
  <2>1. /\ PowerSame /\ UNCHANGED refVars /\ exec' = Tail(exec)
        /\ IsLocal(local') /\ local'.todo = {}
    BY <1>3 DEF PowerSame, powerVars, Finished, Continue, NoLocal, IsLocal
  <2>2. exec' \in Seq(Operation) /\ SuspendInOrder'
    BY <1>1, <2>1, ContinueOther DEF SuspendSteps
  <2>3. disable_requested' \subseteq Group
    BY <1>3 DEF ExecInv, RunTypes
  <2> QED BY <1>3, <2>1, <2>2, <2>3, Unmoved
<1> QED BY <1>2, <1>3 DEF AbortGroup

------------------------------------------------------------------------------
(* Suspend and resume of the device                                          *)

\* A step that leaves power management, the groups and the lists alone.
LEMMA NothingMoves ==
  ASSUME ExecInv, UNCHANGED <<powerVars, exec_state, running, disable_requested, local>>,
         exec' \in Seq(Operation), SuspendInOrder'
  PROVE  ExecInv'
<1>1. PowerSame /\ UNCHANGED refVars
  BY DEF PowerSame, powerVars
<1>2. IsLocal(local) /\ disable_requested' \subseteq Group
  BY DEF ExecInv, LocalTypes, RunTypes
<1> QED BY <1>1, <1>2, Unmoved

LEMMA PauseInv == ASSUME ExecInv, Pause \/ ExecutorResume PROVE ExecInv'
<1>1. /\ UNCHANGED <<powerVars, exec_state, running, disable_requested, local>>
      /\ Free /\ exec' \in {exec, <<"schedule">>}
  BY DEF Pause, ExecutorResume
<1>2. exec' \in Seq(Operation) /\ ~Suspends(exec')
  BY <1>1, Programs DEF Free
<1> QED BY <1>1, <1>2, NoSuspension, NothingMoves

LEMMA ExecutorSuspendInv == ASSUME ExecInv, ExecutorSuspend PROVE ExecInv'
<1>1. /\ UNCHANGED <<powerVars, exec_state, running, disable_requested, local>> /\ ~is_working
      /\ exec' = <<"suspend_idle", "suspend_gp", "suspend_virtual", "suspend_inactive">>
  BY DEF ExecutorSuspend
<1>2. exec' \in Seq(Operation) /\ exec' \in SuspendPrograms /\ Head(exec') = "suspend_idle"
  <2> DEFINE O == Operation
  <2>1. \A a, b, c, d \in O : <<a, b, c, d>> \in Seq(O)
    <3> HIDE DEF O
    <3> QED OBVIOUS
  <2>2. \A op \in {"suspend_idle", "suspend_gp", "suspend_virtual", "suspend_inactive"} : op \in O
    BY DEF Operation, SuspendSteps
  <2>3. exec' \in Seq(O)
    BY <1>1, <2>1, <2>2
  <2> QED BY <1>1, <2>3 DEF SuspendPrograms
<1>3. SuspendInOrder'
  BY <1>1, <1>2 DEF SuspendInOrder, is_working, At
<1> QED BY <1>1, <1>2, <1>3, NothingMoves

\* A suspension goes on with its next step.
LEMMA ContinueSuspend ==
  ASSUME ExecInv, exec' = Tail(exec), NEW op \in SuspendSteps, At(op)
  PROVE  /\ exec' \in Seq(Operation) /\ ~is_working
         /\ exec' \in SuspendPrograms \/ ~Suspends(exec')
         /\ At("suspend_inactive")' => op = "suspend_virtual"
<1>1. Suspends(exec) /\ exec # <<>> /\ exec \in Seq(Operation)
  <2>1. exec # <<>> /\ Head(exec) \in SuspendSteps /\ exec \in Seq(Operation)
    BY DEF At, ExecInv, LocalTypes
  <2>2. 1 \in DOMAIN exec /\ exec[1] = Head(exec)
    BY <2>1
  <2> QED BY <2>1, <2>2 DEF Suspends
<1>2. exec \in SuspendPrograms /\ ~is_working
  BY <1>1 DEF ExecInv, SuspendInOrder
<1>3. exec' \in Seq(Operation)
  BY <1>1, SuspendsTail
<1>4. CASE exec = <<"suspend_idle", "suspend_gp", "suspend_virtual", "suspend_inactive">>
  <2>1. exec' = <<"suspend_gp", "suspend_virtual", "suspend_inactive">>
    BY <1>4
  <2>2. exec' \in SuspendPrograms
    BY <2>1 DEF SuspendPrograms
  <2>3. ~At("suspend_inactive")'
    BY <2>1 DEF At
  <2> QED BY <1>2, <1>3, <2>2, <2>3
<1>5. CASE exec = <<"suspend_gp", "suspend_virtual", "suspend_inactive">>
  <2>1. exec' = <<"suspend_virtual", "suspend_inactive">>
    BY <1>5
  <2>2. exec' \in SuspendPrograms
    BY <2>1 DEF SuspendPrograms
  <2>3. ~At("suspend_inactive")'
    BY <2>1 DEF At
  <2> QED BY <1>2, <1>3, <2>2, <2>3
<1>6. CASE exec = <<"suspend_virtual", "suspend_inactive">>
  <2>1. exec' = <<"suspend_inactive">> /\ op = "suspend_virtual"
    BY <1>6 DEF At
  <2>2. exec' \in SuspendPrograms
    BY <2>1 DEF SuspendPrograms
  <2> QED BY <1>2, <1>3, <2>1, <2>2
<1>7. CASE exec = <<"suspend_inactive">>
  <2>1. exec' = <<>>
    BY <1>7
  <2> QED BY <1>2, <1>3, <2>1, Programs DEF At
<1> QED BY <1>2, <1>4, <1>5, <1>6, <1>7 DEF SuspendPrograms
LEMMA SuspendGoesOn ==
  ASSUME ExecInv, exec' = Tail(exec), NEW op \in SuspendSteps, At(op), ~is_working',
         HasVirtual /\ op = "suspend_virtual" => group_state'[Virtual] = "inactive"
  PROVE  exec' \in Seq(Operation) /\ SuspendInOrder'
<1>1. /\ exec' \in Seq(Operation) /\ (exec' \in SuspendPrograms \/ ~Suspends(exec'))
      /\ At("suspend_inactive")' => op = "suspend_virtual"
  BY ContinueSuspend
<1>2. CASE exec' \in SuspendPrograms
  BY <1>1, <1>2 DEF SuspendInOrder
<1>3. CASE ~Suspends(exec')
  BY <1>1, <1>3, NoSuspension
<1> QED BY <1>1, <1>2, <1>3

LEMMA SuspendIdleInv == ASSUME ExecInv, SuspendIdle PROVE ExecInv'
<1>1. /\ PowerSame /\ At("suspend_idle") /\ exec' = Tail(exec) /\ UNCHANGED <<running, disable_requested>>
      /\ deactivate_list_idle(TRUE) /\ "suspend_idle" \in SuspendSteps
  BY DEF SuspendIdle, PowerSame, Continue, SuspendSteps
<1>2. ~is_working
  BY <1>1, ContinueSuspend
<1>3. ~is_working'
  <2> DEFINE C == OnList("idle")
  <2>1. exec_state' = IF HasVirtual THEN Rejoined(C)
                      ELSE [g \in Group |-> IF g \in C THEN "inactive" ELSE exec_state[g]]
    BY <1>1 DEF deactivate_list_idle
  <2> QED BY <1>2, <2>1 DEF is_working, Rejoined
<1>4. exec' \in Seq(Operation) /\ SuspendInOrder'
  BY <1>1, <1>3, SuspendGoesOn
<1> QED BY <1>1, <1>4, DeactivateIdle

LEMMA SuspendGpInv == ASSUME ExecInv, SuspendGroup("suspend_gp", Gp) PROVE ExecInv'
<1>1. /\ PowerSame /\ At("suspend_gp") /\ exec' = Tail(exec) /\ UNCHANGED <<running, disable_requested, local>>
      /\ IF group_state[Gp] # "inactive"
         THEN exec_state' = [exec_state EXCEPT ![Gp] = "inactive"] /\ deactivate({Gp})
         ELSE UNCHANGED <<refVars, exec_state>>
      /\ "suspend_gp" \in SuspendSteps
  BY Groups DEF SuspendGroup, PowerSame, Continue, SuspendSteps, WithChildren
<1>2. ~is_working
  BY <1>1, ContinueSuspend
<1>3. ~is_working'
  BY <1>1, <1>2 DEF is_working, ExecInv, ListTypes
<1>4. exec' \in Seq(Operation) /\ SuspendInOrder'
  BY <1>1, <1>3, SuspendGoesOn
<1>5. IsLocal(local) /\ local.todo \subseteq OnList("inactive") /\ disable_requested' \subseteq Group
  BY <1>1 DEF ExecInv, LocalTypes, RunTypes
<1>6. CASE group_state[Gp] = "inactive"
  BY <1>1, <1>4, <1>5, <1>6, Unmoved
<1>7. CASE group_state[Gp] # "inactive"
  <2>1. {Gp} \in SUBSET Held /\ UNCHANGED <<powered, pd_mask_current>>
    BY <1>1, <1>7, Groups DEF Held, PowerSame, maskVars
  <2>2. /\ group_state' \in [Group -> {"inactive", "pending", "active"}]
        /\ use_count' \in [Domain -> Int] /\ pd_mask_wanted' \subseteq Domain
        /\ RefsExact' /\ ActiveOn'
        /\ group_state' = [i \in Group |-> IF i \in {Gp} THEN "inactive" ELSE group_state[i]]
    BY <1>1, <1>7, <2>1, DeactivateStep DEF ExecInv
  <2>3. Children' = Children /\ OnList("inactive")' = OnList("inactive")
    BY <1>1, <1>7, Groups DEF ExecInv, ListTypes, Children, OnList
  <2>4. exec_state[Gp] # "working"
    BY <1>2, Groups DEF is_working
  <2>5. ListTypes'
    BY <1>1, <1>7, <2>3, Groups DEF ExecInv, ListTypes, Core
  <2>6. RunTypes' /\ LocalTypes'
    BY <1>1, <1>4, <1>5, <2>3 DEF ExecInv, RunTypes, LocalTypes
  <2>7. ListsMatch'
    BY <1>1, <1>7, <2>2, <2>4, Groups DEF ExecInv, ListTypes, ListsMatch
  <2>8. VirtualInStep' /\ VirtualWhole'
    BY <2>2, <2>3, Groups DEF ExecInv, ListTypes, VirtualInStep, VirtualWhole
  <2> QED BY <1>1, <1>4, <2>2, <2>5, <2>6, <2>7, <2>8, StepDone DEF GroupsOK
<1> QED BY <1>6, <1>7

LEMMA SuspendVirtualInv == ASSUME ExecInv, SuspendGroup("suspend_virtual", Virtual) PROVE ExecInv'
<1>1. /\ PowerSame /\ At("suspend_virtual") /\ exec' = Tail(exec)
      /\ UNCHANGED <<running, disable_requested, local>>
      /\ IF Virtual \in Group /\ group_state[Virtual] # "inactive"
         THEN exec_state' = [exec_state EXCEPT ![Virtual] = "inactive"] /\ deactivate(WithChildren(Virtual))
         ELSE UNCHANGED <<refVars, exec_state>>
      /\ "suspend_virtual" \in SuspendSteps
  BY DEF SuspendGroup, PowerSame, Continue, SuspendSteps
<1>2. ~is_working
  BY <1>1, ContinueSuspend
<1>3. ~is_working'
  BY <1>1, <1>2 DEF is_working, ExecInv, ListTypes
<1>4. HasVirtual => group_state'[Virtual] = "inactive"
  BY <1>1, Groups DEF deactivate, WithChildren, refVars
<1>5. exec' \in Seq(Operation) /\ SuspendInOrder'
  BY <1>1, <1>3, <1>4, SuspendGoesOn
<1>6. IsLocal(local) /\ local'.todo \subseteq local.todo /\ disable_requested' \subseteq Group
  BY <1>1 DEF ExecInv, LocalTypes, RunTypes
<1>7. CASE Virtual \in Group /\ group_state[Virtual] # "inactive"
  <2>1. HasVirtual /\ exec_state[Virtual] # "working"
    BY <1>2, <1>7, Groups DEF is_working
  <2> QED BY <1>1, <1>5, <1>6, <1>7, <2>1, DeactivateWhole
<1>8. CASE ~(Virtual \in Group /\ group_state[Virtual] # "inactive")
  BY <1>1, <1>5, <1>6, <1>8, Unmoved
<1> QED BY <1>7, <1>8

LEMMA SuspendInactiveInv == ASSUME ExecInv, SuspendInactive PROVE ExecInv'
<1> DEFINE C == OnList("inactive")
<1>1. /\ PowerSame /\ At("suspend_inactive") /\ exec' = Tail(exec) /\ UNCHANGED <<running, disable_requested>>
      /\ deactivate(waiting)
      /\ exec_state' = IF HasVirtual
                       THEN [g \in Group |-> IF g \in C THEN "virtual" ELSE exec_state[g]]
                       ELSE exec_state
      /\ IsLocal(local') /\ local'.todo = {}
      /\ "suspend_inactive" \in SuspendSteps
  BY DEF SuspendInactive, PowerSame, Finished, Continue, NoLocal, IsLocal, SuspendSteps
<1>2. ~is_working /\ (HasVirtual => group_state[Virtual] = "inactive")
  BY <1>1, ContinueSuspend DEF ExecInv, SuspendInOrder
<1>3. ~is_working'
  BY <1>1, <1>2 DEF is_working
<1>4. exec' \in Seq(Operation) /\ SuspendInOrder'
  BY <1>1, <1>3, SuspendGoesOn
<1>5. /\ C \in SUBSET PpCore /\ \A c \in C : exec_state[c] = "inactive" /\ group_state[c] # "active"
      /\ waiting = {c \in C : group_state[c] = "pending"} /\ waiting \in SUBSET Held
  BY Groups DEF OnList, waiting, Held, ExecInv, ListsMatch
<1> HIDE DEF C
<1>6. UNCHANGED <<powered, pd_mask_current>>
  BY <1>1 DEF PowerSame, maskVars
<1>7. /\ group_state' \in [Group -> {"inactive", "pending", "active"}]
      /\ use_count' \in [Domain -> Int] /\ pd_mask_wanted' \subseteq Domain
      /\ RefsExact' /\ ActiveOn'
      /\ group_state' = [i \in Group |-> IF i \in waiting THEN "inactive" ELSE group_state[i]]
  BY <1>1, <1>5, <1>6, DeactivateStep DEF ExecInv
<1>8. \A c \in C : group_state'[c] = "inactive"
  BY <1>5, <1>7, Groups DEF ExecInv, PowerTypes
<1>9. \A i \in Group \ C : group_state'[i] = group_state[i]
  BY <1>5, <1>7
<1>10. Children' = IF HasVirtual THEN Children \cup C ELSE Children
  BY <1>1, <1>5, Groups DEF Children, OnList
<1>11. ListTypes'
  BY <1>1, <1>5, <1>10, Groups DEF ExecInv, ListTypes, Core
<1>12. RunTypes' /\ LocalTypes'
  BY <1>1, <1>4 DEF ExecInv, RunTypes, LocalTypes
<1>13. ListsMatch'
  BY <1>1, <1>5, <1>8, <1>9, Groups DEF ExecInv, ListTypes, ListsMatch
<1>14. VirtualInStep' /\ VirtualWhole'
  BY <1>2, <1>5, <1>8, <1>9, <1>10, Groups DEF ExecInv, ListTypes, VirtualInStep, VirtualWhole
<1> QED BY <1>1, <1>4, <1>7, <1>11, <1>12, <1>13, <1>14, StepDone DEF GroupsOK
------------------------------------------------------------------------------
(* The holder of pm_lock_exec                                                *)

ExecutorSame == UNCHANGED <<refVars, exec_state, running, disable_requested, exec, local>>

LEMMA PmDone ==
  ASSUME ExecInv, ExecutorSame, PowerTypes', ActiveOn', MasksInStep', RuntimeActive'
  PROVE  ExecInv'
<1>1. IsLocal(local) /\ local.todo \subseteq local.todo /\ disable_requested' \subseteq Group
  BY DEF ExecInv, LocalTypes, RunTypes, ExecutorSame
<1>2. exec' \in Seq(Operation)
  BY DEF ExecInv, LocalTypes, ExecutorSame
<1>3. /\ ListTypes' /\ RunTypes' /\ LocalTypes' /\ ListsMatch' /\ VirtualWhole'
      /\ \A c \in Children' : group_state[Virtual] = "inactive" <=> group_state[c] = "inactive"
  BY <1>1, <1>2, GroupsSame DEF ExecutorSame
<1>4. VirtualInStep'
  BY <1>3 DEF VirtualInStep, ExecutorSame, refVars
<1>5. RefsExact'
  BY SameHeld DEF ExecInv, ExecutorSame, refVars, Held
<1>6. SuspendInOrder'
  BY DEF ExecInv, SuspendInOrder, ExecutorSame, refVars, At, is_working
<1> QED BY <1>3, <1>4, <1>5, <1>6 DEF ExecInv

\* A group that holds references has its domains wanted.
LEMMA HeldWanted ==
  ASSUME PowerTypes, RefsExact, NEW g \in Held
  PROVE  /\ DomainOf[g] \in pd_mask_wanted
         /\ g # Virtual => L2Of[g] \in pd_mask_wanted
<1>1. g \in Group /\ Held \in SUBSET Group
  BY DEF Held
<1>2. DomainOf[g] \in Domain /\ (g # Virtual => L2Of[g] \in Domain)
  BY <1>1, PowerAssumption DEF Group
<1>3. \A d \in Domain : Uses(g, d) => Refs(Held, d) > 0
  BY <1>1, RefsCount
<1>4. \A d \in Domain : use_count[d] = Refs(Held, d)
  BY DEF RefsExact, Held
<1> QED BY <1>2, <1>3, <1>4 DEF RefsExact, Uses

\* Who wants the domain of a core also wants that of its L2 cache, or has it for nothing.
LEMMA WantedL2 ==
  ASSUME PowerTypes, RefsExact, NEW g \in Core,
         DomainOf[g] \in pd_mask_wanted \/ DomainOf[g] = Dummy
  PROVE  L2Of[g] \in pd_mask_wanted \/ L2Of[g] = Dummy
<1>1. CASE DomainOf[g] = Dummy
  BY <1>1, WiringAssumption DEF Core
<1>2. CASE DomainOf[g] \in pd_mask_wanted /\ DomainOf[g] # Dummy
  <2>1. DomainOf[g] \in Domain /\ Held \in SUBSET Group
    BY <1>2 DEF PowerTypes, Held
  <2>2. use_count[DomainOf[g]] > 0 /\ use_count[DomainOf[g]] = Refs(Held, DomainOf[g])
    BY <1>2, <2>1 DEF RefsExact, Held
  <2>3. PICK h \in Held : Uses(h, DomainOf[g])
    BY <2>1, <2>2, RefsCount
  <2>4. h # Virtual
    BY <1>2, <2>1, <2>3, Groups, WiringAssumption DEF Uses
  <2>5. h \in Core
    BY <2>1, <2>4, Groups DEF Core
  <2>6. L2Of[g] \in {Dummy, DomainOf[h], L2Of[h]}
    BY <2>3, <2>5, WiringAssumption DEF Uses, Core
  <2> QED BY <2>4, <2>6, HeldWanted
<1> QED BY <1>1, <1>2

\* Steps that leave the masks and the groups alone and notify nobody.
LEMMA PmQuiet ==
  ASSUME ExecInv, ExecutorSame, UNCHANGED <<pd_mask_current, powered>>,
         pm' = pm \/ (pm'.groups = {} /\ pm.step \notin {"notify_up", "notify_down", "notify_suspend"}
                        /\ pm'.step \notin {"notify_up", "notify_down", "notify_suspend"}),
         IsPm(pm'),
         pmu_mask_current' \subseteq Domain, pd_mask_current \ {Dummy} \subseteq pmu_mask_current',
         rpm' \in {"suspended", "resuming", "active", "suspending"}, runtime_active' \in BOOLEAN,
         RuntimeActive'
  PROVE  ExecInv'
<1>1. PowerTypes'
  BY DEF ExecInv, PowerTypes, ExecutorSame, refVars
<1>2. ActiveOn'
  BY DEF ExecInv, ActiveOn, ExecutorSame, refVars
<1>3. MasksInStep'
  BY DEF ExecInv, MasksInStep, GoesOff, PmAt
<1> QED BY <1>1, <1>2, <1>3, PmDone

LEMMA UpdateWorkInv ==
  ASSUME ExecInv, ExecutorSame, update_work \/ runtime_suspend \/ runtime_resume \/ os_suspend \/ os_resume
  PROVE  ExecInv'
<1>1. /\ UNCHANGED <<pd_mask_current, powered>>
      /\ pm' = pm \/ (pm = Idle /\ \E op, step : /\ pm' = [op |-> op, step |-> step, groups |-> {}]
                                               /\ op \in {"work", "runtime_suspend", "runtime_resume",
                                                         "os_suspend", "os_resume"}
                                               /\ step \in {"up", "suspend", "return"})
      /\ pmu_mask_current' \in {pmu_mask_current, Domain \ {Dummy}}
      /\ rpm' \in {rpm, "resuming"}
      /\ runtime_active' \in {runtime_active, TRUE}
  BY DEF update_work, runtime_suspend, runtime_resume, os_suspend, os_resume, Hold, PmFree, maskVars
<1>2. IsPm(pm')
  BY <1>1 DEF ExecInv, PowerTypes, IsPm
<1>3. pm' = pm \/ (pm'.groups = {} /\ pm.step \notin {"notify_up", "notify_down", "notify_suspend"}
                    /\ pm'.step \notin {"notify_up", "notify_down", "notify_suspend"})
  BY <1>1 DEF Idle
<1>4. /\ pmu_mask_current' \subseteq Domain /\ pd_mask_current \ {Dummy} \subseteq pmu_mask_current'
      /\ rpm' \in {"suspended", "resuming", "active", "suspending"} /\ runtime_active' \in BOOLEAN
  BY <1>1 DEF ExecInv, PowerTypes, MasksInStep
<1>5. RuntimeActive'
  <2>1. CASE update_work
    BY <2>1 DEF update_work, Hold, PmFree, Idle, ExecInv, RuntimeActive, maskVars
  <2>2. CASE runtime_suspend
    BY <2>2 DEF runtime_suspend, Hold, PmFree, Idle, ExecInv, RuntimeActive, maskVars
  <2>3. CASE runtime_resume
    BY <2>3 DEF runtime_resume, RuntimeActive
  <2>4. CASE os_suspend
    BY <2>4 DEF os_suspend, Hold, PmFree, Idle, ExecInv, RuntimeActive, maskVars
  <2>5. CASE os_resume
    BY <2>5 DEF os_resume, Hold, PmFree, Idle, ExecInv, RuntimeActive
  <2> QED BY <2>1, <2>2, <2>3, <2>4, <2>5
<1> QED BY <1>1, <1>2, <1>3, <1>4, <1>5, PmQuiet

LEMMA IdleType == IsPm(Idle)
BY DEF Idle, IsPm

\* Runtime PM after an operation that returns.
LEMMA ReturnActive ==
  ASSUME ExecInv, NEW suspended \in BOOLEAN, PmReturn(suspended),
         pd_mask_current' # {} => (pd_mask_current # {} /\ ~suspended),
         pm.op = "runtime_suspend" /\ suspended => pd_mask_current' = {}
  PROVE  /\ RuntimeActive' /\ runtime_active' \in BOOLEAN
         /\ rpm' \in {"suspended", "resuming", "active", "suspending"}
<1>1. /\ pm' = Idle
      /\ rpm' = IF pm.op = "runtime_resume" THEN "active"
                ELSE IF pm.op # "runtime_suspend" THEN rpm
                ELSE IF suspended THEN "suspended" ELSE "active"
      /\ runtime_active' = (runtime_active /\ ~(suspended /\ pm.op = "runtime_suspend"))
  BY DEF PmReturn
<1>2. pm'.op = "none" /\ pm'.step = "none"
  BY <1>1 DEF Idle
<1>3. runtime_active \in BOOLEAN /\ rpm \in {"suspended", "resuming", "active", "suspending"}
  BY DEF ExecInv, PowerTypes
<1>4. /\ pd_mask_current # {} => runtime_active
      /\ rpm # "suspended" => runtime_active
      /\ pm.op \in {"runtime_suspend", "runtime_resume"} => runtime_active
  BY DEF ExecInv, RuntimeActive
<1>5. pd_mask_current' # {} \/ rpm' # "suspended" => runtime_active'
  BY <1>1, <1>3, <1>4
<1>6. RuntimeActive'
  BY <1>2, <1>5 DEF RuntimeActive
<1> QED BY <1>1, <1>3, <1>6

LEMMA OsResumeReturnInv == ASSUME ExecInv, ExecutorSame, os_resume_return PROVE ExecInv'
<1>1. /\ pm.step = "return" /\ PmReturn(FALSE) /\ pm' = Idle
      /\ UNCHANGED <<pd_mask_current, pmu_mask_current, powered>>
  BY DEF os_resume_return, PmAt, maskVars, PmReturn
<1>2. /\ RuntimeActive' /\ runtime_active' \in BOOLEAN
      /\ rpm' \in {"suspended", "resuming", "active", "suspending"}
  BY <1>1, ReturnActive
<1>3. /\ pm'.groups = {} /\ pm.step \notin {"notify_up", "notify_down", "notify_suspend"}
      /\ pm'.step \notin {"notify_up", "notify_down", "notify_suspend"}
  BY <1>1 DEF Idle
<1>4. pmu_mask_current' \subseteq Domain /\ pd_mask_current \ {Dummy} \subseteq pmu_mask_current'
  BY <1>1 DEF ExecInv, PowerTypes, MasksInStep
<1>5. IsPm(pm')
  BY <1>1, IdleType
<1> QED BY <1>1, <1>2, <1>3, <1>4, <1>5, PmQuiet
LEMMA GroupDomains ==
  /\ \A g \in Group : DomainOf[g] \in Domain
  /\ \A g \in Core : L2Of[g] \in Domain /\ g \in Group /\ g # Virtual
  /\ \A g \in Group : g # Virtual => g \in Core
  /\ HasVirtual => Virtual \in Group /\ DomainOf[Virtual] = Dummy
  /\ Dummy \in Domain
BY Groups, PowerAssumption, WiringAssumption DEF Group, Core

LEMMA DomainPowerUpInv == ASSUME ExecInv, ExecutorSame, domain_power_up PROVE ExecInv'
<1> DEFINE up == pd_mask_wanted \ pd_mask_current
<1>1. /\ pm.step = "up" /\ UNCHANGED <<powered, runtime_active, rpm>>
      /\ IF up = {} THEN PmGoto("down", {}) /\ UNCHANGED maskVars
         ELSE /\ pd_mask_current' = pd_mask_current \cup up \cup {Dummy}
              /\ pmu_mask_current' = pmu_mask_current \cup (up \ {Dummy})
              /\ PmGoto("notify_up", GroupsIn(up \cup {Dummy}))
  BY DEF domain_power_up, PmAt
<1>2. /\ IsPm(pm) /\ up \subseteq Domain /\ pd_mask_current \subseteq Domain
      /\ pmu_mask_current \subseteq Domain /\ powered \subseteq Group
      /\ rpm \in {"suspended", "resuming", "active", "suspending"} /\ runtime_active \in BOOLEAN
  BY DEF ExecInv, PowerTypes
<1>3. runtime_active
  BY <1>1 DEF ExecInv, RuntimeActive
<1>4. RuntimeActive'
  BY <1>1, <1>3 DEF RuntimeActive
<1>5. CASE up = {}
  <2>1. pm' = [pm EXCEPT !.step = "down", !.groups = {}] /\ UNCHANGED <<pd_mask_current, pmu_mask_current>>
    BY <1>1, <1>5 DEF PmGoto, maskVars
  <2>2. IsPm(pm') /\ pm'.groups = {} /\ pm'.step = "down"
    BY <1>2, <2>1 DEF IsPm
  <2>3. pd_mask_current \ {Dummy} \subseteq pmu_mask_current'
    BY <2>1 DEF ExecInv, MasksInStep
  <2> QED BY <1>1, <1>2, <1>4, <2>1, <2>2, <2>3, PmQuiet
<1>6. CASE up # {}
  <2> DEFINE told == GroupsIn(up \cup {Dummy})
  <2>1. /\ pd_mask_current' = pd_mask_current \cup up \cup {Dummy}
        /\ pmu_mask_current' = pmu_mask_current \cup (up \ {Dummy})
        /\ pm' = [pm EXCEPT !.step = "notify_up", !.groups = told]
    BY <1>1, <1>6 DEF PmGoto
  <2>2. told = {g \in Group : DomainOf[g] \in up \cup {Dummy}}
    BY DEF GroupsIn
  <2> HIDE DEF told
  <2>3. IsPm(pm') /\ pm'.step = "notify_up" /\ pm'.groups = told
    BY <1>2, <2>1, <2>2 DEF IsPm
  <2>4. PowerTypes'
    BY <1>1, <1>2, <2>1, <2>3, GroupDomains DEF ExecInv, PowerTypes, ExecutorSame, refVars
  <2>5. ActiveOn'
    BY <1>1, <2>1 DEF ExecInv, ActiveOn, ExecutorSame, refVars
  <2>6. ASSUME NEW g \in Core, DomainOf[g] \in pd_mask_current' PROVE L2Of[g] \in pd_mask_current'
    <3>1. CASE DomainOf[g] \in pd_mask_current
      BY <2>1, <3>1 DEF ExecInv, MasksInStep
    <3>2. CASE DomainOf[g] \in pd_mask_wanted \/ DomainOf[g] = Dummy
      <4>1. L2Of[g] \in pd_mask_wanted \/ L2Of[g] = Dummy
        BY <3>2, WantedL2 DEF ExecInv
      <4> QED BY <2>1, <4>1
    <3> QED BY <2>1, <2>6, <3>1, <3>2
  <2>7. /\ pd_mask_current' \ {Dummy} \subseteq pmu_mask_current'
        /\ Dummy \in pd_mask_current'
    BY <2>1 DEF ExecInv, MasksInStep
  <2>8. /\ \A g \in powered : DomainOf[g] \in pd_mask_current
        /\ \A g \in Group : DomainOf[g] \in pd_mask_current => g \in powered
    BY <1>1 DEF ExecInv, MasksInStep, GoesOff, PmAt
  <2>9. MasksInStep'
    BY <1>1, <2>1, <2>2, <2>3, <2>6, <2>7, <2>8, GroupDomains DEF MasksInStep, GoesOff, PmAt
  <2> QED BY <1>4, <2>4, <2>5, <2>9, PmDone
<1> QED BY <1>5, <1>6

LEMMA DomainPowerDownInv == ASSUME ExecInv, ExecutorSame, domain_power_down PROVE ExecInv'
<1> DEFINE down == (pd_mask_current \ pd_mask_wanted) \ {Dummy}
<1>1. /\ pm.step = "down" /\ UNCHANGED powered
      /\ IF down = {}
         THEN /\ pmu_mask_current' = pmu_mask_current \cap pd_mask_current
              /\ PmReturn(FALSE)
              /\ UNCHANGED pd_mask_current
         ELSE /\ pd_mask_current' = pd_mask_current \ down
              /\ PmGoto("notify_down", GroupsIn(down))
              /\ UNCHANGED <<pmu_mask_current, rpm, runtime_active>>
  BY DEF domain_power_down, PmAt
<1>2. /\ IsPm(pm) /\ pd_mask_current \subseteq Domain
      /\ pmu_mask_current \subseteq Domain /\ powered \subseteq Group
      /\ rpm \in {"suspended", "resuming", "active", "suspending"} /\ runtime_active \in BOOLEAN
      /\ pd_mask_current \ {Dummy} \subseteq pmu_mask_current
  BY DEF ExecInv, PowerTypes, MasksInStep
<1>3. CASE down = {}
  <2>1. RuntimeActive' /\ runtime_active' \in BOOLEAN /\ rpm' \in {"suspended", "resuming", "active", "suspending"}
    BY <1>1, <1>3, ReturnActive
  <2>2. pm' = Idle /\ UNCHANGED pd_mask_current /\ pmu_mask_current' = pmu_mask_current \cap pd_mask_current
    BY <1>1, <1>3 DEF PmReturn
  <2>3. IsPm(pm') /\ pm'.groups = {} /\ pm'.step = "none"
    BY <2>2, IdleType DEF Idle
  <2> QED BY <1>1, <1>2, <2>1, <2>2, <2>3, PmQuiet
<1>4. CASE down # {}
  <2> DEFINE told == GroupsIn(down)
  <2>1. /\ pd_mask_current' = pd_mask_current \ down
        /\ pm' = [pm EXCEPT !.step = "notify_down", !.groups = told]
        /\ UNCHANGED <<pmu_mask_current, rpm, runtime_active>>
    BY <1>1, <1>4 DEF PmGoto
  <2>2. told = {g \in Group : DomainOf[g] \in down}
    BY DEF GroupsIn
  <2> HIDE DEF told
  <2>3. IsPm(pm') /\ pm'.step = "notify_down" /\ pm'.groups = told
    BY <1>2, <2>1, <2>2 DEF IsPm
  <2>4. PowerTypes'
    BY <1>1, <1>2, <2>1, <2>3 DEF ExecInv, PowerTypes, ExecutorSame, refVars
  <2>5. ActiveOn'
    <3>1. ASSUME NEW g \in Group, group_state[g] = "active"
          PROVE  /\ DomainOf[g] \in pd_mask_wanted
                 /\ g # Virtual => L2Of[g] \in pd_mask_wanted
      <4>1. g \in Held
        BY <3>1 DEF Held
      <4> QED BY <4>1, HeldWanted DEF ExecInv
    <3> QED BY <1>1, <2>1, <3>1 DEF ExecInv, ActiveOn, ExecutorSame, refVars
  <2>6. ASSUME NEW g \in Core, DomainOf[g] \in pd_mask_current' PROVE L2Of[g] \in pd_mask_current'
    <3>1. L2Of[g] \in pd_mask_current
      BY <2>1, <2>6 DEF ExecInv, MasksInStep
    <3>2. DomainOf[g] \in pd_mask_wanted \/ DomainOf[g] = Dummy
      BY <2>1, <2>6
    <3>3. L2Of[g] \in pd_mask_wanted \/ L2Of[g] = Dummy
      BY <3>2, WantedL2 DEF ExecInv
    <3> QED BY <2>1, <3>1, <3>3
  <2>7. pd_mask_current' # {} => Dummy \in pd_mask_current'
    BY <2>1 DEF ExecInv, MasksInStep
  <2>8. /\ \A g \in powered : DomainOf[g] \in pd_mask_current
        /\ \A g \in Group : DomainOf[g] \in pd_mask_current => g \in powered
    BY <1>1 DEF ExecInv, MasksInStep, GoesOff, PmAt
  <2>9. MasksInStep'
    BY <1>1, <1>2, <2>1, <2>2, <2>3, <2>6, <2>7, <2>8 DEF MasksInStep, GoesOff, PmAt
  <2>10. RuntimeActive'
    BY <1>1, <2>1 DEF ExecInv, RuntimeActive
  <2> QED BY <2>4, <2>5, <2>9, <2>10, PmDone
<1> QED BY <1>3, <1>4

LEMMA CommonSuspendInv == ASSUME ExecInv, ExecutorSame, common_suspend PROVE ExecInv'
<1>1. pm.step = "suspend" /\ UNCHANGED <<pmu_mask_current, powered>>
  BY DEF common_suspend, PmAt
<1>2. /\ IsPm(pm) /\ pmu_mask_current \subseteq Domain /\ powered \subseteq Group
      /\ rpm \in {"suspended", "resuming", "active", "suspending"} /\ runtime_active \in BOOLEAN
      /\ pd_mask_current \ {Dummy} \subseteq pmu_mask_current
  BY DEF ExecInv, PowerTypes, MasksInStep
<1>3. ASSUME NEW suspended \in BOOLEAN, PmReturn(suspended), UNCHANGED pd_mask_current,
             suspended => pd_mask_current = {}
      PROVE  ExecInv'
  <2>1. RuntimeActive' /\ runtime_active' \in BOOLEAN /\ rpm' \in {"suspended", "resuming", "active", "suspending"}
    BY <1>3, ReturnActive
  <2>2. pm' = Idle
    BY <1>3 DEF PmReturn
  <2>3. IsPm(pm') /\ pm'.groups = {} /\ pm'.step = "none"
    BY <2>2, IdleType DEF Idle
  <2> QED BY <1>1, <1>2, <1>3, <2>1, <2>3, PmQuiet
<1>4. CASE pm.op = "runtime_suspend" /\ PmGoto("up", {}) /\ UNCHANGED <<rpm, runtime_active, pd_mask_current>>
  <2>1. pm' = [pm EXCEPT !.step = "up", !.groups = {}]
    BY <1>4 DEF PmGoto
  <2>2. IsPm(pm') /\ pm'.groups = {} /\ pm'.step = "up"
    BY <1>2, <2>1 DEF IsPm
  <2>3. RuntimeActive'
    BY <1>4 DEF ExecInv, RuntimeActive
  <2> QED BY <1>1, <1>2, <1>4, <2>2, <2>3, PmQuiet
<1>5. CASE /\ pd_mask_wanted = {} /\ pd_mask_current # {} /\ pd_mask_current' = {}
           /\ PmGoto("notify_suspend", GroupsIn(pd_mask_current)) /\ UNCHANGED <<rpm, runtime_active>>
  <2> DEFINE told == GroupsIn(pd_mask_current)
  <2>1. /\ pm' = [pm EXCEPT !.step = "notify_suspend", !.groups = told]
        /\ told = {g \in Group : DomainOf[g] \in pd_mask_current}
    BY <1>5 DEF PmGoto, GroupsIn
  <2> HIDE DEF told
  <2>2. IsPm(pm') /\ pm'.groups = told /\ pm'.step = "notify_suspend"
    BY <1>2, <2>1 DEF IsPm
  <2>3. PowerTypes'
    BY <1>1, <1>2, <1>5, <2>2 DEF ExecInv, PowerTypes, ExecutorSame, refVars
  <2>4. ActiveOn'
    <3>1. ASSUME NEW g \in Group, group_state[g] = "active" PROVE FALSE
      <4>1. g \in Held
        BY <3>1 DEF Held
      <4> QED BY <1>5, <4>1, HeldWanted DEF ExecInv
    <3> QED BY <3>1 DEF ActiveOn, ExecutorSame, refVars
  <2>5. /\ \A g \in powered : DomainOf[g] \in pd_mask_current
        /\ \A g \in Group : DomainOf[g] \in pd_mask_current => g \in powered
    BY <1>1 DEF ExecInv, MasksInStep, GoesOff, PmAt
  <2>6. MasksInStep'
    BY <1>1, <1>2, <1>5, <2>1, <2>2, <2>5 DEF MasksInStep, GoesOff, PmAt
  <2>7. RuntimeActive'
    BY <1>5 DEF ExecInv, RuntimeActive
  <2> QED BY <2>3, <2>4, <2>6, <2>7, PmDone
<1>6. CASE pm.op = "os_suspend" /\ PmReturn(FALSE) /\ UNCHANGED pd_mask_current
  BY <1>3, <1>6
<1>7. CASE pd_mask_wanted = {} /\ pd_mask_current = {} /\ PmReturn(TRUE) /\ UNCHANGED pd_mask_current
  BY <1>3, <1>7
<1> QED BY <1>4, <1>5, <1>6, <1>7, Zenon DEF common_suspend, suspend_fails

LEMMA GroupPowerDownInv == ASSUME ExecInv, GroupPowerDown PROVE ExecInv'
<1>1. /\ ExecutorSame /\ UNCHANGED pd_mask_current
      /\ GoesOff /\ powered' = powered \ pm.groups
      /\ pmu_mask_current' = IF PmAt("notify_down") THEN pmu_mask_current \cap pd_mask_current ELSE {}
      /\ PmReturn(PmAt("notify_suspend"))
  BY DEF GroupPowerDown, group_power_down, executorVars, ExecutorSame, GoesOff
<1>2. pm' = Idle
  BY <1>1 DEF PmReturn
<1>3. IsPm(pm') /\ pm'.groups = {} /\ pm'.step = "none"
  BY <1>2, IdleType DEF Idle
<1>4. PmAt("notify_suspend") => pd_mask_current = {}
  BY DEF ExecInv, MasksInStep
<1>5. PmAt("notify_suspend") \in BOOLEAN
  BY DEF PmAt
<1>6. RuntimeActive' /\ runtime_active' \in BOOLEAN /\ rpm' \in {"suspended", "resuming", "active", "suspending"}
  BY <1>1, <1>4, <1>5, ReturnActive
<1>7. PowerTypes'
  BY <1>1, <1>3, <1>6 DEF ExecInv, PowerTypes, ExecutorSame, refVars
<1>8. \A g \in pm.groups : DomainOf[g] \notin pd_mask_current
  BY <1>1 DEF ExecInv, MasksInStep
<1>9. ActiveOn'
  BY <1>1, <1>8 DEF ExecInv, ActiveOn, ExecutorSame, refVars
<1>10. pd_mask_current' \ {Dummy} \subseteq pmu_mask_current'
  BY <1>1, <1>4 DEF ExecInv, MasksInStep, GoesOff, PmAt
<1>11. MasksInStep'
  <2>1. pm.step \notin {"notify_up"} /\ powered \subseteq Group
    BY <1>1 DEF GoesOff, ExecInv, PowerTypes
  <2>2. \A g \in powered' : DomainOf[g] \in pd_mask_current'
    BY <1>1 DEF ExecInv, MasksInStep
  <2>3. \A g \in Group : DomainOf[g] \in pd_mask_current' => g \in powered'
    BY <1>1, <1>8, <2>1 DEF ExecInv, MasksInStep, PmAt
  <2>4. /\ pd_mask_current' # {} => Dummy \in pd_mask_current'
        /\ \A g \in Core : DomainOf[g] \in pd_mask_current' => L2Of[g] \in pd_mask_current'
    BY <1>1 DEF ExecInv, MasksInStep
  <2> QED BY <1>3, <1>10, <2>2, <2>3, <2>4 DEF MasksInStep, GoesOff, PmAt
<1> QED BY <1>1, <1>6, <1>7, <1>9, <1>11, PmDone
LEMMA PowerUpReturnInv == ASSUME ExecInv, PowerUpReturn PROVE ExecInv'
<1>1. /\ At("power_up") /\ pm.step = "notified" /\ exec' = Tail(exec) /\ local' = NoLocal
      /\ pm' = [pm EXCEPT !.step = "down", !.groups = {}]
      /\ UNCHANGED <<refVars, pd_mask_current, pmu_mask_current, powered, runtime_active, rpm,
                     exec_state, running, disable_requested>>
  BY DEF PowerUpReturn, Finished, Continue, PmGoto, PmAt, maskVars
<1>2. exec' \in Seq(Operation) /\ SuspendInOrder'
  BY <1>1, ContinueOther DEF SuspendSteps
<1>3. IsLocal(local') /\ local'.todo \subseteq local.todo /\ disable_requested' \subseteq Group
  BY <1>1 DEF NoLocal, IsLocal, ExecInv, RunTypes
<1>4. /\ ListTypes' /\ RunTypes' /\ LocalTypes' /\ ListsMatch' /\ VirtualWhole'
      /\ \A c \in Children' : group_state[Virtual] = "inactive" <=> group_state[c] = "inactive"
  BY <1>1, <1>2, <1>3, GroupsSame
<1>5. VirtualInStep'
  BY <1>1, <1>4 DEF VirtualInStep, refVars
<1>6. RefsExact'
  BY <1>1, SameHeld DEF ExecInv, refVars, Held
<1>7. IsPm(pm') /\ pm'.groups = {} /\ pm'.step = "down" /\ pm'.op = pm.op
  BY <1>1 DEF ExecInv, PowerTypes, IsPm
<1>8. PowerTypes' /\ ActiveOn'
  BY <1>1, <1>7 DEF ExecInv, PowerTypes, ActiveOn, refVars
<1>9. MasksInStep' /\ RuntimeActive'
  BY <1>1, <1>7 DEF ExecInv, MasksInStep, RuntimeActive, GoesOff, PmAt
<1> QED BY <1>2, <1>4, <1>5, <1>6, <1>8, <1>9 DEF ExecInv

\* The groups that are told about their power become active, the virtual group only with
\* all its children.
LEMMA GroupPowerUpInv == ASSUME ExecInv, GroupPowerUp PROVE ExecInv'
<1> DEFINE awaited  == {g \in pm.groups : group_state[g] = "pending" /\ StateOf(g) = "inactive"}
           physical == awaited \ (Children \cup {Virtual})
           try      == HasVirtual /\ awaited \cap Children # {} /\ group_state[Virtual] = "pending"
           whole    == Children \subseteq powered'
<1>1. /\ pm.step = "notify_up" /\ Free /\ powered' = powered \cup pm.groups
      /\ local' = NoLocal
      /\ UNCHANGED <<use_count, pd_mask_wanted, pd_mask_current, pmu_mask_current,
                     runtime_active, rpm, running, disable_requested>>
  BY DEF GroupPowerUp, PmAt, maskVars
<1>2. PICK part \in SUBSET (Children \cap powered') :
        /\ IF try THEN (whole => part = Children) ELSE part = {}
        /\ LET active == physical \cup part \cup (IF try /\ whole THEN {Virtual} ELSE {})
           IN  /\ group_state' = [g \in Group |-> IF g \in active THEN "active" ELSE group_state[g]]
               /\ exec_state' = [g \in Group |-> IF g \in active \ Children THEN "idle"
                                                 ELSE exec_state[g]]
        /\ IF awaited = {} THEN PmGoto("down", {}) /\ UNCHANGED exec
           ELSE PmGoto("notified", {}) /\ exec' = <<"schedule", "power_up">>
  BY DEF GroupPowerUp
<1> DEFINE active == physical \cup part \cup (IF try /\ whole THEN {Virtual} ELSE {})
<1>3. /\ group_state' = [g \in Group |-> IF g \in active THEN "active" ELSE group_state[g]]
      /\ exec_state' = [g \in Group |-> IF g \in active \ Children THEN "idle" ELSE exec_state[g]]
  BY <1>2
<1>4. IsPm(pm') /\ pm'.groups = {} /\ pm'.step \in {"down", "notified"} /\ pm'.op = pm.op
  BY <1>2 DEF PmGoto, ExecInv, PowerTypes, IsPm
<1>5. exec' \in Seq(Operation) /\ ~Suspends(exec')
  BY <1>1, <1>2, Programs DEF Free
<1>6. SuspendInOrder'
  BY <1>5, NoSuspension
<1>7. /\ \A g \in pm.groups : g \in Group /\ DomainOf[g] \in pd_mask_current
      /\ HasVirtual => Virtual \in pm.groups
      /\ \A g \in powered : g \in Group /\ DomainOf[g] \in pd_mask_current
      /\ \A g \in Group : DomainOf[g] \in pd_mask_current => g \in powered'
      /\ \A g \in Core : DomainOf[g] \in pd_mask_current => L2Of[g] \in pd_mask_current
  BY <1>1 DEF ExecInv, PowerTypes, IsPm, MasksInStep, GoesOff, PmAt
<1>8. /\ \A g \in active : g \in powered' /\ g \in Group
      /\ \A g \in physical : exec_state[g] = "inactive" /\ group_state[g] = "pending"
                             /\ g \notin Children /\ g # Virtual
      /\ try => /\ HasVirtual /\ Virtual \in Group /\ Virtual \notin Children
               /\ group_state[Virtual] = "pending" /\ exec_state[Virtual] = "inactive"
      /\ \A g \in part : g \in Children /\ try
  BY <1>1, <1>2, <1>7, Groups DEF StateOf, Children, OnList
<1>9. ~try \/ ~whole => Virtual \notin active
  BY <1>8
<1>10. try /\ whole => Virtual \in active /\ Children \subseteq active
  BY <1>2
<1>11. \A g \in active : group_state[g] # "inactive"
  BY <1>2, <1>8 DEF ExecInv, VirtualInStep
<1>12. \A g \in active : g \notin Children => exec_state[g] = "inactive"
  BY <1>8, <1>2
<1>13. \A g \in active : g = Virtual => HasVirtual
  BY <1>8, Groups
<1> HIDE DEF active
<1>14. Held' = Held /\ RefsExact'
  <2>1. Held' = Held
    BY <1>3, <1>11 DEF Held
  <2> QED BY <1>1, <2>1, SameHeld DEF ExecInv
<1>15. PowerTypes'
  <2>1. group_state' \in [Group -> {"inactive", "pending", "active"}]
    BY <1>3 DEF ExecInv, PowerTypes
  <2>2. powered' \subseteq Group
    BY <1>1, <1>7
  <2> QED BY <1>1, <1>4, <2>1, <2>2 DEF ExecInv, PowerTypes
<1>16. ActiveOn'
  <2>1. ASSUME NEW g \in active
        PROVE  /\ g \in powered' /\ DomainOf[g] \in pd_mask_current
               /\ g # Virtual => L2Of[g] \in pd_mask_current
    BY <1>1, <1>7, <1>8, GroupDomains DEF active
  <2> QED BY <1>1, <1>3, <2>1 DEF ExecInv, ActiveOn
<1>17. MasksInStep' /\ RuntimeActive'
  <2>1. runtime_active
    BY <1>1 DEF ExecInv, RuntimeActive
  <2>2. RuntimeActive'
    BY <1>1, <2>1 DEF RuntimeActive
  <2>3. MasksInStep'
    BY <1>1, <1>4, <1>7 DEF ExecInv, MasksInStep, GoesOff, PmAt
  <2> QED BY <2>2, <2>3
<1>18. Children' = Children
  BY <1>3, Groups DEF Children, OnList
<1>19. ListTypes'
  BY <1>3, <1>13, <1>18, Groups DEF ExecInv, ListTypes, Core
<1>20. RunTypes' /\ LocalTypes'
  <2>1. IsLocal(local') /\ local'.todo = {}
    BY <1>1 DEF NoLocal, IsLocal
  <2> QED BY <1>1, <1>5, <2>1 DEF ExecInv, RunTypes, LocalTypes
<1>21. ListsMatch'
  <2>1. \A c \in Children : exec_state[c] = "virtual" /\ c # Virtual
    BY Groups DEF Children, OnList
  <2> QED BY <1>1, <1>3, <1>11, <1>12, <2>1 DEF ExecInv, ListTypes, RunTypes, ListsMatch
<1>22. VirtualInStep' /\ VirtualWhole'
  <2>1. \A g \in Group : group_state'[g] = "inactive" <=> group_state[g] = "inactive"
    BY <1>3, <1>11
  <2>2. Children \subseteq Group /\ (HasVirtual => Virtual \in Group) /\ (~HasVirtual => Children = {})
    BY Groups DEF ExecInv, ListTypes
  <2>3. VirtualInStep'
    BY <1>18, <2>1, <2>2 DEF ExecInv, VirtualInStep
  <2>4. ASSUME HasVirtual, group_state'[Virtual] = "active", NEW c \in Children
        PROVE  group_state'[c] = "active"
    <3>1. CASE Virtual \in active
      <4>1. c \in active
        BY <1>9, <1>10, <3>1
      <4> QED BY <1>3, <2>2, <4>1
    <3>2. CASE Virtual \notin active
      <4>1. group_state[Virtual] = "active"
        BY <1>3, <2>2, <2>4, <3>2
      <4> QED BY <1>3, <2>2, <2>4, <4>1 DEF ExecInv, VirtualWhole
    <3> QED BY <3>1, <3>2
  <2> QED BY <1>18, <2>3, <2>4 DEF VirtualWhole
<1> QED BY <1>6, <1>14, <1>15, <1>16, <1>17, <1>19, <1>20, <1>21, <1>22 DEF ExecInv

LEMMA OsStepInv == ASSUME ExecInv, PmOsSuspend \/ PmOsResume PROVE ExecInv'
<1>1. ExecutorSame /\ (os_suspend \/ os_resume)
  BY DEF PmOsSuspend, PmOsResume, os_suspend, os_resume, ExecutorSame
<1> QED BY <1>1, UpdateWorkInv

LEMMA RuntimeSuspendInv == ASSUME ExecInv, RuntimeSuspend PROVE ExecInv'
<1>1. /\ ExecutorSame /\ UNCHANGED <<pd_mask_current, pmu_mask_current, powered, pm, runtime_active>>
      /\ rpm = "active" /\ rpm' = "suspending"
  BY DEF RuntimeSuspend, ExecutorSame, executorVars, maskVars
<1>2. RuntimeActive'
  BY <1>1 DEF ExecInv, RuntimeActive
<1> QED BY <1>1, <1>2, PmQuiet DEF ExecInv, PowerTypes, MasksInStep

LEMMA PowerStepInv == ASSUME ExecInv, PowerStep PROVE ExecInv'
<1>1. ExecutorSame
  BY DEF PowerStep, ExecutorSame, executorVars, update_work, runtime_suspend, runtime_resume,
         os_resume_return, domain_power_up, domain_power_down, common_suspend
<1> QED BY <1>1, UpdateWorkInv, OsResumeReturnInv, DomainPowerUpInv, DomainPowerDownInv,
           CommonSuspendInv DEF PowerStep

LEMMA JobStepInv == ASSUME ExecInv, JobStep PROVE ExecInv'
<1>1. UNCHANGED <<powerVars, exec_state, running, disable_requested, exec, local, os>>
  BY DEF JobStep, executorVars
<1>2. exec' \in Seq(Operation) /\ SuspendInOrder'
  BY <1>1 DEF ExecInv, LocalTypes, SuspendInOrder, powerVars, refVars, At, is_working
<1> QED BY <1>1, <1>2, NothingMoves

------------------------------------------------------------------------------
(* The invariant holds                                                       *)

LEMMA ExecInvInit == ASSUME Init PROVE ExecInv
<1>1. /\ group_state = [g \in Group |-> "inactive"] /\ powered = {}
      /\ use_count = [d \in Domain |-> 0]
      /\ pd_mask_wanted = {} /\ pd_mask_current = {} /\ pmu_mask_current = {}
      /\ runtime_active = FALSE /\ rpm = "suspended" /\ pm = Idle
      /\ exec_state = [g \in Group |-> IF g \in PpCore /\ HasVirtual THEN "virtual" ELSE "inactive"]
      /\ running = [g \in Group |-> NoJob]
      /\ disable_requested = {} /\ exec = <<>> /\ local = NoLocal
  BY DEF Init, PowerInit, ExecutorInit
<1>2. PowerTypes
  <2>1. group_state \in [Group -> {"inactive", "pending", "active"}] /\ use_count \in [Domain -> Int]
    BY <1>1
  <2>2. IsPm(pm)
    BY <1>1, IdleType
  <2> QED BY <1>1, <2>1, <2>2 DEF PowerTypes
<1>3. ListTypes
  BY <1>1, Groups DEF ListTypes, Core, Children, OnList
<1>4. RunTypes /\ LocalTypes
  BY <1>1, Programs DEF RunTypes, LocalTypes, NoLocal, IsLocal
<1>5. RefsExact
  <2>1. Held = {}
    BY <1>1 DEF Held
  <2>2. \A d \in Domain : Refs({}, d) = 0
    BY RefsCount
  <2>3. {g \in Group : group_state[g] # "inactive"} = {}
    BY <1>1
  <2>4. \A d \in Domain : use_count[d] = 0
    BY <1>1
  <2>5. pd_mask_wanted = {d \in Domain : use_count[d] > 0}
    BY <1>1, <2>4
  <2> QED BY <2>2, <2>3, <2>4, <2>5 DEF RefsExact
<1>6. VirtualInStep /\ ListsMatch /\ VirtualWhole /\ ActiveOn
  BY <1>1, Groups DEF VirtualInStep, ListsMatch, VirtualWhole, ActiveOn, Children, OnList
<1>7. SuspendInOrder
  BY <1>1, Programs DEF SuspendInOrder, At
<1>8. MasksInStep /\ RuntimeActive
  BY <1>1 DEF MasksInStep, RuntimeActive, Idle, GoesOff, PmAt
<1> QED BY <1>2, <1>3, <1>4, <1>5, <1>6, <1>7, <1>8 DEF ExecInv

LEMMA ExecInvStutter == ASSUME ExecInv, UNCHANGED vars PROVE ExecInv'
<1>1. UNCHANGED <<powerVars, exec_state, running, disable_requested, exec, local, os>>
  BY DEF vars, executorVars
<1>2. exec' \in Seq(Operation) /\ SuspendInOrder'
  BY <1>1 DEF ExecInv, LocalTypes, SuspendInOrder, powerVars, refVars, At, is_working
<1> QED BY <1>1, <1>2, NothingMoves

LEMMA ExecInvNext == ASSUME ExecInv, Next PROVE ExecInv'
<1>1. CASE ScheduleStep
  BY <1>1, ScheduleInv, ActivateInactiveInv, StealInv, AssignPhysicalInv, RejoinIdleInv,
     ActivateVirtualInv, AssignVirtualInv, AssignGpInv DEF ScheduleStep
<1>2. CASE ScheduleFromMask
  BY <1>2, ScheduleFromMaskInv
<1>3. CASE \E g \in Group : CompleteGroup(g)
  BY <1>3, CompleteGroupInv
<1>4. CASE \E g \in Switchable : GroupEnable(g) \/ GroupDisable(g)
  BY <1>4, GroupEnableInv, GroupDisableInv
<1>5. CASE \E s \in Session : AbortExecutor(s) \/ AbortGroup(s)
  BY <1>5, AbortExecutorInv, AbortGroupInv
<1>6. CASE GroupPowerUp \/ PowerUpReturn \/ GroupPowerDown
  BY <1>6, GroupPowerUpInv, PowerUpReturnInv, GroupPowerDownInv
<1>7. CASE Pause \/ ExecutorSuspend \/ SuspendIdle \/ SuspendGroup("suspend_gp", Gp)
  BY <1>7, PauseInv, ExecutorSuspendInv, SuspendIdleInv, SuspendGpInv
<1>8. CASE SuspendGroup("suspend_virtual", Virtual) \/ SuspendInactive
  BY <1>8, SuspendVirtualInv, SuspendInactiveInv
<1>9. CASE PmOsSuspend \/ PmOsResume \/ ExecutorResume
  BY <1>9, OsStepInv, PauseInv
<1>10. CASE RuntimeSuspend \/ PowerStep \/ JobStep
  BY <1>10, RuntimeSuspendInv, PowerStepInv, JobStepInv
<1> QED BY <1>1, <1>2, <1>3, <1>4, <1>5, <1>6, <1>7, <1>8, <1>9, <1>10 DEF Next
LEMMA ExecInvAlways == Spec => []ExecInv
<1>1. Init => ExecInv
  BY ExecInvInit
<1>2. ExecInv /\ [Next]_vars => ExecInv'
  BY ExecInvNext, ExecInvStutter
<1> QED BY <1>1, <1>2, PTL DEF Spec

LEMMA InvPowered == ASSUME ExecInv PROVE PoweredWhileWorking
<1> SUFFICES ASSUME NEW g \in Group, running[g] # NoJob
             PROVE  /\ WithChildren(g) \subseteq powered
                    /\ \A i \in WithChildren(g) : group_state[i] = "active"
                    /\ Used(WithChildren(g)) \subseteq pd_mask_wanted \cap pd_mask_current
                    /\ Used(WithChildren(g)) \ {Dummy} \subseteq pmu_mask_current
                    /\ runtime_active
  BY DEF PoweredWhileWorking
<1> DEFINE S == WithChildren(g)
<1>1. group_state[g] = "active"
  BY DEF ExecInv, ListsMatch
<1>2. S \in SUBSET Group /\ g \in S /\ \A i \in S : group_state[i] = "active"
  BY <1>1, Groups DEF WithChildren, ExecInv, VirtualWhole
<1> HIDE DEF S
<1>3. \A i \in S : i \in powered /\ DomainOf[i] \in pd_mask_current
                   /\ (i # Virtual => L2Of[i] \in pd_mask_current)
  BY <1>2 DEF ExecInv, ActiveOn
<1>4. \A i \in S : DomainOf[i] \in pd_mask_wanted /\ (i # Virtual => L2Of[i] \in pd_mask_wanted)
  <2>1. \A i \in S : i \in Held
    BY <1>2 DEF Held
  <2> QED BY <2>1, HeldWanted DEF ExecInv
<1>5. Used(S) \subseteq pd_mask_wanted \cap pd_mask_current
  <2>1. \A d \in Used(S) : \E i \in S : Uses(i, d)
    BY <1>2, RefsCount DEF Used
  <2> QED BY <1>3, <1>4, <2>1 DEF Uses
<1>6. pd_mask_current \ {Dummy} \subseteq pmu_mask_current
  BY DEF ExecInv, MasksInStep
<1>7. runtime_active
  BY <1>2, <1>3 DEF ExecInv, RuntimeActive
<1> QED BY <1>2, <1>3, <1>5, <1>6, <1>7 DEF S

LEMMA InvQuiet == ASSUME ExecInv PROVE PoweredDownQuiet
<1> SUFFICES ASSUME pm.step \in {"notify_down", "notify_suspend"}
             PROVE  /\ pm.groups \subseteq powered
                    /\ \A g \in pm.groups : StateOf(g) \in {"disabled", "inactive", "empty"}
  BY DEF PoweredDownQuiet
<1>1. /\ \A g \in pm.groups : DomainOf[g] \notin pd_mask_current /\ g \in powered
      /\ pm.groups \subseteq Group
  BY DEF ExecInv, MasksInStep, GoesOff, PowerTypes, IsPm
<1>2. ASSUME NEW g \in pm.groups PROVE StateOf(g) \in {"disabled", "inactive", "empty"}
  <2>1. g \in Group /\ group_state[g] # "active"
    BY <1>1, <1>2 DEF ExecInv, ActiveOn
  <2>2. CASE g \in Children
    <3>1. HasVirtual /\ Virtual \in Group /\ group_state[Virtual] # "active"
      BY <2>1, <2>2, Groups DEF ExecInv, ListTypes, VirtualWhole
    <3>2. exec_state[Virtual] \in {"inactive", "empty"}
      BY <3>1 DEF ExecInv, ListTypes, ListsMatch
    <3> QED BY <2>2, <3>2 DEF StateOf
  <2>3. CASE g \notin Children
    <3>1. exec_state[g] # "virtual"
      BY <2>1, <2>3, Groups DEF ExecInv, ListTypes, Children, OnList
    <3>2. exec_state[g] \in {"disabled", "inactive", "empty"}
      BY <2>1, <3>1 DEF ExecInv, ListTypes, ListsMatch
    <3> QED BY <2>3, <3>2 DEF StateOf
  <2> QED BY <2>2, <2>3
<1> QED BY <1>1, <1>2

\* The references on the power domains are those of the groups that are not inactive,
\* with any number of groups and domains: what mali_group_activate takes is given back
\* once, however a core moves between the virtual group and the lists.
THEOREM ReferencesExact == Spec => []RefsExact
<1>1. ExecInv => RefsExact
  BY DEF ExecInv
<1> QED BY <1>1, ExecInvAlways, PTL

\* A child of the virtual group holds references exactly if the virtual group does
\* (mali_group_add_group, mali_group_remove_group and the rejoining of a core).
THEOREM ChildrenInStep == Spec => []VirtualInStep
<1>1. ExecInv => VirtualInStep
  BY DEF ExecInv
<1> QED BY <1>1, ExecInvAlways, PTL

\* A job runs only on hardware that is powered and wanted, in the driver and in the PMU,
\* while the device is not runtime suspended (mali_executor_schedule, mali_pm.c).
THEOREM WorkingIsPowered == Spec => []PoweredWhileWorking
BY InvPowered, ExecInvAlways, PTL

\* Only groups that are on and not in use lose their power, although they could be
\* activated after mali_pm_update_sync_internal chose them.
THEOREM PowerDownIsQuiet == Spec => []PoweredDownQuiet
BY InvQuiet, ExecInvAlways, PTL
================================================================================
