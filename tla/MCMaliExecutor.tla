---------------------------- MODULE MCMaliExecutor ----------------------------
(***************************************************************************)
(* Instances of MaliExecutor for TLC: a Mali-470 MP2 with its GP, a core   *)
(* in the domain of the GP and the L2 cache and a core in a domain of its  *)
(* own, and a Mali-400 without a virtual group.                            *)
(***************************************************************************)
EXTENDS MaliExecutor

CONSTANTS gpcore, c1, c2, vgroup, d0, d1, dummy, s1, s2, g1, v1, p1, p2, p3

MCDomain   == {d0, d1, dummy}
MCDomainOf == [g \in Group |-> IF g = vgroup THEN dummy ELSE IF g = c2 THEN d1 ELSE d0]
MCL2Of     == [g \in PpCore \cup {gpcore} |-> d0]

MCJobKind   == [j \in Job |-> IF j = g1 THEN "gp" ELSE IF j = v1 THEN "virtual" ELSE "physical"]
MCSubJobs   == [j \in Job |-> IF j = p1 THEN 2 ELSE 1]
MCSessionOf == [j \in Job |-> IF j \in {v1, p2} /\ s2 \in Session THEN s2 ELSE s1]

\* three physical jobs of two parts that nothing tells apart
MCAlikeSubJobs == [j \in Job |-> IF j = g1 THEN 1 ELSE 2]
AlikeJobs      == Permutations({p1, p2, p3})
===============================================================================
