--------------------------- MODULE MCMaliTimeline ---------------------------
(***************************************************************************)
(* Instances of MaliTimeline for TLC: sets of trackers of each kind, and   *)
(* the timelines that the fences of each kind may name.                    *)
(***************************************************************************)
EXTENDS MaliTimeline

CONSTANTS Gp, PhyPp, VirtPp, Soft, Wait,
          GpFence, PpFence, SoftFence, WaitFence

AllTrackers == Gp \cup PhyPp \cup VirtPp \cup Soft \cup Wait

KindOf ==
  [t \in AllTrackers |-> CASE t \in Gp -> "gp" [] t \in PhyPp -> "phy_pp"
                           [] t \in VirtPp -> "virt_pp" [] t \in Soft -> "soft"
                           [] OTHER -> "wait"]

FenceOnOf ==
  [t \in AllTrackers |-> CASE t \in Gp -> GpFence [] t \in PhyPp \cup VirtPp -> PpFence
                           [] t \in Soft -> SoftFence [] OTHER -> WaitFence]

Symmetry == Permutations(Gp) \cup Permutations(PhyPp) \cup Permutations(VirtPp)
              \cup Permutations(Soft) \cup Permutations(Wait)
=============================================================================
