---------------------------- MODULE MaliFenceSpec ----------------------------
(***************************************************************************)
(* What the timeline system promises to its users, without points, lists,  *)
(* reference counts or locks (the comments of mali_timeline.h): a tracker  *)
(* names other trackers when it is added, is activated once, after all of  *)
(* them have been released, and is released once, after its activation.  A *)
(* tracker that names itself is never activated.                           *)
(***************************************************************************)
CONSTANT Tracker

VARIABLES phase, \* "free", "init", "waiting", "active"
          deps   \* what a tracker still depends on

fenceVars == <<phase, deps>>

FenceInit ==
  /\ phase = [t \in Tracker |-> "free"]
  /\ deps = [t \in Tracker |-> {}]

Create(t) ==
  /\ phase[t] = "free"
  /\ phase' = [phase EXCEPT ![t] = "init"]
  /\ UNCHANGED deps

Add(t, fence) ==
  /\ phase[t] = "init"
  /\ \A u \in fence \ {t} : phase[u] \in {"waiting", "active"}
  /\ phase' = [phase EXCEPT ![t] = "waiting"]
  /\ deps' = [deps EXCEPT ![t] = fence]

Activate(t) ==
  /\ phase[t] = "waiting" /\ deps[t] = {}
  /\ phase' = [phase EXCEPT ![t] = "active"]
  /\ UNCHANGED deps

Release(t) ==
  /\ phase[t] = "active"
  /\ phase' = [phase EXCEPT ![t] = "free"]
  /\ deps' = [u \in Tracker |-> deps[u] \ {t}]

FenceNext ==
  \E t \in Tracker :
    \/ Create(t)
    \/ \E fence \in SUBSET Tracker : Add(t, fence)
    \/ Activate(t)
    \/ Release(t)

FenceSpec == FenceInit /\ [][FenceNext]_fenceVars
==============================================================================
