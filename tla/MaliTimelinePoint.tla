-------------------------- MODULE MaliTimelinePoint --------------------------
(***************************************************************************)
(* Points of a timeline (mali_timeline.h).  A point is an unsigned 32-bit  *)
(* number handed out in ascending order to the trackers of a timeline; the *)
(* number wraps, and 0 (MALI_TIMELINE_NO_POINT) is skipped.  A timeline    *)
(* keeps point_oldest and point_next and classifies any other point by its *)
(* unsigned distance from point_oldest.  PointModulus stands for 2^32 and  *)
(* MaxPointSpan for MALI_TIMELINE_MAX_POINT_SPAN (65536), so that small    *)
(* values of both exercise the wrap.                                       *)
(***************************************************************************)
EXTENDS Integers

CONSTANTS PointModulus, \* number of values of a mali_timeline_point
          MaxPointSpan  \* MALI_TIMELINE_MAX_POINT_SPAN

\* 65536 is far below 2^31: the span (and the one value the wrap skips) leaves
\* room for the released points and for the sign bit of point_after.
ASSUME PointAssumption ==
  /\ PointModulus \in Nat
  /\ MaxPointSpan \in Nat \ {0}
  /\ PointModulus >= 2 * MaxPointSpan + 4

NoPoint == 0
Point   == 1 .. (PointModulus - 1)
AnyPoint == 0 .. (PointModulus - 1)

\* u32 subtraction
minus(a, b) == IF a >= b THEN a - b ELSE PointModulus + a - b

\* (mutant: 0 is handed out after the wrap)
next_point_no_skip(p) == (p + 1) % PointModulus

\* point_next++ in insert_tracker, which skips MALI_TIMELINE_NO_POINT
next_point(p) == IF p = PointModulus - 1 THEN 1 ELSE p + 1

\* 0 > (s32) b - (s32) a: the wrapped difference has its sign bit set
point_after(a, b) == 2 * minus(b, a) >= PointModulus

is_point_on(p, oldest, next) == minus(p, oldest) < minus(next, oldest)

\* (mutant: the span on the wrong side)
is_point_released_swapped(p, oldest, next) ==
  minus(p, oldest) + MaxPointSpan > minus(next, oldest)

is_point_released(p, oldest, next) ==
  minus(p, oldest) > minus(next, oldest) + MaxPointSpan

is_point_valid(p, oldest, next) ==
  is_point_on(p, oldest, next) \/ is_point_released(p, oldest, next)

is_full(oldest, next) == MaxPointSpan <= minus(next, oldest)
==============================================================================
