------------------------ MODULE MaliTimelineOrderProofs ------------------------
(***************************************************************************)
(* Proofs about MaliTimeline: the lists of trackers and waiters are in     *)
(* point order across the wrap, waiters are released in order, no waiter   *)
(* of a GPU timeline is forgotten, and the timeline system implements      *)
(* MaliFenceSpec.                                                          *)
(*                                                                         *)
(* All is measured from point_next, which does not move while the lock is  *)
(* held: Back(tl, p) is how far p lies behind it.  point_oldest moves in   *)
(* the middle of a cascade, so that waiters can be off the timeline until  *)
(* update_oldest_point, which is then on the stack, comes to them; on the  *)
(* SOFT timeline a waiter can also be behind a point that was released out *)
(* of order, and then release_depended is on the stack with its cursor at  *)
(* or before the waiter.  OrderInv says this for every state of a cascade. *)
(***************************************************************************)
EXTENDS MaliTimelineProofs

\* How far p lies behind the next point of timeline tl.
Back(tl, p) == minus(point_next[tl], p)

\* Trackers are listed in the order of their points, starting with point_oldest, and
\* the timeline never gets longer than the span (plus the value that the wrap skips).
TrackersSorted ==
  \A tl \in TimelineId :
    LET list == tracker_list[tl]
    IN  /\ Back(tl, point_oldest[tl]) <= MaxPointSpan + 1
        /\ point_oldest[tl] = IF list = <<>> THEN point_next[tl] ELSE point[Head(list)]
        /\ \A i \in DOMAIN list : Back(tl, point[list[i]]) >= 1
        /\ \A i, j \in DOMAIN list :
             i < j => Back(tl, point[list[j]]) < Back(tl, point[list[i]])

\* Waiters are listed in the order of their points, which have been handed out.
WaitersSorted ==
  \A tl \in TimelineId :
    LET list == waiter_list[tl]
    IN  /\ \A i \in DOMAIN list :
             Back(tl, wait_point[list[i]][tl]) \in 1 .. MaxPointSpan + 1
        /\ \A i, j \in DOMAIN list :
             i < j => Back(tl, wait_point[list[j]][tl]) <= Back(tl, wait_point[list[i]][tl])

UpdateOf(tl) == [op |-> "update_oldest_point", timeline |-> tl]
Updating(tl) == UpdateOf(tl) \in Range(stack)

\* Waiters behind point_oldest are about to be released by update_oldest_point.
StaleUpdated ==
  \A tl \in TimelineId :
    ~Updating(tl) => \A t \in Range(waiter_list[tl]) : OnPoint(tl, wait_point[t][tl])

Walking(f) == f \in Range(stack) /\ f.op = "release_depended"

\* release_depended runs for points whose tracker is gone.
WalksReleased ==
  \A f \in Range(stack) :
    f.op = "release_depended" => is_tracker_released("SOFT", f.point)

\* f walks from its cursor to waiter i of the SOFT timeline, which waits for f.point.
\* The cursor of a walk that has begun waits for the same point.
WalkReaches(f, i) ==
  LET list == waiter_list["SOFT"]
  IN  /\ Walking(f)
      /\ f.point = wait_point[list[i]]["SOFT"]
      /\ \E j \in 1 .. i : list[j] = f.cursor
      /\ f = Head(stack) \/ wait_point[f.cursor]["SOFT"] = f.point

\* Waiters of the SOFT timeline for a tracker that is gone are about to be released.
DependedWalked ==
  \A i \in DOMAIN waiter_list["SOFT"] :
    LET p == wait_point[waiter_list["SOFT"][i]]["SOFT"]
    IN  OnPoint("SOFT", p) /\ is_tracker_released("SOFT", p) =>
          \E f \in Range(stack) : WalkReaches(f, i)

OrderInv ==
  /\ RefInv
  /\ TrackersSorted
  /\ WaitersSorted
  /\ StaleUpdated
  /\ WalksReleased
  /\ DependedWalked

------------------------------------------------------------------------------
(* Points                                                                    *)

\* The unsigned difference of two points is a natural number below the modulus.
LEMMA MinusType ==
  ASSUME NEW a \in AnyPoint, NEW b \in AnyPoint
  PROVE  minus(a, b) \in 0 .. PointModulus - 1 /\ minus(a, a) = 0
BY PointAssumption DEF AnyPoint, minus

\* A point is on the timeline when it lies behind point_next, not further than
\* point_oldest.
LEMMA OnBack ==
  ASSUME NEW p \in AnyPoint, NEW oldest \in AnyPoint, NEW next \in AnyPoint
  PROVE  /\ is_point_on(p, oldest, next) <=> minus(next, p) \in 1 .. minus(next, oldest)
         /\ is_point_on(p, oldest, next) =>
              minus(p, oldest) = minus(next, oldest) - minus(next, p)
BY PointAssumption DEF AnyPoint, minus, is_point_on

\* Handing out a point moves all points further back, by the same distance.
LEMMA NextBack ==
  ASSUME NEW next \in Point, NEW p \in AnyPoint, minus(next, p) <= PointModulus - 3
  PROVE  minus(next_point(next), p) =
           minus(next, p) + (IF next = PointModulus - 1 THEN 2 ELSE 1)
BY PointAssumption DEF AnyPoint, Point, minus, next_point

\* Points that are equally far back are equal.
LEMMA BackInjective ==
  ASSUME NEW next \in AnyPoint, NEW p \in AnyPoint, NEW q \in AnyPoint,
         minus(next, p) = minus(next, q)
  PROVE  p = q
BY PointAssumption DEF AnyPoint, minus

\* Within the span, point_after compares how far back two points are, which is the
\* order in which they were handed out.
LEMMA AfterBack ==
  ASSUME NEW next \in AnyPoint, NEW p \in AnyPoint, NEW q \in AnyPoint,
         minus(next, p) <= MaxPointSpan + 1, minus(next, q) <= MaxPointSpan + 1
  PROVE  point_after(p, q) <=> minus(next, p) < minus(next, q)
BY PointAssumption DEF AnyPoint, minus, point_after

------------------------------------------------------------------------------
(* Lists                                                                     *)

\* Unlinking x shifts the elements behind it by one.
LEMMA WithoutElements ==
  ASSUME NEW S, NEW s \in Seq(S), NEW x \in Range(s)
  PROVE  /\ Without(s, x) \in Seq(S)
         /\ Len(Without(s, x)) = Len(s) - 1
         /\ \E i \in 1 .. Len(s) :
              /\ s[i] = x
              /\ \A j \in 1 .. Len(s) - 1 :
                   Without(s, x)[j] = IF j < i THEN s[j] ELSE s[j + 1]
<1> DEFINE i == CHOOSE j \in DOMAIN s : s[j] = x
<1>1. i \in DOMAIN s /\ s[i] = x
  <2>1. \E j \in DOMAIN s : s[j] = x
    BY DEF Range
  <2> QED BY <2>1
<1>2. i \in 1 .. Len(s)
  BY <1>1, LenProperties
<1> HIDE DEF i
<1>3. /\ RemoveAt(s, i) \in Seq(S)
      /\ Len(RemoveAt(s, i)) = Len(s) - 1
      /\ \A j \in 1 .. Len(s) - 1 :
           RemoveAt(s, i)[j] = IF j < i THEN s[j] ELSE s[j + 1]
  BY <1>2, RemoveAtElements
<1>4. Without(s, x) = RemoveAt(s, i)
  BY Zenon DEF Without, i
<1> QED BY <1>1, <1>2, <1>3, <1>4

\* A new last element.
LEMMA AppendElements ==
  ASSUME NEW S, NEW s \in Seq(S), NEW e \in S
  PROVE  /\ Append(s, e) \in Seq(S) /\ Append(s, e) # <<>>
         /\ Len(Append(s, e)) = Len(s) + 1
         /\ Append(s, e)[Len(s) + 1] = e
         /\ \A i \in 1 .. Len(s) : Append(s, e)[i] = s[i]
         /\ Head(Append(s, e)) = Append(s, e)[1]
<1>1. /\ Append(s, e) \in Seq(S)
      /\ Len(Append(s, e)) = Len(s) + 1
      /\ Append(s, e)[Len(s) + 1] = e
      /\ \A i \in 1 .. Len(s) : Append(s, e)[i] = s[i]
  OBVIOUS
<1>2. Append(s, e) # <<>> /\ Len(Append(s, e)) > 0
  BY <1>1
<1> QED BY <1>1, <1>2

\* The elements of a concatenation.
LEMMA RangeConcat ==
  ASSUME NEW S, NEW a \in Seq(S), NEW b \in Seq(S)
  PROVE  a \o b \in Seq(S) /\ Range(a \o b) = Range(a) \cup Range(b)
<1>1. /\ a \o b \in Seq(S) /\ Len(a \o b) = Len(a) + Len(b)
      /\ Len(a) \in Nat /\ Len(b) \in Nat
      /\ DOMAIN a = 1 .. Len(a) /\ DOMAIN b = 1 .. Len(b)
      /\ DOMAIN (a \o b) = 1 .. Len(a) + Len(b)
  BY ConcatProperties, LenProperties
<1>2. \A i \in 1 .. Len(a) + Len(b) :
        (a \o b)[i] = IF i <= Len(a) THEN a[i] ELSE b[i - Len(a)]
  BY ConcatProperties
<1>3. ASSUME NEW x \in Range(a \o b) PROVE x \in Range(a) \cup Range(b)
  <2>1. PICK i \in 1 .. Len(a) + Len(b) : x = (a \o b)[i]
    BY <1>1 DEF Range
  <2>2. CASE i <= Len(a)
    BY <1>1, <1>2, <2>1, <2>2 DEF Range
  <2>3. CASE i > Len(a)
    <3>1. i - Len(a) \in 1 .. Len(b) /\ x = b[i - Len(a)]
      BY <1>1, <1>2, <2>1, <2>3
    <3> QED BY <1>1, <3>1 DEF Range
  <2> QED BY <1>1, <2>1, <2>2, <2>3
<1>4. ASSUME NEW x \in Range(a) PROVE x \in Range(a \o b)
  <2>1. PICK i \in 1 .. Len(a) : x = a[i]
    BY <1>1 DEF Range
  <2>2. i \in 1 .. Len(a) + Len(b) /\ x = (a \o b)[i]
    BY <1>1, <1>2, <2>1
  <2> QED BY <1>1, <2>2 DEF Range
<1>5. ASSUME NEW x \in Range(b) PROVE x \in Range(a \o b)
  <2>1. PICK i \in 1 .. Len(b) : x = b[i]
    BY <1>1 DEF Range
  <2>2. i + Len(a) \in 1 .. Len(a) + Len(b) /\ x = (a \o b)[i + Len(a)]
    BY <1>1, <1>2, <2>1
  <2> QED BY <1>1, <2>2 DEF Range
<1> HIDE DEF Range
<1> QED BY <1>1, <1>3, <1>4, <1>5

\* The elements of a sequence are its head and those of its tail.
LEMMA RangeHeadTail ==
  ASSUME NEW S, NEW s \in Seq(S), s # <<>>
  PROVE  /\ Head(s) \in Range(s) /\ Tail(s) \in Seq(S)
         /\ Range(s) = {Head(s)} \cup Range(Tail(s))
<1>1. /\ Head(s) = s[1] /\ Tail(s) \in Seq(S) /\ Len(s) \in Nat /\ Len(s) >= 1
      /\ Len(Tail(s)) = Len(s) - 1
      /\ \A j \in 1 .. Len(s) - 1 : Tail(s)[j] = s[j + 1]
  OBVIOUS
<1>2. DOMAIN s = 1 .. Len(s) /\ DOMAIN Tail(s) = 1 .. Len(s) - 1
  BY <1>1, LenProperties
<1>3. ASSUME NEW x \in Range(s) PROVE x = Head(s) \/ x \in Range(Tail(s))
  <2>1. PICK i \in 1 .. Len(s) : x = s[i]
    BY <1>2 DEF Range
  <2>2. CASE i # 1
    <3>1. i - 1 \in 1 .. Len(s) - 1 /\ Tail(s)[i - 1] = x
      BY <1>1, <2>1, <2>2
    <3> QED BY <1>2, <3>1 DEF Range
  <2> QED BY <1>1, <2>1, <2>2
<1>4. ASSUME NEW x \in Range(Tail(s)) PROVE x \in Range(s)
  <2>1. PICK i \in 1 .. Len(s) - 1 : x = Tail(s)[i]
    BY <1>2 DEF Range
  <2>2. i + 1 \in 1 .. Len(s) /\ x = s[i + 1]
    BY <1>1, <2>1
  <2> QED BY <1>2, <2>2 DEF Range
<1>5. Head(s) \in Range(s)
  BY <1>1, <1>2 DEF Range
<1> HIDE DEF Range
<1> QED BY <1>1, <1>3, <1>4, <1>5

\* One element.
LEMMA RangeOne ==
  ASSUME NEW x
  PROVE  Range(<<x>>) = {x} /\ Range(<<>>) = {}
<1>1. DOMAIN <<x>> = {1} /\ <<x>>[1] = x /\ DOMAIN <<>> = {}
  OBVIOUS
<1> QED BY <1>1, Zenon DEF Range

\* The lists and points of a timeline.
LEMMA TimelineTypes ==
  ASSUME TypeInv, NEW tl \in TimelineId
  PROVE  /\ point_next[tl] \in Point /\ point_next[tl] \in AnyPoint
         /\ point_oldest[tl] \in Point /\ point_oldest[tl] \in AnyPoint
         /\ tracker_list[tl] \in Seq(Tracker) /\ Len(tracker_list[tl]) \in Nat
         /\ DOMAIN tracker_list[tl] = 1 .. Len(tracker_list[tl])
         /\ \A i \in 1 .. Len(tracker_list[tl]) :
              /\ tracker_list[tl][i] \in Tracker
              /\ tracker_list[tl][i] \in Range(tracker_list[tl])
         /\ waiter_list[tl] \in Seq(Tracker) /\ Len(waiter_list[tl]) \in Nat
         /\ DOMAIN waiter_list[tl] = 1 .. Len(waiter_list[tl])
         /\ \A i \in 1 .. Len(waiter_list[tl]) :
              /\ waiter_list[tl][i] \in Tracker
              /\ waiter_list[tl][i] \in Range(waiter_list[tl])
         /\ Range(waiter_list[tl]) \subseteq Tracker
         /\ Range(tracker_list[tl]) \subseteq Tracker
         /\ \A t \in Tracker : point[t] \in AnyPoint /\ wait_point[t][tl] \in AnyPoint
<1>1. /\ tracker_list[tl] \in Seq(Tracker) /\ waiter_list[tl] \in Seq(Tracker)
      /\ point_next[tl] \in Point /\ point_oldest[tl] \in Point
  BY DEF TypeInv, TypeOK, ListTypes
<1>2. \A t \in Tracker : point[t] \in AnyPoint /\ wait_point[t][tl] \in AnyPoint
  BY DEF TypeInv, TypeOK, TrackerTypes, RefTypes
<1>3. ASSUME NEW s \in Seq(Tracker)
      PROVE  /\ Len(s) \in Nat /\ DOMAIN s = 1 .. Len(s) /\ Range(s) \subseteq Tracker
             /\ \A i \in 1 .. Len(s) : s[i] \in Tracker /\ s[i] \in Range(s)
  BY LenProperties, RangeOfSeq, ElementOfSeq DEF Range
<1> HIDE DEF Range
<1> QED BY <1>1, <1>2, <1>3, AnyPointTypes

------------------------------------------------------------------------------
(* The order of the trackers                                                 *)

\* Every other step leaves the trackers of the timelines alone.
LEMMA TrackersSame ==
  ASSUME TrackersSorted, UNCHANGED <<point_next, point_oldest, tracker_list, point>>
  PROVE  TrackersSorted'
BY DEF TrackersSorted, Back

\* insert_tracker: the new tracker is the nearest to point_next.
LEMMA add_tracker_sorted ==
  ASSUME TypeInv, TrackersSorted, NEW t \in Tracker, NEW f \in [FenceOn[t] -> AnyPoint],
         NEW granted, NEW sync \in BOOLEAN, add_tracker(t, f, granted, sync)
  PROVE  TrackersSorted'
<1> DEFINE tl == Home[Kind[t]]
<1>1. CASE ~inserted(t)
  <2>1. /\ UNCHANGED <<point_next, point_oldest, tracker_list>>
        /\ point' = [point EXCEPT ![t] = NoPoint]
    BY <1>1 DEF add_tracker, next_after
  <2>2. point[t] = NoPoint /\ point \in [Tracker -> AnyPoint]
    BY DEF add_tracker, TypeInv, TrackersListed, TypeOK, TrackerTypes
  <2>3. point' = point
    BY <2>1, <2>2
  <2> QED BY <2>1, <2>3, TrackersSame
<1>2. CASE inserted(t)
  <2>1. /\ tl \in TimelineId /\ ~full(tl)
        /\ tracker_list' = [tracker_list EXCEPT ![tl] = Append(tracker_list[tl], t)]
        /\ point' = [point EXCEPT ![t] = point_next[tl]]
        /\ point_next' = [point_next EXCEPT ![tl] = next_point(point_next[tl])]
        /\ UNCHANGED point_oldest
    BY <1>2 DEF add_tracker, next_after, inserted
  <2>2. \A x \in TimelineId : t \notin Range(tracker_list[x])
    BY DEF add_tracker, TypeInv, TrackersListed
  <2>3. /\ tracker_list'[tl] = Append(tracker_list[tl], t)
        /\ point'[t] = point_next[tl]
        /\ \A u \in Tracker \ {t} : point'[u] = point[u]
        /\ point_next'[tl] = next_point(point_next[tl])
        /\ point_oldest'[tl] = point_oldest[tl]
        /\ \A x \in TimelineId \ {tl} :
             /\ tracker_list'[x] = tracker_list[x] /\ point_next'[x] = point_next[x]
             /\ point_oldest'[x] = point_oldest[x]
    BY <2>1 DEF TypeInv, TypeOK, ListTypes, TrackerTypes
  <2> HIDE DEF tl
  <2> SUFFICES ASSUME NEW x \in TimelineId
               PROVE  LET list == tracker_list'[x]
                          back(p) == minus(point_next'[x], p)
                      IN  /\ back(point_oldest'[x]) <= MaxPointSpan + 1
                          /\ point_oldest'[x] =
                               IF list = <<>> THEN point_next'[x] ELSE point'[Head(list)]
                          /\ \A i \in DOMAIN list : back(point'[list[i]]) >= 1
                          /\ \A i, j \in DOMAIN list :
                               i < j => back(point'[list[j]]) < back(point'[list[i]])
    BY DEF TrackersSorted, Back
  <2>4. /\ \A i \in DOMAIN tracker_list[x] : tracker_list[x][i] \in Tracker \ {t}
        /\ tracker_list[x] # <<>> => Head(tracker_list[x]) \in Tracker \ {t}
    BY <2>2, TimelineTypes, RangeHeadTail
  <2>5. CASE x # tl
    BY <2>3, <2>4, <2>5 DEF TrackersSorted, Back
  <2>6. CASE x = tl
    <3> DEFINE s == tracker_list[tl]
               n == Len(s)
               step == IF point_next[tl] = PointModulus - 1 THEN 2 ELSE 1
    <3>1. /\ n \in Nat /\ s \in Seq(Tracker) /\ DOMAIN s = 1 .. n
          /\ \A i \in 1 .. n : s[i] \in Tracker \ {t}
          /\ s # <<>> => Head(s) = s[1] /\ 1 \in 1 .. n
          /\ s = <<>> => n = 0
      BY <2>1, <2>4, <2>6, TimelineTypes
    <3>2. /\ Append(s, t) \in Seq(Tracker) /\ Append(s, t) # <<>>
          /\ DOMAIN Append(s, t) = 1 .. n + 1
          /\ Append(s, t)[n + 1] = t
          /\ \A i \in 1 .. n : Append(s, t)[i] = s[i]
          /\ Head(Append(s, t)) = IF s = <<>> THEN t ELSE Head(s)
      <4> HIDE DEF n, s
      <4>1. /\ Append(s, t) \in Seq(Tracker) /\ Append(s, t) # <<>>
            /\ Len(Append(s, t)) = Len(s) + 1
            /\ Append(s, t)[Len(s) + 1] = t
            /\ \A i \in 1 .. Len(s) : Append(s, t)[i] = s[i]
            /\ Head(Append(s, t)) = Append(s, t)[1]
        BY <3>1, AppendElements
      <4>2. n = Len(s)
        BY DEF n, s
      <4>3. DOMAIN Append(s, t) = 1 .. n + 1
        BY <4>1, <4>2, LenProperties
      <4>4. Head(Append(s, t)) = IF s = <<>> THEN t ELSE Head(s)
        BY <3>1, <4>1, <4>2
      <4> QED BY <4>1, <4>2, <4>3, <4>4
    <3>3. /\ point_next[tl] \in Point /\ point_next[tl] \in AnyPoint
          /\ point_oldest[tl] \in AnyPoint
          /\ \A u \in Tracker : point[u] \in AnyPoint
          /\ MaxPointSpan \in Nat \ {0} /\ MaxPointSpan + 1 < PointModulus - 3
          /\ PointModulus \in Nat
      BY <2>1, TimelineTypes, PointAssumption
    <3>4. Back(tl, point_oldest[tl]) \in Nat /\ Back(tl, point_oldest[tl]) < MaxPointSpan
      BY <2>1, <3>3, MinusType DEF full, is_full, Back
    <3>5. \A i \in 1 .. n :
            /\ Back(tl, point[s[i]]) \in 1 .. Back(tl, point_oldest[tl])
            /\ \A j \in 1 .. n : i < j => Back(tl, point[s[j]]) < Back(tl, point[s[i]])
      <4>1. \A i \in 1 .. n : Back(tl, point[s[i]]) \in Nat
        BY <3>1, <3>3, MinusType DEF Back
      <4>2. \A i \in 1 .. n :
              /\ Back(tl, point[s[i]]) >= 1
              /\ \A j \in 1 .. n : i < j => Back(tl, point[s[j]]) < Back(tl, point[s[i]])
        BY <2>1, <3>1 DEF TrackersSorted
      <4>3. n > 0 => point_oldest[tl] = point[s[1]]
        BY <2>1, <3>1 DEF TrackersSorted
      <4> HIDE DEF n, s
      <4> QED BY <3>1, <4>1, <4>2, <4>3
    <3>6. \A p \in AnyPoint : Back(tl, p) <= MaxPointSpan =>
            minus(point_next'[tl], p) = Back(tl, p) + step
      <4> SUFFICES ASSUME NEW p \in AnyPoint, Back(tl, p) <= MaxPointSpan
                   PROVE  minus(point_next'[tl], p) = Back(tl, p) + step
        OBVIOUS
      <4>1. minus(point_next[tl], p) \in Int /\ minus(point_next[tl], p) <= MaxPointSpan
        BY <3>3, MinusType DEF Back
      <4>2. minus(point_next[tl], p) <= PointModulus - 3
        BY <3>3, <4>1
      <4> QED BY <2>3, <3>3, <4>2, NextBack DEF Back
    <3>7. minus(point_next'[tl], point_next[tl]) = step
      BY <3>3, <3>6, MinusType DEF Back
    <3>8. step \in 1 .. 2
      OBVIOUS
    <3> HIDE DEF n, s, step
    <3>9. minus(point_next'[x], point_oldest'[x]) <= MaxPointSpan + 1
      BY <2>3, <2>6, <3>3, <3>4, <3>6, <3>8
    <3>10. tracker_list'[x] = Append(s, t)
      BY <2>3, <2>6 DEF s
    <3>11. point_oldest'[x] = point'[Head(Append(s, t))]
      <4>1. point_oldest[tl] = IF s = <<>> THEN point_next[tl] ELSE point[Head(s)]
        BY <2>1 DEF TrackersSorted, s
      <4>2. CASE s = <<>>
        BY <2>3, <2>6, <3>2, <4>1, <4>2
      <4>3. CASE s # <<>>
        BY <2>3, <2>6, <3>1, <3>2, <4>1, <4>3
      <4> QED BY <4>2, <4>3
    <3>12. \A i \in 1 .. n :
             minus(point_next'[x], point'[s[i]]) = Back(tl, point[s[i]]) + step
      BY <2>3, <2>6, <3>1, <3>3, <3>4, <3>5, <3>6
    <3>13. \A i \in 1 .. n + 1 :
             /\ minus(point_next'[x], point'[Append(s, t)[i]]) >= 1
             /\ \A j \in 1 .. n + 1 : i < j =>
                  minus(point_next'[x], point'[Append(s, t)[j]])
                    < minus(point_next'[x], point'[Append(s, t)[i]])
      <4>1. minus(point_next'[x], point'[Append(s, t)[n + 1]]) = step
        BY <2>3, <2>6, <3>2, <3>7
      <4>2. \A i \in 1 .. n :
              minus(point_next'[x], point'[Append(s, t)[i]]) = Back(tl, point[s[i]]) + step
        BY <3>2, <3>12
      <4>3. ASSUME NEW i \in 1 .. n
            PROVE  /\ minus(point_next'[x], point'[Append(s, t)[i]]) >= 1
                   /\ minus(point_next'[x], point'[Append(s, t)[n + 1]])
                        < minus(point_next'[x], point'[Append(s, t)[i]])
        BY <3>1, <3>4, <3>5, <3>8, <4>1, <4>2
      <4>4. ASSUME NEW i \in 1 .. n, NEW j \in 1 .. n, i < j
            PROVE  minus(point_next'[x], point'[Append(s, t)[j]])
                     < minus(point_next'[x], point'[Append(s, t)[i]])
        BY SMTT(30), <3>1, <3>4, <3>5, <3>8, <4>2, <4>4
      <4>5. \A i \in 1 .. n + 1 : i \in 1 .. n \/ i = n + 1
        BY <3>1
      <4>6. \A i, j \in 1 .. n + 1 : i < j => i \in 1 .. n
        BY <3>1
      <4>7. minus(point_next'[x], point'[Append(s, t)[n + 1]]) >= 1
        BY <3>8, <4>1
      <4> QED BY <4>3, <4>4, <4>5, <4>6, <4>7
    <3> QED BY <3>2, <3>9, <3>10, <3>11, <3>13
  <2> QED BY <2>5, <2>6
<1> QED BY <1>1, <1>2

\* tracker_release unlinks a tracker that is on a timeline.
LEMMA ReleaseLists ==
  ASSUME TypeInv, NEW t \in Tracker, point[t] # NoPoint, tracker_release(t)
  PROVE  LET tl   == Home[Kind[t]]
             list == Without(tracker_list[tl], t)
         IN  /\ tl \in TimelineId
             /\ t \in Range(tracker_list[tl]) /\ Distinct(tracker_list[tl])
             /\ tracker_list'[tl] = list
             /\ point_oldest'[tl] = IF Head(tracker_list[tl]) = t
                                    THEN new_oldest(tl, list) ELSE point_oldest[tl]
             /\ \A x \in TimelineId \ {tl} :
                  tracker_list'[x] = tracker_list[x] /\ point_oldest'[x] = point_oldest[x]
             /\ point_next' = point_next
             /\ point'[t] = NoPoint
             /\ \A u \in Tracker \ {t} : point'[u] = point[u]
<1> DEFINE tl   == Home[Kind[t]]
           list == Without(tracker_list[tl], t)
<1>1. /\ tl \in TimelineId
      /\ t \in Range(tracker_list[tl]) /\ Distinct(tracker_list[tl])
  BY DEF TypeInv, TrackersListed
<1>2. /\ tracker_list' = [tracker_list EXCEPT ![tl] = list]
      /\ point_oldest' = IF ~(Head(tracker_list[tl]) = t) THEN point_oldest
                         ELSE [point_oldest EXCEPT ![tl] = new_oldest(tl, list)]
      /\ point' = [point EXCEPT ![t] = NoPoint]
      /\ point_next' = point_next
  BY DEF tracker_release
<1>3. /\ tracker_list \in [TimelineId -> Seq(Tracker)]
      /\ point_oldest \in [TimelineId -> Point]
      /\ point \in [Tracker -> AnyPoint]
  BY DEF TypeInv, TypeOK, ListTypes, TrackerTypes
<1> HIDE DEF tl, list
<1>4. tracker_list'[tl] = list /\ \A x \in TimelineId \ {tl} : tracker_list'[x] = tracker_list[x]
  BY <1>1, <1>2, <1>3
<1>5. /\ point_oldest'[tl] = IF Head(tracker_list[tl]) = t
                             THEN new_oldest(tl, list) ELSE point_oldest[tl]
      /\ \A x \in TimelineId \ {tl} : point_oldest'[x] = point_oldest[x]
  BY <1>1, <1>2, <1>3
<1>6. point'[t] = NoPoint /\ \A u \in Tracker \ {t} : point'[u] = point[u]
  BY <1>2, <1>3
<1> QED BY <1>1, <1>2, <1>4, <1>5, <1>6 DEF tl, list

\* The points of the trackers of a timeline, from the oldest on.
LEMMA ListedBack ==
  ASSUME TypeInv, TrackersSorted, NEW tl \in TimelineId
  PROVE  LET s == tracker_list[tl]
         IN  /\ Back(tl, point_oldest[tl]) \in 0 .. MaxPointSpan + 1
             /\ s = <<>> => Len(s) = 0 /\ point_oldest[tl] = point_next[tl]
             /\ s # <<>> => /\ Head(s) = s[1] /\ 1 \in 1 .. Len(s)
                            /\ point_oldest[tl] = point[s[1]]
             /\ \A i \in 1 .. Len(s) :
                  Back(tl, point[s[i]]) \in 1 .. Back(tl, point_oldest[tl])
             /\ \A i, j \in 1 .. Len(s) :
                  i < j => Back(tl, point[s[j]]) < Back(tl, point[s[i]])
<1> DEFINE s == tracker_list[tl]
<1>1. /\ s \in Seq(Tracker) /\ Len(s) \in Nat /\ DOMAIN s = 1 .. Len(s)
      /\ \A i \in 1 .. Len(s) : s[i] \in Tracker
      /\ point_next[tl] \in AnyPoint /\ point_oldest[tl] \in AnyPoint
      /\ \A u \in Tracker : point[u] \in AnyPoint
  BY TimelineTypes
<1>2. /\ Back(tl, point_oldest[tl]) \in Nat
      /\ \A i \in 1 .. Len(s) : Back(tl, point[s[i]]) \in Nat
  BY <1>1, MinusType DEF Back
<1>3. /\ Back(tl, point_oldest[tl]) <= MaxPointSpan + 1
      /\ point_oldest[tl] = IF s = <<>> THEN point_next[tl] ELSE point[Head(s)]
      /\ \A i \in 1 .. Len(s) : Back(tl, point[s[i]]) >= 1
      /\ \A i, j \in 1 .. Len(s) : i < j => Back(tl, point[s[j]]) < Back(tl, point[s[i]])
  BY <1>1 DEF TrackersSorted
<1>4. s # <<>> => Head(s) = s[1] /\ 1 \in 1 .. Len(s)
  BY <1>1
<1>5. s = <<>> => Len(s) = 0
  OBVIOUS
<1>6. MaxPointSpan \in Nat
  BY PointAssumption
<1> HIDE DEF s
<1>7. \A i \in 1 .. Len(s) : Back(tl, point[s[i]]) \in 1 .. Back(tl, point_oldest[tl])
  <2> SUFFICES ASSUME NEW i \in 1 .. Len(s)
               PROVE  Back(tl, point[s[i]]) \in 1 .. Back(tl, point_oldest[tl])
    OBVIOUS
  <2>1. s # <<>> /\ point_oldest[tl] = point[s[1]] /\ 1 \in 1 .. Len(s)
    BY <1>1, <1>3, <1>4, <1>5
  <2>2. i = 1 \/ 1 < i
    OBVIOUS
  <2> QED BY <1>2, <1>3, <2>1, <2>2
<1>8. Back(tl, point_oldest[tl]) \in 0 .. MaxPointSpan + 1
  <2> HIDE DEF Back
  <2> QED BY <1>2, <1>3, <1>6
<1>9. s = <<>> => point_oldest[tl] = point_next[tl]
  BY <1>3
<1>10. s # <<>> => point_oldest[tl] = point[s[1]]
  BY <1>3, <1>4
<1> QED BY <1>3, <1>4, <1>5, <1>7, <1>8, <1>9, <1>10, Zenon DEF s

\* tracker_release: the list loses a tracker; if it was the oldest one, the timeline
\* starts at the next.
LEMMA tracker_release_sorted ==
  ASSUME TypeInv, TrackersSorted, NEW t \in Tracker, tracker_release(t)
  PROVE  TrackersSorted'
<1> DEFINE tl == Home[Kind[t]]
           s  == tracker_list[tl]
           w  == Without(s, t)
<1>1. CASE point[t] = NoPoint
  <2>1. /\ UNCHANGED <<point_next, point_oldest, tracker_list>>
        /\ point' = [point EXCEPT ![t] = NoPoint]
    BY <1>1 DEF tracker_release
  <2>2. point \in [Tracker -> AnyPoint]
    BY DEF TypeInv, TypeOK, TrackerTypes
  <2>3. point' = point
    BY <1>1, <2>1, <2>2
  <2> QED BY <2>1, <2>3, TrackersSame
<1>2. CASE point[t] # NoPoint
  <2>1. /\ tl \in TimelineId
        /\ t \in Range(s) /\ Distinct(s)
        /\ tracker_list'[tl] = w
        /\ point_oldest'[tl] = IF Head(s) = t THEN new_oldest(tl, w) ELSE point_oldest[tl]
        /\ \A x \in TimelineId \ {tl} :
             tracker_list'[x] = tracker_list[x] /\ point_oldest'[x] = point_oldest[x]
        /\ point_next' = point_next
        /\ \A u \in Tracker \ {t} : point'[u] = point[u]
    BY <1>2, ReleaseLists
  <2>2. /\ s \in Seq(Tracker) /\ Len(s) \in Nat /\ DOMAIN s = 1 .. Len(s)
        /\ \A i \in 1 .. Len(s) : s[i] \in Tracker
        /\ \A u \in Tracker : point[u] \in AnyPoint
    BY <2>1, TimelineTypes
  <2>3. /\ w \in Seq(Tracker) /\ Len(w) = Len(s) - 1 /\ DOMAIN w = 1 .. Len(s) - 1
    BY <2>1, <2>2, WithoutElements, LenProperties
  <2>4. PICK k \in 1 .. Len(s) :
          /\ s[k] = t
          /\ \A j \in 1 .. Len(s) - 1 : w[j] = IF j < k THEN s[j] ELSE s[j + 1]
    BY <2>1, <2>2, WithoutElements
  <2>5. \A i \in 1 .. Len(s) : s[i] = t => i = k
    BY <2>1, <2>2, <2>4 DEF Distinct
  <2>6. /\ Back(tl, point_oldest[tl]) \in 0 .. MaxPointSpan + 1
        /\ s # <<>> => Head(s) = s[1] /\ point_oldest[tl] = point[s[1]]
        /\ \A i \in 1 .. Len(s) : Back(tl, point[s[i]]) \in 1 .. Back(tl, point_oldest[tl])
        /\ \A i, j \in 1 .. Len(s) : i < j => Back(tl, point[s[j]]) < Back(tl, point[s[i]])
    BY <2>1, ListedBack
  <2>7. \A u \in Range(tracker_list[tl]) : Home[Kind[u]] = tl
    BY <2>1 DEF TypeInv, TrackersListed
  <2>8. s # <<>> /\ 1 \in 1 .. Len(s)
    BY <2>2, <2>4
  <2>9. w # <<>> => Head(w) = w[1] /\ 1 \in 1 .. Len(s) - 1
    BY <2>2, <2>3
  <2>10. Back(tl, point_next[tl]) = 0 /\ MaxPointSpan \in Nat
    BY <2>1, TimelineTypes, MinusType, PointAssumption DEF Back
  <2> SUFFICES ASSUME NEW x \in TimelineId
               PROVE  LET list == tracker_list'[x]
                      IN  /\ Back(x, point_oldest'[x]) <= MaxPointSpan + 1
                          /\ point_oldest'[x] =
                               IF list = <<>> THEN point_next[x] ELSE point'[Head(list)]
                          /\ \A i \in DOMAIN list : Back(x, point'[list[i]]) >= 1
                          /\ \A i, j \in DOMAIN list :
                               i < j => Back(x, point'[list[j]]) < Back(x, point'[list[i]])
    BY <2>1 DEF TrackersSorted, Back
  <2>11. CASE x # tl
    <3>1. \A u \in Range(tracker_list[x]) : u \in Tracker \ {t}
      BY <2>11, TimelineTypes DEF TypeInv, TrackersListed
    <3>2. /\ \A i \in DOMAIN tracker_list[x] : tracker_list[x][i] \in Tracker \ {t}
          /\ tracker_list[x] # <<>> => Head(tracker_list[x]) \in Tracker \ {t}
      BY <3>1, TimelineTypes, RangeHeadTail
    <3> HIDE DEF tl
    <3> QED BY <2>1, <2>11, <3>2 DEF TrackersSorted
  <2>12. CASE x = tl
    <3> HIDE DEF tl, s, w
    <3>1. \A i \in 1 .. Len(s) - 1 : w[i] \in Tracker \ {t} /\ point'[w[i]] = point[w[i]]
      BY <2>1, <2>2, <2>4, <2>5
    <3>2. \A i \in 1 .. Len(s) - 1 : Back(tl, point[w[i]]) >= 1
      BY <2>2, <2>4, <2>6
    <3>3. \A i, j \in 1 .. Len(s) - 1 :
            i < j => Back(tl, point[w[j]]) < Back(tl, point[w[i]])
      BY <2>2, <2>4, <2>6
    <3>4. /\ Back(tl, point_oldest'[tl]) <= MaxPointSpan + 1
          /\ point_oldest'[tl] = IF w = <<>> THEN point_next[tl] ELSE point'[Head(w)]
      <4>1. CASE Head(s) = t
        <5>1. k = 1 /\ point_oldest'[tl] = new_oldest(tl, w)
          BY <2>1, <2>5, <2>6, <2>8, <4>1
        <5>2. CASE w = <<>>
          BY <2>10, <5>1, <5>2 DEF new_oldest
        <5>3. CASE w # <<>>
          <6>1. Head(w) = w[1] /\ 1 \in 1 .. Len(s) - 1 /\ w[1] = s[2] /\ 2 \in 1 .. Len(s)
            BY <2>2, <2>4, <2>9, <5>1, <5>3
          <6> QED BY <2>6, <2>10, <3>1, <5>1, <5>3, <6>1 DEF new_oldest
        <5> QED BY <5>2, <5>3
      <4>2. CASE Head(s) # t
        <5>1. k # 1 /\ k \in 2 .. Len(s)
          BY <2>2, <2>4, <2>6, <2>8, <4>2
        <5>2. w # <<>> /\ 1 \in 1 .. Len(s) - 1
          <6>1. Len(w) > 0
            BY <2>2, <2>3, <5>1
          <6> QED BY <2>3, <6>1
        <5>3. Head(w) = s[1]
          BY <2>4, <2>9, <5>1, <5>2
        <5> QED BY <2>1, <2>6, <2>8, <2>9, <2>10, <3>1, <4>2, <5>2, <5>3
      <4> QED BY <4>1, <4>2
    <3> QED BY <2>1, <2>3, <2>12, <3>1, <3>2, <3>3, <3>4
  <2> QED BY <2>11, <2>12
<1> QED BY <1>1, <1>2

------------------------------------------------------------------------------
(* The pending walks of the stack                                            *)

PendingOp == {"update_oldest_point", "release_depended"}
Pending(s) == {f \in Range(s) : f.op \in PendingOp}

\* Frames that release no waiters.
Plain(s) == s \in Seq(Frame) /\ Pending(s) = {}

\* No walk over waiters begins, ends or goes on.
StackKept ==
  \/ stack' = stack
  \/ /\ stack = <<>> \/ Head(stack).op \notin PendingOp
     /\ Pending(stack') = Pending(stack)

\* The state that the order of the lists is about.
orderVars == <<point, listVars, wait_point>>

LEMMA PlainConcat ==
  ASSUME NEW a, NEW b, Plain(a), Plain(b)
  PROVE  Plain(a \o b)
BY RangeConcat DEF Plain, Pending

LEMMA PlainOne ==
  ASSUME NEW f \in Frame, f.op \notin PendingOp
  PROVE  Plain(<<f>>)
<1>1. <<f>> \in Seq(Frame)
  OBVIOUS
<1> QED BY <1>1, RangeOne DEF Plain, Pending

LEMMA PlainFrames ==
  /\ Plain(<<>>)
  /\ \A t \in Tracker, op \in {"activate", "release", "put", "destroy", "end_timeout"} :
       Plain(<<Call(op, t)>>)
  /\ \A how \in {"mask", "always", "never"} : Plain(<<Unlock(how)>>)
  /\ Plain(<<[op |-> "update_delayed_work"]>>)
  /\ Plain(<<UnlockTimer>>)
  /\ mask \in SUBSET {"GP", "PP"} => Plain(<<DropMask>>)
<1>1. Plain(<<>>)
  <2>1. <<>> \in Seq(Frame)
    OBVIOUS
  <2> QED BY <2>1, RangeOne DEF Plain, Pending
<1>2. ASSUME NEW t \in Tracker, NEW op \in {"activate", "release", "put", "destroy", "end_timeout"}
      PROVE  Plain(<<Call(op, t)>>)
  <2>1. Call(op, t) \in Frame /\ Call(op, t).op \notin PendingOp
    BY FrameTypes DEF Call, PendingOp
  <2> QED BY <2>1, PlainOne
<1>3. ASSUME NEW how \in {"mask", "always", "never"} PROVE Plain(<<Unlock(how)>>)
  <2>1. Unlock(how) \in Frame /\ Unlock(how).op \notin PendingOp
    BY FrameTypes DEF Unlock, PendingOp
  <2> QED BY <2>1, PlainOne
<1>4. Plain(<<[op |-> "update_delayed_work"]>>) /\ Plain(<<UnlockTimer>>)
  <2>1. [op |-> "update_delayed_work"] \in Frame /\ [op |-> "update_delayed_work"].op \notin PendingOp
    BY FrameTypes DEF PendingOp
  <2>2. UnlockTimer \in Frame /\ UnlockTimer.op \notin PendingOp
    BY FrameTypes DEF UnlockTimer, PendingOp
  <2> QED BY <2>1, <2>2, PlainOne
<1>5. ASSUME mask \in SUBSET {"GP", "PP"} PROVE Plain(<<DropMask>>)
  <2>1. DropMask \in Frame /\ DropMask.op \notin PendingOp
    BY <1>5, FrameTypes DEF DropMask, PendingOp
  <2> QED BY <2>1, PlainOne
<1> QED BY <1>1, <1>2, <1>3, <1>4, <1>5

\* The function on top, which is no walk, returns after some calls.
LEMMA ReturnKept ==
  ASSUME stack \in Seq(Frame), stack # <<>>, Head(stack).op \notin PendingOp,
         NEW q, Plain(q), stack' = q \o Caller
  PROVE  StackKept /\ Range(stack') = Range(q) \cup Range(Caller)
<1>1. /\ Caller \in Seq(Frame) /\ Range(stack) = {Head(stack)} \cup Range(Caller)
  BY RangeHeadTail DEF Caller
<1>2. Range(stack') = Range(q) \cup Range(Caller)
  BY <1>1, RangeConcat DEF Plain
<1> QED BY <1>1, <1>2 DEF StackKept, Plain, Pending

\* The lock is taken.
LEMMA LockKept ==
  ASSUME stack = <<>>, NEW q, Plain(q), stack' = q
  PROVE  StackKept
<1>1. Pending(<<>>) = {}
  BY PlainFrames DEF Plain
<1> QED BY <1>1 DEF StackKept, Plain

\* Giving a reference back activates at most a tracker.
LEMMA ReferenceKept ==
  ASSUME NEW t \in Tracker, NEW h, h \notin TimelineId, NEW rest, stack \in Seq(Frame),
         \/ stack = <<>> /\ Plain(rest)
         \/ stack # <<>> /\ Head(stack).op \notin PendingOp /\ rest = Caller,
         release_reference(t, h, rest)
  PROVE  StackKept /\ wait_point' = wait_point
<1>1. wait_point' = wait_point
  BY DEF release_reference
<1>2. PICK q : Plain(q) /\ stack' = q \o rest
  <2>1. Plain(<<>>) /\ Plain(<<Call("activate", t)>>)
    BY PlainFrames
  <2>2. rest \in Seq(Frame) => <<>> \o rest = rest
    OBVIOUS
  <2>3. rest \in Seq(Frame)
    BY DEF Plain, Caller
  <2> QED BY <2>1, <2>2, <2>3 DEF release_reference
<1>3. CASE stack = <<>> /\ Plain(rest)
  BY <1>1, <1>2, <1>3, PlainConcat, LockKept
<1>4. CASE stack # <<>> /\ Head(stack).op \notin PendingOp /\ rest = Caller
  BY <1>1, <1>2, <1>4, ReturnKept
<1> QED BY <1>3, <1>4

LEMMA PlainPair ==
  ASSUME NEW a \in Frame, NEW b \in Frame, Plain(<<a>>), Plain(<<b>>)
  PROVE  Plain(<<a, b>>)
<1>1. /\ <<a, b>> \in Seq(Frame)
      /\ DOMAIN <<a, b>> = {1, 2} /\ <<a, b>>[1] = a /\ <<a, b>>[2] = b
  OBVIOUS
<1>2. \A f \in Range(<<a, b>>) : f = a \/ f = b
  BY <1>1, Zenon DEF Range
<1> QED BY <1>1, <1>2, RangeOne DEF Plain, Pending

\* Frames of the activation of a job, or of a timeout.
LEMMA PlainCalls ==
  ASSUME NEW t \in Tracker, mask \in SUBSET {"GP", "PP"}
  PROVE  /\ Plain(<<Call("release", t), Call("put", t), DropMask>>)
         /\ Plain(<<Call("release", t), DropMask>>)
         /\ Plain(<<Call("release", t), Call("destroy", t)>>)
         /\ Plain(<<Call("end_timeout", t), UnlockTimer>>)
         /\ \A how \in {"mask", "always", "never"} : Plain(<<Call("release", t), Unlock(how)>>)
<1>1. ASSUME NEW a \in Frame, NEW b \in Frame, Plain(<<a>>), Plain(<<b>>)
      PROVE  Plain(<<a, b>>)
  BY <1>1, PlainPair
<1>2. ASSUME NEW a \in Frame, NEW b \in Frame, NEW c \in Frame,
             Plain(<<a>>), Plain(<<b>>), Plain(<<c>>)
      PROVE  Plain(<<a, b, c>>)
  <2>1. /\ <<a, b, c>> \in Seq(Frame)
        /\ DOMAIN <<a, b, c>> = {1, 2, 3}
        /\ <<a, b, c>>[1] = a /\ <<a, b, c>>[2] = b /\ <<a, b, c>>[3] = c
    OBVIOUS
  <2>2. \A f \in Range(<<a, b, c>>) : f = a \/ f = b \/ f = c
    BY <2>1, Zenon DEF Range
  <2> QED BY <1>2, <2>1, <2>2, RangeOne DEF Plain, Pending
<1>3. /\ \A op \in {"release", "put", "destroy", "end_timeout"} :
           Call(op, t) \in Frame /\ Plain(<<Call(op, t)>>)
      /\ \A how \in {"mask", "always", "never"} :
           Unlock(how) \in Frame /\ Plain(<<Unlock(how)>>)
      /\ DropMask \in Frame /\ Plain(<<DropMask>>)
      /\ UnlockTimer \in Frame /\ Plain(<<UnlockTimer>>)
  BY FrameTypes, PlainFrames
<1> HIDE DEF DropMask, UnlockTimer
<1> QED BY <1>1, <1>2, <1>3, Zenon

------------------------------------------------------------------------------
(* Steps that leave the lists alone                                          *)

Elsewhere == UNCHANGED orderVars /\ StackKept

\* The thread that holds the lock, outside the walks over waiters.
LEMMA activate_elsewhere ==
  ASSUME TypeInv, NEW t \in Tracker, NEW done \in BOOLEAN,
         activate_gp_job(t) \/ activate_pp_job(t) \/ activate_soft_job(t, done)
           \/ activate_wait(t)
  PROVE  Elsewhere
<1>1. mask \in SUBSET {"GP", "PP"} /\ stack \in Seq(Frame)
  BY DEF TypeInv, TypeOK, SchedTypes
<1>2. Plain(<<>>) /\ Plain(<<DropMask>>) /\ Plain(<<[op |-> "update_delayed_work"]>>)
      /\ Plain(<<Call("release", t)>>)
  BY <1>1, PlainFrames
<1>3. /\ Plain(<<Call("release", t), Call("put", t), DropMask>>)
      /\ Plain(<<Call("release", t), DropMask>>)
      /\ Plain(<<Call("release", t), Call("destroy", t)>>)
  BY <1>1, PlainCalls
<1>4. PICK q : Plain(q) /\ activate(t, q)
  <2>1. CASE activate_gp_job(t)
    BY <1>2, <1>3, <2>1 DEF activate_gp_job
  <2>2. CASE activate_pp_job(t)
    BY <1>2, <1>3, <2>2 DEF activate_pp_job
  <2>3. CASE activate_soft_job(t, done)
    <3> DEFINE a == IF done THEN <<Call("release", t), Call("destroy", t)>> ELSE <<>>
               b == IF is_aborting THEN <<DropMask>> ELSE <<>>
               c == <<[op |-> "update_delayed_work"]>>
    <3>1. Plain(a) /\ Plain(b) /\ Plain(c) /\ activate(t, a \o b \o c)
      BY <1>2, <1>3, <2>3, Zenon DEF activate_soft_job
    <3> HIDE DEF a, b, c
    <3>2. Plain((a \o b) \o c)
      BY <3>1, PlainConcat
    <3> QED BY <3>1, <3>2
  <2>4. CASE activate_wait(t)
    BY <1>2, <2>4 DEF activate_wait
  <2> QED BY <2>1, <2>2, <2>3, <2>4
<1>5. stack # <<>> /\ Head(stack).op \notin PendingOp /\ stack' = q \o Caller
  BY <1>4 DEF activate, Running, OnTop, PendingOp
<1>6. UNCHANGED orderVars
  BY <1>4 DEF activate, orderVars, refVars, listVars
<1> QED BY <1>1, <1>4, <1>5, <1>6, ReturnKept DEF Elsewhere

LEMMA return_elsewhere ==
  ASSUME TypeInv,
         \/ drop_mask \/ unlock \/ update_delayed_work
         \/ \E t \in Tracker : soft_job_destroy(t) \/ end_timeout(t)
  PROVE  Elsewhere
<1>1. /\ stack # <<>> /\ Head(stack).op \notin PendingOp /\ stack' = Caller
  BY DEF drop_mask, unlock, update_delayed_work, soft_job_destroy, end_timeout, Running, OnTop,
         PendingOp
<1>2. UNCHANGED orderVars
  <2>1. CASE drop_mask
    BY <2>1 DEF drop_mask, orderVars, trackerVars, refVars
  <2>2. CASE unlock
    BY <2>2 DEF unlock, orderVars, trackerVars, refVars
  <2>3. CASE update_delayed_work
    BY <2>3 DEF update_delayed_work, orderVars, trackerVars, refVars
  <2>4. ASSUME NEW t \in Tracker, soft_job_destroy(t) \/ end_timeout(t)
        PROVE  UNCHANGED orderVars
    BY <2>4 DEF soft_job_destroy, end_timeout, orderVars, trackerVars, refVars
  <2> QED BY <2>1, <2>2, <2>3, <2>4
<1>3. stack \in Seq(Frame) /\ Caller \in Seq(Frame) /\ Plain(<<>>)
  BY <1>1, StackTypes, PlainFrames DEF TypeInv, TypeOK
<1>4. Caller = <<>> \o Caller
  BY <1>3
<1> HIDE DEF Caller
<1> QED BY <1>1, <1>2, <1>3, <1>4, ReturnKept DEF Elsewhere

\* A GP job, a sync fence or a dma fence gives its reference back.
LEMMA reference_elsewhere ==
  ASSUME TypeInv, NEW t \in Tracker, NEW success \in BOOLEAN,
         \/ put_failed(t) \/ signal_pp_tracker(t, success)
         \/ do_sync_fence_callback(t) \/ dma_fence_callback(t)
  PROVE  Elsewhere
<1>1. /\ stack \in Seq(Frame)
      /\ \A how \in {"mask", "always", "never"} : Plain(<<Unlock(how)>>)
      /\ pp_tracker[t] # NoTracker => pp_tracker[t] \in Tracker
      /\ "gp_job" \notin TimelineId /\ "sync" \notin TimelineId /\ "dma" \notin TimelineId
  <2>1. stack \in Seq(Frame) /\ (pp_tracker[t] # NoTracker => pp_tracker[t] \in Tracker)
    BY DEF TypeInv, TypeOK, TrackerTypes
  <2>2. "gp_job" \notin TimelineId /\ "sync" \notin TimelineId /\ "dma" \notin TimelineId
    BY DEF TimelineId
  <2> QED BY <2>1, <2>2, PlainFrames
<1>2. CASE put_failed(t)
  <2>1. stack # <<>> /\ Head(stack).op \notin PendingOp
    BY <1>2 DEF put_failed, Running, OnTop, PendingOp
  <2>2. CASE pp_tracker[t] = NoTracker
    <3>1. stack' = Caller /\ UNCHANGED orderVars
      BY <1>2, <2>2 DEF put_failed, orderVars, trackerVars, refVars
    <3>2. Caller \in Seq(Frame) /\ Plain(<<>>)
      BY <1>1, <2>1, StackTypes, PlainFrames
    <3>3. Caller = <<>> \o Caller
      BY <3>2
    <3> HIDE DEF Caller
    <3> QED BY <1>1, <2>1, <3>1, <3>2, <3>3, ReturnKept DEF Elsewhere
  <2>3. CASE pp_tracker[t] # NoTracker
    <3>1. tracker_put(t, FALSE, Caller)
      BY <1>2, <2>3 DEF put_failed
    <3>2. release_reference(pp_tracker[t], "gp_job", Caller) /\ UNCHANGED <<point, listVars>>
      BY <3>1 DEF tracker_put
    <3>3. StackKept /\ wait_point' = wait_point
      BY <1>1, <2>1, <2>3, <3>2, ReferenceKept
    <3> QED BY <3>2, <3>3 DEF Elsewhere, orderVars
  <2> QED BY <2>2, <2>3
<1>3. CASE signal_pp_tracker(t, success)
  <2>1. stack = <<>> /\ pp_tracker[t] # NoTracker /\ tracker_put(t, success, <<Unlock("always")>>)
    BY <1>3 DEF signal_pp_tracker, LockFree
  <2>2. /\ release_reference(pp_tracker[t], "gp_job", <<Unlock("always")>>)
        /\ UNCHANGED <<point, listVars>>
    BY <2>1 DEF tracker_put
  <2>3. StackKept /\ wait_point' = wait_point
    BY <1>1, <2>1, <2>2, ReferenceKept
  <2> QED BY <2>2, <2>3 DEF Elsewhere, orderVars
<1>4. CASE do_sync_fence_callback(t)
  <2>1. /\ stack = <<>> /\ UNCHANGED <<point, listVars>>
        /\ \E how \in {"mask", "never"} : release_reference(t, "sync", <<Unlock(how)>>)
    BY <1>4 DEF do_sync_fence_callback, LockFree, trackerVars
  <2>2. StackKept /\ wait_point' = wait_point
    BY <1>1, <2>1, ReferenceKept
  <2> QED BY <2>1, <2>2 DEF Elsewhere, orderVars
<1>5. CASE dma_fence_callback(t)
  <2>1. /\ stack = <<>> /\ UNCHANGED <<point, listVars>>
        /\ \E how \in {"mask", "never"} : release_reference(t, "dma", <<Unlock(how)>>)
    BY <1>5 DEF dma_fence_callback, LockFree, trackerVars
  <2>2. StackKept /\ wait_point' = wait_point
    BY <1>1, <2>1, ReferenceKept
  <2> QED BY <2>1, <2>2 DEF Elsewhere, orderVars
<1> QED BY <1>2, <1>3, <1>4, <1>5

\* The lock is taken to release a tracker, or by the timer.
LEMMA lock_elsewhere ==
  ASSUME TypeInv, NEW done \in BOOLEAN,
         timer_callback(done) \/ \E t \in Tracker : complete_job(t) \/ soft_release(t)
  PROVE  Elsewhere
<1>0. mask \in SUBSET {"GP", "PP"} /\ timer_active \subseteq Tracker
  BY DEF TypeInv, TypeOK, SchedTypes, TimerTypes
<1>1. stack = <<>> /\ UNCHANGED orderVars
  BY DEF complete_job, soft_release, timer_callback, lock, LockFree, orderVars, trackerVars,
         refVars
<1>2. ASSUME NEW t \in Tracker, complete_job(t) \/ soft_release(t) PROVE Elsewhere
  <2>1. PICK how \in {"mask", "always", "never"} : stack' = <<Call("release", t), Unlock(how)>>
    BY <1>2 DEF complete_job, soft_release, lock
  <2> QED BY <1>0, <1>1, <2>1, PlainCalls, LockKept DEF Elsewhere
<1>3. CASE timer_callback(done)
  <2> DEFINE tail  == First(tracker_list["SOFT"])
             fires == timer_enabled /\ tail \in timer_active /\ tail \in due
             end   == <<Call("end_timeout", tail), UnlockTimer>>
  <2>1. /\ done => fires
        /\ stack' = IF ~fires THEN <<>>
                    ELSE IF done THEN <<Call("release", tail), Call("destroy", tail)>> \o end
                    ELSE end
    BY <1>3 DEF timer_callback
  <2>2. fires => tail \in Tracker
    BY <1>0
  <2> HIDE DEF tail
  <2>3. fires => /\ Plain(<<Call("release", tail), Call("destroy", tail)>>)
                 /\ Plain(end)
    BY <1>0, <2>2, PlainCalls
  <2> HIDE DEF fires, end
  <2>4. Plain(stack')
    BY <2>1, <2>3, PlainFrames, PlainConcat
  <2> QED BY <1>1, <2>4, LockKept DEF Elsewhere
<1> QED BY <1>2, <1>3

\* Steps that do not hold the lock, or change no list.
LEMMA other_elsewhere ==
  ASSUME \/ timer_expires \/ executor_schedule \/ Close \/ UNCHANGED vars
         \/ \E t \in Tracker : \/ time_passes(t) \/ tracker_init(t) \/ sync_fence_callback(t)
                               \/ \E p \in Tracker : gp_job_create(t, p)
  PROVE  Elsewhere
<1>1. stack' = stack /\ UNCHANGED orderVars
  <2>1. CASE \/ timer_expires \/ executor_schedule \/ Close \/ UNCHANGED vars
    BY <2>1 DEF timer_expires, executor_schedule, Close, abort, stop_timer, cancel_work_sync,
                vars, orderVars, trackerVars, refVars
  <2>2. ASSUME NEW t \in Tracker, time_passes(t) \/ tracker_init(t) \/ sync_fence_callback(t)
        PROVE  stack' = stack /\ UNCHANGED orderVars
    BY <2>2 DEF time_passes, tracker_init, sync_fence_callback, orderVars, trackerVars, refVars
  <2>3. ASSUME NEW t \in Tracker, NEW p \in Tracker, gp_job_create(t, p)
        PROVE  stack' = stack /\ UNCHANGED orderVars
    BY <2>3 DEF gp_job_create, orderVars
  <2> QED BY <2>1, <2>2, <2>3
<1> QED BY <1>1 DEF Elsewhere, StackKept

\* Every step is one of the four that change the lists, or happens elsewhere.
LEMMA ListSteps ==
  ASSUME TypeInv, [Next]_vars
  PROVE  \/ \E t \in Tracker : add_tracker_any(t) \/ tracker_release(t)
         \/ \E tl \in TimelineId : update_oldest_point(tl)
         \/ \E p \in Point, c \in Tracker \cup {NoTracker} : release_depended(p, c)
         \/ Elsewhere
<1>1. CASE Ioctl
  BY <1>1, other_elsewhere DEF Ioctl
<1>2. CASE Locked
  BY <1>2, activate_elsewhere, return_elsewhere, reference_elsewhere DEF Locked
<1>3. CASE Owner
  BY <1>3, reference_elsewhere, lock_elsewhere, other_elsewhere DEF Owner, Device
<1>4. CASE Timer
  BY <1>4, lock_elsewhere, other_elsewhere DEF Timer
<1>5. CASE executor_schedule \/ Close \/ UNCHANGED vars
  BY <1>5, other_elsewhere
<1> QED BY <1>1, <1>2, <1>3, <1>4, <1>5 DEF Next

------------------------------------------------------------------------------
(* Preservation of OrderInv                                                  *)

\* A step elsewhere keeps the order, the walks and what they reach.
LEMMA ElsewhereOrder ==
  ASSUME OrderInv, RefInv', Elsewhere
  PROVE  OrderInv'
<1> USE DEF OrderInv
<1>1. UNCHANGED <<point, point_next, point_oldest, tracker_list, waiter_list, wait_point>>
  BY DEF Elsewhere, orderVars, listVars
<1>2. \A f \in Range(stack) : f.op \in PendingOp => f \in Range(stack')
  BY DEF Elsewhere, StackKept, Pending
<1>3. \A f \in Range(stack') : f.op \in PendingOp => f \in Range(stack)
  BY DEF Elsewhere, StackKept, Pending
<1>4. TrackersSorted'
  BY <1>1, TrackersSame
<1>5. WaitersSorted'
  BY <1>1 DEF WaitersSorted, Back
<1>6. StaleUpdated'
  <2>1. \A tl \in TimelineId : UpdateOf(tl).op \in PendingOp
    BY DEF UpdateOf, PendingOp
  <2>2. \A tl \in TimelineId : Updating(tl) => Updating(tl)'
    BY <1>2, <2>1 DEF Updating, UpdateOf
  <2> QED BY <1>1, <2>2 DEF StaleUpdated, OnPoint
<1>7. WalksReleased'
  BY <1>1, <1>3 DEF WalksReleased, PendingOp, is_tracker_released
<1>8. DependedWalked'
  <2>1. ASSUME NEW i, NEW f \in Range(stack), WalkReaches(f, i)
        PROVE  f \in Range(stack') /\ WalkReaches(f, i)'
    <3>1. f \in Range(stack') /\ Walking(f)'
      BY <1>2, <2>1 DEF WalkReaches, Walking, PendingOp
    <3>2. f = Head(stack) => stack # <<>>
      BY RangeOne
    <3>3. f = Head(stack) => stack' = stack
      BY <2>1, <3>2 DEF Elsewhere, StackKept, WalkReaches, Walking, PendingOp
    <3> QED BY <1>1, <2>1, <3>1, <3>3 DEF WalkReaches
  <2>2. ASSUME NEW i \in DOMAIN waiter_list["SOFT"],
               OnPoint("SOFT", wait_point[waiter_list["SOFT"][i]]["SOFT"]),
               is_tracker_released("SOFT", wait_point[waiter_list["SOFT"][i]]["SOFT"])
        PROVE  \E f \in Range(stack') : WalkReaches(f, i)'
    <3>1. PICK f \in Range(stack) : WalkReaches(f, i)
      BY <2>2 DEF DependedWalked
    <3> QED BY <2>1, <3>1
  <2> QED BY <1>1, <2>2 DEF DependedWalked, OnPoint, is_tracker_released
<1> QED BY <1>4, <1>5, <1>6, <1>7, <1>8

\* Points of the timeline move back together when a tracker is added.
LEMMA AddBack ==
  ASSUME TypeInv, TrackersSorted, NEW t \in Tracker, NEW f \in [FenceOn[t] -> AnyPoint],
         NEW granted, NEW sync \in BOOLEAN, add_tracker(t, f, granted, sync),
         NEW x \in TimelineId
  PROVE  /\ point_next'[x] \in AnyPoint
         /\ minus(point_next'[x], point_oldest[x]) <= MaxPointSpan + 1
         /\ minus(point_next'[x], point_oldest[x]) \in Nat
         /\ \E d \in 0 .. 2 :
              \A p \in AnyPoint :
                Back(x, p) <= Back(x, point_oldest[x]) =>
                  minus(point_next'[x], p) = Back(x, p) + d
<1>1. /\ point_next[x] \in Point /\ point_next[x] \in AnyPoint /\ point_oldest[x] \in AnyPoint
      /\ MaxPointSpan \in Nat /\ MaxPointSpan + 1 < PointModulus - 3 /\ PointModulus \in Nat
      /\ point_next \in [TimelineId -> Point]
  BY TimelineTypes, PointAssumption DEF TypeInv, TypeOK, ListTypes
<1>2. point_next' = next_after(t)
  BY DEF add_tracker
<1>3. /\ \/ point_next'[x] = point_next[x]
         \/ point_next'[x] = next_point(point_next[x]) /\ ~full(x)
      /\ point_next'[x] \in AnyPoint
  BY <1>1, <1>2, NextPoint, AnyPointTypes DEF next_after, inserted
<1>4. \A p \in AnyPoint : Back(x, p) \in Nat
  BY <1>1, MinusType DEF Back
<1>5. CASE point_next'[x] = point_next[x]
  <2>1. /\ minus(point_next'[x], point_oldest[x]) <= MaxPointSpan + 1
        /\ minus(point_next'[x], point_oldest[x]) \in Nat
    BY <1>1, <1>4, <1>5, ListedBack DEF Back
  <2>2. \A p \in AnyPoint : minus(point_next'[x], p) = Back(x, p) + 0
    BY <1>4, <1>5 DEF Back
  <2> QED BY <1>3, <2>1, <2>2
<1>6. CASE point_next'[x] = next_point(point_next[x]) /\ ~full(x)
  <2> DEFINE d == IF point_next[x] = PointModulus - 1 THEN 2 ELSE 1
  <2>1. Back(x, point_oldest[x]) < MaxPointSpan
    BY <1>1, <1>4, <1>6 DEF full, is_full, Back
  <2>2. d \in 1 .. 2
    OBVIOUS
  <2>3. ASSUME NEW p \in AnyPoint, Back(x, p) <= Back(x, point_oldest[x])
        PROVE  minus(point_next'[x], p) = Back(x, p) + d
    <3>1. minus(point_next[x], p) <= PointModulus - 3
      BY <1>1, <1>4, <2>1, <2>3 DEF Back
    <3> QED BY <1>1, <1>6, <3>1, NextBack DEF Back
  <2> HIDE DEF d
  <2>4. minus(point_next'[x], point_oldest[x]) = Back(x, point_oldest[x]) + d
    BY <1>1, <1>4, <2>3
  <2> QED BY <1>1, <1>3, <1>4, <2>1, <2>2, <2>3, <2>4
<1> QED BY <1>3, <1>5, <1>6

\* insert_waiter keeps the list in order, whatever the distances are measured from.
LEMMA InsertSorted ==
  ASSUME TypeInv, NEW tl \in TimelineId, NEW t \in Tracker, NEW p \in AnyPoint,
         NEW next \in AnyPoint, minus(next, p) <= MaxPointSpan + 1,
         \A i \in 1 .. Len(waiter_list[tl]) :
           minus(next, wait_point[waiter_list[tl][i]][tl]) <= MaxPointSpan + 1,
         \A i, j \in 1 .. Len(waiter_list[tl]) : i < j =>
           minus(next, wait_point[waiter_list[tl][j]][tl])
             <= minus(next, wait_point[waiter_list[tl][i]][tl]),
         NEW v, v[t] = p, \A u \in Range(waiter_list[tl]) : v[u] = wait_point[u][tl]
  PROVE  LET r == insert_waiter(tl, t, p)
         IN  /\ r \in Seq(Tracker) /\ DOMAIN r = 1 .. Len(r) /\ Len(r) \in Nat
             /\ \A i \in 1 .. Len(r) : r[i] = t \/ r[i] \in Range(waiter_list[tl])
             /\ \A i, j \in 1 .. Len(r) : i < j => minus(next, v[r[j]]) <= minus(next, v[r[i]])
<1> DEFINE chain == IF waiter_head_null[tl] THEN <<>> ELSE waiter_list[tl]
           back(i) == minus(next, wait_point[chain[i]][tl])
           fits  == {j \in DOMAIN chain : ~point_after(wait_point[chain[j]][tl], p)}
           last  == Max({0} \cup fits)
           r     == InsertAt(chain, last + 1, t)
<1>1. insert_waiter(tl, t, p) = r
  BY Zenon DEF insert_waiter
<1>2. /\ waiter_list[tl] \in Seq(Tracker) /\ Len(waiter_list[tl]) \in Nat
      /\ \A i \in 1 .. Len(waiter_list[tl]) :
           waiter_list[tl][i] \in Tracker /\ waiter_list[tl][i] \in Range(waiter_list[tl])
      /\ \A u \in Tracker : wait_point[u][tl] \in AnyPoint
  BY TimelineTypes
<1>3. /\ chain \in Seq(Tracker) /\ Len(chain) \in Nat
      /\ \A i \in 1 .. Len(chain) :
           /\ chain[i] \in Tracker /\ chain[i] \in Range(waiter_list[tl])
           /\ back(i) <= MaxPointSpan + 1
           /\ \A j \in 1 .. Len(chain) : i < j => back(j) <= back(i)
  <2>1. CASE waiter_head_null[tl]
    <3>1. chain = <<>> /\ chain \in Seq(Tracker) /\ Len(chain) = 0
      BY <2>1
    <3> HIDE DEF chain
    <3> QED BY <3>1
  <2>2. CASE ~waiter_head_null[tl]
    <3>1. chain = waiter_list[tl]
      BY <2>2
    <3> HIDE DEF chain
    <3> QED BY <1>2, <3>1
  <2> QED BY <2>1, <2>2
<1>4. DOMAIN chain = 1 .. Len(chain)
  BY <1>3, LenProperties
<1> HIDE DEF chain
<1>5. \A i \in 1 .. Len(chain) : back(i) \in Nat
  BY <1>2, <1>3, MinusType
<1>6. fits = {j \in 1 .. Len(chain) : back(j) >= minus(next, p)}
  <2>1. \A j \in 1 .. Len(chain) :
          point_after(wait_point[chain[j]][tl], p) <=> back(j) < minus(next, p)
    BY <1>2, <1>3, AfterBack
  <2>2. minus(next, p) \in Nat
    BY MinusType
  <2> QED BY <1>4, <1>5, <2>1, <2>2
<1> HIDE DEF fits
<1>7. last \in {0} \cup fits /\ \A j \in fits : j <= last
  <2> DEFINE P == {0} \cup fits
  <2>1. P \in SUBSET (0 .. Len(chain)) /\ P # {} /\ fits \subseteq P
    BY <1>3, <1>6
  <2> HIDE DEF P
  <2>2. Max(P) \in P /\ \A j \in P : j <= Max(P)
    BY <1>3, <2>1, MaxInSet
  <2> QED BY <2>1, <2>2 DEF P
<1> HIDE DEF last
<1>8. last \in 0 .. Len(chain) /\ last + 1 \in 1 .. Len(chain) + 1
  BY <1>3, <1>6, <1>7
<1>9. /\ r \in Seq(Tracker) /\ Len(r) = Len(chain) + 1
      /\ \A j \in 1 .. Len(chain) + 1 :
           r[j] = IF j < last + 1 THEN chain[j] ELSE IF j = last + 1 THEN t ELSE chain[j - 1]
  <2>1. chain \in Seq(Tracker)
    BY <1>3
  <2> DEFINE at == last + 1
  <2>2. at \in 1 .. Len(chain) + 1
    BY <1>8
  <2> HIDE DEF at
  <2>3. /\ InsertAt(chain, at, t) \in Seq(Tracker)
        /\ Len(InsertAt(chain, at, t)) = Len(chain) + 1
        /\ \A j \in 1 .. Len(chain) + 1 :
             InsertAt(chain, at, t)[j] =
               IF j < at THEN chain[j] ELSE IF j = at THEN t ELSE chain[j - 1]
    BY <2>1, <2>2, InsertAtElements
  <2> QED BY <2>3 DEF at
<1>10. DOMAIN r = 1 .. Len(r) /\ Len(r) \in Nat
  BY <1>9, LenProperties
<1> HIDE DEF r
<1>11. \A i \in 1 .. last : back(i) >= minus(next, p)
  <2> SUFFICES ASSUME NEW i \in 1 .. last PROVE back(i) >= minus(next, p)
    OBVIOUS
  <2>1. last \in fits /\ i \in 1 .. Len(chain) /\ last \in 1 .. Len(chain)
    BY <1>6, <1>7, <1>8
  <2>2. back(last) >= minus(next, p)
    BY <1>6, <2>1
  <2>3. i = last \/ i < last
    BY <1>8
  <2> HIDE DEF back
  <2> QED BY <1>3, <1>5, <2>1, <2>2, <2>3, MinusType
<1>12. \A i \in 1 .. Len(chain) : i > last => back(i) < minus(next, p)
  <2> SUFFICES ASSUME NEW i \in 1 .. Len(chain), i > last PROVE back(i) < minus(next, p)
    OBVIOUS
  <2>1. i \notin fits
    BY <1>7, <1>8
  <2> QED BY <1>5, <1>6, <2>1, MinusType
<1>13. \A i \in 1 .. Len(chain) : minus(next, v[chain[i]]) = back(i)
  BY <1>3
<1> HIDE DEF back
<1>14. \A i, j \in 1 .. Len(chain) + 1 : i < j => minus(next, v[r[j]]) <= minus(next, v[r[i]])
  <2> SUFFICES ASSUME NEW i \in 1 .. Len(chain) + 1, NEW j \in 1 .. Len(chain) + 1, i < j
               PROVE  minus(next, v[r[j]]) <= minus(next, v[r[i]])
    OBVIOUS
  <2>1. minus(next, p) \in Nat
    BY MinusType
  <2>2. CASE j <= last
    <3>1. i \in 1 .. Len(chain) /\ j \in 1 .. Len(chain) /\ r[i] = chain[i] /\ r[j] = chain[j]
      BY <1>8, <1>9, <2>2
    <3> QED BY <1>3, <1>13, <3>1
  <2>3. CASE j = last + 1
    <3>1. i \in 1 .. Len(chain) /\ i \in 1 .. last /\ r[i] = chain[i] /\ r[j] = t
      BY <1>8, <1>9, <2>3
    <3> QED BY <1>5, <1>11, <1>13, <2>1, <3>1
  <2>4. CASE j > last + 1
    <3>1. j - 1 \in 1 .. Len(chain) /\ j - 1 > last /\ r[j] = chain[j - 1]
      BY <1>8, <1>9, <2>4
    <3>2. CASE i <= last
      <4>1. i \in 1 .. Len(chain) /\ i < j - 1 /\ r[i] = chain[i]
        BY <1>8, <1>9, <2>4, <3>2
      <4> QED BY <1>3, <1>13, <3>1, <4>1
    <3>3. CASE i = last + 1
      <4>1. r[i] = t
        BY <1>9, <3>3
      <4> QED BY <1>5, <1>12, <1>13, <2>1, <3>1, <4>1
    <3>4. CASE i > last + 1
      <4>1. i - 1 \in 1 .. Len(chain) /\ i - 1 < j - 1 /\ r[i] = chain[i - 1]
        BY <1>8, <1>9, <3>4
      <4> QED BY <1>3, <1>13, <3>1, <4>1
    <3> QED BY <1>8, <3>2, <3>3, <3>4
  <2> QED BY <1>8, <2>2, <2>3, <2>4
<1>15. \A i \in 1 .. Len(chain) + 1 : r[i] = t \/ r[i] \in Range(waiter_list[tl])
  <2> SUFFICES ASSUME NEW i \in 1 .. Len(chain) + 1, i # last + 1
               PROVE  r[i] \in Range(waiter_list[tl])
    BY <1>9
  <2>1. CASE i < last + 1
    BY <1>3, <1>8, <1>9, <2>1
  <2>2. CASE i > last + 1
    BY <1>3, <1>8, <1>9, <2>2
  <2> QED BY <1>8, <2>1, <2>2
<1> QED BY <1>1, <1>9, <1>10, <1>14, <1>15

\* insert_tracker: the tracker is on the timeline of its own point, and otherwise the
\* lists and the points in them stay.
LEMMA OwnPoint ==
  ASSUME TypeInv, NEW t \in Tracker, NEW f, NEW granted, NEW sync,
         add_tracker(t, f, granted, sync), NEW x \in TimelineId
  PROVE  /\ t \notin Range(tracker_list[x])
         /\ \A u \in Range(tracker_list[x]) :
              u \in Range(tracker_list'[x]) /\ point'[u] = point[u]
         /\ \A u \in Range(tracker_list'[x]) \ {t} : u \in Range(tracker_list[x])
         /\ t \in Range(tracker_list'[x]) => own_point(t, x) # NoPoint
         /\ own_point(t, x) # NoPoint =>
              /\ t \in Range(tracker_list'[x]) /\ point'[t] = own_point(t, x)
              /\ own_point(t, x) = point_next[x] /\ inserted(t) /\ x = Home[Kind[t]]
<1>1. /\ tracker_list[x] \in Seq(Tracker) /\ Range(tracker_list[x]) \subseteq Tracker
      /\ Distinct(tracker_list[x]) /\ t \notin Range(tracker_list[x])
      /\ point_next[x] # NoPoint
  BY TimelineTypes, PointAssumption
     DEF TypeInv, TrackersListed, add_tracker, Point, NoPoint
<1>2. /\ \A u \in Tracker \ {t} : point'[u] = point[u]
      /\ point'[t] = IF inserted(t) THEN point_next[Home[Kind[t]]] ELSE NoPoint
  BY DEF add_tracker, TypeInv, TypeOK, TrackerTypes
<1>3. own_point(t, x) = IF inserted(t) /\ x = Home[Kind[t]] THEN point_next[x] ELSE NoPoint
  BY DEF own_point
<1>4. CASE inserted(t) /\ x = Home[Kind[t]]
  <2>1. tracker_list'[x] = Append(tracker_list[x], t)
    BY <1>4 DEF add_tracker, TypeInv, TypeOK, ListTypes
  <2>2. Range(tracker_list'[x]) = Range(tracker_list[x]) \cup {t}
    BY <1>1, <2>1, AppendRange
  <2> QED BY <1>1, <1>2, <1>3, <1>4, <2>2
<1>5. CASE ~(inserted(t) /\ x = Home[Kind[t]])
  <2>1. tracker_list'[x] = tracker_list[x]
    BY <1>5 DEF add_tracker, TypeInv, TypeOK, ListTypes
  <2> QED BY <1>1, <1>2, <1>3, <1>5, <2>1
<1> QED BY <1>4, <1>5

\* The waiters that create_waiters adds: each waits for a point that stays on the
\* timeline, on the SOFT timeline for that of a tracker that is there.
LEMMA NewWaiter ==
  ASSUME TypeInv, NEW t \in Tracker, NEW f \in [FenceOn[t] -> AnyPoint],
         NEW granted, NEW x \in waits_on(t, f, granted)
  PROVE  /\ x \in TimelineId /\ f[x] \in AnyPoint /\ f[x] # NoPoint
         /\ is_point_on(f[x], point_oldest[x], next_after(t)[x])
         /\ x = "SOFT" => f[x] = own_point(t, x) \/ ~is_tracker_released(x, f[x])
<1>1. x \in TimelineId /\ f[x] \in AnyPoint
  BY NewHolders
<1>2. /\ is_point_valid(f[x], point_oldest[x], next_after(t)[x])
      /\ ~is_point_released(f[x], point_oldest[x], next_after(t)[x])
      /\ x = "SOFT" => f[x] = own_point(t, x) \/ ~is_tracker_released(x, f[x])
      /\ f[x] # NoPoint
  BY DEF waits_on
<1> QED BY <1>1, <1>2 DEF is_point_valid

\* When the lock is free, all waiters are on the timeline, and those of the SOFT
\* timeline wait for a tracker that is there.
LEMMA FreeOrder ==
  ASSUME OrderInv, LockFree, NEW tl \in TimelineId, NEW u \in Range(waiter_list[tl])
  PROVE  /\ OnPoint(tl, wait_point[u][tl])
         /\ tl = "SOFT" => ~is_tracker_released(tl, wait_point[u][tl])
<1>1. Range(stack) = {}
  BY RangeOne DEF LockFree
<1>2. OnPoint(tl, wait_point[u][tl])
  BY <1>1 DEF OrderInv, StaleUpdated, Updating
<1>3. ASSUME tl = "SOFT" PROVE ~is_tracker_released(tl, wait_point[u][tl])
  <2>1. PICK i \in DOMAIN waiter_list["SOFT"] : waiter_list["SOFT"][i] = u
    BY <1>3 DEF Range
  <2> QED BY <1>1, <1>2, <1>3, <2>1 DEF OrderInv, DependedWalked
<1> QED BY <1>2, <1>3

\* system_add_tracker and create_waiters.
LEMMA add_tracker_order ==
  ASSUME OrderInv, RefInv', NEW t \in Tracker, NEW f \in [FenceOn[t] -> AnyPoint],
         NEW granted, NEW sync \in BOOLEAN, add_tracker(t, f, granted, sync)
  PROVE  OrderInv'
<1> USE DEF OrderInv
<1> DEFINE served == waits_on(t, f, granted)
<1>0. TypeInv /\ TypeInv'
  BY DEF RefInv
<1>1. /\ point_next' = next_after(t) /\ point_oldest' = point_oldest
      /\ wait_point' = [wait_point EXCEPT ![t] =
                          [x \in TimelineId |-> IF x \in served THEN f[x] ELSE NoPoint]]
      /\ waiter_list' = [x \in TimelineId |->
                           IF x \in served THEN insert_waiter(x, t, f[x]) ELSE waiter_list[x]]
      /\ phase[t] = "init" /\ LockFree
  BY DEF add_tracker
<1>2. /\ wait_point'[t] = [x \in TimelineId |-> IF x \in served THEN f[x] ELSE NoPoint]
      /\ \A u \in Tracker \ {t} : wait_point'[u] = wait_point[u]
  BY <1>0, <1>1 DEF TypeInv, TypeOK, RefTypes
<1>3. \A x \in TimelineId : \A u \in Range(waiter_list[x]) : u \in Tracker \ {t}
  <2>1. holders[t] \subseteq {"init", "gp_job"}
    BY <1>1 DEF RefInv, PhaseHolders
  <2>2. \A x \in TimelineId : x \notin {"init", "gp_job"} /\ Range(waiter_list[x]) \subseteq Tracker
    BY <1>0, TimelineTypes DEF TimelineId
  <2> QED BY <2>1, <2>2 DEF RefInv, WaitersHold
<1>4. TrackersSorted'
  BY <1>0, add_tracker_sorted
<1> HIDE DEF served
<1>5. ASSUME NEW x \in TimelineId
      PROVE  /\ \A i \in DOMAIN waiter_list'[x] :
                  minus(point_next'[x], wait_point'[waiter_list'[x][i]][x]) \in 1 .. MaxPointSpan + 1
             /\ \A i, j \in DOMAIN waiter_list'[x] : i < j =>
                  minus(point_next'[x], wait_point'[waiter_list'[x][j]][x])
                    <= minus(point_next'[x], wait_point'[waiter_list'[x][i]][x])
             /\ \A u \in Range(waiter_list'[x]) :
                  /\ is_point_on(wait_point'[u][x], point_oldest'[x], point_next'[x])
                  /\ \/ u = t /\ x \in served /\ wait_point'[u][x] = f[x]
                     \/ u \in Range(waiter_list[x]) /\ wait_point'[u] = wait_point[u]
  <2> DEFINE s == waiter_list[x]
             back(p) == minus(point_next'[x], p)
             old == point_oldest[x]
             w(u) == wait_point'[u][x]
  <2>1. /\ s \in Seq(Tracker) /\ Len(s) \in Nat /\ DOMAIN s = 1 .. Len(s)
        /\ \A i \in 1 .. Len(s) : s[i] \in Tracker \ {t} /\ s[i] \in Range(s)
        /\ \A u \in Tracker : wait_point[u][x] \in AnyPoint
        /\ point_next[x] \in AnyPoint /\ old \in AnyPoint
    BY <1>0, <1>3, TimelineTypes
  <2>2. /\ point_next'[x] \in AnyPoint /\ back(old) <= MaxPointSpan + 1 /\ back(old) \in Nat
        /\ MaxPointSpan \in Nat
    BY <1>0, AddBack, PointAssumption
  <2>3. PICK d \in 0 .. 2 :
          \A p \in AnyPoint : Back(x, p) <= Back(x, old) => back(p) = Back(x, p) + d
    BY <1>0, AddBack
  <2>4. \A u \in Range(s) : Back(x, wait_point[u][x]) \in 1 .. Back(x, old)
    BY <1>1, <1>3, <2>1, FreeOrder, OnBack DEF OnPoint, Back
  <2>5. \A p \in AnyPoint : Back(x, p) \in Nat /\ back(p) \in Nat
    BY <2>1, <2>2, MinusType DEF Back
  <2> HIDE DEF s, back, old, w
  <2>6. \A u \in Range(s) : u \in Tracker \ {t} /\ w(u) = wait_point[u][x]
    BY <1>2, <1>3 DEF s, w
  <2>7. \A u \in Range(s) : /\ back(w(u)) = Back(x, wait_point[u][x]) + d
                            /\ back(w(u)) \in 1 .. back(old)
    <3>1. back(old) = Back(x, old) + d
      BY <2>1, <2>3, <2>5
    <3> QED BY <2>1, <2>3, <2>4, <2>5, <2>6, <3>1
  <2>8. \A i, j \in 1 .. Len(s) : i < j => back(w(s[j])) <= back(w(s[i]))
    <3>1. \A i, j \in 1 .. Len(s) :
            i < j => Back(x, wait_point[s[j]][x]) <= Back(x, wait_point[s[i]][x])
      BY <2>1 DEF WaitersSorted, s
    <3> QED BY <2>1, <2>4, <2>7, <3>1
  <2>9. \A u \in Tracker : w(u) \in AnyPoint
    BY <1>0 DEF w, TypeInv, TypeOK, RefTypes
  <2>10. \A u \in Tracker : back(w(u)) \in 1 .. back(old) =>
           /\ is_point_on(w(u), old, point_next'[x])
           /\ back(w(u)) \in 1 .. MaxPointSpan + 1
    <3>1. \A u \in Tracker : back(w(u)) \in 1 .. back(old) => is_point_on(w(u), old, point_next'[x])
      BY <2>1, <2>2, <2>9, OnBack DEF back
    <3> QED BY <2>2, <3>1
  <2>11. CASE x \notin served
    <3>1. waiter_list'[x] = s
      BY <1>1, <2>11 DEF s
    <3>2. \A u \in Range(s) : wait_point'[u] = wait_point[u]
      BY <1>2, <2>6
    <3>3. \A u \in Range(s) : /\ back(w(u)) \in 1 .. MaxPointSpan + 1
                              /\ is_point_on(w(u), old, point_next'[x])
      BY <2>6, <2>7, <2>10
    <3>4. \A i \in DOMAIN s : s[i] \in Range(s)
      BY <2>1
    <3> QED BY <1>1, <2>1, <2>8, <3>1, <3>2, <3>3, <3>4 DEF back, w, old, s
  <2>12. CASE x \in served
    <3> DEFINE r == insert_waiter(x, t, f[x])
               v == [u \in Tracker |-> w(u)]
    <3>1. waiter_list'[x] = r
      BY <1>1, <2>12
    <3>2. /\ f[x] \in AnyPoint /\ is_point_on(f[x], old, point_next'[x]) /\ w(t) = f[x]
      BY <1>0, <1>1, <1>2, <2>12, NewWaiter DEF served, old, w
    <3>3. back(w(t)) \in 1 .. back(old)
      BY <2>1, <2>2, <3>2, OnBack DEF back
    <3>4. /\ back(f[x]) <= MaxPointSpan + 1
          /\ \A i \in 1 .. Len(s) : back(wait_point[s[i]][x]) <= MaxPointSpan + 1
          /\ \A i, j \in 1 .. Len(s) : i < j =>
               back(wait_point[s[j]][x]) <= back(wait_point[s[i]][x])
          /\ v[t] = f[x] /\ \A u \in Range(s) : v[u] = wait_point[u][x]
      BY <2>1, <2>2, <2>6, <2>7, <2>8, <3>2, <3>3
    <3> HIDE DEF v
    <3>5. /\ r \in Seq(Tracker) /\ DOMAIN r = 1 .. Len(r) /\ Len(r) \in Nat
          /\ \A i \in 1 .. Len(r) : r[i] = t \/ r[i] \in Range(s)
          /\ \A i, j \in 1 .. Len(r) : i < j => back(v[r[j]]) <= back(v[r[i]])
      <4> USE DEF back, s
      <4> QED BY <1>0, <2>2, <3>2, <3>4, InsertSorted
    <3> HIDE DEF r
    <3>6. \A i \in 1 .. Len(r) : r[i] \in Tracker /\ v[r[i]] = w(r[i])
      BY <2>6, <3>5 DEF v
    <3>7. \A i \in 1 .. Len(r) : back(w(r[i])) \in 1 .. back(old)
      BY <2>7, <3>3, <3>5
    <3>8. \A u \in Range(r) : \E i \in 1 .. Len(r) : u = r[i]
      BY <3>5 DEF Range
    <3>9. \A u \in Range(r) : \/ u = t
                              \/ u \in Range(s) /\ wait_point'[u] = wait_point[u]
      BY <1>2, <2>6, <3>5, <3>8
    <3>10. \A i \in 1 .. Len(r) : /\ back(w(r[i])) \in 1 .. MaxPointSpan + 1
                                  /\ is_point_on(w(r[i]), old, point_next'[x])
      BY <2>10, <3>6, <3>7
    <3>11. \A i, j \in 1 .. Len(r) : i < j => back(w(r[j])) <= back(w(r[i]))
      BY <3>5, <3>6
    <3> QED BY SMTT(30), <1>1, <2>12, <3>1, <3>2, <3>5, <3>8, <3>9, <3>10, <3>11 DEF back, w, old, s
  <2> QED BY <2>11, <2>12
<1>6. WaitersSorted'
  BY <1>5 DEF WaitersSorted, Back
<1>7. StaleUpdated'
  BY <1>5 DEF StaleUpdated, OnPoint
<1>8. \A g \in Range(stack') : g.op # "release_depended"
  <2>1. /\ Plain(<<Call("activate", t)>>) /\ Plain(<<Unlock("mask")>>)
        /\ Call("activate", t) \in Frame /\ Unlock("mask") \in Frame
    BY PlainFrames, FrameTypes
  <2>2. Plain(<<Call("activate", t), Unlock("mask")>>)
    BY <2>1, PlainPair
  <2>3. Plain(stack')
    BY <2>1, <2>2 DEF add_tracker
  <2> QED BY <2>3 DEF Plain, Pending, PendingOp
<1>9. WalksReleased'
  BY <1>8 DEF WalksReleased
<1>10. DependedWalked'
  <2>1. "SOFT" \in TimelineId
    BY DEF TimelineId
  <2> DEFINE there(p) == \E u \in Range(tracker_list'["SOFT"]) : point'[u] = p
  <2>2. \A p : ~is_tracker_released("SOFT", p) => there(p)
    BY <1>0, <2>1, OwnPoint DEF is_tracker_released
  <2>3. own_point(t, "SOFT") # NoPoint => there(own_point(t, "SOFT"))
    BY <1>0, <2>1, OwnPoint
  <2>4. \A i \in DOMAIN waiter_list'["SOFT"] :
          waiter_list'["SOFT"][i] \in Range(waiter_list'["SOFT"])
    BY DEF Range
  <2>5. \A u \in Range(waiter_list'["SOFT"]) : there(wait_point'[u]["SOFT"])
    <3> SUFFICES ASSUME NEW u \in Range(waiter_list'["SOFT"])
                 PROVE  there(wait_point'[u]["SOFT"])
      OBVIOUS
    <3> HIDE DEF there
    <3>1. \/ "SOFT" \in served /\ wait_point'[u]["SOFT"] = f["SOFT"]
          \/ u \in Range(waiter_list["SOFT"]) /\ wait_point'[u] = wait_point[u]
      BY <1>5, <2>1
    <3>2. CASE "SOFT" \in served /\ wait_point'[u]["SOFT"] = f["SOFT"]
      BY <1>0, <2>2, <2>3, <3>2, NewWaiter DEF served
    <3>3. CASE u \in Range(waiter_list["SOFT"]) /\ wait_point'[u] = wait_point[u]
      BY <1>1, <2>1, <2>2, <3>3, FreeOrder
    <3> QED BY <3>1, <3>2, <3>3
  <2>6. \A u \in Range(waiter_list'["SOFT"]) :
          ~is_tracker_released("SOFT", wait_point[u]["SOFT"])'
    BY <2>5 DEF is_tracker_released
  <2> QED BY <2>4, <2>6 DEF DependedWalked
<1> QED BY <1>4, <1>6, <1>7, <1>9, <1>10

\* Two trackers of a timeline have different points, and only the first has the point
\* that is furthest back.
LEMMA ListedPoints ==
  ASSUME TypeInv, TrackersSorted, NEW tl \in TimelineId,
         NEW u \in Range(tracker_list[tl]), NEW t \in Range(tracker_list[tl]), u # t
  PROVE  /\ point[u] # point[t]
         /\ t = Head(tracker_list[tl]) =>
              /\ point_oldest[tl] = point[t]
              /\ Back(tl, point[u]) < Back(tl, point[t])
<1> DEFINE s == tracker_list[tl]
<1>1. /\ s \in Seq(Tracker) /\ Len(s) \in Nat /\ DOMAIN s = 1 .. Len(s)
  BY TimelineTypes
<1>2. PICK i \in 1 .. Len(s) : u = s[i]
  BY <1>1 DEF Range
<1>3. PICK j \in 1 .. Len(s) : t = s[j]
  BY <1>1 DEF Range
<1>4. Distinct(s)
  BY DEF TypeInv, TrackersListed
<1>5. /\ s # <<>> => Head(s) = s[1] /\ 1 \in 1 .. Len(s) /\ point_oldest[tl] = point[s[1]]
      /\ \A a \in 1 .. Len(s) : Back(tl, point[s[a]]) \in Nat
      /\ \A a, b \in 1 .. Len(s) : a < b => Back(tl, point[s[b]]) < Back(tl, point[s[a]])
  <2>1. \A a \in 1 .. Len(s) : Back(tl, point[s[a]]) \in 1 .. Back(tl, point_oldest[tl])
    BY ListedBack
  <2>2. Back(tl, point_oldest[tl]) \in 0 .. MaxPointSpan + 1
    BY ListedBack
  <2> QED BY <2>1, <2>2, ListedBack
<1>6. s # <<>>
  BY <1>1, <1>2
<1> HIDE DEF s
<1>7. i < j \/ j < i
  BY <1>1, <1>2, <1>3
<1>8. point[u] # point[t]
  BY <1>2, <1>3, <1>5, <1>7
<1>9. ASSUME t = Head(s)
      PROVE  point_oldest[tl] = point[t] /\ Back(tl, point[u]) < Back(tl, point[t])
  <2>0. s[j] = s[1] /\ 1 \in 1 .. Len(s) /\ DOMAIN s = 1 .. Len(s)
    BY <1>1, <1>3, <1>5, <1>6, <1>9
  <2>1. j = 1 /\ 1 < i
    <3>1. j = 1
      BY <1>4, <2>0, Zenon DEF Distinct
    <3> QED BY <1>7, <3>1
  <2> QED BY <1>2, <1>3, <1>5, <1>6, <1>9, <2>1
<1> QED BY <1>8, <1>9 DEF s

\* point_oldest only moves forward, past the tracker that was the oldest one.
LEMMA ReleaseOldest ==
  ASSUME TypeInv, TrackersSorted, NEW t \in Tracker, point[t] # NoPoint, tracker_release(t)
  PROVE  LET tl == Home[Kind[t]]
         IN  /\ Back(tl, point_oldest'[tl]) <= Back(tl, point_oldest[tl])
             /\ Head(tracker_list[tl]) = t =>
                  Back(tl, point_oldest'[tl]) < Back(tl, point[t])
<1> DEFINE tl == Home[Kind[t]]
           s  == tracker_list[tl]
           w  == Without(s, t)
<1>1. /\ tl \in TimelineId /\ t \in Range(s) /\ Distinct(s)
      /\ point_oldest'[tl] = IF Head(s) = t THEN new_oldest(tl, w) ELSE point_oldest[tl]
  BY ReleaseLists
<1>2. s \in Seq(Tracker) /\ point_next[tl] \in AnyPoint /\ point_oldest[tl] \in AnyPoint
  BY <1>1, TimelineTypes
<1>3. w \in Seq(Tracker) /\ Distinct(w) /\ Range(w) = Range(s) \ {t}
  BY <1>1, <1>2, WithoutRange
<1>4. /\ Back(tl, point_oldest[tl]) \in Nat /\ Back(tl, point_next[tl]) = 0
  BY <1>2, MinusType DEF Back
<1>5. CASE Head(s) # t
  BY <1>1, <1>4, <1>5
<1>6. CASE Head(s) = t
  <2>1. s # <<>> /\ point_oldest[tl] = point[t] /\ Back(tl, point[t]) >= 1
    <3>1. s # <<>>
      BY <1>1, RangeOne
    <3>2. Head(s) = s[1] /\ 1 \in 1 .. Len(s) /\ point_oldest[tl] = point[s[1]]
      BY <1>1, <3>1, ListedBack
    <3>3. Back(tl, point[s[1]]) \in 1 .. Back(tl, point_oldest[tl])
      BY <1>1, <3>2, ListedBack
    <3> QED BY <1>4, <1>6, <3>1, <3>2, <3>3
  <2>2. CASE w = <<>>
    BY <1>1, <1>4, <1>6, <2>1, <2>2 DEF new_oldest
  <2>3. CASE w # <<>>
    <3>1. Head(w) \in Range(s) /\ Head(w) # t
      BY <1>3, <2>3, TailRange
    <3>2. Back(tl, point[Head(w)]) < Back(tl, point[t])
      BY <1>1, <1>6, <3>1, ListedPoints
    <3>3. point_oldest'[tl] = point[Head(w)]
      BY <1>1, <1>6, <2>3 DEF new_oldest
    <3>4. Back(tl, point[Head(w)]) \in Nat
      <4>1. point[Head(w)] \in AnyPoint
        BY <1>1, <3>1, TimelineTypes
      <4> QED BY <1>2, <4>1, MinusType DEF Back
    <3> QED BY <1>4, <2>1, <3>2, <3>3, <3>4
  <2> QED BY <2>2, <2>3
<1> QED BY <1>5, <1>6

\* The stack of tracker_release: what was pending still is, and at most one walk is new.
LEMMA ReleaseStack ==
  ASSUME TypeInv, NEW t \in Tracker, point[t] # NoPoint, tracker_release(t)
  PROVE  LET tl == Home[Kind[t]]
             walk == Walk(point[t], First(waiter_list[tl]))
         IN  /\ stack # <<>> /\ Head(stack).op = "release"
             /\ \A g \in Range(stack) : g.op \in PendingOp => g \in Range(stack')
             /\ \A g \in Range(stack') : g.op = "release_depended" =>
                  \/ g \in Range(stack)
                  \/ tl = "SOFT" /\ Head(tracker_list[tl]) # t /\ g = walk
             /\ Head(tracker_list[tl]) = t => UpdateOf(tl) \in Range(stack')
             /\ Head(tracker_list[tl]) # t /\ tl = "SOFT" =>
                  stack' # <<>> /\ Head(stack') = walk /\ walk \in Range(stack')
<1> DEFINE tl    == Home[Kind[t]]
           walk  == Walk(point[t], First(waiter_list[tl]))
           tail  == Head(tracker_list[tl]) = t
           loop  == IF tail THEN <<UpdateOf(tl)>>
                    ELSE IF tl = "SOFT" THEN <<walk>> ELSE <<>>
           timer == IF tl = "SOFT" THEN <<[op |-> "update_delayed_work"]>> ELSE <<>>
<1>1. /\ stack \in Seq(Frame) /\ stack # <<>> /\ Head(stack).op = "release"
      /\ stack' = loop \o timer \o Caller
  BY DEF tracker_release, Running, OnTop, UpdateOf, TypeInv, TypeOK
<1>2. Caller \in Seq(Frame) /\ Range(stack) = {Head(stack)} \cup Range(Caller)
  BY <1>1, RangeHeadTail DEF Caller
<1>3. UpdateOf(tl) \in Frame /\ walk \in Frame
  <2>1. tl \in TimelineId
    BY DEF TypeInv, TrackersListed
  <2>2. /\ point[t] \in Point
        /\ First(waiter_list[tl]) \in Tracker \cup {NoTracker}
    BY <2>1, AnyPointTypes, FirstType, TimelineTypes
  <2> QED BY <2>1, <2>2, FrameTypes DEF UpdateOf
<1>4. /\ loop \in Seq(Frame) /\ timer \in Seq(Frame) /\ timer \o Caller \in Seq(Frame)
      /\ loop \o timer \in Seq(Frame)
  <2>1. loop \in Seq(Frame)
    BY <1>3
  <2>2. timer \in Seq(Frame)
    BY FrameTypes
  <2> HIDE DEF loop, timer
  <2> QED BY <1>2, <2>1, <2>2, RangeConcat
<1>5. /\ Range(loop) = IF tail THEN {UpdateOf(tl)} ELSE IF tl = "SOFT" THEN {walk} ELSE {}
      /\ Range(timer) = IF tl = "SOFT" THEN {[op |-> "update_delayed_work"]} ELSE {}
  BY RangeOne
<1>6. ~tail /\ tl = "SOFT" => loop = <<walk>>
  OBVIOUS
<1> HIDE DEF loop, timer
<1>7. Range(stack') = Range(loop) \cup Range(timer) \cup Range(Caller)
  <2> DEFINE lt == loop \o timer
             callers == Caller
  <2>1. Range(lt) = Range(loop) \cup Range(timer)
    BY <1>4, RangeConcat
  <2>2. lt \in Seq(Frame) /\ callers \in Seq(Frame) /\ stack' = lt \o callers
    BY <1>1, <1>2, <1>4
  <2> HIDE DEF lt, callers
  <2>3. Range(lt \o callers) = Range(lt) \cup Range(callers)
    BY <2>2, RangeConcat, Zenon
  <2> QED BY <2>1, <2>2, <2>3 DEF callers
<1>8. ~tail /\ tl = "SOFT" => stack' # <<>> /\ Head(stack') = walk
  <2> SUFFICES ASSUME ~tail, tl = "SOFT" PROVE stack' # <<>> /\ Head(stack') = walk
    OBVIOUS
  <2>1. stack' = loop \o (timer \o Caller)
    BY <1>1, <1>2, <1>4, ConcatAssociative
  <2>2. loop = <<walk>>
    BY <1>6
  <2> DEFINE rest == timer \o Caller
  <2>3. rest \in Seq(Frame) /\ stack' = <<walk>> \o rest
    BY <1>4, <2>1, <2>2
  <2> HIDE DEF rest, walk
  <2> QED BY <1>3, <2>3
<1>9. UpdateOf(tl).op = "update_oldest_point" /\ walk.op = "release_depended"
  BY DEF UpdateOf, Walk
<1>10. Head(stack).op \notin PendingOp
  BY <1>1 DEF PendingOp
<1> HIDE DEF walk, tail, tl
<1>11. \A g \in Range(stack) : g.op \in PendingOp => g \in Range(stack')
  BY <1>2, <1>7, <1>10
<1>12. \A g \in Range(stack') : g.op = "release_depended" =>
         g \in Range(stack) \/ (tl = "SOFT" /\ ~tail /\ g = walk)
  <2>1. \A g \in Range(timer) : g.op # "release_depended"
    BY <1>5
  <2> QED BY <1>2, <1>5, <1>7, <1>9, <2>1
<1>13. tail => UpdateOf(tl) \in Range(stack')
  BY <1>5, <1>7
<1>14. ~tail /\ tl = "SOFT" => walk \in Range(stack')
  BY <1>5, <1>7
<1> QED BY <1>1, <1>8, <1>11, <1>12, <1>13, <1>14 DEF walk, tail, tl

\* tracker_release: the waiters for its point are left to the walk that it calls.
LEMMA tracker_release_order ==
  ASSUME OrderInv, RefInv', NEW t \in Tracker, tracker_release(t)
  PROVE  OrderInv'
<1> USE DEF OrderInv
<1> DEFINE tl == Home[Kind[t]]
<1>0. TypeInv /\ TypeInv' /\ stack \in Seq(Frame)
  BY DEF RefInv, TypeInv, TypeOK
<1>1. CASE point[t] = NoPoint
  <2>1. UNCHANGED orderVars
    <3>1. point \in [Tracker -> AnyPoint] /\ point' = [point EXCEPT ![t] = NoPoint]
      BY <1>0 DEF tracker_release, TypeInv, TypeOK, TrackerTypes
    <3>2. point' = point
      BY <1>1, <3>1
    <3> QED BY <1>1, <3>2 DEF tracker_release, orderVars, listVars, refVars
  <2>2. stack # <<>> /\ Head(stack).op \notin PendingOp /\ stack' = Caller
    BY <1>1 DEF tracker_release, Running, OnTop, PendingOp
  <2>3. Caller \in Seq(Frame) /\ Plain(<<>>)
    BY <1>0, <2>2, StackTypes, PlainFrames
  <2>4. Caller = <<>> \o Caller
    BY <2>3
  <2> HIDE DEF Caller
  <2>5. Elsewhere
    BY <1>0, <2>1, <2>2, <2>3, <2>4, ReturnKept DEF Elsewhere
  <2> QED BY <2>5, ElsewhereOrder
<1>2. CASE point[t] # NoPoint
  <2> DEFINE walk == Walk(point[t], First(waiter_list[tl]))
             tail == Head(tracker_list[tl]) = t
  <2>1. /\ stack # <<>> /\ Head(stack).op = "release"
        /\ \A g \in Range(stack) : g.op \in PendingOp => g \in Range(stack')
        /\ \A g \in Range(stack') : g.op = "release_depended" =>
             g \in Range(stack) \/ (tl = "SOFT" /\ ~tail /\ g = walk)
        /\ tail => UpdateOf(tl) \in Range(stack')
        /\ ~tail /\ tl = "SOFT" => Head(stack') = walk /\ walk \in Range(stack')
    BY <1>0, <1>2, ReleaseStack
  <2>2. /\ tl \in TimelineId /\ t \in Range(tracker_list[tl])
        /\ point_oldest'[tl] = IF tail THEN new_oldest(tl, Without(tracker_list[tl], t))
                               ELSE point_oldest[tl]
        /\ tracker_list'[tl] = Without(tracker_list[tl], t)
        /\ \A x \in TimelineId \ {tl} :
             tracker_list'[x] = tracker_list[x] /\ point_oldest'[x] = point_oldest[x]
        /\ \A u \in Tracker \ {t} : point'[u] = point[u]
    BY <1>0, <1>2, ReleaseLists
  <2>3. UNCHANGED <<point_next, waiter_list, wait_point>>
    BY DEF tracker_release, refVars
  <2>4. /\ Back(tl, point_oldest'[tl]) <= Back(tl, point_oldest[tl])
        /\ tail => Back(tl, point_oldest'[tl]) < Back(tl, point[t])
    BY <1>0, <1>2, ReleaseOldest
  <2>5. /\ Range(tracker_list'[tl]) = Range(tracker_list[tl]) \ {t}
        /\ \A u \in Range(tracker_list[tl]) : u \in Tracker
    BY <1>0, <2>2, TimelineTypes, WithoutRange DEF TypeInv, TrackersListed
  <2>6. TrackersSorted'
    BY <1>0, tracker_release_sorted
  <2>7. WaitersSorted'
    BY <2>3 DEF WaitersSorted, Back
  <2> HIDE DEF walk, tail, tl
  <2>8. StaleUpdated'
    <3> SUFFICES ASSUME NEW x \in TimelineId, ~(UpdateOf(x) \in Range(stack')),
                        NEW u \in Range(waiter_list[x])
                 PROVE  is_point_on(wait_point[u][x], point_oldest'[x], point_next[x])
      BY <2>3 DEF StaleUpdated, OnPoint, Updating, UpdateOf
    <3>1. UpdateOf(x).op \in PendingOp
      BY DEF UpdateOf, PendingOp
    <3>2. ~Updating(x)
      BY <2>1, <3>1 DEF Updating
    <3>3. point_oldest'[x] = point_oldest[x]
      BY <2>1, <2>2
    <3> QED BY <3>2, <3>3 DEF StaleUpdated, OnPoint
  <2>9. \A p : is_tracker_released("SOFT", p) => is_tracker_released("SOFT", p)'
    <3>1. \A u \in Range(tracker_list'["SOFT"]) :
            u \in Range(tracker_list["SOFT"]) /\ point'[u] = point[u]
      <4>1. CASE tl = "SOFT"
        BY <2>2, <2>5, <4>1
      <4>2. CASE tl # "SOFT"
        <5>1. "SOFT" \in TimelineId \ {tl}
          BY <4>2 DEF TimelineId
        <5>2. tracker_list'["SOFT"] = tracker_list["SOFT"]
          BY <2>2, <5>1
        <5>3. \A u \in Range(tracker_list["SOFT"]) : u \in Tracker /\ u # t
          BY <1>0, <5>1, TimelineTypes DEF TypeInv, TrackersListed, tl
        <5> QED BY <2>2, <5>2, <5>3
      <4> QED BY <4>1, <4>2
    <3> QED BY <3>1 DEF is_tracker_released
  <2>10. ASSUME tl = "SOFT", NEW p, p = point[t] PROVE is_tracker_released("SOFT", p)'
    <3> SUFFICES ASSUME NEW u \in Range(tracker_list'["SOFT"])
                 PROVE  point'[u] # point[t]
      BY <2>10 DEF is_tracker_released
    <3>1. u \in Range(tracker_list[tl]) /\ u # t /\ point'[u] = point[u]
      BY <2>2, <2>5, <2>10
    <3> QED BY <1>0, <2>2, <3>1, ListedPoints
  <2>11. WalksReleased'
    <3> SUFFICES ASSUME NEW g \in Range(stack'), g.op = "release_depended"
                 PROVE  is_tracker_released("SOFT", g.point)'
      BY DEF WalksReleased
    <3>1. CASE g \in Range(stack)
      BY <2>9, <3>1 DEF WalksReleased
    <3>2. CASE tl = "SOFT" /\ g = walk
      <4>1. g.point = point[t]
        BY <3>2 DEF walk, Walk
      <4> QED BY <2>10, <3>2, <4>1
    <3> QED BY <2>1, <3>1, <3>2
  <2>12. DependedWalked'
    <3> SUFFICES ASSUME NEW i \in DOMAIN waiter_list["SOFT"],
                        NEW p, p = wait_point[waiter_list["SOFT"][i]]["SOFT"],
                        is_point_on(p, point_oldest'["SOFT"], point_next["SOFT"]),
                        is_tracker_released("SOFT", p)'
                 PROVE  \E g \in Range(stack') : WalkReaches(g, i)'
      BY <2>3 DEF DependedWalked, OnPoint, is_tracker_released
    <3>0. "SOFT" \in TimelineId
      BY DEF TimelineId
    <3>1. /\ p \in AnyPoint /\ point_next["SOFT"] \in AnyPoint
          /\ point_oldest["SOFT"] \in AnyPoint /\ point_oldest'["SOFT"] \in AnyPoint
          /\ DOMAIN waiter_list["SOFT"] = 1 .. Len(waiter_list["SOFT"])
          /\ Len(waiter_list["SOFT"]) \in Nat /\ waiter_list["SOFT"] \in Seq(Tracker)
      <4>1. point_oldest'["SOFT"] \in AnyPoint
        BY <1>0, <3>0, AnyPointTypes DEF TypeInv, TypeOK, ListTypes
      <4> QED BY <1>0, <3>0, <4>1, TimelineTypes
    <3>2. /\ Back("SOFT", p) \in 1 .. Back("SOFT", point_oldest'["SOFT"])
          /\ Back("SOFT", point_oldest'["SOFT"]) \in Nat
          /\ Back("SOFT", point_oldest["SOFT"]) \in Nat
      BY <3>1, OnBack, MinusType DEF Back
    <3>3. OnPoint("SOFT", p)
      <4>1. Back("SOFT", p) \in 1 .. Back("SOFT", point_oldest["SOFT"])
        BY <2>2, <2>4, <3>0, <3>2
      <4> QED BY <3>1, <4>1, OnBack DEF Back, OnPoint
    <3>4. CASE is_tracker_released("SOFT", p)
      <4>1. PICK g \in Range(stack) : WalkReaches(g, i)
        BY <3>3, <3>4 DEF DependedWalked
      <4>2. g \in Range(stack') /\ Walking(g)' /\ g # Head(stack)
        BY <2>1, <4>1 DEF WalkReaches, Walking, PendingOp
      <4>3. WalkReaches(g, i)'
        BY <2>3, <4>1, <4>2 DEF WalkReaches
      <4> QED BY <4>2, <4>3
    <3>5. CASE ~is_tracker_released("SOFT", p)
      <4>1. PICK u \in Range(tracker_list["SOFT"]) : point[u] = p
        BY <3>5 DEF is_tracker_released
      <4>2. tl = "SOFT" /\ u = t
        <5>1. u \in Tracker
          BY <1>0, <3>0, <4>1, TimelineTypes
        <5>2. CASE u = t
          BY <1>0, <3>0, <4>1, <5>2 DEF TypeInv, TrackersListed, tl
        <5>3. CASE u # t
          <6>1. u \in Range(tracker_list'["SOFT"]) /\ point'[u] = p
            BY <2>2, <2>5, <3>0, <4>1, <5>1, <5>3
          <6> QED BY <6>1 DEF is_tracker_released
        <5> QED BY <5>2, <5>3
      <4>3. ~tail
        BY <2>4, <3>2, <4>1, <4>2
      <4>4. /\ Head(stack') = walk /\ walk \in Range(stack')
            /\ walk.op = "release_depended" /\ walk.point = p
            /\ walk.cursor = First(waiter_list["SOFT"])
        BY <2>1, <4>1, <4>2, <4>3 DEF walk, Walk
      <4>5. waiter_list["SOFT"][1] = walk.cursor /\ 1 \in 1 .. i
        <5>1. waiter_list["SOFT"] # <<>>
          BY <3>1
        <5>2. First(waiter_list["SOFT"]) = Head(waiter_list["SOFT"])
          BY <5>1 DEF First
        <5>3. Head(waiter_list["SOFT"]) = waiter_list["SOFT"][1]
          BY <3>1, <5>1
        <5> QED BY <3>1, <4>4, <5>2, <5>3
      <4>6. ASSUME NEW g, g = walk PROVE g \in Range(stack') /\ WalkReaches(g, i)'
        <5>1. /\ g \in Range(stack') /\ g = Head(stack') /\ g.op = "release_depended"
              /\ g.point = p /\ waiter_list["SOFT"][1] = g.cursor /\ 1 \in 1 .. i
          BY <4>4, <4>5, <4>6
        <5> QED BY <2>3, <5>1 DEF WalkReaches, Walking
      <4> QED BY <4>6
    <3> QED BY <3>4, <3>5
  <2> QED BY <2>6, <2>7, <2>8, <2>11, <2>12
<1> QED BY <1>1, <1>2

\* new is the list s without its element r.
Unlinked(s, r, new) ==
  /\ r \in 1 .. Len(s)
  /\ new \in Seq(Tracker) /\ Len(new) = Len(s) - 1
  /\ \A j \in 1 .. Len(s) - 1 : new[j] = IF j < r THEN s[j] ELSE s[j + 1]

\* Waiter r of timeline tl is unlinked and forgets its point (system_release_waiter).
DropsWaiter(tl, r) ==
  /\ Unlinked(waiter_list[tl], r, waiter_list'[tl])
  /\ \A x \in TimelineId \ {tl} : waiter_list'[x] = waiter_list[x]
  /\ wait_point' = [wait_point EXCEPT ![waiter_list[tl][r]] = [@ EXCEPT ![tl] = NoPoint]]
  /\ UNCHANGED <<point_next, point_oldest, tracker_list, point>>

\* The waiters that are left stay in order and keep their points.
LEMMA DropSorted ==
  ASSUME OrderInv, NEW tl \in TimelineId, NEW r, DropsWaiter(tl, r)
  PROVE  /\ TrackersSorted' /\ WaitersSorted'
         /\ waiter_list[tl][r] \in Tracker
         /\ \A u \in Tracker : \A x \in TimelineId :
              u # waiter_list[tl][r] \/ x # tl => wait_point'[u][x] = wait_point[u][x]
         /\ \A x \in TimelineId : \A u \in Range(waiter_list'[x]) :
              u \in Range(waiter_list[x]) /\ wait_point'[u][x] = wait_point[u][x]
         /\ \A i \in 1 .. Len(waiter_list[tl]) :
              waiter_list[tl][i] = waiter_list[tl][r] => i = r
<1> USE DEF OrderInv
<1> DEFINE s == waiter_list[tl]
<1>0. TypeInv
  BY DEF RefInv
<1>1. /\ s \in Seq(Tracker) /\ Len(s) \in Nat /\ DOMAIN s = 1 .. Len(s)
      /\ \A i \in 1 .. Len(s) : s[i] \in Tracker /\ s[i] \in Range(s)
      /\ Distinct(s)
  BY <1>0, TimelineTypes DEF RefInv, WaitersHold
<1>2. r \in 1 .. Len(s) /\ s[r] \in Tracker
  BY <1>1 DEF DropsWaiter, Unlinked
<1>3. \A i \in 1 .. Len(s) : s[i] = s[r] => i = r
  BY <1>1, <1>2 DEF Distinct
<1>4. \A u \in Tracker : \A x \in TimelineId :
        u # s[r] \/ x # tl => wait_point'[u][x] = wait_point[u][x]
  BY <1>0, <1>2 DEF DropsWaiter, TypeInv, TypeOK, RefTypes
<1>5. ASSUME NEW i \in 1 .. Len(s) - 1
      PROVE  LET k == IF i < r THEN i ELSE i + 1
             IN  /\ k \in 1 .. Len(s) /\ waiter_list'[tl][i] = s[k]
                 /\ s[k] # s[r] /\ wait_point'[s[k]][tl] = wait_point[s[k]][tl]
  <2> DEFINE k == IF i < r THEN i ELSE i + 1
  <2>1. k \in 1 .. Len(s) /\ k # r /\ waiter_list'[tl][i] = s[k]
    BY <1>1, <1>2 DEF DropsWaiter, Unlinked
  <2> HIDE DEF k
  <2>2. s[k] # s[r] /\ s[k] \in Tracker
    BY <1>1, <1>3, <2>1
  <2>3. wait_point'[s[k]][tl] = wait_point[s[k]][tl]
    BY <1>4, <2>2
  <2> QED BY <2>1, <2>2, <2>3 DEF k
<1>6. DOMAIN waiter_list'[tl] = 1 .. Len(s) - 1
  BY <1>1, <1>2, LenProperties DEF DropsWaiter, Unlinked
<1>7. TrackersSorted'
  BY TrackersSame DEF DropsWaiter
<1>8. \A x \in TimelineId : \A u \in Range(waiter_list'[x]) :
        u \in Range(waiter_list[x]) /\ wait_point'[u][x] = wait_point[u][x]
  <2> SUFFICES ASSUME NEW x \in TimelineId, NEW u \in Range(waiter_list'[x])
               PROVE  u \in Range(waiter_list[x]) /\ wait_point'[u][x] = wait_point[u][x]
    OBVIOUS
  <2>1. CASE x = tl
    <3>1. PICK i \in 1 .. Len(s) - 1 : u = waiter_list'[tl][i]
      BY <1>6, <2>1 DEF Range
    <3> QED BY <1>1, <1>5, <2>1, <3>1
  <2>2. CASE x # tl
    <3>1. u \in Range(waiter_list[x]) /\ u \in Tracker
      BY <1>0, <2>2, TimelineTypes DEF DropsWaiter
    <3> QED BY <1>4, <2>2, <3>1
  <2> QED BY <2>1, <2>2
<1>9. WaitersSorted'
  <2> SUFFICES ASSUME NEW x \in TimelineId
               PROVE  LET new == waiter_list'[x]
                          back(i) == minus(point_next[x], wait_point'[new[i]][x])
                      IN  /\ \A i \in DOMAIN new : back(i) \in 1 .. MaxPointSpan + 1
                          /\ \A i, j \in DOMAIN new : i < j => back(j) <= back(i)
    BY DEF WaitersSorted, Back, DropsWaiter
  <2>1. CASE x = tl
    <3> DEFINE w(i) == minus(point_next[tl], wait_point[s[i]][tl])
    <3>1. /\ \A i \in 1 .. Len(s) : w(i) \in 1 .. MaxPointSpan + 1
          /\ \A i, j \in 1 .. Len(s) : i < j => w(j) <= w(i)
      BY <1>1 DEF WaitersSorted, Back
    <3>2. \A i \in 1 .. Len(s) - 1 :
            minus(point_next[x], wait_point'[waiter_list'[x][i]][x])
              = w(IF i < r THEN i ELSE i + 1)
      BY <1>5, <2>1
    <3>3. r \in Nat /\ Len(s) \in Nat
      BY <1>1, <1>2
    <3>4. MaxPointSpan \in Nat
      BY PointAssumption
    <3> HIDE DEF w, s
    <3>5. \A i \in 1 .. Len(s) - 1 :
            minus(point_next[x], wait_point'[waiter_list'[x][i]][x]) \in 1 .. MaxPointSpan + 1
      BY <3>1, <3>2, <3>3
    <3>6. \A i, j \in 1 .. Len(s) - 1 : i < j =>
            minus(point_next[x], wait_point'[waiter_list'[x][j]][x])
              <= minus(point_next[x], wait_point'[waiter_list'[x][i]][x])
      <4> SUFFICES ASSUME NEW i \in 1 .. Len(s) - 1, NEW j \in 1 .. Len(s) - 1, i < j
                   PROVE  w(IF j < r THEN j ELSE j + 1) <= w(IF i < r THEN i ELSE i + 1)
        BY <3>2
      <4>1. CASE j < r
        BY <3>1, <3>3, <4>1
      <4>2. CASE i < r /\ ~(j < r)
        BY <3>1, <3>3, <4>2
      <4>3. CASE ~(i < r)
        BY <3>1, <3>3, <4>3
      <4> QED BY <3>3, <4>1, <4>2, <4>3
    <3> QED BY <1>6, <2>1, <3>5, <3>6
  <2>2. CASE x # tl
    <3>1. waiter_list'[x] = waiter_list[x]
      BY <2>2 DEF DropsWaiter
    <3>2. \A i \in DOMAIN waiter_list[x] : waiter_list[x][i] \in Tracker
      BY <1>0, TimelineTypes
    <3>3. \A i \in DOMAIN waiter_list[x] :
            wait_point'[waiter_list[x][i]][x] = wait_point[waiter_list[x][i]][x]
      BY <1>4, <2>2, <3>2
    <3> QED BY <3>1, <3>3 DEF WaitersSorted, Back
  <2> QED BY <2>1, <2>2
<1> QED BY <1>2, <1>3, <1>4, <1>7, <1>8, <1>9

\* A walk still reaches a waiter after another one was unlinked, unless that was its cursor.
LEMMA DropReach ==
  ASSUME OrderInv, NEW r, DropsWaiter("SOFT", r),
         NEW k \in 1 .. Len(waiter_list["SOFT"]), k # r,
         NEW f \in Range(stack'), WalkReaches(f, k),
         wait_point[f.cursor]["SOFT"] = f.point, f.cursor # waiter_list["SOFT"][r]
  PROVE  WalkReaches(f, IF k < r THEN k ELSE k - 1)'
<1> DEFINE s == waiter_list["SOFT"]
           m == IF k < r THEN k ELSE k - 1
<1>0. "SOFT" \in TimelineId /\ TypeInv
  BY DEF TimelineId, OrderInv, RefInv
<1>1. /\ s \in Seq(Tracker) /\ Len(s) \in Nat /\ DOMAIN s = 1 .. Len(s)
      /\ \A i \in 1 .. Len(s) : s[i] \in Tracker
  BY <1>0, TimelineTypes
<1>2. /\ \A u \in Tracker : u # s[r] => wait_point'[u]["SOFT"] = wait_point[u]["SOFT"]
      /\ \A i \in 1 .. Len(s) : s[i] = s[r] => i = r
  BY <1>0, DropSorted
<1>3. /\ r \in 1 .. Len(s)
      /\ \A j \in 1 .. Len(s) - 1 : waiter_list'["SOFT"][j] = IF j < r THEN s[j] ELSE s[j + 1]
  BY DEF DropsWaiter, Unlinked
<1>4. /\ f.op = "release_depended" /\ f.point = wait_point[s[k]]["SOFT"]
      /\ \E j \in 1 .. k : s[j] = f.cursor
  BY DEF WalkReaches, Walking
<1>5. PICK j \in 1 .. k : s[j] = f.cursor
  BY <1>4
<1>6. j # r /\ j \in 1 .. Len(s)
  BY <1>1, <1>5
<1> DEFINE i == IF j < r THEN j ELSE j - 1
<1>7. /\ m \in 1 .. Len(s) - 1 /\ i \in 1 .. m
      /\ waiter_list'["SOFT"][m] = s[k] /\ waiter_list'["SOFT"][i] = s[j]
  BY <1>1, <1>3, <1>5, <1>6
<1>8. /\ wait_point'[s[k]]["SOFT"] = wait_point[s[k]]["SOFT"]
      /\ wait_point'[f.cursor]["SOFT"] = f.point
  BY <1>1, <1>2, <1>5, <1>6
<1> HIDE DEF m, i, s
<1>9. /\ f.point = wait_point'[waiter_list'["SOFT"][m]]["SOFT"]
      /\ \E a \in 1 .. m : waiter_list'["SOFT"][a] = f.cursor
  BY <1>4, <1>5, <1>7, <1>8
<1>10. WalkReaches(f, m)'
  BY <1>4, <1>8, <1>9 DEF WalkReaches, Walking
<1> QED BY <1>10 DEF m

\* system_release_waiter calls at most tracker_activate.
LEMMA ReferenceStack ==
  ASSUME NEW t \in Tracker, NEW h, NEW rest \in Seq(Frame), release_reference(t, h, rest)
  PROVE  /\ Range(rest) \subseteq Range(stack')
         /\ \A g \in Range(stack') : g \in Range(rest) \/ g.op = "activate"
<1>1. <<Call("activate", t)>> \in Seq(Frame) /\ Call("activate", t).op = "activate"
  <2>1. Call("activate", t) \in Frame
    BY FrameTypes
  <2> QED BY <2>1 DEF Call
<1> DEFINE q == <<Call("activate", t)>>
<1>2. Range(q) = {Call("activate", t)}
  BY RangeOne
<1> HIDE DEF q
<1>3. q \in Seq(Frame) /\ (stack' = q \o rest \/ stack' = rest)
  BY <1>1 DEF release_reference, q
<1>4. CASE stack' = rest
  BY <1>4
<1>5. CASE stack' = q \o rest
  <2>1. Range(stack') = Range(q) \cup Range(rest)
    BY <1>3, <1>5, RangeConcat
  <2> QED BY <1>1, <1>2, <2>1
<1> QED BY <1>3, <1>4, <1>5

\* What a dropped waiter leaves of the invariant, apart from the walks.
LEMMA DropKept ==
  ASSUME OrderInv, NEW tl \in TimelineId, NEW r, DropsWaiter(tl, r),
         \A g \in Range(stack) : g.op = "update_oldest_point" => g \in Range(stack'),
         \A g \in Range(stack') :
           g.op = "release_depended" => \E h \in Range(stack) : h.op = g.op /\ h.point = g.point
  PROVE  TrackersSorted' /\ WaitersSorted' /\ StaleUpdated' /\ WalksReleased'
<1> USE DEF OrderInv
<1>1. /\ TrackersSorted' /\ WaitersSorted'
      /\ \A x \in TimelineId : \A u \in Range(waiter_list'[x]) :
           u \in Range(waiter_list[x]) /\ wait_point'[u][x] = wait_point[u][x]
  BY DropSorted
<1>2. UNCHANGED <<point_next, point_oldest, tracker_list, point>>
  BY DEF DropsWaiter
<1>3. StaleUpdated'
  <2> SUFFICES ASSUME NEW x \in TimelineId, ~(UpdateOf(x) \in Range(stack')),
                      NEW u \in Range(waiter_list'[x])
               PROVE  is_point_on(wait_point'[u][x], point_oldest[x], point_next[x])
    BY <1>2 DEF StaleUpdated, OnPoint, Updating, UpdateOf
  <2>1. UpdateOf(x).op = "update_oldest_point"
    BY DEF UpdateOf
  <2>2. ~Updating(x)
    BY <2>1 DEF Updating
  <2> QED BY <1>1, <2>2 DEF StaleUpdated, OnPoint
<1>4. WalksReleased'
  <2> SUFFICES ASSUME NEW g \in Range(stack'), g.op = "release_depended"
               PROVE  is_tracker_released("SOFT", g.point)
    BY <1>2 DEF WalksReleased, is_tracker_released
  <2>1. PICK h \in Range(stack) : h.op = g.op /\ h.point = g.point
    OBVIOUS
  <2> QED BY <2>1 DEF WalksReleased
<1> QED BY <1>1, <1>3, <1>4

\* Unlinking the oldest waiter.
LEMMA UnlinkOldest ==
  ASSUME TypeInv, NEW tl \in TimelineId, waiter_list[tl] # <<>>,
         update_oldest_point(tl), ~OnPoint(tl, wait_point[Head(waiter_list[tl])][tl])
  PROVE  /\ DropsWaiter(tl, 1)
         /\ Head(waiter_list[tl]) = waiter_list[tl][1] /\ waiter_list[tl][1] \in Tracker
         /\ release_reference(waiter_list[tl][1], tl, stack)
<1> DEFINE s == waiter_list[tl]
<1>1. /\ s \in Seq(Tracker) /\ Len(s) \in Nat
      /\ \A i \in 1 .. Len(s) : s[i] \in Tracker
  BY TimelineTypes
<1>2. /\ waiter_list' = [waiter_list EXCEPT ![tl] = Tail(s)]
      /\ release_reference(Head(s), tl, stack)
      /\ UNCHANGED <<point_next, point_oldest, tracker_list, point>>
  BY DEF update_oldest_point, trackerVars
<1>3. /\ waiter_list'[tl] = Tail(s)
      /\ \A x \in TimelineId \ {tl} : waiter_list'[x] = waiter_list[x]
  BY <1>2 DEF TypeInv, TypeOK, ListTypes
<1> HIDE DEF s
<1>4. /\ 1 \in 1 .. Len(s) /\ Head(s) = s[1]
      /\ Tail(s) \in Seq(Tracker) /\ Len(Tail(s)) = Len(s) - 1
      /\ \A j \in 1 .. Len(s) - 1 : Tail(s)[j] = s[j + 1]
  <2>1. s # <<>>
    BY DEF s
  <2>2. Len(s) >= 1
    BY <1>1, <2>1
  <2> QED BY <1>1, <2>1, <2>2
<1>5. Unlinked(s, 1, Tail(s))
  BY <1>4 DEF Unlinked
<1>6. wait_point' = [wait_point EXCEPT ![s[1]] = [@ EXCEPT ![tl] = NoPoint]]
  BY <1>2, <1>4 DEF release_reference
<1> QED BY <1>1, <1>2, <1>3, <1>4, <1>5, <1>6 DEF DropsWaiter, s

\* update_oldest_point: it leaves nothing behind point_oldest.
LEMMA update_oldest_point_order ==
  ASSUME OrderInv, RefInv', NEW tl \in TimelineId, update_oldest_point(tl)
  PROVE  OrderInv'
<1> USE DEF OrderInv
<1> DEFINE s == waiter_list[tl]
<1>0. TypeInv /\ stack \in Seq(Frame)
  BY DEF RefInv, TypeInv, TypeOK
<1>1. /\ stack # <<>> /\ Head(stack).op = "update_oldest_point" /\ Head(stack).timeline = tl
  BY DEF update_oldest_point, OnTop
<1>2. Range(stack) = {Head(stack)} \cup Range(Caller)
  BY <1>0, <1>1, RangeHeadTail DEF Caller
<1>3. /\ s \in Seq(Tracker) /\ Len(s) \in Nat /\ DOMAIN s = 1 .. Len(s)
      /\ \A u \in Tracker : wait_point[u][tl] \in AnyPoint
      /\ point_oldest[tl] \in AnyPoint /\ point_next[tl] \in AnyPoint
      /\ \A i \in 1 .. Len(s) : s[i] \in Tracker
  BY <1>0, TimelineTypes
<1>4. CASE s = <<>> \/ OnPoint(tl, wait_point[Head(s)][tl])
  <2>1. stack' = Caller /\ UNCHANGED orderVars
    BY <1>4 DEF update_oldest_point, orderVars, refVars, listVars, trackerVars
  <2>2. UNCHANGED <<point, point_next, point_oldest, tracker_list, waiter_list, wait_point>>
    BY <2>1 DEF orderVars, listVars
  <2>3. \A u \in Range(s) : OnPoint(tl, wait_point[u][tl])
    <3> SUFFICES ASSUME NEW u \in Range(s) PROVE OnPoint(tl, wait_point[u][tl])
      OBVIOUS
    <3>1. PICK i \in 1 .. Len(s) : u = s[i]
      BY <1>3 DEF Range
    <3>2. s # <<>> /\ Head(s) = s[1] /\ 1 \in 1 .. Len(s)
      BY <1>3, <3>1
    <3>3. Back(tl, wait_point[s[1]][tl]) \in 1 .. Back(tl, point_oldest[tl])
      BY <1>3, <1>4, <3>2, OnBack DEF OnPoint, Back
    <3>4. /\ Back(tl, wait_point[s[i]][tl]) >= 1
          /\ Back(tl, wait_point[s[i]][tl]) <= Back(tl, wait_point[s[1]][tl])
          /\ Back(tl, wait_point[s[i]][tl]) \in Nat
          /\ Back(tl, point_oldest[tl]) \in Nat
      <4>1. /\ Back(tl, wait_point[s[i]][tl]) \in 1 .. MaxPointSpan + 1
            /\ 1 < i => Back(tl, wait_point[s[i]][tl]) <= Back(tl, wait_point[s[1]][tl])
        BY <1>3, <3>1, <3>2 DEF WaitersSorted
      <4>2. Back(tl, point_oldest[tl]) \in Nat
        BY <1>3, MinusType DEF Back
      <4> QED BY <3>1, <4>1, <4>2, PointAssumption
    <3>5. Back(tl, wait_point[s[i]][tl]) \in 1 .. Back(tl, point_oldest[tl])
      BY <3>3, <3>4
    <3> QED BY <1>3, <3>1, <3>5, OnBack DEF OnPoint, Back
  <2>4. TrackersSorted' /\ WaitersSorted'
    BY <2>2, TrackersSame DEF WaitersSorted, Back
  <2>5. StaleUpdated'
    <3> SUFFICES ASSUME NEW x \in TimelineId, ~(UpdateOf(x) \in Range(Caller)),
                        NEW u \in Range(waiter_list[x])
                 PROVE  OnPoint(x, wait_point[u][x])
      BY <2>1, <2>2 DEF StaleUpdated, OnPoint, Updating, UpdateOf
    <3>1. CASE x = tl
      BY <2>3, <3>1
    <3>2. CASE x # tl
      <4>1. UpdateOf(x) # Head(stack)
        BY <1>1, <3>2 DEF UpdateOf
      <4> QED BY <1>2, <4>1 DEF StaleUpdated, Updating
    <3> QED BY <3>1, <3>2
  <2>6. WalksReleased'
    BY <1>2, <2>1, <2>2 DEF WalksReleased, is_tracker_released
  <2>7. DependedWalked'
    <3> SUFFICES ASSUME NEW i \in DOMAIN waiter_list["SOFT"],
                        OnPoint("SOFT", wait_point[waiter_list["SOFT"][i]]["SOFT"]),
                        is_tracker_released("SOFT", wait_point[waiter_list["SOFT"][i]]["SOFT"])
                 PROVE  \E f \in Range(stack') : WalkReaches(f, i)'
      BY <2>2 DEF DependedWalked, OnPoint, is_tracker_released
    <3>1. PICK f \in Range(stack) : WalkReaches(f, i)
      BY DEF DependedWalked
    <3>2. f # Head(stack) /\ f \in Range(stack')
      BY <1>1, <1>2, <2>1, <3>1 DEF WalkReaches, Walking
    <3>3. WalkReaches(f, i)'
      BY <2>2, <3>1, <3>2 DEF WalkReaches, Walking
    <3> QED BY <3>2, <3>3
  <2> QED BY <2>4, <2>5, <2>6, <2>7
<1>5. CASE s # <<>> /\ ~OnPoint(tl, wait_point[Head(s)][tl])
  <2>1. /\ DropsWaiter(tl, 1) /\ Head(s) = s[1] /\ s[1] \in Tracker
        /\ release_reference(s[1], tl, stack)
    BY <1>0, <1>5, UnlinkOldest
  <2>2. /\ Range(stack) \subseteq Range(stack')
        /\ \A g \in Range(stack') : g \in Range(stack) \/ g.op = "activate"
    BY <1>0, <2>1, ReferenceStack
  <2>3. TrackersSorted' /\ WaitersSorted' /\ StaleUpdated' /\ WalksReleased'
    BY <2>1, <2>2, DropKept
  <2>4. UNCHANGED <<point, point_next, point_oldest, tracker_list>>
    BY <2>1 DEF DropsWaiter
  <2>5. DependedWalked'
    <3> SUFFICES ASSUME NEW i \in DOMAIN waiter_list'["SOFT"],
                        NEW p, p = wait_point'[waiter_list'["SOFT"][i]]["SOFT"],
                        OnPoint("SOFT", p), is_tracker_released("SOFT", p)
                 PROVE  \E f \in Range(stack') : WalkReaches(f, i)'
      BY <2>4 DEF DependedWalked, OnPoint, is_tracker_released
    <3>0. "SOFT" \in TimelineId
      BY DEF TimelineId
    <3>1. CASE tl # "SOFT"
      <4>1. waiter_list'["SOFT"] = waiter_list["SOFT"]
        BY <2>1, <3>0, <3>1 DEF DropsWaiter
      <4>2. \A u \in Tracker : wait_point'[u]["SOFT"] = wait_point[u]["SOFT"]
        BY <2>1, <3>0, <3>1, DropSorted
      <4>3. \A k \in DOMAIN waiter_list["SOFT"] : waiter_list["SOFT"][k] \in Tracker
        BY <1>0, <3>0, TimelineTypes
      <4>4. PICK f \in Range(stack) : WalkReaches(f, i)
        BY <4>1, <4>2, <4>3 DEF DependedWalked
      <4>5. f \in Range(stack') /\ f # Head(stack)
        BY <1>1, <2>2, <4>4 DEF WalkReaches, Walking
      <4>6. f.cursor \in Tracker
        <5>1. DOMAIN waiter_list["SOFT"] = 1 .. Len(waiter_list["SOFT"])
              /\ Len(waiter_list["SOFT"]) \in Nat
          BY <1>0, <3>0, TimelineTypes
        <5>2. PICK j \in 1 .. i : waiter_list["SOFT"][j] = f.cursor
          BY <4>4 DEF WalkReaches
        <5>3. j \in DOMAIN waiter_list["SOFT"]
          BY <4>1, <5>1, <5>2
        <5> QED BY <4>3, <5>2, <5>3
      <4>7. WalkReaches(f, i)'
        BY <4>1, <4>2, <4>3, <4>4, <4>5, <4>6 DEF WalkReaches, Walking
      <4> QED BY <4>5, <4>7
    <3>2. CASE tl = "SOFT"
      <4>1. i \in 1 .. Len(s) - 1 /\ waiter_list'["SOFT"][i] = s[i + 1]
        <5>1. /\ waiter_list'[tl] \in Seq(Tracker) /\ Len(waiter_list'[tl]) = Len(s) - 1
              /\ \A j \in 1 .. Len(s) - 1 : waiter_list'[tl][j] = IF j < 1 THEN s[j] ELSE s[j + 1]
          BY <2>1 DEF DropsWaiter, Unlinked
        <5>2. i \in 1 .. Len(s) - 1
          BY <3>2, <5>1, LenProperties
        <5> QED BY <1>3, <3>2, <5>1, <5>2
      <4>2. /\ i + 1 \in 1 .. Len(s) /\ i + 1 # 1 /\ s[i + 1] # s[1]
        <5>1. i + 1 \in 1 .. Len(s) /\ i + 1 # 1
          BY <1>3, <4>1
        <5>2. \A k \in 1 .. Len(s) : s[k] = s[1] => k = 1
          BY <2>1, DropSorted
        <5> QED BY <5>1, <5>2
      <4>3. p = wait_point[s[i + 1]]["SOFT"]
        BY <1>3, <2>1, <3>2, <4>1, <4>2, DropSorted
      <4>4. PICK f \in Range(stack) : WalkReaches(f, i + 1)
        BY <1>3, <3>2, <4>2, <4>3 DEF DependedWalked
      <4>5. f \in Range(stack') /\ f # Head(stack)
        BY <1>1, <2>2, <4>4 DEF WalkReaches, Walking
      <4>6. wait_point[f.cursor]["SOFT"] = f.point /\ f.point = p
        BY <3>2, <4>3, <4>4, <4>5 DEF WalkReaches
      <4>7. f.cursor # s[1]
        BY <1>5, <2>1, <3>2, <4>6
      <4>8. WalkReaches(f, i)'
        <5>0. PICK k \in 1 .. Len(s) : k = i + 1
          BY <4>2
        <5>1. /\ DropsWaiter("SOFT", 1) /\ k \in 1 .. Len(waiter_list["SOFT"]) /\ k # 1
              /\ f.cursor # waiter_list["SOFT"][1]
              /\ wait_point[f.cursor]["SOFT"] = f.point /\ WalkReaches(f, k)
          BY <2>1, <3>2, <4>2, <4>4, <4>6, <4>7, <5>0
        <5>2. WalkReaches(f, IF k < 1 THEN k ELSE k - 1)'
          BY <4>5, <5>1, DropReach
        <5>3. (IF k < 1 THEN k ELSE k - 1) = i
          BY <4>1, <5>0
        <5> QED BY <5>2, <5>3
      <4> QED BY <4>5, <4>8
    <3> QED BY <3>1, <3>2
  <2> QED BY <2>3, <2>5
<1> QED BY <1>4, <1>5

\* The waiters for point p from the cursor c on.
Hits(p, c) ==
  {i \in DOMAIN waiter_list["SOFT"] :
     /\ \E j \in 1 .. i : waiter_list["SOFT"][j] = c
     /\ wait_point[waiter_list["SOFT"][i]]["SOFT"] = p}

\* Unlinking the next waiter for point p of a walk.
LEMMA UnlinkDepended ==
  ASSUME TypeInv, NEW p \in Point, NEW c \in Tracker \cup {NoTracker},
         Hits(p, c) # {}, release_depended(p, c)
  PROVE  \E r \in Hits(p, c), more \in Tracker \cup {NoTracker} :
           /\ \A i \in Hits(p, c) : r <= i
           /\ DropsWaiter("SOFT", r)
           /\ more = IF r = Len(waiter_list["SOFT"]) THEN NoTracker
                     ELSE waiter_list["SOFT"][r + 1]
           /\ release_reference(waiter_list["SOFT"][r], "SOFT", <<Walk(p, more)>> \o Caller)
<1> DEFINE s == waiter_list["SOFT"]
           hits == Hits(p, c)
           r == Min(hits)
           more == IF r = Len(s) THEN NoTracker ELSE s[r + 1]
<1>0. "SOFT" \in TimelineId
  BY DEF TimelineId
<1>1. /\ s \in Seq(Tracker) /\ Len(s) \in Nat /\ DOMAIN s = 1 .. Len(s)
      /\ \A i \in 1 .. Len(s) : s[i] \in Tracker
  BY <1>0, TimelineTypes
<1>2. /\ waiter_list' = [waiter_list EXCEPT !["SOFT"] = RemoveAt(s, r)]
      /\ release_reference(s[r], "SOFT", <<Walk(p, more)>> \o Caller)
      /\ UNCHANGED <<point_next, point_oldest, tracker_list, point>>
  <2>1. /\ IF hits = {}
           THEN TRUE
           ELSE /\ waiter_list' = [waiter_list EXCEPT !["SOFT"] = RemoveAt(@, r)]
                /\ release_reference(s[r], "SOFT", <<Walk(p, more)>> \o Caller)
        /\ UNCHANGED <<trackerVars, point_next, point_oldest, tracker_list>>
    BY Zenon DEF release_depended, Hits
  <2> QED BY <2>1 DEF trackerVars
<1>3. r \in hits /\ \A i \in hits : r <= i
  <2>1. hits \in SUBSET Nat
    BY <1>1 DEF Hits
  <2> HIDE DEF hits
  <2> QED BY <2>1, MinInSet DEF hits
<1>4. r \in 1 .. Len(s)
  BY <1>1, <1>3 DEF Hits
<1> HIDE DEF r
<1>5. more \in Tracker \cup {NoTracker}
  BY <1>1, <1>4
<1> HIDE DEF more
<1>6. /\ waiter_list'["SOFT"] = RemoveAt(s, r)
      /\ \A x \in TimelineId \ {"SOFT"} : waiter_list'[x] = waiter_list[x]
  BY <1>0, <1>2 DEF TypeInv, TypeOK, ListTypes
<1>7. Unlinked(s, r, RemoveAt(s, r))
  BY <1>1, <1>4, RemoveAtElements DEF Unlinked
<1>8. wait_point' = [wait_point EXCEPT ![s[r]] = [@ EXCEPT !["SOFT"] = NoPoint]]
  BY <1>0, <1>2 DEF release_reference
<1>9. DropsWaiter("SOFT", r)
  BY <1>2, <1>6, <1>7, <1>8 DEF DropsWaiter
<1> QED BY <1>2, <1>3, <1>5, <1>9 DEF more

\* release_depended: the walk goes on until nobody waits for its point any more.
LEMMA release_depended_order ==
  ASSUME OrderInv, RefInv', NEW p \in Point, NEW c \in Tracker \cup {NoTracker},
         release_depended(p, c)
  PROVE  OrderInv'
<1> USE DEF OrderInv
<1> DEFINE s == waiter_list["SOFT"]
           top == Head(stack)
<1>0. TypeInv /\ stack \in Seq(Frame) /\ "SOFT" \in TimelineId
  BY DEF RefInv, TypeInv, TypeOK, TimelineId
<1>1. /\ stack # <<>> /\ top.op = "release_depended" /\ top.point = p /\ top.cursor = c
  BY DEF release_depended, OnTop
<1>2. /\ Range(stack) = {top} \cup Range(Caller) /\ Caller \in Seq(Frame)
      /\ top \in Range(stack)
  BY <1>0, <1>1, RangeHeadTail DEF Caller
<1>3. /\ s \in Seq(Tracker) /\ Len(s) \in Nat /\ DOMAIN s = 1 .. Len(s)
      /\ \A u \in Tracker : wait_point[u]["SOFT"] \in AnyPoint
      /\ point_next["SOFT"] \in AnyPoint
      /\ \A i \in 1 .. Len(s) : s[i] \in Tracker
  BY <1>0, TimelineTypes
<1>4. PICK hits : hits = Hits(p, c)
  OBVIOUS
<1>5. \A k \in DOMAIN s : WalkReaches(top, k) => k \in hits
  BY <1>1, <1>4 DEF WalkReaches, Hits
<1>6. CASE hits = {}
  <2>1. stack' = Caller /\ UNCHANGED orderVars
    <3>1. /\ IF hits = {}
             THEN stack' = Caller /\ UNCHANGED <<refVars, waiter_list, waiter_head_null>>
             ELSE TRUE
          /\ UNCHANGED <<trackerVars, point_next, point_oldest, tracker_list>>
      BY <1>4, Zenon DEF release_depended, Hits
    <3> QED BY <1>6, <3>1 DEF orderVars, refVars, listVars, trackerVars
  <2>2. UNCHANGED <<point, point_next, point_oldest, tracker_list, waiter_list, wait_point>>
    BY <2>1 DEF orderVars, listVars
  <2>3. TrackersSorted' /\ WaitersSorted'
    BY <2>2, TrackersSame DEF WaitersSorted, Back
  <2>4. StaleUpdated'
    <3>1. \A x \in TimelineId : UpdateOf(x) # top
      BY <1>1 DEF UpdateOf
    <3> QED BY <1>2, <2>1, <2>2, <3>1 DEF StaleUpdated, OnPoint, Updating, UpdateOf
  <2>5. WalksReleased'
    BY <1>2, <2>1, <2>2 DEF WalksReleased, is_tracker_released
  <2>6. DependedWalked'
    <3> SUFFICES ASSUME NEW i \in DOMAIN waiter_list["SOFT"],
                        OnPoint("SOFT", wait_point[waiter_list["SOFT"][i]]["SOFT"]),
                        is_tracker_released("SOFT", wait_point[waiter_list["SOFT"][i]]["SOFT"])
                 PROVE  \E f \in Range(stack') : WalkReaches(f, i)'
      BY <2>2 DEF DependedWalked, OnPoint, is_tracker_released
    <3>1. PICK f \in Range(stack) : WalkReaches(f, i)
      BY DEF DependedWalked
    <3>2. f # top /\ f \in Range(stack')
      BY <1>2, <1>5, <1>6, <2>1, <3>1
    <3>3. WalkReaches(f, i)'
      BY <2>2, <3>1, <3>2 DEF WalkReaches, Walking
    <3> QED BY <3>2, <3>3
  <2> QED BY <2>3, <2>4, <2>5, <2>6
<1>7. CASE hits # {}
  <2>1. PICK r \in hits, more \in Tracker \cup {NoTracker} :
          /\ \A i \in hits : r <= i
          /\ DropsWaiter("SOFT", r)
          /\ more = IF r = Len(s) THEN NoTracker ELSE s[r + 1]
          /\ release_reference(s[r], "SOFT", <<Walk(p, more)>> \o Caller)
    BY <1>0, <1>4, <1>7, UnlinkDepended, Zenon
  <2>2. /\ r \in 1 .. Len(s) /\ s[r] \in Tracker /\ wait_point[s[r]]["SOFT"] = p
    BY <1>3, <1>4 DEF Hits
  <2>3. PICK w : w = Walk(p, more)
    OBVIOUS
  <2>4. /\ w \in Frame /\ w.op = "release_depended" /\ w.point = p /\ w.cursor = more
    BY <2>3, FrameTypes DEF Walk
  <2>5. /\ w \in Range(stack') /\ Range(Caller) \subseteq Range(stack')
        /\ \A g \in Range(stack') : g = w \/ g \in Range(Caller) \/ g.op = "activate"
    <3> DEFINE q    == <<w>>
               call == Caller
               rest == q \o call
    <3>1. q \in Seq(Frame) /\ Range(q) = {w} /\ call \in Seq(Frame)
      BY <1>2, <2>4, RangeOne
    <3>2. release_reference(s[r], "SOFT", rest)
      BY <2>1, <2>3
    <3> HIDE DEF q, call
    <3>3. rest \in Seq(Frame) /\ Range(rest) = {w} \cup Range(call)
      BY <3>1, RangeConcat
    <3> HIDE DEF rest
    <3>4. /\ Range(rest) \subseteq Range(stack')
          /\ \A g \in Range(stack') : g \in Range(rest) \/ g.op = "activate"
      BY <2>2, <3>2, <3>3, ReferenceStack
    <3> QED BY <3>3, <3>4 DEF call
  <2>6. TrackersSorted' /\ WaitersSorted' /\ StaleUpdated' /\ WalksReleased'
    <3>1. \A g \in Range(stack) : g.op = "update_oldest_point" => g \in Range(stack')
      BY <1>1, <1>2, <2>5
    <3>2. \A g \in Range(stack') :
            g.op = "release_depended" => \E h \in Range(stack) : h.op = g.op /\ h.point = g.point
      BY <1>1, <1>2, <2>4, <2>5
    <3> QED BY <1>0, <2>1, <3>1, <3>2, DropKept
  <2>7. UNCHANGED <<point, point_next, point_oldest, tracker_list>>
    BY <2>1 DEF DropsWaiter
  <2>8. /\ \A u \in Tracker : u # s[r] => wait_point'[u]["SOFT"] = wait_point[u]["SOFT"]
        /\ \A i \in 1 .. Len(s) : s[i] = s[r] => i = r
    BY <1>0, <2>1, DropSorted
  <2>9. /\ waiter_list'["SOFT"] \in Seq(Tracker) /\ Len(waiter_list'["SOFT"]) = Len(s) - 1
        /\ \A j \in 1 .. Len(s) - 1 : waiter_list'["SOFT"][j] = IF j < r THEN s[j] ELSE s[j + 1]
    BY <2>1 DEF DropsWaiter, Unlinked
  <2>10. DependedWalked'
    <3> SUFFICES ASSUME NEW i \in DOMAIN waiter_list'["SOFT"],
                        NEW q, q = wait_point'[waiter_list'["SOFT"][i]]["SOFT"],
                        OnPoint("SOFT", q), is_tracker_released("SOFT", q)
                 PROVE  \E f \in Range(stack') : WalkReaches(f, i)'
      BY <2>7 DEF DependedWalked, OnPoint, is_tracker_released
    <3>1. i \in 1 .. Len(s) - 1
      BY <2>9, LenProperties
    <3>2. PICK k \in 1 .. Len(s) : k = IF i < r THEN i ELSE i + 1
      BY <1>3, <2>2, <3>1
    <3>3. /\ k # r /\ waiter_list'["SOFT"][i] = s[k] /\ s[k] # s[r] /\ s[k] \in Tracker
          /\ i = IF k < r THEN k ELSE k - 1
      BY SMTT(30), <1>3, <2>2, <2>8, <2>9, <3>1, <3>2
    <3>4. q = wait_point[s[k]]["SOFT"]
      BY <2>8, <3>3
    <3>5. PICK f \in Range(stack) : WalkReaches(f, k)
      BY <1>3, <3>2, <3>4 DEF DependedWalked
    <3>6. CASE q = p /\ k > r
      <4>1. r + 1 \in 1 .. Len(s) /\ more = s[r + 1] /\ r + 1 <= k
        BY <1>3, <2>1, <2>2, <3>6
      <4>2. wait_point[s[r + 1]]["SOFT"] = p
        <5> DEFINE b(m) == Back("SOFT", wait_point[s[m]]["SOFT"])
        <5>1. /\ \A m \in 1 .. Len(s) : b(m) \in 1 .. MaxPointSpan + 1
              /\ \A m, n \in 1 .. Len(s) : m < n => b(n) <= b(m)
          BY <1>0, <1>3 DEF WaitersSorted
        <5>2. b(k) = b(r)
          BY <2>2, <3>4, <3>6
        <5> HIDE DEF b
        <5>3. b(r + 1) <= b(r)
          BY <1>3, <2>2, <4>1, <5>1
        <5>4. b(k) <= b(r + 1)
          <6>1. CASE k = r + 1
            BY <4>1, <5>1, <6>1, PointAssumption
          <6>2. CASE k # r + 1
            BY <2>2, <4>1, <5>1, <6>2
          <6> QED BY <6>1, <6>2
        <5>5. b(r + 1) = b(r)
          BY <2>2, <4>1, <5>1, <5>2, <5>3, <5>4, PointAssumption
        <5> QED BY <1>3, <2>2, <4>1, <5>5, BackInjective DEF b, Back
      <4>3. /\ s[r + 1] # s[r] /\ s[r + 1] \in Tracker
            /\ r \in 1 .. i /\ waiter_list'["SOFT"][r] = s[r + 1]
        BY <1>3, <2>2, <2>8, <2>9, <3>1, <3>3, <3>6, <4>1
      <4>4. wait_point'[w.cursor]["SOFT"] = p
        BY <2>4, <2>8, <4>1, <4>2, <4>3
      <4>5. WalkReaches(w, i)'
        BY <2>4, <2>5, <3>6, <4>1, <4>3, <4>4 DEF WalkReaches, Walking
      <4> QED BY <2>5, <4>5
    <3>7. CASE ~(q = p /\ k > r)
      <4>1. f # top
        <5> SUFFICES ASSUME f = top PROVE FALSE
          OBVIOUS
        <5>1. k \in hits /\ q = p
          BY <1>1, <1>3, <1>5, <3>4, <3>5 DEF WalkReaches
        <5>2. r <= k
          BY <2>1, <5>1
        <5> QED BY <2>2, <3>3, <3>7, <5>1, <5>2
      <4>2. f \in Range(stack')
        BY <1>2, <2>5, <4>1
      <4>3. wait_point[f.cursor]["SOFT"] = f.point /\ f.point = q
        BY <3>4, <3>5, <4>1 DEF WalkReaches
      <4>4. f.cursor # s[r]
        <5>1. CASE q # p
          BY <2>2, <4>3, <5>1
        <5>2. CASE k < r
          <6>1. PICK j \in 1 .. k : s[j] = f.cursor
            BY <3>5 DEF WalkReaches
          <6> QED BY <1>3, <2>2, <2>8, <5>2, <6>1
        <5> QED BY <1>3, <2>2, <3>3, <3>7, <5>1, <5>2
      <4>5. WalkReaches(f, IF k < r THEN k ELSE k - 1)'
        BY <2>1, <3>3, <3>5, <4>2, <4>3, <4>4, DropReach
      <4> QED BY <3>3, <4>2, <4>5
    <3> QED BY <3>6, <3>7
  <2> QED BY <2>6, <2>10
<1> QED BY <1>6, <1>7

\* The invariant holds initially: all lists are empty.
LEMMA OrderInit == Init => OrderInv
<1> SUFFICES ASSUME Init PROVE OrderInv
  OBVIOUS
<1>1. RefInv
  BY RefInit
<1>2. /\ \A tl \in TimelineId : /\ tracker_list[tl] = <<>> /\ waiter_list[tl] = <<>>
                                /\ point_next[tl] = StartPoint /\ point_oldest[tl] = StartPoint
      /\ stack = <<>>
  BY DEF Init
<1>3. Range(<<>>) = {} /\ DOMAIN <<>> = {}
  <2>1. DOMAIN <<>> = {}
    OBVIOUS
  <2> QED BY <2>1, RangeOne
<1>4. minus(StartPoint, StartPoint) <= MaxPointSpan + 1
  BY AnyPointTypes, MinusType, TimelineAssumption, PointAssumption
<1>5. TrackersSorted
  BY <1>2, <1>3, <1>4, Zenon DEF TrackersSorted, Back
<1>6. WaitersSorted /\ StaleUpdated
  BY <1>2, <1>3, Zenon DEF WaitersSorted, StaleUpdated
<1>7. WalksReleased /\ DependedWalked
  <2>1. "SOFT" \in TimelineId
    BY DEF TimelineId
  <2> QED BY <1>2, <1>3, <2>1, Zenon DEF WalksReleased, DependedWalked
<1> QED BY <1>1, <1>5, <1>6, <1>7 DEF OrderInv

\* Every step preserves the invariant.
LEMMA OrderNext == OrderInv /\ [Next]_vars => OrderInv'
<1> SUFFICES ASSUME OrderInv, [Next]_vars PROVE OrderInv'
  OBVIOUS
<1>1. RefInv /\ TypeInv
  BY DEF OrderInv, RefInv
<1>2. RefInv'
  BY <1>1, RefNext
<1>3. \/ \E t \in Tracker : add_tracker_any(t) \/ tracker_release(t)
      \/ \E tl \in TimelineId : update_oldest_point(tl)
      \/ \E p \in Point, c \in Tracker \cup {NoTracker} : release_depended(p, c)
      \/ Elsewhere
  BY <1>1, ListSteps
<1>4. ASSUME NEW t \in Tracker, add_tracker_any(t) PROVE OrderInv'
  <2>1. PICK f \in [FenceOn[t] -> AnyPoint], sync \in BOOLEAN :
          \E granted : add_tracker(t, f, granted, sync)
    BY <1>4, Zenon DEF add_tracker_any
  <2> QED BY <1>2, <2>1, add_tracker_order
<1>5. ASSUME NEW t \in Tracker, tracker_release(t) PROVE OrderInv'
  BY <1>2, <1>5, tracker_release_order
<1>6. ASSUME NEW tl \in TimelineId, update_oldest_point(tl) PROVE OrderInv'
  BY <1>2, <1>6, update_oldest_point_order
<1>7. ASSUME NEW p \in Point, NEW c \in Tracker \cup {NoTracker}, release_depended(p, c)
      PROVE  OrderInv'
  BY <1>2, <1>7, release_depended_order
<1>8. CASE Elsewhere
  BY <1>2, <1>8, ElsewhereOrder
<1> QED BY <1>3, <1>4, <1>5, <1>6, <1>7, <1>8

\* Trackers and waiters are in point order, and every waiter that has to be released
\* is within reach of a walk that is under way, in every state of every cascade.
THEOREM OrderInvariant == Spec => []OrderInv
BY OrderInit, OrderNext, PTL DEF Spec

\* Age measures from the other end than Back.
LEMMA AgeBack ==
  ASSUME TypeInv, NEW tl \in TimelineId, NEW p \in AnyPoint
  PROVE  /\ OnPoint(tl, p) <=> Back(tl, p) \in 1 .. Back(tl, point_oldest[tl])
         /\ OnPoint(tl, p) => Age(tl, p) = Back(tl, point_oldest[tl]) - Back(tl, p)
         /\ Back(tl, p) \in Nat /\ Back(tl, point_oldest[tl]) \in Nat
<1>1. point_next[tl] \in AnyPoint /\ point_oldest[tl] \in AnyPoint
  BY TimelineTypes
<1> QED BY <1>1, OnBack, MinusType DEF OnPoint, Back, Age

\* The tracker lists are in point order and start at point_oldest, also when the
\* numbers wrap (insert_tracker, tracker_release).
THEOREM TrackersInOrderCorrect == Spec => []TrackersInOrder
<1>1. OrderInv => TrackersInOrder
  <2> SUFFICES ASSUME OrderInv, NEW tl \in TimelineId
               PROVE  LET list == tracker_list[tl]
                      IN  /\ point_oldest[tl] = IF list = <<>> THEN point_next[tl]
                                                ELSE point[Head(list)]
                          /\ \A i \in DOMAIN list : OnPoint(tl, point[list[i]])
                          /\ \A i, j \in DOMAIN list :
                               i < j => Age(tl, point[list[i]]) < Age(tl, point[list[j]])
    BY DEF TrackersInOrder
  <2> DEFINE s == tracker_list[tl]
  <2>0. TypeInv /\ TrackersSorted
    BY DEF OrderInv, RefInv
  <2>1. /\ Len(s) \in Nat /\ DOMAIN s = 1 .. Len(s)
        /\ \A i \in 1 .. Len(s) : point[s[i]] \in AnyPoint
    BY <2>0, TimelineTypes
  <2>2. \A i \in 1 .. Len(s) : Back(tl, point[s[i]]) \in 1 .. Back(tl, point_oldest[tl])
    BY <2>0, ListedBack
  <2>3. \A i, j \in 1 .. Len(s) : i < j => Back(tl, point[s[j]]) < Back(tl, point[s[i]])
    BY <2>0, <2>1 DEF TrackersSorted
  <2>4. point_oldest[tl] = IF s = <<>> THEN point_next[tl] ELSE point[Head(s)]
    BY <2>0 DEF TrackersSorted
  <2> HIDE DEF s
  <2>5. \A i \in 1 .. Len(s) :
          /\ OnPoint(tl, point[s[i]])
          /\ Age(tl, point[s[i]]) = Back(tl, point_oldest[tl]) - Back(tl, point[s[i]])
          /\ Back(tl, point[s[i]]) \in Nat /\ Back(tl, point_oldest[tl]) \in Nat
    BY <2>0, <2>1, <2>2, AgeBack
  <2>6. \A i, j \in 1 .. Len(s) : i < j => Age(tl, point[s[i]]) < Age(tl, point[s[j]])
    BY <2>3, <2>5
  <2> QED BY <2>1, <2>4, <2>5, <2>6 DEF s
<1> QED BY <1>1, OrderInvariant, PTL

\* Whenever the lock is free, the waiters are in point order and each one waits for a
\* tracker that is still there, or, on the timelines of the GPU, for a point that is
\* still on the timeline: no waiter was passed over (insert_waiter,
\* update_oldest_point, release_with_depended_point).
THEOREM WaitersInOrderCorrect == Spec => []WaitersInOrder
<1>1. OrderInv => WaitersInOrder
  <2> SUFFICES ASSUME OrderInv, LockFree, NEW tl \in TimelineId
               PROVE  LET list == waiter_list[tl]
                      IN  /\ \A i \in DOMAIN list :
                               /\ OnPoint(tl, wait_point[list[i]][tl])
                               /\ tl = "SOFT" => ~is_tracker_released(tl, wait_point[list[i]][tl])
                          /\ \A i, j \in DOMAIN list : i < j =>
                               Age(tl, wait_point[list[i]][tl]) <= Age(tl, wait_point[list[j]][tl])
    BY DEF WaitersInOrder
  <2> DEFINE s == waiter_list[tl]
             w(i) == wait_point[s[i]][tl]
  <2>0. TypeInv /\ WaitersSorted
    BY DEF OrderInv, RefInv
  <2>1. /\ Len(s) \in Nat /\ DOMAIN s = 1 .. Len(s)
        /\ \A i \in 1 .. Len(s) : s[i] \in Tracker /\ s[i] \in Range(s)
        /\ \A i \in 1 .. Len(s) : w(i) \in AnyPoint
    BY <2>0, TimelineTypes
  <2>2. \A i \in 1 .. Len(s) : OnPoint(tl, w(i)) /\ (tl = "SOFT" => ~is_tracker_released(tl, w(i)))
    BY <2>1, FreeOrder
  <2>3. \A i, j \in 1 .. Len(s) : i < j => Back(tl, w(j)) <= Back(tl, w(i))
    BY <2>0, <2>1 DEF WaitersSorted
  <2> HIDE DEF w
  <2>4. \A i \in 1 .. Len(s) : /\ Age(tl, w(i)) = Back(tl, point_oldest[tl]) - Back(tl, w(i))
                               /\ Back(tl, w(i)) \in Nat /\ Back(tl, point_oldest[tl]) \in Nat
    BY <2>0, <2>1, <2>2, AgeBack
  <2>5. \A i, j \in 1 .. Len(s) : i < j => Age(tl, w(i)) <= Age(tl, w(j))
    BY <2>3, <2>4
  <2> QED BY <2>1, <2>2, <2>5 DEF w
<1> QED BY <1>1, OrderInvariant, PTL

------------------------------------------------------------------------------
(* No waiter of a GPU timeline is forgotten                                  *)

GpuTimeline == {"GP", "PP"}

GpuInv == OrderInv /\ GpuWaitersReachable

\* No reference of a waiter on a timeline is taken or given back.
WaitersStay ==
  /\ UNCHANGED <<waiter_list, waiter_head_null>>
  /\ \A t \in Tracker : holders'[t] \cap TimelineId = holders[t] \cap TimelineId

\* Giving back a reference that is not of a timeline.
LEMMA ReferenceStays ==
  ASSUME TypeInv, NEW t \in Tracker, NEW h, h \notin TimelineId, NEW rest,
         release_reference(t, h, rest), UNCHANGED listVars
  PROVE  WaitersStay
<1>1. holders' = [holders EXCEPT ![t] = holders[t] \ {h}] /\ holders \in [Tracker -> SUBSET Holder]
  BY DEF release_reference, TypeInv, TypeOK, RefTypes
<1>2. UNCHANGED <<waiter_list, waiter_head_null>>
  BY DEF listVars
<1> QED BY <1>1, <1>2 DEF WaitersStay

\* The steps in which references of waiters on a timeline change.
LEMMA WaiterSteps ==
  ASSUME RefInv, [Next]_vars
  PROVE  \/ \E t \in Tracker : add_tracker_any(t)
         \/ \E tl \in TimelineId : update_oldest_point(tl)
         \/ \E p \in Point, c \in Tracker \cup {NoTracker} : release_depended(p, c)
         \/ WaitersStay
<1> USE DEF RefInv
<1>1. /\ "gp_job" \notin TimelineId /\ "sync" \notin TimelineId /\ "dma" \notin TimelineId
      /\ "init" \notin TimelineId
      /\ holders \in [Tracker -> SUBSET Holder]
      /\ \A t \in Tracker : pp_tracker[t] # NoTracker => pp_tracker[t] \in Tracker
  BY DEF TimelineId, TypeInv, TypeOK, RefTypes, TrackerTypes
<1>2. ASSUME UNCHANGED <<holders, waiter_list, waiter_head_null>> PROVE WaitersStay
  BY <1>2 DEF WaitersStay
<1>3. ASSUME NEW t \in Tracker, tracker_init(t) PROVE WaitersStay
  <2>1. holders[t] = {} /\ holders' = [holders EXCEPT ![t] = {"init"}]
    BY <1>3 DEF tracker_init, PhaseHolders
  <2>2. UNCHANGED <<waiter_list, waiter_head_null>>
    BY <1>3 DEF tracker_init, listVars
  <2> QED BY <1>1, <2>1, <2>2 DEF WaitersStay
<1>4. ASSUME NEW g \in Tracker, NEW p \in Tracker, gp_job_create(g, p) PROVE WaitersStay
  <2>1. /\ holders[g] = {} /\ g # p
        /\ holders' = [holders EXCEPT ![g] = {"init"}, ![p] = @ \cup {"gp_job"}]
    BY <1>4 DEF gp_job_create, PhaseHolders
  <2>2. UNCHANGED <<waiter_list, waiter_head_null>>
    BY <1>4 DEF gp_job_create, listVars
  <2>3. /\ holders'[g] = {"init"} /\ holders'[p] = holders[p] \cup {"gp_job"}
        /\ \A u \in Tracker \ {g, p} : holders'[u] = holders[u]
    BY <1>1, <2>1
  <2> QED BY <1>1, <2>1, <2>2, <2>3 DEF WaitersStay
<1>5. ASSUME NEW t \in Tracker, NEW success \in BOOLEAN, NEW rest, pp_tracker[t] # NoTracker,
             tracker_put(t, success, rest)
      PROVE  WaitersStay
  <2>1. release_reference(pp_tracker[t], "gp_job", rest) /\ UNCHANGED listVars
    BY <1>5 DEF tracker_put
  <2> QED BY <1>1, <1>5, <2>1, ReferenceStays
<1>6. ASSUME NEW t \in Tracker, put_failed(t) PROVE WaitersStay
  <2>1. CASE pp_tracker[t] = NoTracker
    BY <1>2, <1>6, <2>1 DEF put_failed, refVars, listVars
  <2>2. CASE pp_tracker[t] # NoTracker
    BY <1>5, <1>6, <2>2 DEF put_failed
  <2> QED BY <2>1, <2>2
<1>7. ASSUME NEW t \in Tracker, NEW success \in BOOLEAN, signal_pp_tracker(t, success)
      PROVE  WaitersStay
  BY <1>5, <1>7 DEF signal_pp_tracker
<1>8. ASSUME NEW t \in Tracker, do_sync_fence_callback(t) \/ dma_fence_callback(t)
      PROVE  WaitersStay
  <2>1. UNCHANGED listVars /\ \E h \in {"sync", "dma"} : \E rest : release_reference(t, h, rest)
    <3>1. CASE do_sync_fence_callback(t)
      BY <3>1 DEF do_sync_fence_callback
    <3>2. CASE dma_fence_callback(t)
      BY <3>2 DEF dma_fence_callback
    <3> QED BY <1>8, <3>1, <3>2
  <2> QED BY <1>1, <2>1, ReferenceStays
<1>9. ASSUME NEW t \in Tracker,
             \/ tracker_release(t) \/ activate_gp_job(t) \/ activate_pp_job(t)
             \/ \E done \in BOOLEAN : activate_soft_job(t, done)
             \/ activate_wait(t) \/ soft_job_destroy(t) \/ end_timeout(t)
      PROVE  WaitersStay
  <2>1. CASE tracker_release(t)
    BY <1>2, <2>1 DEF tracker_release, refVars
  <2>2. ASSUME NEW frames, activate(t, frames) PROVE WaitersStay
    BY <1>2, <2>2 DEF activate, refVars, listVars
  <2>3. CASE soft_job_destroy(t)
    BY <1>2, <2>3 DEF soft_job_destroy, refVars, listVars
  <2>4. CASE end_timeout(t)
    BY <1>2, <2>4 DEF end_timeout, refVars, listVars
  <2>5. activate_gp_job(t) => WaitersStay
    BY <2>2 DEF activate_gp_job
  <2>6. activate_pp_job(t) => WaitersStay
    BY <2>2 DEF activate_pp_job
  <2>7. ASSUME NEW done \in BOOLEAN, activate_soft_job(t, done) PROVE WaitersStay
    BY <2>2, <2>7, Zenon DEF activate_soft_job
  <2>8. activate_wait(t) => WaitersStay
    BY <2>2 DEF activate_wait
  <2> QED BY <1>9, <2>1, <2>3, <2>4, <2>5, <2>6, <2>7, <2>8
<1>10. CASE drop_mask \/ unlock \/ update_delayed_work
  <2>1. CASE drop_mask
    BY <1>2, <2>1 DEF drop_mask, refVars, listVars
  <2>2. CASE unlock
    BY <1>2, <2>2 DEF unlock, refVars, listVars
  <2>3. CASE update_delayed_work
    BY <1>2, <2>3 DEF update_delayed_work, refVars, listVars
  <2> QED BY <1>10, <2>1, <2>2, <2>3
<1>11. ASSUME NEW t \in Tracker,
              complete_job(t) \/ soft_release(t) \/ sync_fence_callback(t) \/ time_passes(t)
       PROVE  WaitersStay
  <2>1. CASE complete_job(t) \/ soft_release(t)
    BY <1>2, <2>1 DEF complete_job, soft_release, lock, refVars, listVars
  <2>2. CASE sync_fence_callback(t) \/ time_passes(t)
    BY <1>2, <2>2 DEF sync_fence_callback, time_passes, refVars, listVars
  <2> QED BY <1>11, <2>1, <2>2
<1>12. ASSUME NEW done \in BOOLEAN, timer_callback(done) PROVE WaitersStay
  BY <1>2, <1>12 DEF timer_callback, refVars, listVars
<1>13. CASE timer_expires \/ executor_schedule \/ Close \/ UNCHANGED vars
  <2>1. UNCHANGED <<refVars, listVars>>
    BY <1>13 DEF timer_expires, executor_schedule, Close, abort, stop_timer, cancel_work_sync, vars
  <2> QED BY <1>2, <2>1 DEF refVars, listVars
<1>14. CASE Ioctl
  BY <1>3, <1>4, <1>14 DEF Ioctl
<1>15. CASE Locked
  BY <1>6, <1>9, <1>10, <1>15 DEF Locked
<1>16. CASE Owner
  BY <1>7, <1>8, <1>11, <1>16 DEF Owner, Device
<1>17. CASE Timer
  BY <1>11, <1>12, <1>13, <1>17 DEF Timer
<1> QED BY <1>13, <1>14, <1>15, <1>16, <1>17 DEF Next

\* create_waiters: the new waiters are on the lists, next to all that were there.
LEMMA add_tracker_gpu ==
  ASSUME GpuInv, NEW t \in Tracker, NEW f \in [FenceOn[t] -> AnyPoint],
         NEW granted, NEW sync \in BOOLEAN, add_tracker(t, f, granted, sync)
  PROVE  GpuWaitersReachable'
<1> DEFINE served == waits_on(t, f, granted)
           added  == new_holders(t, f, granted, sync)
<1>0. RefInv /\ TypeInv /\ ListTypes
  BY DEF GpuInv, OrderInv, RefInv, TypeInv, TypeOK
<1>1. /\ holders' = [holders EXCEPT ![t] = (holders[t] \ {"init"}) \cup added]
      /\ waiter_list' = [x \in TimelineId |->
                           IF x \in served THEN insert_waiter(x, t, f[x]) ELSE waiter_list[x]]
      /\ waiter_head_null' = [x \in TimelineId |-> waiter_head_null[x] /\ x \notin served]
      /\ holders[t] \subseteq {"init", "gp_job"}
      /\ holders \in [Tracker -> SUBSET Holder]
  BY <1>0 DEF add_tracker, RefInv, PhaseHolders, TypeInv, TypeOK, RefTypes
<1>2. added \cap TimelineId = served
  BY NewHolders
<1> HIDE DEF served, added
<1>3. /\ holders'[t] = (holders[t] \ {"init"}) \cup added
      /\ \A u \in Tracker \ {t} : holders'[u] = holders[u]
  BY <1>1
<1>4. ASSUME NEW tl \in GpuTimeline
      PROVE  /\ {u \in Tracker : tl \in holders'[u]} = Range(waiter_list'[tl])
             /\ waiter_head_null'[tl] <=> waiter_list'[tl] = <<>>
  <2>0. tl \in TimelineId /\ tl \notin {"init", "gp_job"}
    BY DEF TimelineId, GpuTimeline
  <2>1. /\ {u \in Tracker : tl \in holders[u]} = Range(waiter_list[tl])
        /\ waiter_head_null[tl] <=> waiter_list[tl] = <<>>
        /\ waiter_head_null[tl] \in BOOLEAN
    BY <1>0, <2>0 DEF GpuInv, GpuWaitersReachable, NoWaiterLost, GpuTimeline, ListTypes
  <2>2. tl \notin holders[t] /\ t \notin Range(waiter_list[tl]) /\ Distinct(waiter_list[tl])
    BY <1>0, <1>1, <2>0, <2>1 DEF RefInv, WaitersHold
  <2>3. tl \in holders'[t] <=> tl \in served
    BY <1>2, <1>3, <2>0, <2>2
  <2>4. CASE tl \in served
    <3>1. /\ waiter_list'[tl] = insert_waiter(tl, t, f[tl])
          /\ ~waiter_head_null'[tl]
      BY <1>1, <2>0, <2>4
    <3>2. Range(waiter_list'[tl]) = Range(waiter_list[tl]) \cup {t}
      BY <1>0, <2>0, <2>1, <2>2, <3>1, InsertWaiter
    <3>3. waiter_list'[tl] # <<>>
      BY <3>2, EmptyList
    <3>4. {u \in Tracker : tl \in holders'[u]} = {u \in Tracker : tl \in holders[u]} \cup {t}
      BY <1>3, <2>3, <2>4
    <3> QED BY <2>1, <3>1, <3>2, <3>3, <3>4
  <2>5. CASE tl \notin served
    <3>1. /\ waiter_list'[tl] = waiter_list[tl]
          /\ waiter_head_null'[tl] = waiter_head_null[tl]
      BY <1>1, <2>0, <2>1, <2>5
    <3>2. {u \in Tracker : tl \in holders'[u]} = {u \in Tracker : tl \in holders[u]}
      BY <1>3, <2>2, <2>3, <2>5
    <3> QED BY <2>1, <3>1, <3>2
  <2> QED BY <2>4, <2>5
<1> QED BY <1>4 DEF GpuWaitersReachable, NoWaiterLost, GpuTimeline

\* The oldest waiter leaves its list with its reference.
LEMMA update_oldest_point_gpu ==
  ASSUME GpuInv, NEW tl \in TimelineId, update_oldest_point(tl)
  PROVE  GpuWaitersReachable'
<1> DEFINE s == waiter_list[tl]
           done == s = <<>> \/ OnPoint(tl, wait_point[Head(s)][tl])
<1>0. RefInv /\ TypeInv
  BY DEF GpuInv, OrderInv, RefInv
<1>1. CASE done
  <2>1. UNCHANGED <<refVars, waiter_list, waiter_head_null>>
    BY <1>1 DEF update_oldest_point
  <2> QED BY <2>1 DEF GpuInv, GpuWaitersReachable, NoWaiterLost, refVars
<1>2. CASE ~done
  <2>1. /\ waiter_list' = [waiter_list EXCEPT ![tl] = Tail(s)]
        /\ waiter_head_null' =
             [waiter_head_null EXCEPT ![tl] = waiter_head_null[tl] \/ last_waiter(tl)]
        /\ holders' = [holders EXCEPT ![Head(s)] = holders[Head(s)] \ {tl}]
        /\ s # <<>>
    BY <1>2 DEF update_oldest_point, release_reference
  <2>2. /\ s \in Seq(Tracker) /\ Distinct(s)
        /\ holders \in [Tracker -> SUBSET Holder]
        /\ waiter_list \in [TimelineId -> Seq(Tracker)]
        /\ waiter_head_null \in [TimelineId -> BOOLEAN]
    BY <1>0 DEF TypeInv, TypeOK, ListTypes, RefTypes, RefInv, WaitersHold
  <2>3. /\ Head(s) \in Tracker /\ Head(s) \in Range(s) /\ Tail(s) \in Seq(Tracker)
        /\ Range(Tail(s)) = Range(s) \ {Head(s)}
    BY <2>1, <2>2, TailRange
  <2>4. /\ waiter_list'[tl] = Tail(s)
        /\ waiter_head_null'[tl] = (waiter_head_null[tl] \/ last_waiter(tl))
        /\ \A x \in TimelineId \ {tl} : /\ waiter_list'[x] = waiter_list[x]
                                        /\ waiter_head_null'[x] = waiter_head_null[x]
        /\ holders'[Head(s)] = holders[Head(s)] \ {tl}
        /\ \A u \in Tracker \ {Head(s)} : holders'[u] = holders[u]
    BY <2>1, <2>2, <2>3
  <2>5. last_waiter(tl) <=> Tail(s) = <<>>
    <3>1. last_waiter(tl) <=> Len(s) = 1
      BY DEF last_waiter
    <3> HIDE DEF s
    <3>2. Len(Tail(s)) = Len(s) - 1 /\ Len(s) \in Nat /\ Tail(s) \in Seq(Tracker)
      BY <2>1, <2>2
    <3>3. Len(Tail(s)) = 0 <=> Tail(s) = <<>>
      BY <3>2, EmptySeq
    <3> QED BY <3>1, <3>2, <3>3
  <2> HIDE DEF s
  <2>6. ASSUME NEW x \in GpuTimeline
        PROVE  /\ {u \in Tracker : x \in holders'[u]} = Range(waiter_list'[x])
               /\ waiter_head_null'[x] <=> waiter_list'[x] = <<>>
    <3>1. /\ x \in TimelineId
          /\ {u \in Tracker : x \in holders[u]} = Range(waiter_list[x])
          /\ waiter_head_null[x] <=> waiter_list[x] = <<>>
      BY DEF GpuInv, GpuWaitersReachable, NoWaiterLost, GpuTimeline, TimelineId
    <3>2. CASE x = tl
      <4>1. {u \in Tracker : x \in holders'[u]} = {u \in Tracker : x \in holders[u]} \ {Head(s)}
        BY <2>4, <3>2
      <4> QED BY <2>1, <2>3, <2>4, <2>5, <3>1, <3>2, <4>1 DEF s
    <3>3. CASE x # tl
      <4>1. {u \in Tracker : x \in holders'[u]} = {u \in Tracker : x \in holders[u]}
        BY <2>4, <3>3
      <4> QED BY <2>4, <3>1, <3>3, <4>1
    <3> QED BY <3>2, <3>3
  <2> QED BY <2>6 DEF GpuWaitersReachable, NoWaiterLost, GpuTimeline
<1> QED BY <1>1, <1>2

\* A walk takes waiters of the SOFT timeline only.
LEMMA release_depended_gpu ==
  ASSUME TypeInv, NEW p \in Point, NEW c \in Tracker \cup {NoTracker}, release_depended(p, c)
  PROVE  /\ \A tl \in GpuTimeline : /\ waiter_list'[tl] = waiter_list[tl]
                                    /\ waiter_head_null'[tl] = waiter_head_null[tl]
         /\ \A t \in Tracker, tl \in GpuTimeline : tl \in holders'[t] <=> tl \in holders[t]
<1> DEFINE hits == Hits(p, c)
<1>1. CASE hits = {}
  <2>1. /\ IF hits = {}
           THEN UNCHANGED <<refVars, waiter_list, waiter_head_null>>
           ELSE TRUE
    BY Zenon DEF release_depended, Hits
  <2> QED BY <1>1, <2>1 DEF refVars
<1>2. CASE hits # {}
  <2>1. \E list, i : /\ waiter_list' = [waiter_list EXCEPT !["SOFT"] = list]
                     /\ waiter_head_null' = [waiter_head_null EXCEPT !["SOFT"] = i]
    <3> DEFINE s == waiter_list["SOFT"]
               i == Min(hits)
    <3>1. IF hits = {}
          THEN TRUE
          ELSE /\ waiter_list' = [waiter_list EXCEPT !["SOFT"] = RemoveAt(@, i)]
               /\ waiter_head_null' = [waiter_head_null EXCEPT !["SOFT"] = @ \/ i = Len(s)]
      BY Zenon DEF release_depended, Hits
    <3> HIDE DEF hits, i, s
    <3> QED BY <1>2, <3>1
  <2>2. PICK r \in hits : \E more : release_reference(waiter_list["SOFT"][r], "SOFT", more)
    <3>1. PICK r \in hits, more \in Tracker \cup {NoTracker} :
            release_reference(waiter_list["SOFT"][r], "SOFT", <<Walk(p, more)>> \o Caller)
      BY <1>2, UnlinkDepended, Zenon
    <3> QED BY <3>1
  <2>3. \A t \in Tracker : holders'[t] = holders[t] \/ holders'[t] = holders[t] \ {"SOFT"}
    BY <2>2 DEF release_reference, TypeInv, TypeOK, RefTypes
  <2>4. \A tl \in GpuTimeline : tl # "SOFT" /\ tl \in TimelineId
    BY DEF GpuTimeline, TimelineId
  <2>5. waiter_list \in [TimelineId -> Seq(Tracker)] /\ waiter_head_null \in [TimelineId -> BOOLEAN]
    BY DEF TypeInv, TypeOK, ListTypes
  <2> QED BY <2>1, <2>3, <2>4, <2>5
<1> QED BY <1>1, <1>2

\* Initially nobody waits, and every step preserves the invariant.
LEMMA GpuInit == Init => GpuInv
<1> SUFFICES ASSUME Init PROVE GpuInv
  OBVIOUS
<1>1. GpuWaitersReachable
  <2> SUFFICES ASSUME NEW tl \in GpuTimeline
               PROVE  /\ {t \in Tracker : tl \in holders[t]} = Range(waiter_list[tl])
                      /\ waiter_head_null[tl] <=> waiter_list[tl] = <<>>
    BY DEF GpuWaitersReachable, NoWaiterLost, GpuTimeline
  <2>1. waiter_list[tl] = <<>> /\ waiter_head_null[tl] /\ \A t \in Tracker : holders[t] = {}
    BY DEF Init, GpuTimeline, TimelineId
  <2> QED BY <2>1, RangeOne
<1> QED BY <1>1, OrderInit DEF GpuInv

LEMMA GpuNext == GpuInv /\ [Next]_vars => GpuInv'
<1> SUFFICES ASSUME GpuInv, [Next]_vars PROVE GpuInv'
  OBVIOUS
<1>0. OrderInv' /\ RefInv /\ TypeInv
  BY OrderNext DEF GpuInv, OrderInv, RefInv
<1>1. ASSUME NEW t \in Tracker, add_tracker_any(t) PROVE GpuWaitersReachable'
  <2>1. PICK f \in [FenceOn[t] -> AnyPoint], sync \in BOOLEAN :
          \E granted : add_tracker(t, f, granted, sync)
    BY <1>1, Zenon DEF add_tracker_any
  <2> QED BY <2>1, add_tracker_gpu
<1>2. ASSUME NEW tl \in TimelineId, update_oldest_point(tl) PROVE GpuWaitersReachable'
  BY <1>2, update_oldest_point_gpu
<1>3. ASSUME \A tl \in GpuTimeline : /\ waiter_list'[tl] = waiter_list[tl]
                                     /\ waiter_head_null'[tl] = waiter_head_null[tl],
             \A t \in Tracker, tl \in GpuTimeline : tl \in holders'[t] <=> tl \in holders[t]
      PROVE  GpuWaitersReachable'
  BY <1>3 DEF GpuInv, GpuWaitersReachable, NoWaiterLost, GpuTimeline
<1>4. ASSUME NEW p \in Point, NEW c \in Tracker \cup {NoTracker}, release_depended(p, c)
      PROVE  GpuWaitersReachable'
  BY <1>0, <1>3, <1>4, release_depended_gpu
<1>5. ASSUME WaitersStay PROVE GpuWaitersReachable'
  <2>1. \A tl \in GpuTimeline : tl \in TimelineId
    BY DEF GpuTimeline, TimelineId
  <2>2. \A t \in Tracker, tl \in GpuTimeline : tl \in holders'[t] <=> tl \in holders[t]
    BY <1>5, <2>1 DEF WaitersStay
  <2>3. \A tl \in GpuTimeline : /\ waiter_list'[tl] = waiter_list[tl]
                                /\ waiter_head_null'[tl] = waiter_head_null[tl]
    BY <1>5 DEF WaitersStay
  <2> QED BY <1>3, <2>2, <2>3
<1>6. GpuWaitersReachable'
  <2>1. \/ \E t \in Tracker : add_tracker_any(t)
        \/ \E tl \in TimelineId : update_oldest_point(tl)
        \/ \E p \in Point, c \in Tracker \cup {NoTracker} : release_depended(p, c)
        \/ WaitersStay
    BY <1>0, WaiterSteps
  <2> QED BY <1>1, <1>2, <1>4, <1>5, <2>1
<1> QED BY <1>0, <1>6 DEF GpuInv

\* On the timelines of the GPU every waiter is reached from waiter_tail and from
\* waiter_head, in every state of every cascade: none is forgotten (insert_waiter,
\* update_oldest_point).
THEOREM GpuWaitersCorrect == Spec => []GpuWaitersReachable
<1>1. GpuInv => GpuWaitersReachable
  BY DEF GpuInv
<1> QED BY <1>1, GpuInit, GpuNext, PTL DEF Spec

\* update_oldest_point releases a waiter of a GPU timeline only when every tracker that
\* is left on the timeline has a later point, however the numbers wrap.
THEOREM GpuReleasedInOrderCorrect == Spec => GpuReleasedInOrder
<1> DEFINE A == \A t \in Tracker, tl \in {"GP", "PP"} :
                  tl \in holders[t] /\ tl \notin holders'[t] =>
                    \A u \in Range(tracker_list[tl]) : point_after(point[u], wait_point[t][tl])
<1>1. OrderInv /\ [Next]_vars => A
  <2> SUFFICES ASSUME OrderInv, [Next]_vars, NEW t \in Tracker, NEW tl \in GpuTimeline,
                      tl \in holders[t], tl \notin holders'[t],
                      NEW u \in Range(tracker_list[tl])
               PROVE  point_after(point[u], wait_point[t][tl])
    BY DEF GpuTimeline
  <2>0. RefInv /\ TypeInv /\ TrackersSorted /\ WaitersSorted /\ tl \in TimelineId
    BY DEF OrderInv, RefInv, GpuTimeline, TimelineId
  <2>1. ASSUME NEW v \in Tracker, add_tracker_any(v) PROVE FALSE
    <3>1. PICK f \in [FenceOn[v] -> AnyPoint], sync \in BOOLEAN :
            \E granted : add_tracker(v, f, granted, sync)
      BY <2>1, Zenon DEF add_tracker_any
    <3>2. /\ phase[v] = "init"
          /\ \E h : holders' = [holders EXCEPT ![v] = h]
          /\ holders \in [Tracker -> SUBSET Holder]
      BY <2>0, <3>1 DEF add_tracker, TypeInv, TypeOK, RefTypes
    <3>3. t = v /\ tl \in {"init", "gp_job"}
      BY <2>0, <3>2 DEF RefInv, PhaseHolders
    <3> QED BY <2>0, <3>3 DEF TimelineId
  <2>2. ~ \E p \in Point, c \in Tracker \cup {NoTracker} : release_depended(p, c)
    BY <2>0, release_depended_gpu
  <2>3. ~WaitersStay
    BY <2>0 DEF WaitersStay
  <2>4. PICK x \in TimelineId : update_oldest_point(x)
    BY <2>0, <2>1, <2>2, <2>3, WaiterSteps
  <2> DEFINE s == waiter_list[x]
  <2>5. /\ s # <<>> /\ ~OnPoint(x, wait_point[Head(s)][x])
        /\ holders' = [holders EXCEPT ![Head(s)] = holders[Head(s)] \ {x}]
    <3>1. holders' # holders
      OBVIOUS
    <3> QED BY <2>4, <3>1 DEF update_oldest_point, release_reference, refVars
  <2>6. x = tl /\ Head(s) = t
    BY <2>0, <2>5 DEF TypeInv, TypeOK, RefTypes
  <2>7. /\ s \in Seq(Tracker) /\ Len(s) \in Nat /\ DOMAIN s = 1 .. Len(s)
        /\ \A y \in Tracker : point[y] \in AnyPoint /\ wait_point[y][tl] \in AnyPoint
        /\ point_next[tl] \in AnyPoint /\ point_oldest[tl] \in AnyPoint
    BY <2>0, <2>4, <2>6, TimelineTypes
  <2>8. Head(s) = s[1] /\ 1 \in DOMAIN s
    BY <2>5, <2>7
  <2>9. Back(tl, wait_point[t][tl]) \in 1 .. MaxPointSpan + 1
    BY <2>0, <2>6, <2>8 DEF WaitersSorted
  <2>10. /\ Back(tl, point_oldest[tl]) < Back(tl, wait_point[t][tl])
         /\ Back(tl, point_oldest[tl]) \in Nat
    BY <2>0, <2>5, <2>6, <2>7, <2>9, AgeBack, PointAssumption
  <2>11. Back(tl, point[u]) \in 1 .. Back(tl, point_oldest[tl]) /\ u \in Tracker
    <3>1. PICK i \in 1 .. Len(tracker_list[tl]) : u = tracker_list[tl][i]
      BY <2>0, TimelineTypes DEF Range
    <3> QED BY <2>0, <3>1, ListedBack, TimelineTypes
  <2>12. /\ minus(point_next[tl], point[u]) <= MaxPointSpan + 1
         /\ minus(point_next[tl], wait_point[t][tl]) <= MaxPointSpan + 1
         /\ minus(point_next[tl], point[u]) < minus(point_next[tl], wait_point[t][tl])
    BY <2>9, <2>10, <2>11, PointAssumption DEF Back
  <2> QED BY <2>7, <2>11, <2>12, AfterBack
<1> HIDE DEF A
<1>2. OrderInv /\ [Next]_vars => [A]_vars
  BY <1>1
<1> QED BY <1>2, OrderInvariant, PTL DEF Spec, GpuReleasedInOrder, A

------------------------------------------------------------------------------
(* The calls of tracker_put that are pending                                 *)

\* Frames without a call of tracker_put.
Putless(s) == s \in Seq(Frame) /\ \A f \in Range(s) : f.op # "put"

\* No call of tracker_put is new.
PutsKept == \A f \in Range(stack') : f.op = "put" => f \in Range(stack)

LEMMA PutlessConcat ==
  ASSUME NEW a, NEW b, Putless(a), Putless(b)
  PROVE  Putless(a \o b)
BY RangeConcat DEF Putless

LEMMA PutlessOne ==
  ASSUME NEW f \in Frame, f.op # "put"
  PROVE  Putless(<<f>>)
<1>1. <<f>> \in Seq(Frame)
  OBVIOUS
<1> QED BY <1>1, RangeOne DEF Putless

LEMMA PutlessTwo ==
  ASSUME NEW a \in Frame, NEW b \in Frame, a.op # "put", b.op # "put"
  PROVE  Putless(<<a, b>>)
<1>1. /\ <<a, b>> \in Seq(Frame)
      /\ DOMAIN <<a, b>> = {1, 2} /\ <<a, b>>[1] = a /\ <<a, b>>[2] = b
  OBVIOUS
<1>2. \A f \in Range(<<a, b>>) : f = a \/ f = b
  BY <1>1, Zenon DEF Range
<1> QED BY <1>1, <1>2 DEF Putless

\* The frames that the functions push, without those of tracker_put.
LEMMA PutlessFrames ==
  ASSUME mask \in SUBSET {"GP", "PP"}
  PROVE  /\ Putless(<<>>)
         /\ \A t \in Tracker, op \in {"activate", "release", "destroy", "end_timeout"} :
              Call(op, t) \in Frame /\ Call(op, t).op # "put"
         /\ \A how \in {"mask", "always", "never"} :
              Unlock(how) \in Frame /\ Unlock(how).op # "put"
         /\ \A tl \in TimelineId : UpdateOf(tl) \in Frame /\ UpdateOf(tl).op # "put"
         /\ \A p \in Point, c \in Tracker \cup {NoTracker} :
              Walk(p, c) \in Frame /\ Walk(p, c).op # "put"
         /\ [op |-> "update_delayed_work"] \in Frame /\ [op |-> "update_delayed_work"].op # "put"
         /\ UnlockTimer \in Frame /\ UnlockTimer.op # "put"
         /\ DropMask \in Frame /\ DropMask.op # "put"
<1>1. <<>> \in Seq(Frame)
  OBVIOUS
<1>2. Putless(<<>>)
  BY <1>1, RangeOne DEF Putless
<1> QED BY <1>2, FrameTypes DEF Call, Unlock, UpdateOf, Walk, UnlockTimer, DropMask

\* A function returns after some calls, or the lock is taken for some.
LEMMA PushPuts ==
  ASSUME NEW q, NEW rest, Putless(q), rest \in Seq(Frame), Range(rest) \subseteq Range(stack),
         stack' = q \o rest
  PROVE  PutsKept
BY RangeConcat DEF Putless, PutsKept

LEMMA LockPuts ==
  ASSUME NEW q, Putless(q), stack' = q
  PROVE  PutsKept
BY DEF Putless, PutsKept

\* Giving a reference back.
LEMMA ReferencePuts ==
  ASSUME NEW t \in Tracker, NEW h, NEW rest \in Seq(Frame),
         \A f \in Range(rest) : f.op = "put" => f \in Range(stack),
         release_reference(t, h, rest)
  PROVE  PutsKept
<1>1. \A g \in Range(stack') : g \in Range(rest) \/ g.op = "activate"
  BY ReferenceStack
<1> QED BY <1>1 DEF PutsKept

\* What remains of the stack when the function on top returns.
LEMMA CallerRange ==
  ASSUME TypeInv, stack # <<>>
  PROVE  Caller \in Seq(Frame) /\ Range(Caller) \subseteq Range(stack)
         /\ Range(stack) = {Head(stack)} \cup Range(Caller) /\ <<>> \o Caller = Caller
<1>1. stack \in Seq(Frame)
  BY DEF TypeInv, TypeOK
<1>2. Caller \in Seq(Frame) /\ Range(stack) = {Head(stack)} \cup Range(Caller)
  BY <1>1, RangeHeadTail DEF Caller
<1> HIDE DEF Caller
<1> QED BY <1>2

\* Only the abortion of a GP job calls tracker_put from inside the timeline.
LEMMA activate_puts ==
  ASSUME TypeInv, NEW t \in Tracker, NEW done \in BOOLEAN,
         \/ activate_gp_job(t) /\ ~is_aborting
         \/ activate_pp_job(t) \/ activate_soft_job(t, done) \/ activate_wait(t)
  PROVE  PutsKept
<1>1. mask \in SUBSET {"GP", "PP"}
  BY DEF TypeInv, TypeOK, SchedTypes
<1>2. /\ Call("release", t) \in Frame /\ Call("release", t).op # "put"
      /\ Call("destroy", t) \in Frame /\ Call("destroy", t).op # "put"
      /\ DropMask \in Frame /\ DropMask.op # "put" /\ Putless(<<>>)
      /\ [op |-> "update_delayed_work"] \in Frame /\ [op |-> "update_delayed_work"].op # "put"
  BY <1>1, PutlessFrames
<1>3. /\ Putless(<<Call("release", t), DropMask>>)
      /\ Putless(<<Call("release", t), Call("destroy", t)>>)
      /\ Putless(<<DropMask>>) /\ Putless(<<Call("release", t)>>)
      /\ Putless(<<[op |-> "update_delayed_work"]>>)
  <2> HIDE DEF DropMask
  <2> QED BY <1>2, PutlessOne, PutlessTwo
<1>4. PICK q : Putless(q) /\ activate(t, q)
  <2>1. CASE activate_gp_job(t) /\ ~is_aborting
    BY <1>2, <2>1 DEF activate_gp_job
  <2>2. CASE activate_pp_job(t)
    BY <1>2, <1>3, <2>2 DEF activate_pp_job
  <2>3. CASE activate_soft_job(t, done)
    <3> DEFINE a == IF done THEN <<Call("release", t), Call("destroy", t)>> ELSE <<>>
               b == IF is_aborting THEN <<DropMask>> ELSE <<>>
               c == <<[op |-> "update_delayed_work"]>>
    <3>1. Putless(a) /\ Putless(b) /\ Putless(c) /\ activate(t, a \o b \o c)
      BY <1>2, <1>3, <2>3, Zenon DEF activate_soft_job
    <3> HIDE DEF a, b, c
    <3>2. Putless((a \o b) \o c)
      BY <3>1, PutlessConcat
    <3> QED BY <3>1, <3>2
  <2>4. CASE activate_wait(t)
    BY <1>3, <2>4 DEF activate_wait
  <2> QED BY <2>1, <2>2, <2>3, <2>4
<1>5. stack # <<>> /\ stack' = q \o Caller
  BY <1>4 DEF activate, Running, OnTop
<1> QED BY <1>4, <1>5, CallerRange, PushPuts

\* tracker_release and the walks over waiters.
LEMMA release_puts ==
  ASSUME TypeInv, NEW t \in Tracker, tracker_release(t)
  PROVE  PutsKept
<1> DEFINE tl    == Home[Kind[t]]
           loop  == IF Head(tracker_list[tl]) = t THEN <<UpdateOf(tl)>>
                    ELSE IF tl = "SOFT" THEN <<Walk(point[t], First(waiter_list[tl]))>> ELSE <<>>
           timer == IF tl = "SOFT" THEN <<[op |-> "update_delayed_work"]>> ELSE <<>>
<1>0. /\ mask \in SUBSET {"GP", "PP"} /\ stack # <<>>
      /\ Caller \in Seq(Frame) /\ Range(Caller) \subseteq Range(stack) /\ <<>> \o Caller = Caller
  BY CallerRange DEF TypeInv, TypeOK, SchedTypes, tracker_release, Running, OnTop
<1>1. CASE point[t] = NoPoint
  <2>1. stack' = <<>> \o Caller
    BY <1>0, <1>1 DEF tracker_release
  <2> QED BY <1>0, <2>1, PutlessFrames, PushPuts
<1>2. CASE point[t] # NoPoint
  <2>1. stack' = loop \o timer \o Caller
    BY <1>2, Zenon DEF tracker_release, UpdateOf
  <2>2. /\ tl \in TimelineId /\ point[t] \in Point
        /\ First(waiter_list[tl]) \in Tracker \cup {NoTracker}
    <3>1. tl \in TimelineId
      BY <1>2 DEF TypeInv, TrackersListed
    <3> QED BY <1>2, <3>1, AnyPointTypes, FirstType, TimelineTypes
  <2>3. Putless(loop)
    <3>1. /\ UpdateOf(tl) \in Frame /\ UpdateOf(tl).op # "put"
          /\ Walk(point[t], First(waiter_list[tl])) \in Frame
          /\ Walk(point[t], First(waiter_list[tl])).op # "put" /\ Putless(<<>>)
      BY <1>0, <2>2, PutlessFrames
    <3> QED BY <3>1, PutlessOne
  <2>4. Putless(timer)
    BY <1>0, PutlessFrames, PutlessOne
  <2> HIDE DEF loop, timer
  <2>5. Putless(loop \o timer)
    BY <2>3, <2>4, PutlessConcat
  <2> DEFINE lt == loop \o timer
             callers == Caller
  <2>6. Putless(lt) /\ callers \in Seq(Frame) /\ Range(callers) \subseteq Range(stack)
        /\ stack' = lt \o callers
    BY <1>0, <2>1, <2>5
  <2> HIDE DEF lt, callers
  <2> QED BY <2>6, PushPuts
<1> QED BY <1>1, <1>2

LEMMA walk_puts ==
  ASSUME TypeInv,
         \/ \E tl \in TimelineId : update_oldest_point(tl)
         \/ \E p \in Point, c \in Tracker \cup {NoTracker} : release_depended(p, c)
  PROVE  PutsKept
<1>0. /\ mask \in SUBSET {"GP", "PP"} /\ stack # <<>> /\ stack \in Seq(Frame)
      /\ Caller \in Seq(Frame) /\ Range(Caller) \subseteq Range(stack)
  BY CallerRange DEF TypeInv, TypeOK, SchedTypes, update_oldest_point, release_depended, OnTop
<1>1. ASSUME stack' = Caller PROVE PutsKept
  BY <1>0, <1>1 DEF PutsKept
<1>2. ASSUME NEW tl \in TimelineId, update_oldest_point(tl) PROVE PutsKept
  <2>1. CASE waiter_list[tl] = <<>> \/ OnPoint(tl, wait_point[Head(waiter_list[tl])][tl])
    BY <1>1, <1>2, <2>1 DEF update_oldest_point
  <2>2. CASE ~(waiter_list[tl] = <<>> \/ OnPoint(tl, wait_point[Head(waiter_list[tl])][tl]))
    <3>1. waiter_list[tl][1] \in Tracker /\ release_reference(waiter_list[tl][1], tl, stack)
      BY <1>2, <2>2, UnlinkOldest
    <3> QED BY <1>0, <3>1, ReferencePuts
  <2> QED BY <2>1, <2>2
<1>3. ASSUME NEW p \in Point, NEW c \in Tracker \cup {NoTracker}, release_depended(p, c)
      PROVE  PutsKept
  <2>1. CASE Hits(p, c) = {}
    <3>1. IF Hits(p, c) = {} THEN stack' = Caller ELSE TRUE
      BY <1>3, Zenon DEF release_depended, Hits
    <3> QED BY <1>1, <2>1, <3>1
  <2>2. CASE Hits(p, c) # {}
    <3>1. PICK r \in Hits(p, c), more \in Tracker \cup {NoTracker} :
            release_reference(waiter_list["SOFT"][r], "SOFT", <<Walk(p, more)>> \o Caller)
      BY <1>3, <2>2, UnlinkDepended, Zenon
    <3>2. waiter_list["SOFT"][r] \in Tracker
      <4>1. "SOFT" \in TimelineId
        BY DEF TimelineId
      <4> QED BY <4>1, TimelineTypes DEF Hits
    <3>3. Walk(p, more) \in Frame /\ Walk(p, more).op # "put"
      BY <1>0, PutlessFrames
    <3> DEFINE q == <<Walk(p, more)>>
               callers == Caller
               rest == q \o callers
    <3>4. Putless(q) /\ callers \in Seq(Frame) /\ Range(callers) \subseteq Range(stack)
          /\ release_reference(waiter_list["SOFT"][r], "SOFT", rest)
      BY <1>0, <3>1, <3>3, PutlessOne
    <3> HIDE DEF q, callers
    <3>5. rest \in Seq(Frame) /\ \A f \in Range(rest) : f.op = "put" => f \in Range(stack)
      BY <3>4, RangeConcat DEF Putless
    <3> HIDE DEF rest
    <3> QED BY <3>2, <3>4, <3>5, ReferencePuts
  <2> QED BY <2>1, <2>2
<1> QED BY <1>2, <1>3

\* References given back by GP jobs and fences.
LEMMA reference_puts ==
  ASSUME TypeInv, NEW t \in Tracker, NEW success \in BOOLEAN,
         \/ put_failed(t) \/ signal_pp_tracker(t, success)
         \/ do_sync_fence_callback(t) \/ dma_fence_callback(t)
  PROVE  PutsKept
<1>0. /\ mask \in SUBSET {"GP", "PP"}
      /\ pp_tracker[t] # NoTracker => pp_tracker[t] \in Tracker
      /\ stack # <<>> => /\ Caller \in Seq(Frame) /\ Range(Caller) \subseteq Range(stack)
  BY CallerRange DEF TypeInv, TypeOK, SchedTypes, TrackerTypes
<1>1. ASSUME NEW how \in {"mask", "always", "never"}
      PROVE  /\ <<Unlock(how)>> \in Seq(Frame)
             /\ \A f \in Range(<<Unlock(how)>>) : f.op = "put" => f \in Range(stack)
  BY <1>0, PutlessFrames, PutlessOne DEF Putless
<1>2. CASE put_failed(t)
  <2>1. stack # <<>> /\ (stack' = Caller \/ pp_tracker[t] # NoTracker)
    BY <1>2 DEF put_failed, Running, OnTop
  <2>2. CASE stack' = Caller
    BY <1>0, <2>1, <2>2 DEF PutsKept
  <2>3. CASE pp_tracker[t] # NoTracker
    <3>1. release_reference(pp_tracker[t], "gp_job", Caller)
      BY <1>2, <2>3 DEF put_failed, tracker_put
    <3> QED BY <1>0, <2>1, <2>3, <3>1, ReferencePuts
  <2> QED BY <2>1, <2>2, <2>3
<1>3. CASE signal_pp_tracker(t, success)
  <2>1. pp_tracker[t] # NoTracker
        /\ release_reference(pp_tracker[t], "gp_job", <<Unlock("always")>>)
    BY <1>3 DEF signal_pp_tracker, tracker_put
  <2> QED BY <1>0, <1>1, <2>1, ReferencePuts
<1>4. CASE do_sync_fence_callback(t)
  <2>1. \E how \in {"mask", "never"} : release_reference(t, "sync", <<Unlock(how)>>)
    BY <1>4 DEF do_sync_fence_callback
  <2> QED BY <1>1, <2>1, ReferencePuts
<1>5. CASE dma_fence_callback(t)
  <2>1. \E how \in {"mask", "never"} : release_reference(t, "dma", <<Unlock(how)>>)
    BY <1>5 DEF dma_fence_callback
  <2> QED BY <1>1, <2>1, ReferencePuts
<1> QED BY <1>2, <1>3, <1>4, <1>5

\* The lock is taken.
LEMMA lock_puts ==
  ASSUME TypeInv, NEW done \in BOOLEAN,
         \/ timer_callback(done)
         \/ \E t \in Tracker : complete_job(t) \/ soft_release(t) \/ add_tracker_any(t)
  PROVE  PutsKept
<1>0. mask \in SUBSET {"GP", "PP"} /\ timer_active \subseteq Tracker
  BY DEF TypeInv, TypeOK, SchedTypes, TimerTypes
<1>1. \A t \in Tracker, how \in {"mask", "always", "never"}, op \in {"activate", "release"} :
        Putless(<<Call(op, t), Unlock(how)>>) /\ Putless(<<Unlock(how)>>)
  BY <1>0, PutlessFrames, PutlessOne, PutlessTwo
<1>2. ASSUME NEW t \in Tracker, complete_job(t) \/ soft_release(t) PROVE PutsKept
  <2>1. PICK how \in {"mask", "always", "never"} : stack' = <<Call("release", t), Unlock(how)>>
    BY <1>2 DEF complete_job, soft_release, lock
  <2> QED BY <1>1, <2>1, LockPuts
<1>3. ASSUME NEW t \in Tracker, add_tracker_any(t) PROVE PutsKept
  <2>1. PICK f, granted, sync : add_tracker(t, f, granted, sync)
    BY <1>3, Zenon DEF add_tracker_any
  <2>2. stack' = <<Call("activate", t), Unlock("mask")>> \/ stack' = <<Unlock("mask")>>
    BY <2>1 DEF add_tracker
  <2> QED BY <1>1, <2>2, LockPuts
<1>4. CASE timer_callback(done)
  <2> DEFINE tail  == First(tracker_list["SOFT"])
             fires == timer_enabled /\ tail \in timer_active /\ tail \in due
             end   == <<Call("end_timeout", tail), UnlockTimer>>
             end2  == <<Call("release", tail), Call("destroy", tail)>>
  <2>1. /\ done => fires
        /\ stack' = IF ~fires THEN <<>> ELSE IF done THEN end2 \o end ELSE end
    BY <1>4 DEF timer_callback
  <2>2. fires => tail \in Tracker
    BY <1>0
  <2> HIDE DEF tail
  <2>3. fires => Putless(end) /\ Putless(end2)
    <3>1. UnlockTimer \in Frame /\ UnlockTimer.op # "put"
      BY <1>0, PutlessFrames
    <3> HIDE DEF UnlockTimer
    <3>2. fires => /\ Call("end_timeout", tail) \in Frame /\ Call("end_timeout", tail).op # "put"
                   /\ Call("release", tail) \in Frame /\ Call("release", tail).op # "put"
                   /\ Call("destroy", tail) \in Frame /\ Call("destroy", tail).op # "put"
      BY <1>0, <2>2, PutlessFrames
    <3> QED BY <3>1, <3>2, PutlessTwo
  <2> HIDE DEF fires, end, end2
  <2>4. Putless(stack')
    BY <1>0, <2>1, <2>3, PutlessFrames, PutlessConcat
  <2> QED BY <2>4, LockPuts
<1> QED BY <1>2, <1>3, <1>4

\* All steps but the abortion of a GP job.
LEMMA PutSteps ==
  ASSUME TypeInv, [Next]_vars
  PROVE  PutsKept \/ \E t \in Tracker : activate_gp_job(t) /\ is_aborting
<1>1. ASSUME stack' = stack PROVE PutsKept
  BY <1>1 DEF PutsKept
<1>2. ASSUME stack # <<>>, stack' = Caller PROVE PutsKept
  BY <1>2, CallerRange DEF PutsKept
<1>3. CASE Ioctl
  <2>1. ASSUME NEW t \in Tracker, add_tracker_any(t) PROVE PutsKept
    BY <2>1, lock_puts
  <2>2. ASSUME NEW t \in Tracker, tracker_init(t) \/ \E p \in Tracker : gp_job_create(t, p)
        PROVE  PutsKept
    <3>1. stack' = stack
      BY <2>2 DEF tracker_init, gp_job_create
    <3> QED BY <1>1, <3>1
  <2> QED BY <1>3, <2>1, <2>2 DEF Ioctl
<1>4. ASSUME \/ drop_mask \/ unlock \/ update_delayed_work
             \/ \E t \in Tracker : soft_job_destroy(t) \/ end_timeout(t)
      PROVE  PutsKept
  <2>1. stack # <<>> /\ stack' = Caller
    BY <1>4 DEF drop_mask, unlock, update_delayed_work, soft_job_destroy, end_timeout, Running, OnTop
  <2> QED BY <1>2, <2>1
<1>5. ASSUME Locked, ~ \E t \in Tracker : activate_gp_job(t) /\ is_aborting PROVE PutsKept
  <2>1. \/ \E tl \in TimelineId : update_oldest_point(tl)
        \/ \E p \in Point, c \in Tracker \cup {NoTracker} : release_depended(p, c)
        \/ drop_mask \/ unlock \/ update_delayed_work
        \/ \E t \in Tracker : \/ tracker_release(t)
                              \/ activate_gp_job(t) /\ ~is_aborting
                              \/ activate_pp_job(t)
                              \/ \E done \in BOOLEAN : activate_soft_job(t, done)
                              \/ activate_wait(t)
                              \/ put_failed(t)
                              \/ soft_job_destroy(t)
                              \/ end_timeout(t)
    BY <1>5 DEF Locked
  <2> QED BY <1>4, <2>1, activate_puts, release_puts, walk_puts, reference_puts
<1>6. CASE Owner
  <2>1. ASSUME NEW t \in Tracker, sync_fence_callback(t) PROVE PutsKept
    BY <1>1, <2>1 DEF sync_fence_callback
  <2> QED BY <1>6, <2>1, reference_puts, lock_puts DEF Owner, Device
<1>7. CASE Timer
  <2>1. ASSUME timer_expires \/ \E t \in Tracker : time_passes(t) PROVE PutsKept
    <3>1. stack' = stack
      BY <2>1 DEF timer_expires, time_passes
    <3> QED BY <1>1, <3>1
  <2> QED BY <1>7, <2>1, lock_puts DEF Timer
<1>8. CASE executor_schedule \/ Close \/ UNCHANGED vars
  <2>1. stack' = stack
    BY <1>8 DEF executor_schedule, Close, abort, stop_timer, cancel_work_sync, vars
  <2> QED BY <1>1, <2>1
<1> QED BY <1>3, <1>5, <1>6, <1>7, <1>8 DEF Next


------------------------------------------------------------------------------
(* The timeline system implements MaliFenceSpec, as long as waiters can be   *)
(* allocated.  What a tracker depends on is not forgotten: it holds either   *)
(* the reference of a GP job or a waiter for the very point of the tracker   *)
(* it depends on, and no function on the stack takes that away too early.    *)

\* A tracker depends only on trackers that were added and not released yet.
DepsAlive ==
  \A t \in Tracker : \A u \in deps[t] : phase[u] \in {"waiting", "active"}

\* t has a waiter on the timeline of u, for the point of u.
HeldFor(t, u) ==
  LET tl == Home[Kind[u]]
  IN  /\ point[u] # NoPoint
      /\ tl \in holders[t] /\ wait_point[t][tl] = point[u]

\* What t depends on has a reference of t.
DepsHeld ==
  \A t \in Tracker : \A u \in deps[t] : pp_tracker[u] = t \/ HeldFor(t, u)

\* A GP job whose call of tracker_put is pending is released before it is made.
PutsDone ==
  \A g \in Tracker :
    Call("put", g) \in Range(stack) =>
      pp_tracker[g] = NoTracker \/ phase[g] = "free" \/ Running("release", g)

FenceInv == OrderInv /\ DepsAlive /\ DepsHeld /\ PutsDone

\* One step of MaliFenceSpec, or none.
FenceStep == [ImplementsFences!FenceNext]_(ImplementsFences!fenceVars)

\* The pending calls of tracker_put stay in order when none is added and no
\* tracker_release returns.
LEMMA PutsQuiet ==
  ASSUME PutsDone, PutsKept,
         \A g \in Tracker : phase[g] = "free" => phase'[g] = "free" \/ pp_tracker'[g] = NoTracker,
         \A g \in Tracker : pp_tracker'[g] \in {pp_tracker[g], NoTracker},
         stack' = stack \/ stack = <<>> \/ Head(stack).op # "release"
  PROVE  PutsDone'
<1>1. SUFFICES ASSUME NEW g \in Tracker, Call("put", g) \in Range(stack')
               PROVE  pp_tracker'[g] = NoTracker \/ phase'[g] = "free" \/ Running("release", g)'
  BY Zenon DEF PutsDone, Call
<1>2. Call("put", g) \in Range(stack)
  BY <1>1 DEF PutsKept, Call
<1>3. pp_tracker[g] = NoTracker \/ phase[g] = "free" \/ Running("release", g)
  BY <1>2 DEF PutsDone
<1>4. CASE pp_tracker[g] = NoTracker \/ phase[g] = "free"
  BY <1>4
<1>5. CASE Running("release", g)
  BY <1>5 DEF Running, OnTop
<1> QED BY <1>3, <1>4, <1>5

\* tracker_init: Create.
LEMMA tracker_init_fence ==
  ASSUME FenceInv, NEW t \in Tracker, tracker_init(t)
  PROVE  FenceStep /\ DepsAlive' /\ DepsHeld' /\ PutsDone'
<1>1. TypeInv /\ RefInv
  BY DEF FenceInv, OrderInv, RefInv
<1>2. /\ phase[t] = "free" /\ pp_tracker[t] = NoTracker
      /\ phase' = [phase EXCEPT ![t] = "init"]
      /\ phase \in [Tracker -> {"free", "init", "waiting", "active"}]
      /\ holders \in [Tracker -> SUBSET Holder]
      /\ holders' = [holders EXCEPT ![t] = {"init"}]
      /\ UNCHANGED <<point, pp_tracker, deps, wait_point, stack>>
  BY <1>1 DEF tracker_init, TypeInv, TypeOK, TrackerTypes, RefTypes
<1>3. FenceStep
  BY <1>2 DEF FenceStep, ImplementsFences!FenceNext, ImplementsFences!Create
<1>4. DepsAlive'
  BY <1>2 DEF DepsAlive, FenceInv
<1>5. holders[t] = {}
  BY <1>1, <1>2 DEF RefInv, PhaseHolders
<1>6. DepsHeld'
  BY <1>2, <1>5 DEF DepsHeld, HeldFor, FenceInv
<1>7. PutsDone'
  BY <1>2, SMT DEF PutsDone, FenceInv, Running, OnTop
<1> QED BY <1>3, <1>4, <1>6, <1>7

\* mali_gp_job_create: Create; no thread holds the lock.
LEMMA gp_job_create_fence ==
  ASSUME FenceInv, NEW g \in Tracker, NEW p \in Tracker, gp_job_create(g, p)
  PROVE  FenceStep /\ DepsAlive' /\ DepsHeld' /\ PutsDone'
<1>1. TypeInv /\ RefInv
  BY DEF FenceInv, OrderInv, RefInv
<1>2. /\ phase[g] = "free" /\ pp_tracker[g] = NoTracker /\ g # p
      /\ phase' = [phase EXCEPT ![g] = "init"]
      /\ phase \in [Tracker -> {"free", "init", "waiting", "active"}]
      /\ holders \in [Tracker -> SUBSET Holder]
      /\ holders' = [holders EXCEPT ![g] = {"init"}, ![p] = @ \cup {"gp_job"}]
      /\ pp_tracker \in [Tracker -> Tracker \cup {NoTracker}]
      /\ pp_tracker' = [pp_tracker EXCEPT ![g] = p]
      /\ UNCHANGED <<point, deps, wait_point, stack>> /\ stack = <<>>
  BY <1>1 DEF gp_job_create, TypeInv, TypeOK, TrackerTypes, RefTypes, LockFree
<1>3. FenceStep
  BY <1>2 DEF FenceStep, ImplementsFences!FenceNext, ImplementsFences!Create
<1>4. DepsAlive' /\ \A t \in Tracker : g \notin deps[t]
  BY <1>2 DEF DepsAlive, FenceInv
<1>5. holders[g] = {}
  BY <1>1, <1>2 DEF RefInv, PhaseHolders
<1>6. ASSUME NEW t \in Tracker, NEW u \in Tracker, HeldFor(t, u) PROVE HeldFor(t, u)'
  <2>1. t # g
    BY <1>5, <1>6 DEF HeldFor
  <2>2. holders[t] \subseteq holders'[t]
    BY <1>2, <2>1
  <2> QED BY <1>2, <1>6, <2>2 DEF HeldFor
<1>7. DepsHeld'
  <2>1. \A t \in Tracker : deps[t] \subseteq Tracker
    BY <1>1 DEF TypeInv, TypeOK, TrackerTypes
  <2> QED BY <1>2, <1>4, <1>6, <2>1 DEF DepsHeld, FenceInv
<1>8. PutsDone'
  BY <1>2, RangeOne DEF PutsDone
<1> QED BY <1>3, <1>4, <1>7, <1>8

\* tracker_release: Release; the tracker is forgotten by all that depended on it.
LEMMA tracker_release_fence ==
  ASSUME FenceInv, NEW t \in Tracker, tracker_release(t)
  PROVE  FenceStep /\ DepsAlive' /\ DepsHeld' /\ PutsDone'
<1>1. TypeInv /\ RefInv
  BY DEF FenceInv, OrderInv, RefInv
<1>2. /\ Running("release", t)
      /\ phase' = [phase EXCEPT ![t] = "free"]
      /\ deps' = [u \in Tracker |-> deps[u] \ {t}]
      /\ point' = [point EXCEPT ![t] = NoPoint]
      /\ UNCHANGED <<pp_tracker, holders, wait_point>>
      /\ phase \in [Tracker -> {"free", "init", "waiting", "active"}]
      /\ deps \in [Tracker -> SUBSET Tracker]
      /\ point \in [Tracker -> AnyPoint]
  BY <1>1, Zenon DEF tracker_release, TypeInv, TypeOK, TrackerTypes, refVars
<1>3. phase[t] = "active"
  BY <1>1, <1>2 DEF RefInv, CallsOK
<1>4. FenceStep
  BY <1>2, <1>3 DEF FenceStep, ImplementsFences!FenceNext, ImplementsFences!Release
<1>5. DepsAlive'
  BY <1>2 DEF DepsAlive, FenceInv
<1>6. DepsHeld'
  <2>1. SUFFICES ASSUME NEW a \in Tracker, NEW u \in deps'[a]
                 PROVE  pp_tracker'[u] = a \/ HeldFor(a, u)'
    BY Zenon DEF DepsHeld, HeldFor
  <2>2. u \in deps[a] /\ u # t /\ u \in Tracker
    BY <1>2, <2>1
  <2>3. pp_tracker[u] = a \/ HeldFor(a, u)
    BY <2>2 DEF DepsHeld, FenceInv
  <2> QED BY <1>2, <2>2, <2>3 DEF HeldFor
<1>7. PutsDone'
  <2>1. SUFFICES ASSUME NEW g \in Tracker, Call("put", g) \in Range(stack')
                 PROVE  pp_tracker'[g] = NoTracker \/ phase'[g] = "free"
    BY Zenon DEF PutsDone, Call
  <2>2. Call("put", g) \in Range(stack)
    BY <1>1, <2>1, release_puts DEF PutsKept, Call
  <2>3. pp_tracker[g] = NoTracker \/ phase[g] = "free" \/ Running("release", g)
    BY <2>2 DEF PutsDone, FenceInv
  <2>4. Running("release", g) => g = t
    BY <1>2 DEF Running
  <2> QED BY <1>2, <2>3, <2>4
<1> QED BY <1>4, <1>5, <1>6, <1>7

\* tracker_activate: Activate; a tracker without references depends on nothing.
LEMMA activate_fence ==
  ASSUME FenceInv, NEW t \in Tracker, NEW frames, activate(t, frames)
  PROVE  /\ FenceStep /\ DepsAlive' /\ DepsHeld'
         /\ phase[t] = "waiting" /\ Head(stack).op = "activate" /\ stack # <<>>
         /\ phase' = [phase EXCEPT ![t] = "active"] /\ pp_tracker' = pp_tracker
<1>1. TypeInv /\ RefInv
  BY DEF FenceInv, OrderInv, RefInv
<1>2. /\ Running("activate", t)
      /\ phase' = [phase EXCEPT ![t] = "active"]
      /\ UNCHANGED <<pp_tracker, holders, wait_point, point, deps>>
      /\ phase \in [Tracker -> {"free", "init", "waiting", "active"}]
      /\ deps \in [Tracker -> SUBSET Tracker]
  BY <1>1, SMT DEF activate, TypeInv, TypeOK, TrackerTypes, refVars
<1>3. phase[t] = "waiting" /\ holders[t] = {}
  BY <1>1, <1>2 DEF RefInv, CallsOK
<1>4. deps[t] = {}
  <2>1. SUFFICES ASSUME NEW u \in deps[t] PROVE FALSE
    OBVIOUS
  <2>2. u \in Tracker /\ (pp_tracker[u] = t \/ HeldFor(t, u))
    BY <1>2 DEF DepsHeld, FenceInv
  <2>3. pp_tracker[u] # t
    BY <1>1, <1>3, <2>2, TimelineAssumption DEF RefInv, GpJobHolds
  <2> QED BY <1>3, <2>2, <2>3 DEF HeldFor
<1>5. FenceStep
  BY <1>2, <1>3, <1>4 DEF FenceStep, ImplementsFences!FenceNext, ImplementsFences!Activate
<1>6. DepsAlive'
  BY <1>2 DEF DepsAlive, FenceInv
<1>7. DepsHeld'
  BY <1>2 DEF DepsHeld, HeldFor, FenceInv
<1> QED BY <1>2, <1>3, <1>5, <1>6, <1>7 DEF Running, OnTop

LEMMA activate_job_fence ==
  ASSUME FenceInv, NEW t \in Tracker, NEW done \in BOOLEAN,
         activate_gp_job(t) \/ activate_pp_job(t) \/ activate_soft_job(t, done)
           \/ activate_wait(t)
  PROVE  FenceStep /\ DepsAlive' /\ DepsHeld' /\ PutsDone'
<1>1. TypeInv /\ PutsDone
  BY DEF FenceInv, OrderInv, RefInv
<1>2. PICK frames : activate(t, frames)
  BY Zenon DEF activate_gp_job, activate_pp_job, activate_soft_job, activate_wait
<1>3. /\ FenceStep /\ DepsAlive' /\ DepsHeld'
      /\ phase[t] = "waiting" /\ Head(stack).op = "activate" /\ stack # <<>>
      /\ phase' = [phase EXCEPT ![t] = "active"] /\ pp_tracker' = pp_tracker
  BY <1>2, activate_fence
<1>4. pp_tracker \in [Tracker -> Tracker \cup {NoTracker}]
      /\ phase \in [Tracker -> {"free", "init", "waiting", "active"}]
  BY <1>1 DEF TypeInv, TypeOK, TrackerTypes
<1>5. ASSUME PutsKept PROVE PutsDone'
  BY <1>1, <1>3, <1>4, <1>5, PutsQuiet
<1>6. ASSUME activate_gp_job(t), is_aborting PROVE PutsDone'
  <2>1. stack' = <<Call("release", t), Call("put", t), DropMask>> \o Caller
    BY <1>6 DEF activate_gp_job, activate
  <2>2. Caller \in Seq(Frame) /\ Range(Caller) \subseteq Range(stack)
    BY <1>1, <1>3, CallerRange
  <2>3. /\ Call("release", t) \in Frame /\ Call("put", t) \in Frame /\ DropMask \in Frame
        /\ DropMask.op # "put"
    BY <1>1, FrameTypes DEF TypeInv, TypeOK, SchedTypes, DropMask
  <2> DEFINE q == <<Call("release", t), Call("put", t), DropMask>>
  <2>4. /\ q \in Seq(Frame) /\ q # <<>> /\ Head(q) = Call("release", t)
        /\ Range(q) = {Call("release", t), Call("put", t), DropMask}
    <3>1. DOMAIN q = {1, 2, 3} /\ q[1] = Call("release", t) /\ q[2] = Call("put", t)
          /\ q[3] = DropMask
      OBVIOUS
    <3>2. q \in Seq(Frame) /\ q # <<>> /\ Head(q) = Call("release", t)
      BY <2>3
    <3> HIDE DEF q
    <3> QED BY <3>1, <3>2 DEF Range
  <2>5. stack' = q \o Caller
    BY <2>1
  <2> HIDE DEF q
  <2>6. Range(stack') = Range(q) \cup Range(Caller)
    BY <2>2, <2>4, <2>5, RangeConcat
  <2>7. Head(stack') = Call("release", t) /\ stack' # <<>>
    <3>1. Len(q) \in Nat /\ Len(Caller) \in Nat /\ Len(q) >= 1 /\ q[1] = Call("release", t)
      BY <2>2, <2>4, EmptySeq
    <3>2. stack' \in Seq(Frame) /\ Len(stack') = Len(q) + Len(Caller) /\ stack'[1] = q[1]
      BY <2>2, <2>4, <2>5, <3>1, ConcatProperties
    <3> QED BY <3>1, <3>2, EmptySeq
  <2>8. Running("release", t)'
    BY <2>7 DEF Running, OnTop, Call
  <2>9. SUFFICES ASSUME NEW g \in Tracker, Call("put", g) \in Range(stack')
                 PROVE  pp_tracker'[g] = NoTracker \/ phase'[g] = "free" \/ Running("release", g)'
    BY Zenon DEF PutsDone, Call
  <2>10. CASE g = t
    BY <2>8, <2>10
  <2>11. CASE g # t
    <3>1. Call("put", g) \in Range(stack)
      BY <2>2, <2>3, <2>4, <2>6, <2>9, <2>11 DEF Call
    <3>2. pp_tracker[g] = NoTracker \/ phase[g] = "free"
      BY <1>1, <1>3, <3>1 DEF PutsDone, Running, OnTop
    <3> QED BY <1>3, <1>4, <2>11, <3>2
  <2> QED BY <2>10, <2>11
<1> QED BY <1>1, <1>3, <1>5, <1>6, activate_puts

\* Steps that leave the phases, the points and the waiters alone.
LEMMA FenceSame ==
  ASSUME FenceInv, UNCHANGED <<phase, point, deps, wait_point>>, PutsKept,
         \A t \in Tracker : holders'[t] \cap TimelineId = holders[t] \cap TimelineId,
         \A g \in Tracker :
           \/ pp_tracker'[g] = pp_tracker[g]
           \/ pp_tracker'[g] = NoTracker /\ phase[g] = "free",
         stack' = stack \/ stack = <<>> \/ Head(stack).op # "release"
  PROVE  FenceStep /\ DepsAlive' /\ DepsHeld' /\ PutsDone'
<1>1. TypeInv /\ PutsDone /\ deps \in [Tracker -> SUBSET Tracker]
  BY DEF FenceInv, OrderInv, RefInv, TypeInv, TypeOK, TrackerTypes
<1>2. FenceStep
  BY SMT DEF FenceStep, ImplementsFences!fenceVars
<1>3. DepsAlive'
  BY SMT DEF DepsAlive, FenceInv
<1>4. DepsHeld'
  <2>1. SUFFICES ASSUME NEW a \in Tracker, NEW u \in deps'[a]
                 PROVE  pp_tracker'[u] = a \/ HeldFor(a, u)'
    BY Zenon DEF DepsHeld, HeldFor
  <2>2. u \in deps[a] /\ u \in Tracker
    BY <1>1, <2>1
  <2>3. phase[u] \in {"waiting", "active"} /\ (pp_tracker[u] = a \/ HeldFor(a, u))
    BY <2>2 DEF DepsAlive, DepsHeld, FenceInv
  <2>4. CASE HeldFor(a, u)
    <3>1. Home[Kind[u]] \in TimelineId
      BY <1>1, <2>2, <2>4 DEF HeldFor, TypeInv, TrackersListed
    <3>2. Home[Kind[u]] \in holders[a] => Home[Kind[u]] \in holders'[a]
      BY <3>1
    <3> QED BY <2>4, <3>2 DEF HeldFor
  <2> QED BY <2>2, <2>3, <2>4
<1>5. PutsDone'
  BY <1>1, PutsQuiet
<1> QED BY <1>2, <1>3, <1>4, <1>5

\* Releasing a waiter whose point no tracker of the timeline has takes nothing away
\* from a tracker that depends on another one.
LEMMA DropFence ==
  ASSUME FenceInv, NEW tl \in TimelineId, NEW r, DropsWaiter(tl, r), NEW rest,
         release_reference(waiter_list[tl][r], tl, rest), UNCHANGED trackerVars,
         PutsKept, stack # <<>> /\ Head(stack).op # "release",
         is_tracker_released(tl, wait_point[waiter_list[tl][r]][tl])
  PROVE  FenceStep /\ DepsAlive' /\ DepsHeld' /\ PutsDone'
<1> DEFINE w == waiter_list[tl][r]
<1>1. /\ TypeInv /\ PutsDone /\ deps \in [Tracker -> SUBSET Tracker]
      /\ holders \in [Tracker -> SUBSET Holder]
      /\ pp_tracker \in [Tracker -> Tracker \cup {NoTracker}]
  BY DEF FenceInv, OrderInv, RefInv, TypeInv, TypeOK, TrackerTypes, RefTypes
<1>2. phase' = phase /\ point' = point /\ deps' = deps /\ pp_tracker' = pp_tracker
  BY SMT DEF trackerVars
<1>3. FenceStep
  BY <1>2, SMT DEF FenceStep, ImplementsFences!fenceVars
<1>4. DepsAlive'
  BY <1>2, SMT DEF DepsAlive, FenceInv
<1>5. /\ w \in Tracker
      /\ \A u \in Tracker : \A x \in TimelineId :
              u # w \/ x # tl => wait_point'[u][x] = wait_point[u][x]
  BY DropSorted DEF FenceInv
<1>6. holders' = [holders EXCEPT ![w] = @ \ {tl}]
  BY DEF release_reference
<1> HIDE DEF w
<1>7. DepsHeld'
  <2>1. SUFFICES ASSUME NEW a \in Tracker, NEW u \in deps'[a]
                 PROVE  pp_tracker'[u] = a \/ HeldFor(a, u)'
    BY Zenon DEF DepsHeld, HeldFor
  <2>2. u \in deps[a] /\ u \in Tracker
    BY <1>1, <1>2, <2>1
  <2>3. pp_tracker[u] = a \/ HeldFor(a, u)
    BY <2>2 DEF DepsHeld, FenceInv
  <2>4. CASE HeldFor(a, u)
    <3>1. /\ Home[Kind[u]] \in TimelineId /\ u \in Range(tracker_list[Home[Kind[u]]])
          /\ Home[Kind[u]] \in holders[a] /\ wait_point[a][Home[Kind[u]]] = point[u]
          /\ point[u] # NoPoint
      BY <1>1, <2>2, <2>4 DEF HeldFor, TypeInv, TrackersListed
    <3>2. a # w \/ Home[Kind[u]] # tl
      BY <3>1 DEF is_tracker_released, w
    <3>3. wait_point'[a][Home[Kind[u]]] = point[u]
      BY <1>5, <3>1, <3>2
    <3>4. Home[Kind[u]] \in holders'[a]
      BY <1>1, <1>6, <3>1, <3>2
    <3> QED BY <1>2, <3>1, <3>3, <3>4 DEF HeldFor
  <2> QED BY <1>2, <2>2, <2>3, <2>4
<1>8. PutsDone'
  BY <1>1, <1>2, PutsQuiet, SMT
<1> QED BY <1>3, <1>4, <1>7, <1>8

\* update_oldest_point: the waiters that it releases wait for a point before every
\* tracker that is left.
LEMMA update_oldest_point_fence ==
  ASSUME FenceInv, NEW tl \in TimelineId, update_oldest_point(tl)
  PROVE  FenceStep /\ DepsAlive' /\ DepsHeld' /\ PutsDone'
<1> DEFINE list == waiter_list[tl]
           done == list = <<>> \/ OnPoint(tl, wait_point[Head(list)][tl])
<1>1. TypeInv /\ OrderInv /\ TrackersSorted
  BY DEF FenceInv, OrderInv, RefInv
<1>2. PutsKept
  BY <1>1, walk_puts
<1>3. /\ stack # <<>> /\ Head(stack).op # "release"
      /\ UNCHANGED trackerVars
      /\ done => UNCHANGED refVars
  BY DEF update_oldest_point, OnTop
<1>4. CASE done
  <2>1. UNCHANGED <<phase, point, deps, wait_point, holders, pp_tracker>>
    BY <1>3, <1>4, SMT DEF trackerVars, refVars
  <2> HIDE DEF done
  <2> QED BY <1>2, <1>3, <2>1, FenceSame
<1>5. CASE ~done
  <2>1. /\ DropsWaiter(tl, 1) /\ waiter_list[tl][1] \in Tracker
        /\ Head(list) = waiter_list[tl][1]
        /\ release_reference(waiter_list[tl][1], tl, stack)
    BY <1>1, <1>5, UnlinkOldest
  <2>2. ~OnPoint(tl, wait_point[waiter_list[tl][1]][tl])
    BY <1>5, <2>1
  <2>3. is_tracker_released(tl, wait_point[waiter_list[tl][1]][tl])
    <3>1. SUFFICES ASSUME NEW u \in Range(tracker_list[tl])
                   PROVE  point[u] # wait_point[waiter_list[tl][1]][tl]
      BY Zenon DEF is_tracker_released
    <3>2. u \in Tracker /\ point[u] \in AnyPoint
      BY <1>1, TimelineTypes
    <3>3. PICK i \in 1 .. Len(tracker_list[tl]) : tracker_list[tl][i] = u
      BY <1>1, TimelineTypes DEF Range
    <3>4. Back(tl, point[u]) \in 1 .. Back(tl, point_oldest[tl])
      BY <1>1, <3>3, ListedBack
    <3>5. OnPoint(tl, point[u])
      BY <1>1, <3>2, <3>4, AgeBack
    <3> QED BY <2>2, <3>5
  <2> QED BY <1>2, <1>3, <2>1, <2>3, DropFence
<1> QED BY <1>4, <1>5

\* release_with_depended_point: the tracker of the point is released.
LEMMA release_depended_fence ==
  ASSUME FenceInv, NEW p \in Point, NEW c \in Tracker \cup {NoTracker},
         release_depended(p, c)
  PROVE  FenceStep /\ DepsAlive' /\ DepsHeld' /\ PutsDone'
<1>1. TypeInv /\ OrderInv /\ WalksReleased
  BY DEF FenceInv, OrderInv, RefInv
<1>2. PutsKept
  BY <1>1, walk_puts
<1>3. /\ stack # <<>> /\ Head(stack).op = "release_depended" /\ Head(stack).point = p
      /\ UNCHANGED trackerVars
      /\ Hits(p, c) = {} => UNCHANGED refVars
  BY Zenon DEF release_depended, OnTop, Hits
<1>4. CASE Hits(p, c) = {}
  <2>1. UNCHANGED <<phase, point, deps, wait_point, holders, pp_tracker>>
    BY <1>3, <1>4, SMT DEF trackerVars, refVars
  <2> QED BY <1>2, <1>3, <2>1, FenceSame
<1>5. CASE Hits(p, c) # {}
  <2>1. PICK r \in Hits(p, c), more \in Tracker \cup {NoTracker} :
          /\ DropsWaiter("SOFT", r)
          /\ release_reference(waiter_list["SOFT"][r], "SOFT", <<Walk(p, more)>> \o Caller)
    BY <1>1, <1>5, UnlinkDepended
  <2>2. wait_point[waiter_list["SOFT"][r]]["SOFT"] = p
    BY DEF Hits
  <2>3. is_tracker_released("SOFT", p)
    <3>1. Head(stack) \in Range(stack)
      BY <1>1, <1>3, CallerRange
    <3> QED BY <1>1, <1>3, <3>1 DEF WalksReleased
  <2>4. "SOFT" \in TimelineId
    BY DEF TimelineId
  <2> QED BY <1>2, <1>3, <2>1, <2>2, <2>3, <2>4, DropFence
<1> QED BY <1>4, <1>5

\* What the other steps have in common.
FenceQuiet ==
  /\ UNCHANGED <<phase, point, deps, wait_point>>
  /\ \A g \in Tracker :
       \/ pp_tracker'[g] = pp_tracker[g]
       \/ pp_tracker'[g] = NoTracker /\ phase[g] = "free"
  /\ stack' = stack \/ stack = <<>> \/ Head(stack).op # "release"

\* A step that keeps all of it.
LEMMA QuietSame ==
  ASSUME UNCHANGED <<trackerVars, wait_point>>,
         stack' = stack \/ stack = <<>> \/ Head(stack).op # "release"
  PROVE  FenceQuiet
BY SMT DEF FenceQuiet, trackerVars

\* A GP job gives back the reference of its PP job: it was released before.
LEMMA put_quiet ==
  ASSUME FenceInv, NEW g \in Tracker, NEW success \in BOOLEAN,
         put_failed(g) \/ signal_pp_tracker(g, success)
  PROVE  FenceQuiet
<1>1. /\ TypeInv /\ PutsDone
      /\ pp_tracker \in [Tracker -> Tracker \cup {NoTracker}]
  BY DEF FenceInv, OrderInv, RefInv, TypeInv, TypeOK, TrackerTypes
<1>2. ASSUME NEW rest, phase[g] = "free", pp_tracker[g] # NoTracker,
             tracker_put(g, success, rest) \/ tracker_put(g, FALSE, rest),
             stack = <<>> \/ Head(stack).op # "release"
      PROVE  FenceQuiet
  <2>1. pp_tracker' = [pp_tracker EXCEPT ![g] = NoTracker]
        /\ UNCHANGED <<phase, point, deps, wait_point>>
    <3>1. "gp_job" \notin TimelineId
      BY DEF TimelineId
    <3> QED BY <1>2, <3>1, SMT DEF tracker_put, release_reference
  <2> QED BY <1>1, <1>2, <2>1 DEF FenceQuiet
<1>3. CASE signal_pp_tracker(g, success)
  BY <1>2, <1>3 DEF signal_pp_tracker, LockFree
<1>4. CASE put_failed(g)
  <2>1. /\ stack # <<>> /\ Head(stack).op = "put" /\ Head(stack).tracker = g
        /\ IF pp_tracker[g] = NoTracker THEN UNCHANGED <<trackerVars, refVars>>
           ELSE tracker_put(g, FALSE, Caller)
    BY <1>4, Zenon DEF put_failed, Running, OnTop
  <2>2. CASE pp_tracker[g] = NoTracker
    <3>1. UNCHANGED <<trackerVars, wait_point>>
      BY <2>1, <2>2, SMT DEF refVars
    <3> QED BY <2>1, <3>1, QuietSame
  <2>3. CASE pp_tracker[g] # NoTracker
    <3>1. Head(stack) \in Range(stack) /\ Head(stack) \in Frame
      BY <1>1, <2>1, CallerRange, StackTypes DEF TypeInv, TypeOK
    <3>2. Head(stack) = Call("put", g)
      BY <2>1, <3>1 DEF Frame, Call
    <3>3. phase[g] = "free"
      BY <1>1, <2>1, <2>3, <3>1, <3>2 DEF PutsDone, Running, OnTop
    <3> QED BY <1>2, <2>1, <2>3, <3>3
  <2> QED BY <2>2, <2>3
<1> QED BY <1>3, <1>4

\* Every step changes a phase, releases a waiter or is one of those.
LEMMA FenceSteps ==
  ASSUME FenceInv, [Next]_vars
  PROVE  \/ \E t \in Tracker :
              \/ tracker_init(t) \/ (\E p \in Tracker : gp_job_create(t, p))
              \/ add_tracker_any(t) \/ tracker_release(t)
              \/ activate_gp_job(t) \/ activate_pp_job(t)
              \/ (\E done \in BOOLEAN : activate_soft_job(t, done)) \/ activate_wait(t)
         \/ \E tl \in TimelineId : update_oldest_point(tl)
         \/ \E p \in Point, c \in Tracker \cup {NoTracker} : release_depended(p, c)
         \/ FenceQuiet
<1>1. "sync" \notin TimelineId /\ "dma" \notin TimelineId
  BY DEF TimelineId
<1>2. ASSUME \/ drop_mask \/ unlock \/ update_delayed_work
             \/ \E t \in Tracker : soft_job_destroy(t) \/ end_timeout(t)
      PROVE  FenceQuiet
  <2>1. stack # <<>> /\ Head(stack).op # "release"
    BY <1>2 DEF drop_mask, unlock, update_delayed_work, soft_job_destroy, end_timeout, Running, OnTop
  <2>2. UNCHANGED <<trackerVars, refVars>>
    <3>1. CASE drop_mask
      BY <3>1, Zenon DEF drop_mask
    <3>2. CASE unlock
      BY <3>2, Zenon DEF unlock
    <3>3. CASE update_delayed_work
      BY <3>3, Zenon DEF update_delayed_work
    <3>4. ASSUME NEW t \in Tracker, soft_job_destroy(t) \/ end_timeout(t)
          PROVE  UNCHANGED <<trackerVars, refVars>>
      BY <3>4 DEF soft_job_destroy, end_timeout
    <3> QED BY <1>2, <3>1, <3>2, <3>3, <3>4
  <2> QED BY <2>1, <2>2, QuietSame DEF refVars
<1>3. ASSUME NEW t \in Tracker,
             \/ do_sync_fence_callback(t) \/ dma_fence_callback(t)
             \/ complete_job(t) \/ soft_release(t)
      PROVE  FenceQuiet
  <2>1. stack = <<>>
    BY <1>3 DEF do_sync_fence_callback, dma_fence_callback, complete_job, soft_release, lock, LockFree
  <2>2. UNCHANGED <<trackerVars, wait_point>>
    <3>1. CASE do_sync_fence_callback(t)
      BY <1>1, <3>1 DEF do_sync_fence_callback, release_reference
    <3>2. CASE dma_fence_callback(t)
      BY <1>1, <3>2 DEF dma_fence_callback, release_reference
    <3>3. CASE complete_job(t) \/ soft_release(t)
      BY <3>3 DEF complete_job, soft_release, lock, refVars
    <3> QED BY <1>3, <3>1, <3>2, <3>3
  <2> QED BY <2>1, <2>2, QuietSame
<1>4. ASSUME NEW done \in BOOLEAN, timer_callback(done) PROVE FenceQuiet
  <2>1. stack = <<>> /\ UNCHANGED <<trackerVars, wait_point>>
    BY <1>4 DEF timer_callback, LockFree, refVars
  <2> QED BY <2>1, QuietSame
<1>5. ASSUME \/ timer_expires \/ executor_schedule \/ Close \/ UNCHANGED vars
             \/ \E t \in Tracker : time_passes(t) \/ sync_fence_callback(t)
      PROVE  FenceQuiet
  <2>1. UNCHANGED <<trackerVars, refVars, stack>>
    <3>1. ASSUME NEW t \in Tracker, time_passes(t) \/ sync_fence_callback(t)
          PROVE  UNCHANGED <<trackerVars, refVars, stack>>
      BY <3>1 DEF time_passes, sync_fence_callback
    <3>2. CASE timer_expires \/ executor_schedule \/ Close \/ UNCHANGED vars
      BY <3>2 DEF timer_expires, executor_schedule, Close, abort, stop_timer, cancel_work_sync, vars
    <3> QED BY <1>5, <3>1, <3>2
  <2> QED BY <2>1, QuietSame DEF refVars
<1>6. CASE Ioctl
  BY <1>6 DEF Ioctl
<1>7. CASE Locked
  <2>1. ASSUME NEW t \in Tracker, put_failed(t) PROVE FenceQuiet
    BY <2>1, put_quiet
  <2> QED BY <1>2, <1>7, <2>1, Zenon DEF Locked
<1>8. CASE Owner
  BY <1>3, <1>5, <1>8, put_quiet DEF Owner, Device
<1>9. CASE Timer
  BY <1>4, <1>5, <1>9 DEF Timer
<1> QED BY <1>5, <1>6, <1>7, <1>8, <1>9 DEF Next

\* When every waiter could be allocated, create_waiters waits for all the points of
\* the fence that are still on their timelines.
LEMMA AllGranted ==
  ASSUME NEW t \in Tracker, NEW f \in [FenceOn[t] -> AnyPoint], NEW granted,
         granted = num_waiters(t, f), NEW x \in DOMAIN f, f[x] # NoPoint,
         is_point_valid(f[x], point_oldest[x], next_after(t)[x]),
         ~is_point_released(f[x], point_oldest[x], next_after(t)[x]),
         x = "SOFT" => f[x] = own_point(t, x) \/ ~is_tracker_released(x, f[x])
  PROVE  x \in waits_on(t, f, granted)
<1> DEFINE wanted ==
        {tl \in DOMAIN f :
           /\ f[tl] # NoPoint
           /\ is_point_valid(f[tl], point_oldest[tl], next_after(t)[tl])
           /\ ~is_point_released(f[tl], point_oldest[tl], next_after(t)[tl])
           /\ tl = "SOFT" => f[tl] = own_point(t, tl) \/ ~is_tracker_released(tl, f[tl])}
    before == {y \in wanted : Order[y] <= Order[x]}
    named == {tl \in DOMAIN f : f[tl] # NoPoint}
<1>1. waits_on(t, f, granted)
        = {z \in wanted : Cardinality({y \in wanted : Order[y] <= Order[z]}) <= granted}
  BY Zenon DEF waits_on
<1>2. x \in wanted /\ before \subseteq named
  OBVIOUS
<1>3. num_waiters(t, f) = Cardinality(named) + Count(t \in SyncTracker) + Count(t \in DmaTracker)
  BY Zenon DEF num_waiters
<1> HIDE DEF wanted
<1>4. named \subseteq Holder
  BY TimelineAssumption DEF Holder
<1> HIDE DEF before, named
<1>5. Cardinality(before) <= Cardinality(named) /\ Cardinality(before) \in Nat
      /\ Cardinality(named) \in Nat
  <2>1. IsFiniteSet(named) /\ Cardinality(named) \in Nat
    BY <1>4, HolderFinite
  <2> QED BY <1>2, <2>1, FS_Subset, FS_CardinalityType
<1>6. Count(t \in SyncTracker) \in Nat /\ Count(t \in DmaTracker) \in Nat
  BY DEF Count
<1>7. Cardinality(before) <= granted
  BY <1>3, <1>5, <1>6
<1> QED BY <1>1, <1>2, <1>7, Zenon DEF before

\* A tracker of a timeline that the fence names has a waiter of the new tracker.
LEMMA FencedWaits ==
  ASSUME FenceInv, NEW t \in Tracker, NEW f \in [FenceOn[t] -> AnyPoint],
         NEW granted, granted = num_waiters(t, f), NEW sync \in BOOLEAN,
         add_tracker(t, f, granted, sync), NEW x \in DOMAIN f,
         NEW u \in Range(tracker_list[x]), point[u] = f[x]
  PROVE  /\ x \in TimelineId /\ x \in waits_on(t, f, granted)
         /\ u \in Tracker /\ Home[Kind[u]] = x /\ point[u] # NoPoint /\ u # t
         /\ phase[u] \in {"waiting", "active"}
<1>1. TypeInv /\ TrackersSorted
  BY DEF FenceInv, OrderInv, RefInv
<1>2. x \in TimelineId /\ f[x] \in AnyPoint
  BY TimelineAssumption
<1>3. /\ u \in Tracker /\ point[u] \in AnyPoint /\ Home[Kind[u]] = x /\ point[u] # NoPoint
      /\ phase \in [Tracker -> {"free", "init", "waiting", "active"}]
      /\ phase[u] \notin {"free", "init"} /\ point_oldest[x] \in AnyPoint
  BY <1>1, <1>2, TimelineTypes DEF TypeInv, TypeOK, TrackerTypes, TrackersListed
<1>4. phase[t] = "init" /\ point_next' = next_after(t)
  BY DEF add_tracker
<1>5. Back(x, point[u]) \in 1 .. Back(x, point_oldest[x])
  <2>1. PICK i \in 1 .. Len(tracker_list[x]) : tracker_list[x][i] = u
    BY <1>1, <1>2, TimelineTypes DEF Range
  <2> QED BY <1>1, <1>2, <2>1, ListedBack
<1>6. /\ next_after(t)[x] \in AnyPoint
      /\ minus(next_after(t)[x], f[x]) \in 1 .. minus(next_after(t)[x], point_oldest[x])
  <2>1. PICK d \in 0 .. 2 :
          \A p \in AnyPoint : Back(x, p) <= Back(x, point_oldest[x]) =>
                                minus(point_next'[x], p) = Back(x, p) + d
    BY <1>1, <1>2, AddBack
  <2>2. point_next'[x] \in AnyPoint
    BY <1>1, <1>2, AddBack
  <2>3. point_next[x] \in AnyPoint
    BY <1>1, <1>2, TimelineTypes
  <2>4. Back(x, point[u]) \in Nat /\ Back(x, point_oldest[x]) \in Nat
    BY <1>3, <2>3, MinusType, PointAssumption DEF Back
  <2>5. /\ minus(point_next'[x], point[u]) = Back(x, point[u]) + d
        /\ minus(point_next'[x], point_oldest[x]) = Back(x, point_oldest[x]) + d
    BY <1>3, <1>5, <2>1, <2>4
  <2> QED BY <1>4, <1>5, <2>2, <2>4, <2>5
<1> DEFINE next == next_after(t)[x]
<1>7. /\ is_point_on(f[x], point_oldest[x], next)
      /\ minus(f[x], point_oldest[x]) = minus(next, point_oldest[x]) - minus(next, f[x])
  BY <1>2, <1>3, <1>6, OnBack
<1>8. ~is_point_released(f[x], point_oldest[x], next)
  <2>1. minus(next, point_oldest[x]) \in Int /\ MaxPointSpan \in Nat
    BY <1>3, <1>6, MinusType, PointAssumption
  <2> QED BY <1>6, <1>7, <2>1 DEF is_point_released
<1>9. ~is_tracker_released(x, f[x])
  BY DEF is_tracker_released
<1>10. x \in waits_on(t, f, granted)
  BY <1>3, <1>7, <1>8, <1>9, AllGranted DEF is_point_valid
<1> QED BY <1>2, <1>3, <1>4, <1>10

\* A tracker whose fence names its own point has a waiter for it.
LEMMA OwnWaits ==
  ASSUME FenceInv, NEW t \in Tracker, NEW f \in [FenceOn[t] -> AnyPoint],
         NEW granted, granted = num_waiters(t, f), NEW sync \in BOOLEAN,
         add_tracker(t, f, granted, sync), NEW x \in DOMAIN f,
         own_point(t, x) # NoPoint, f[x] = own_point(t, x)
  PROVE  x \in waits_on(t, f, granted)
<1>1. TypeInv /\ TrackersSorted
  BY DEF FenceInv, OrderInv, RefInv
<1>2. x \in TimelineId
  BY TimelineAssumption
<1>3. f[x] = point_next[x] /\ inserted(t) /\ x = Home[Kind[t]]
  BY <1>1, <1>2, OwnPoint
<1>4. /\ point_next[x] \in Point /\ point_next[x] \in AnyPoint /\ point_oldest[x] \in AnyPoint
      /\ point_next \in [TimelineId -> Point] /\ MaxPointSpan \in Nat /\ PointModulus \in Nat
  BY <1>1, <1>2, TimelineTypes, PointAssumption DEF TypeInv, TypeOK, ListTypes
<1> DEFINE next == next_after(t)[x]
<1>5. next = next_point(point_next[x]) /\ next \in AnyPoint
  BY <1>2, <1>3, <1>4, NextPoint, AnyPointTypes DEF next_after
<1>6. minus(next, f[x]) \in 1 .. 2
  <2>1. minus(point_next[x], f[x]) = 0 /\ PointModulus - 3 >= 0
    BY <1>3, <1>4, MinusType, PointAssumption
  <2> QED BY <1>3, <1>4, <1>5, <2>1, NextBack
<1>7. minus(next, f[x]) <= minus(next, point_oldest[x]) /\ minus(next, point_oldest[x]) \in Nat
  <2>1. point_next'[x] = next
    BY DEF add_tracker
  <2>2. PICK d \in 0 .. 2 :
          \A p \in AnyPoint : Back(x, p) <= Back(x, point_oldest[x]) =>
                                minus(next, p) = Back(x, p) + d
    BY <1>1, <1>2, <2>1, AddBack
  <2>3. Back(x, f[x]) = 0 /\ Back(x, point_oldest[x]) \in Nat
    BY <1>3, <1>4, MinusType DEF Back
  <2>4. minus(next, f[x]) = 0 + d /\ minus(next, point_oldest[x]) = Back(x, point_oldest[x]) + d
    BY <1>3, <1>4, <2>2, <2>3
  <2> QED BY <2>3, <2>4
<1>8. /\ is_point_on(f[x], point_oldest[x], next)
      /\ minus(f[x], point_oldest[x]) = minus(next, point_oldest[x]) - minus(next, f[x])
  BY <1>3, <1>4, <1>5, <1>6, <1>7, OnBack
<1>9. ~is_point_released(f[x], point_oldest[x], next)
  BY <1>4, <1>6, <1>7, <1>8 DEF is_point_released
<1> QED BY <1>8, <1>9, AllGranted DEF is_point_valid

\* system_add_tracker: Add, with the trackers that are behind the points of the fence
\* and the GP job of a PP job.
LEMMA add_tracker_fence ==
  ASSUME FenceInv, ~AllocMayFail, NEW t \in Tracker, add_tracker_any(t)
  PROVE  FenceStep /\ DepsAlive' /\ DepsHeld' /\ PutsDone'
<1>1. TypeInv /\ PutsDone /\ RefInv
  BY DEF FenceInv, OrderInv, RefInv
<1>2. PICK f \in [FenceOn[t] -> AnyPoint], sync \in BOOLEAN :
        add_tracker(t, f, num_waiters(t, f), sync)
  BY SMT DEF add_tracker_any
<1> DEFINE granted == num_waiters(t, f)
           served == waits_on(t, f, granted)
           added == new_holders(t, f, granted, sync)
           fenced == {u \in Tracker : \E x \in DOMAIN f :
                        u \in Range(tracker_list'[x]) /\ point'[u] = f[x]}
           paired == {g \in Tracker : pp_tracker[g] = t /\ phase[g] # "free"}
<1>3. /\ phase[t] = "init" /\ LockFree
      /\ \A g \in Tracker : pp_tracker[g] = t => phase[g] # "init"
      /\ phase' = [phase EXCEPT ![t] = "waiting"]
      /\ deps' = [deps EXCEPT ![t] = fenced \cup paired]
      /\ holders' = [holders EXCEPT ![t] = (@ \ {"init"}) \cup added]
      /\ wait_point' = [wait_point EXCEPT ![t] =
                          [x \in TimelineId |-> IF x \in served THEN f[x] ELSE NoPoint]]
      /\ pp_tracker' = pp_tracker
  BY <1>2, Zenon DEF add_tracker
<1>4. \A u \in Tracker : u # t => point'[u] = point[u]
  BY <1>1, <1>2 DEF add_tracker, TypeInv, TypeOK, TrackerTypes
<1>5. /\ phase \in [Tracker -> {"free", "init", "waiting", "active"}]
      /\ deps \in [Tracker -> SUBSET Tracker] /\ holders \in [Tracker -> SUBSET Holder]
      /\ wait_point \in [Tracker -> [TimelineId -> AnyPoint]]
  BY <1>1 DEF TypeInv, TypeOK, TrackerTypes, RefTypes
<1>6. ASSUME NEW u \in fenced
      PROVE  /\ u \in Tracker /\ (u # t => phase[u] \in {"waiting", "active"})
             /\ point'[u] # NoPoint /\ Home[Kind[u]] \in TimelineId
             /\ Home[Kind[u]] \in served /\ f[Home[Kind[u]]] = point'[u]
  <2>1. PICK x \in DOMAIN f : u \in Range(tracker_list'[x]) /\ point'[u] = f[x]
    OBVIOUS
  <2>2. x \in TimelineId
    BY TimelineAssumption
  <2>3. CASE u # t
    <3>1. u \in Range(tracker_list[x]) /\ point[u] = point'[u]
      BY <1>1, <1>2, <2>1, <2>2, <2>3, OwnPoint
    <3> QED BY <1>2, <2>1, <2>3, <3>1, FencedWaits
  <2>4. CASE u = t
    <3>1. /\ own_point(t, x) # NoPoint /\ point'[t] = own_point(t, x)
          /\ x = Home[Kind[t]]
      BY <1>1, <1>2, <2>1, <2>2, <2>4, OwnPoint
    <3>2. x \in served
      BY <1>2, <2>1, <2>4, <3>1, OwnWaits
    <3> QED BY <2>1, <2>2, <2>4, <3>1, <3>2
  <2> QED BY <2>3, <2>4
<1>7. \A u \in paired : u \in Tracker \ {t} /\ phase[u] \in {"waiting", "active"}
  BY <1>3, <1>5
<1>8. served \subseteq added
  BY <1>2, NewHolders
<1> HIDE DEF granted, served, added, fenced
<1>9. fenced \cup paired \in SUBSET Tracker
      /\ \A u \in (fenced \cup paired) \ {t} : phase[u] \in {"waiting", "active"}
  BY <1>6, <1>7
<1>10. \A u \in paired : pp_tracker[u] = t
  OBVIOUS
<1> HIDE DEF paired
<1>11. FenceStep
  <2>1. ImplementsFences!Add(t, fenced \cup paired)
    BY <1>3, <1>9, Zenon DEF ImplementsFences!Add
  <2> QED BY <1>9, <2>1, Zenon DEF FenceStep, ImplementsFences!FenceNext
<1>12. DepsAlive'
  <2>1. SUFFICES ASSUME NEW a \in Tracker, NEW u \in deps'[a]
                 PROVE  phase'[u] \in {"waiting", "active"}
    BY Zenon DEF DepsAlive
  <2>2. u \in Tracker /\ (u # t => phase[u] \in {"waiting", "active"})
    BY <1>3, <1>5, <1>9, <2>1 DEF DepsAlive, FenceInv
  <2> QED BY <1>3, <1>5, <2>2
<1>13. DepsHeld'
  <2>1. SUFFICES ASSUME NEW a \in Tracker, NEW u \in deps'[a]
                 PROVE  pp_tracker'[u] = a \/ HeldFor(a, u)'
    BY Zenon DEF DepsHeld, HeldFor
  <2>2. CASE a # t
    <3>1. u \in deps[a] /\ u \in Tracker
      BY <1>3, <1>5, <2>1, <2>2
    <3>2. phase[u] \in {"waiting", "active"} /\ (pp_tracker[u] = a \/ HeldFor(a, u))
      BY <3>1 DEF DepsAlive, DepsHeld, FenceInv
    <3>3. point'[u] = point[u] /\ holders'[a] = holders[a] /\ wait_point'[a] = wait_point[a]
      BY <1>3, <1>4, <1>5, <2>2, <3>1, <3>2
    <3> QED BY <1>3, <3>2, <3>3 DEF HeldFor
  <2>3. CASE a = t
    <3>1. u \in fenced \/ u \in paired
      BY <1>3, <1>5, <2>1, <2>3
    <3>2. CASE u \in fenced
      <4>1. Home[Kind[u]] \in served /\ Home[Kind[u]] \in TimelineId
        BY <1>6, <3>2
      <4>2. Home[Kind[u]] \in holders'[a]
        BY <1>3, <1>5, <1>8, <2>3, <4>1
      <4>3. wait_point'[a][Home[Kind[u]]] = point'[u]
        BY <1>3, <1>5, <1>6, <2>3, <3>2, <4>1
      <4> QED BY <1>6, <3>2, <4>1, <4>2, <4>3 DEF HeldFor
    <3> QED BY <1>3, <1>10, <2>3, <3>1, <3>2
  <2> QED BY <2>2, <2>3
<1>14. PutsDone'
  <2>1. PutsKept
    BY <1>1, lock_puts
  <2> QED BY <1>1, <1>3, <1>5, <2>1, PutsQuiet DEF LockFree
<1> QED BY <1>11, <1>12, <1>13, <1>14

LEMMA FenceInit == Init => FenceInv /\ ImplementsFences!FenceInit
<1> SUFFICES ASSUME Init PROVE FenceInv /\ ImplementsFences!FenceInit
  OBVIOUS
<1>1. OrderInv
  BY OrderInit
<1>2. ImplementsFences!FenceInit
  BY DEF Init, ImplementsFences!FenceInit
<1>3. DepsAlive /\ DepsHeld
  BY DEF Init, DepsAlive, DepsHeld
<1>4. PutsDone
  BY RangeOne DEF Init, PutsDone
<1> QED BY <1>1, <1>2, <1>3, <1>4 DEF FenceInv

LEMMA FenceNext ==
  ASSUME ~AllocMayFail, FenceInv, [Next]_vars
  PROVE  FenceInv' /\ FenceStep
<1>1. OrderInv' /\ TypeInv /\ RefInv
  BY OrderNext DEF FenceInv, OrderInv, RefInv
<1> SUFFICES FenceStep /\ DepsAlive' /\ DepsHeld' /\ PutsDone'
  BY <1>1 DEF FenceInv
<1>2. CASE \E t \in Tracker : add_tracker_any(t)
  BY <1>2, add_tracker_fence
<1>3. CASE \E tl \in TimelineId : update_oldest_point(tl)
  BY <1>3, update_oldest_point_fence
<1>4. CASE \E p \in Point, c \in Tracker \cup {NoTracker} : release_depended(p, c)
  BY <1>4, release_depended_fence
<1>5. CASE \E t \in Tracker : tracker_init(t) \/ \E p \in Tracker : gp_job_create(t, p)
  BY <1>5, tracker_init_fence, gp_job_create_fence
<1>6. CASE \E t \in Tracker : tracker_release(t)
  BY <1>6, tracker_release_fence
<1>7. CASE \E t \in Tracker : \/ activate_gp_job(t) \/ activate_pp_job(t)
                              \/ (\E done \in BOOLEAN : activate_soft_job(t, done))
                              \/ activate_wait(t)
  BY <1>7, activate_job_fence
<1>8. CASE FenceQuiet /\ WaitersStay
  <2>1. PutsKept \/ \E t \in Tracker : activate_gp_job(t)
    BY <1>1, PutSteps
  <2>2. CASE PutsKept
    BY <1>8, <2>2, FenceSame DEF FenceQuiet, WaitersStay
  <2> QED BY <1>7, <2>1, <2>2
<1> QED BY <1>1, <1>2, <1>3, <1>4, <1>5, <1>6, <1>7, <1>8, FenceSteps, WaiterSteps, Zenon

\* The timeline system implements MaliFenceSpec when memory for the waiters can be
\* allocated: a tracker is activated once, after all that its fence names have been
\* released, and released once, after its activation (mali_timeline.h on add_tracker).
THEOREM RefinesFenceSpecCorrect == ~AllocMayFail => (Spec => RefinesFenceSpec)
<1> SUFFICES ASSUME ~AllocMayFail PROVE Spec => RefinesFenceSpec
  OBVIOUS
<1>1. Init => FenceInv /\ ImplementsFences!FenceInit
  BY FenceInit
<1>2. FenceInv /\ [Next]_vars
        => FenceInv' /\ [ImplementsFences!FenceNext]_(ImplementsFences!fenceVars)
  BY FenceNext DEF FenceStep
<1> QED BY <1>1, <1>2, PTL DEF Spec, RefinesFenceSpec, ImplementsFences!FenceSpec

------------------------------------------------------------------------------
(* The counters that keep the GPU cores powered.                              *)

WaitingOf(k) == {t \in Tracker : Kind[t] = k /\ phase[t] = "waiting"}

CountInv == RefInv /\ TrackerCounts

\* No tracker starts or stops waiting, and no counter changes.
CountsKept ==
  /\ tracker_count' = tracker_count
  /\ \A t \in Tracker : phase'[t] = "waiting" <=> phase[t] = "waiting"

\* insert_tracker counts a tracker that gets a point.
LEMMA add_tracker_counts ==
  ASSUME CountInv, IsFiniteSet(Tracker), ~MayFill, NEW t \in Tracker, add_tracker_any(t)
  PROVE  TrackerCounts'
<1>1. /\ tracker_count \in [GpuKind -> Int]
      /\ phase \in [Tracker -> {"free", "init", "waiting", "active"}]
  BY DEF CountInv, RefInv, TypeInv, TypeOK, SchedTypes, TrackerTypes
<1>2. PICK f, granted, sync : add_tracker(t, f, granted, sync)
  BY Zenon DEF add_tracker_any
<1>3. /\ phase[t] = "init" /\ phase' = [phase EXCEPT ![t] = "waiting"]
      /\ Home[Kind[t]] \in TimelineId => inserted(t)
      /\ tracker_count' = IF inserted(t) /\ Kind[t] \in GpuKind
                          THEN count_inserted(t) ELSE tracker_count
  BY <1>2, Zenon DEF add_tracker
<1>4. SUFFICES ASSUME NEW k \in GpuKind PROVE tracker_count'[k] = Cardinality(WaitingOf(k)')
  BY Zenon DEF TrackerCounts, WaitingOf
<1>5. tracker_count[k] = Cardinality(WaitingOf(k)) /\ IsFiniteSet(WaitingOf(k))
      /\ t \notin WaitingOf(k)
  BY <1>3, FS_Subset DEF CountInv, TrackerCounts, WaitingOf
<1>6. CASE Kind[t] = k
  <2>1. inserted(t)
    BY <1>3, <1>6, HomeValues DEF TimelineId
  <2>2. tracker_count'[k] = tracker_count[k] + 1
    BY <1>1, <1>3, <1>6, <2>1 DEF count_inserted
  <2>3. WaitingOf(k)' = WaitingOf(k) \cup {t}
    BY <1>1, <1>3, <1>6 DEF WaitingOf
  <2> QED BY <1>5, <2>2, <2>3, FS_AddElement
<1>7. CASE Kind[t] # k
  <2>1. tracker_count'[k] = tracker_count[k]
    BY <1>1, <1>3, <1>7 DEF count_inserted
  <2>2. WaitingOf(k)' = WaitingOf(k)
    BY <1>1, <1>3, <1>7 DEF WaitingOf
  <2> QED BY <1>5, <2>1, <2>2
<1> QED BY <1>6, <1>7

\* tracker_activate takes a GPU tracker off its counter.
LEMMA activate_counts ==
  ASSUME CountInv, IsFiniteSet(Tracker), NEW t \in Tracker, NEW done \in BOOLEAN,
         activate_gp_job(t) \/ activate_pp_job(t) \/ activate_soft_job(t, done)
           \/ activate_wait(t)
  PROVE  TrackerCounts'
<1>1. /\ tracker_count \in [GpuKind -> Int] /\ RefInv
      /\ phase \in [Tracker -> {"free", "init", "waiting", "active"}]
  BY DEF CountInv, RefInv, TypeInv, TypeOK, SchedTypes, TrackerTypes
<1>2. phase[t] = "waiting" /\ phase' = [phase EXCEPT ![t] = "active"]
  <2>1. PICK frames : activate(t, frames)
    BY Zenon DEF activate_gp_job, activate_pp_job, activate_soft_job, activate_wait
  <2> QED BY <1>1, <2>1 DEF activate, RefInv, CallsOK
<1>3. tracker_count' = IF Kind[t] \in GpuKind
                       THEN [tracker_count EXCEPT ![Kind[t]] = @ - 1] ELSE tracker_count
  <2>1. CASE activate_gp_job(t)
    BY <2>1, HomeValues DEF activate_gp_job, GpuKind
  <2>2. CASE activate_pp_job(t)
    BY <2>2, HomeValues DEF activate_pp_job
  <2>3. CASE activate_soft_job(t, done)
    BY <2>3, HomeValues DEF activate_soft_job
  <2>4. CASE activate_wait(t)
    BY <2>4, HomeValues DEF activate_wait
  <2> QED BY <2>1, <2>2, <2>3, <2>4
<1>4. SUFFICES ASSUME NEW k \in GpuKind PROVE tracker_count'[k] = Cardinality(WaitingOf(k)')
  BY Zenon DEF TrackerCounts, WaitingOf
<1>5. tracker_count[k] = Cardinality(WaitingOf(k)) /\ IsFiniteSet(WaitingOf(k))
  BY FS_Subset DEF CountInv, TrackerCounts, WaitingOf
<1>6. CASE Kind[t] = k
  <2>1. tracker_count'[k] = tracker_count[k] - 1
    BY <1>1, <1>3, <1>6
  <2>2. WaitingOf(k)' = WaitingOf(k) \ {t} /\ t \in WaitingOf(k)
    BY <1>1, <1>2, <1>6 DEF WaitingOf
  <2> QED BY <1>5, <2>1, <2>2, FS_RemoveElement
<1>7. CASE Kind[t] # k
  <2>1. tracker_count'[k] = tracker_count[k]
    BY <1>1, <1>3, <1>7
  <2>2. WaitingOf(k)' = WaitingOf(k)
    BY <1>1, <1>2, <1>7 DEF WaitingOf
  <2> QED BY <1>5, <2>1, <2>2
<1> QED BY <1>6, <1>7

\* The other steps.
LEMMA CountSteps ==
  ASSUME RefInv, [Next]_vars
  PROVE  \/ \E t \in Tracker :
              \/ add_tracker_any(t) \/ activate_gp_job(t) \/ activate_pp_job(t)
              \/ (\E done \in BOOLEAN : activate_soft_job(t, done)) \/ activate_wait(t)
         \/ CountsKept
<1>1. phase \in [Tracker -> {"free", "init", "waiting", "active"}]
  BY DEF RefInv, TypeInv, TypeOK, TrackerTypes
<1>2. ASSUME UNCHANGED <<phase, tracker_count>> PROVE CountsKept
  BY <1>2 DEF CountsKept
<1>3. ASSUME NEW t \in Tracker, tracker_init(t) \/ \E p \in Tracker : gp_job_create(t, p)
      PROVE  CountsKept
  <2>1. /\ phase[t] = "free" /\ phase' = [phase EXCEPT ![t] = "init"]
        /\ tracker_count' = tracker_count
    BY <1>3 DEF tracker_init, gp_job_create, schedVars
  <2> QED BY <1>1, <2>1 DEF CountsKept
<1>4. ASSUME NEW t \in Tracker, tracker_release(t) PROVE CountsKept
  <2>1. phase[t] = "active"
    BY <1>4 DEF tracker_release, RefInv, CallsOK
  <2>2. phase' = [phase EXCEPT ![t] = "free"] /\ tracker_count' = tracker_count
    BY <1>4, Zenon DEF tracker_release
  <2> QED BY <1>1, <2>1, <2>2 DEF CountsKept
<1>5. ASSUME NEW tl \in TimelineId, update_oldest_point(tl) PROVE CountsKept
  <2>1. UNCHANGED <<trackerVars, schedVars>>
    BY <1>5, Zenon DEF update_oldest_point
  <2> QED BY <1>2, <2>1 DEF trackerVars, schedVars
<1>6. ASSUME NEW p \in Point, NEW c \in Tracker \cup {NoTracker}, release_depended(p, c)
      PROVE  CountsKept
  <2>1. UNCHANGED <<trackerVars, schedVars>>
    BY <1>6, Zenon DEF release_depended
  <2> QED BY <1>2, <2>1 DEF trackerVars, schedVars
<1>7. ASSUME NEW t \in Tracker, NEW success \in BOOLEAN,
             put_failed(t) \/ signal_pp_tracker(t, success)
      PROVE  CountsKept
  <2>1. UNCHANGED <<phase, tracker_count>>
    BY <1>7 DEF put_failed, signal_pp_tracker, tracker_put, trackerVars
  <2> QED BY <1>2, <2>1
<1>8. ASSUME NEW t \in Tracker,
             \/ do_sync_fence_callback(t) \/ dma_fence_callback(t) \/ sync_fence_callback(t)
             \/ soft_job_destroy(t) \/ end_timeout(t) \/ time_passes(t)
             \/ complete_job(t) \/ soft_release(t)
      PROVE  CountsKept
  <2>1. CASE do_sync_fence_callback(t) \/ dma_fence_callback(t) \/ sync_fence_callback(t)
    BY <1>2, <2>1 DEF do_sync_fence_callback, dma_fence_callback, sync_fence_callback,
                      trackerVars, schedVars
  <2>2. CASE soft_job_destroy(t) \/ end_timeout(t) \/ time_passes(t)
    BY <1>2, <2>2 DEF soft_job_destroy, end_timeout, time_passes, trackerVars, schedVars
  <2>3. CASE complete_job(t) \/ soft_release(t)
    BY <1>2, <2>3 DEF complete_job, soft_release, lock, trackerVars, schedVars
  <2> QED BY <1>8, <2>1, <2>2, <2>3
<1>9. CASE drop_mask \/ unlock \/ update_delayed_work
  <2>1. CASE drop_mask
    BY <1>2, <2>1 DEF drop_mask, trackerVars
  <2>2. CASE unlock
    BY <1>2, <2>2 DEF unlock, trackerVars
  <2>3. CASE update_delayed_work
    BY <1>2, <2>3 DEF update_delayed_work, trackerVars, schedVars
  <2> QED BY <1>9, <2>1, <2>2, <2>3
<1>10. ASSUME NEW done \in BOOLEAN, timer_callback(done) PROVE CountsKept
  BY <1>2, <1>10 DEF timer_callback, trackerVars, schedVars
<1>11. CASE timer_expires \/ executor_schedule \/ Close \/ UNCHANGED vars
  <2>1. UNCHANGED <<trackerVars, tracker_count>>
    BY <1>11 DEF timer_expires, executor_schedule, Close, abort, stop_timer, cancel_work_sync,
                 vars, schedVars
  <2> QED BY <1>2, <2>1 DEF trackerVars
<1>12. CASE Ioctl
  BY <1>3, <1>12 DEF Ioctl
<1>13. CASE Locked
  BY <1>4, <1>5, <1>6, <1>7, <1>8, <1>9, <1>13, Zenon DEF Locked
<1>14. CASE Owner
  BY <1>7, <1>8, <1>14 DEF Owner, Device
<1>15. CASE Timer
  BY <1>8, <1>10, <1>11, <1>15 DEF Timer
<1> QED BY <1>11, <1>12, <1>13, <1>14, <1>15 DEF Next

LEMMA CountNext ==
  ASSUME IsFiniteSet(Tracker), ~MayFill, CountInv, [Next]_vars
  PROVE  CountInv'
<1>1. RefInv /\ RefInv'
  BY RefNext DEF CountInv
<1>2. ASSUME CountsKept PROVE TrackerCounts'
  <2>1. \A k \in GpuKind : WaitingOf(k)' = WaitingOf(k)
    BY <1>2 DEF CountsKept, WaitingOf
  <2>2. \A k \in GpuKind : tracker_count[k] = Cardinality(WaitingOf(k))
    BY Zenon DEF CountInv, TrackerCounts, WaitingOf
  <2>3. \A k \in GpuKind : tracker_count'[k] = Cardinality(WaitingOf(k)')
    BY <1>2, <2>1, <2>2 DEF CountsKept
  <2> QED BY <2>3, Zenon DEF TrackerCounts, WaitingOf
<1> QED BY <1>1, <1>2, CountSteps, add_tracker_counts, activate_counts DEF CountInv

\* As long as no tracker is added to a full timeline, the counters count the GPU
\* trackers that wait, whatever is activated, released or aborted meanwhile.
THEOREM TrackerCountsCorrect ==
  IsFiniteSet(Tracker) /\ ~MayFill => (Spec => []TrackerCounts)
<1> SUFFICES ASSUME IsFiniteSet(Tracker), ~MayFill PROVE Spec => []TrackerCounts
  OBVIOUS
<1>1. Init => CountInv
  <2> SUFFICES ASSUME Init PROVE TrackerCounts
    BY RefInit DEF CountInv
  <2>1. SUFFICES ASSUME NEW k \in GpuKind PROVE tracker_count[k] = Cardinality(WaitingOf(k))
    BY Zenon DEF TrackerCounts, WaitingOf
  <2>2. WaitingOf(k) = {} /\ tracker_count[k] = 0
    BY DEF Init, WaitingOf
  <2> QED BY <2>2, FS_EmptySet
<1>2. CountInv /\ [Next]_vars => CountInv'
  BY CountNext
<1>3. CountInv => TrackerCounts
  BY DEF CountInv
<1> QED BY <1>1, <1>2, <1>3, PTL DEF Spec
==============================================================================
