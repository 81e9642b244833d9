--------------------------- MODULE MaliTimelineProofs ---------------------------
(***************************************************************************)
(* Proofs about MaliTimeline: type correctness, and that trigger_ref_count *)
(* is exact, for any number of trackers, points and timelines' contents.   *)
(***************************************************************************)
EXTENDS MaliTimeline, MaliListLemmas, FiniteSetTheorems, TLAPS

------------------------------------------------------------------------------
(* Constants                                                                 *)

\* The timeline of a tracker follows from its kind.
LEMMA HomeValues ==
  ASSUME NEW t \in Tracker
  PROVE  /\ Home[Kind[t]] \in TimelineId \cup {"NONE"}
         /\ Kind[t] \in DOMAIN Home
         /\ IsSoft(t) => Home[Kind[t]] = "SOFT"
         /\ Home[Kind[t]] = "SOFT" => IsSoft(t)
         /\ Kind[t] = "wait" => Home[Kind[t]] = "NONE"
         /\ Kind[t] = "gp" => Home[Kind[t]] = "GP"
         /\ Kind[t] \in GpuKind => Home[Kind[t]] \in {"GP", "PP"}
         /\ Home[Kind[t]] \in {"GP", "PP"} => Kind[t] \in GpuKind
         /\ Home[Kind[t]] = "PP" => Kind[t] \in {"phy_pp", "virt_pp"}
<1>1. Kind[t] \in {"gp", "phy_pp", "virt_pp", "soft", "wait"}
  BY TimelineAssumption DEF Home
<1> QED BY <1>1 DEF Home, TimelineId, IsSoft, GpuKind

\* A point is a natural number, and the next one is a point again: 0 is skipped.
LEMMA NextPoint ==
  ASSUME NEW p \in Point
  PROVE  next_point(p) \in Point
BY PointAssumption DEF Point, next_point

\* A tracker has finitely many holders, so their number is a natural number.
LEMMA HolderFinite ==
  ASSUME NEW H, H \subseteq Holder
  PROVE  IsFiniteSet(H) /\ Cardinality(H) \in Nat
<1>1. Holder = {"GP", "PP", "SOFT"} \cup {"init", "gp_job"} \cup {"sync", "dma"}
  BY DEF Holder, TimelineId
<1>2. IsFiniteSet({"GP", "PP", "SOFT"})
  <2>1. IsFiniteSet({"GP"})
    BY FS_Singleton
  <2>2. IsFiniteSet({"GP"} \cup {"PP"})
    BY <2>1, FS_AddElement
  <2>3. IsFiniteSet(({"GP"} \cup {"PP"}) \cup {"SOFT"})
    BY <2>2, FS_AddElement
  <2>4. {"GP", "PP", "SOFT"} = ({"GP"} \cup {"PP"}) \cup {"SOFT"}
    OBVIOUS
  <2> QED BY <2>3, <2>4
<1>3. IsFiniteSet({"init", "gp_job"}) /\ IsFiniteSet({"sync", "dma"})
  <2>1. IsFiniteSet({"init"}) /\ IsFiniteSet({"sync"})
    BY FS_Singleton
  <2>2. IsFiniteSet({"init"} \cup {"gp_job"}) /\ IsFiniteSet({"sync"} \cup {"dma"})
    BY <2>1, FS_AddElement
  <2>3. {"init", "gp_job"} = {"init"} \cup {"gp_job"} /\ {"sync", "dma"} = {"sync"} \cup {"dma"}
    OBVIOUS
  <2> QED BY <2>2, <2>3
<1>4. IsFiniteSet(Holder)
  <2>1. IsFiniteSet({"GP", "PP", "SOFT"} \cup {"init", "gp_job"})
    BY <1>2, <1>3, FS_Union
  <2>2. IsFiniteSet(({"GP", "PP", "SOFT"} \cup {"init", "gp_job"}) \cup {"sync", "dma"})
    BY <1>3, <2>1, FS_Union
  <2> QED BY <1>1, <2>2
<1> QED BY <1>4, FS_Subset, FS_CardinalityType

\* The points, and NoPoint, are integers.
LEMMA AnyPointTypes ==
  /\ Point \subseteq Int /\ AnyPoint \subseteq Int
  /\ \A p \in AnyPoint : p # NoPoint => p \in Point
  /\ Point \subseteq AnyPoint /\ NoPoint \in AnyPoint
BY PointAssumption DEF Point, AnyPoint, NoPoint

------------------------------------------------------------------------------
(* Frames of the stack                                                       *)

\* What the actions push is a frame.
LEMMA FrameTypes ==
  /\ \A t \in Tracker :
       \A op \in {"activate", "release", "put", "destroy", "end_timeout"} :
         Call(op, t) \in Frame
  /\ \A how \in {"mask", "always", "never"} : Unlock(how) \in Frame
  /\ \A tl \in TimelineId : [op |-> "update_oldest_point", timeline |-> tl] \in Frame
  /\ \A p \in Point, c \in Tracker \cup {NoTracker} :
       Walk(p, c) \in Frame
  /\ [op |-> "update_delayed_work"] \in Frame
  /\ UnlockTimer \in Frame
  /\ mask \in SUBSET {"GP", "PP"} => DropMask \in Frame
BY DEF Frame, Call, Walk, Unlock, UnlockTimer, DropMask

\* The arguments of a frame, by function.
LEMMA FrameFields ==
  ASSUME NEW f \in Frame
  PROVE  /\ f.op \in {"activate", "release", "put", "destroy", "end_timeout"}
              => f.tracker \in Tracker
         /\ f.op = "update_oldest_point" => f.timeline \in TimelineId
         /\ f.op = "release_depended" =>
              f.point \in Point /\ f.cursor \in Tracker \cup {NoTracker}
         /\ f.op = "drop_mask" => f.mask \in SUBSET {"GP", "PP"}
         /\ f.op = "unlock" => f.timer \in BOOLEAN
BY DEF Frame

\* The function on top and its callers.
LEMMA StackTypes ==
  ASSUME stack \in Seq(Frame), stack # <<>>
  PROVE  Head(stack) \in Frame /\ Caller \in Seq(Frame)
BY DEF Caller

\* A call keeps the type of the stack.
LEMMA PushType ==
  ASSUME NEW f \in Frame, NEW rest \in Seq(Frame)
  PROVE  <<f>> \o rest \in Seq(Frame)
OBVIOUS

------------------------------------------------------------------------------
(* Lists of the timelines                                                    *)

\* Removing a tracker from its list.
LEMMA WithoutRange ==
  ASSUME NEW S, NEW s \in Seq(S), Distinct(s), NEW x \in Range(s)
  PROVE  /\ Without(s, x) \in Seq(S)
         /\ Distinct(Without(s, x))
         /\ Range(Without(s, x)) = Range(s) \ {x}
<1> DEFINE i == CHOOSE j \in DOMAIN s : s[j] = x
<1>1. i \in DOMAIN s /\ s[i] = x
  <2>1. \E j \in DOMAIN s : s[j] = x
    BY DEF Range
  <2> QED BY <2>1
<1>2. i \in 1 .. Len(s)
  BY <1>1, LenProperties
<1> HIDE DEF i
<1>3. /\ RemoveAt(s, i) \in Seq(S)
      /\ Distinct(RemoveAt(s, i))
      /\ Range(RemoveAt(s, i)) = Range(s) \ {s[i]}
  BY <1>2, RemoveAtRange, Zenon
<1> QED BY <1>1, <1>3, Zenon DEF Without, i

\* The empty list holds nothing.
LEMMA EmptyList ==
  ASSUME NEW S
  PROVE  <<>> \in Seq(S) /\ Distinct(<<>>) /\ Range(<<>>) = {}
<1>1. DOMAIN <<>> = {}
  OBVIOUS
<1> QED BY <1>1, EmptySeq DEF Distinct, Range

\* The first tracker of a list, or NoTracker.
LEMMA FirstType ==
  ASSUME NEW s \in Seq(Tracker)
  PROVE  First(s) \in Tracker \cup {NoTracker}
BY DEF First

\* The place of a new waiter is inside the list or at one of its ends.
LEMMA InsertPlace ==
  ASSUME NEW s \in Seq(Tracker), NEW fits, fits \subseteq DOMAIN s
  PROVE  Max({0} \cup fits) + 1 \in 1 .. Len(s) + 1
<1> Len(s) \in Nat /\ DOMAIN s = 1 .. Len(s)
  BY LenProperties
<1> DEFINE P == {0} \cup fits
<1>1. P \in SUBSET (0 .. Len(s)) /\ P # {}
  OBVIOUS
<1> HIDE DEF P
<1>2. Max(P) \in P
  BY <1>1, MaxInSet
<1> QED BY <1>1, <1>2 DEF P

\* insert_waiter puts a new waiter on the list and keeps the others, each once.
LEMMA InsertWaiter ==
  ASSUME ListTypes, NEW tl \in TimelineId, NEW t \in Tracker, NEW p
  PROVE  /\ insert_waiter(tl, t, p) \in Seq(Tracker)
         /\ Distinct(waiter_list[tl]) /\ t \notin Range(waiter_list[tl]) =>
              /\ Distinct(insert_waiter(tl, t, p))
              /\ t \in Range(insert_waiter(tl, t, p))
              /\ Range(insert_waiter(tl, t, p)) \subseteq Range(waiter_list[tl]) \cup {t}
              /\ ~waiter_head_null[tl] \/ waiter_list[tl] = <<>> =>
                   Range(insert_waiter(tl, t, p)) = Range(waiter_list[tl]) \cup {t}
<1> DEFINE chain == IF waiter_head_null[tl] THEN <<>> ELSE waiter_list[tl]
           fits  == {j \in DOMAIN chain : ~point_after(wait_point[chain[j]][tl], p)}
           at    == Max({0} \cup fits) + 1
<1>1. chain \in Seq(Tracker)
  BY EmptySeq DEF ListTypes
<1>2. insert_waiter(tl, t, p) = InsertAt(chain, at, t)
  BY Zenon DEF insert_waiter
<1>3. Range(<<>>) = {} /\ Distinct(<<>>)
  BY EmptyList
<1>4. /\ Range(chain) \subseteq Range(waiter_list[tl])
      /\ Distinct(waiter_list[tl]) => Distinct(chain)
      /\ ~waiter_head_null[tl] \/ waiter_list[tl] = <<>> => chain = waiter_list[tl]
  BY <1>3
<1>5. fits \subseteq DOMAIN chain
  OBVIOUS
<1> HIDE DEF chain, fits
<1>6. at \in 1 .. Len(chain) + 1
  BY <1>1, <1>5, InsertPlace
<1> HIDE DEF at
<1>7. InsertAt(chain, at, t) \in Seq(Tracker)
  BY <1>1, <1>6, InsertAtElements
<1>8. ASSUME Distinct(chain), t \notin Range(chain)
      PROVE  /\ Distinct(InsertAt(chain, at, t))
             /\ Range(InsertAt(chain, at, t)) = Range(chain) \cup {t}
  BY <1>1, <1>6, <1>8, InsertAtRange, SMTT(30)
<1> QED BY <1>2, <1>4, <1>7, <1>8

------------------------------------------------------------------------------
(* Type correctness                                                          *)

\* The tracker lists: a tracker has a point exactly as long as it is on the list of
\* its timeline, and it is there once.
TrackersListed ==
  /\ \A t \in Tracker : phase[t] \in {"free", "init"} => point[t] = NoPoint
  /\ \A t \in Tracker :
       point[t] # NoPoint => /\ Home[Kind[t]] \in TimelineId
                             /\ t \in Range(tracker_list[Home[Kind[t]]])
  /\ \A tl \in TimelineId :
       /\ Distinct(tracker_list[tl])
       /\ \A t \in Range(tracker_list[tl]) : Home[Kind[t]] = tl /\ point[t] # NoPoint

TypeInv == TypeOK /\ TrackersListed

\* Types hold initially.
LEMMA TypeInit == Init => TypeInv
<1> SUFFICES ASSUME Init PROVE TypeInv
  OBVIOUS
<1> USE DEF Init
<1>1. ListTypes
  BY TimelineAssumption, EmptySeq DEF ListTypes
<1>2. TrackerTypes /\ RefTypes
  BY AnyPointTypes DEF TrackerTypes, RefTypes
<1>3. stack \in Seq(Frame)
  BY EmptySeq
<1>4. SchedTypes
  <2>1. tracker_count \in [GpuKind -> Int]
    OBVIOUS
  <2>2. mask \in SUBSET {"GP", "PP"} /\ runnable \in SUBSET Tracker
    OBVIOUS
  <2> QED BY <2>1, <2>2 DEF SchedTypes
<1>5. TimerTypes /\ ExtTypes
  BY DEF TimerTypes, ExtTypes
<1>6. TrackersListed
  BY EmptyList DEF TrackersListed
<1> QED BY <1>1, <1>2, <1>3, <1>4, <1>5, <1>6 DEF TypeInv, TypeOK

\* Dropping a reference keeps the types.
LEMMA ReleaseReferenceTypes ==
  ASSUME TypeOK, NEW t \in Tracker, NEW h \in Holder, NEW rest \in Seq(Frame),
         release_reference(t, h, rest)
  PROVE  RefTypes' /\ stack' \in Seq(Frame)
<1>1. holders' \in [Tracker -> SUBSET Holder]
  BY DEF TypeOK, RefTypes, release_reference
<1>2. trigger_ref_count' \in [Tracker -> Int]
  BY DEF TypeOK, RefTypes, release_reference
<1>3. wait_point' \in [Tracker -> [TimelineId -> AnyPoint]]
  BY AnyPointTypes DEF TypeOK, RefTypes, release_reference
<1>4. stack' \in Seq(Frame)
  BY FrameTypes, PushType DEF release_reference
<1> QED BY <1>1, <1>2, <1>3, <1>4 DEF RefTypes

\* What a step leaves alone keeps its type.
LEMMA TypesUnchanged ==
  ASSUME TypeOK
  PROVE  /\ UNCHANGED listVars => ListTypes'
         /\ UNCHANGED trackerVars => TrackerTypes'
         /\ UNCHANGED refVars => RefTypes'
         /\ UNCHANGED schedVars => SchedTypes'
         /\ UNCHANGED timerVars => TimerTypes'
         /\ UNCHANGED extVars => ExtTypes'
<1>1. UNCHANGED listVars => ListTypes'
  BY DEF TypeOK, ListTypes, listVars
<1>2. UNCHANGED trackerVars => TrackerTypes'
  BY DEF TypeOK, TrackerTypes, trackerVars
<1>3. UNCHANGED refVars => RefTypes'
  BY DEF TypeOK, RefTypes, refVars
<1>4. UNCHANGED schedVars => SchedTypes'
  BY DEF TypeOK, SchedTypes, schedVars
<1>5. UNCHANGED timerVars => TimerTypes'
  BY DEF TypeOK, TimerTypes, timerVars
<1>6. UNCHANGED extVars => ExtTypes'
  BY DEF TypeOK, ExtTypes, extVars
<1> QED BY <1>1, <1>2, <1>3, <1>4, <1>5, <1>6

\* Steps that leave points and lists alone keep TrackersListed.
LEMMA ListedUnchanged ==
  ASSUME TrackersListed, UNCHANGED <<point, tracker_list>>,
         \A t \in Tracker : phase'[t] \in {"free", "init"} => phase[t] \in {"free", "init"}
  PROVE  TrackersListed'
BY DEF TrackersListed

\* The same, when the phases do not change either.
LEMMA ListedSame ==
  ASSUME TrackersListed, UNCHANGED <<phase, point, tracker_list>>
  PROVE  TrackersListed'
BY DEF TrackersListed

\* tracker_init: the references of a new tracker.
LEMMA tracker_init_types ==
  ASSUME TypeInv, NEW t \in Tracker, tracker_init(t)
  PROVE  TypeInv'
<1> USE DEF tracker_init, TypeInv
<1>1. ListTypes' /\ stack' \in Seq(Frame) /\ SchedTypes' /\ TimerTypes' /\ ExtTypes'
  BY TypesUnchanged DEF TypeOK
<1>2. TrackerTypes'
  BY DEF TypeOK, TrackerTypes
<1>3. RefTypes'
  BY DEF TypeOK, RefTypes, Holder
<1>4. TrackersListed'
  BY ListedUnchanged DEF listVars, TypeOK, TrackerTypes
<1> QED BY <1>1, <1>2, <1>3, <1>4 DEF TypeOK

\* gp_job_create: the references of two trackers.
LEMMA gp_job_create_types ==
  ASSUME TypeInv, NEW g \in Tracker, NEW p \in Tracker, gp_job_create(g, p)
  PROVE  TypeInv'
<1> USE DEF gp_job_create, TypeInv
<1>1. ListTypes' /\ stack' \in Seq(Frame) /\ SchedTypes' /\ TimerTypes' /\ ExtTypes'
  BY TypesUnchanged DEF TypeOK
<1>2. TrackerTypes'
  BY DEF TypeOK, TrackerTypes
<1>3. RefTypes'
  <2>1. holders' \in [Tracker -> SUBSET Holder]
    BY DEF TypeOK, RefTypes, Holder
  <2>2. trigger_ref_count' \in [Tracker -> Int]
    BY DEF TypeOK, RefTypes
  <2> QED BY <2>1, <2>2 DEF TypeOK, RefTypes
<1>4. TrackersListed'
  BY ListedUnchanged DEF listVars, TypeOK, TrackerTypes
<1> QED BY <1>1, <1>2, <1>3, <1>4 DEF TypeOK

\* The waiters that create_waiters makes.
LEMMA NewHolders ==
  ASSUME NEW t \in Tracker, NEW f \in [FenceOn[t] -> AnyPoint], NEW granted,
         NEW sync \in BOOLEAN
  PROVE  /\ waits_on(t, f, granted) \subseteq TimelineId
         /\ \A x \in waits_on(t, f, granted) : f[x] \in AnyPoint
         /\ new_holders(t, f, granted, sync) \subseteq TimelineId \cup {"sync", "dma"}
         /\ new_holders(t, f, granted, sync) \cap TimelineId = waits_on(t, f, granted)
<1>1. waits_on(t, f, granted) \subseteq DOMAIN f
  BY DEF waits_on
<1>2. DOMAIN f = FenceOn[t] /\ FenceOn[t] \subseteq TimelineId
  BY TimelineAssumption
<1>3. \E d \in SUBSET {"dma"} :
        new_holders(t, f, granted, sync) =
          waits_on(t, f, granted) \cup (IF sync THEN {"sync"} ELSE {}) \cup d
  BY DEF new_holders
<1>4. "sync" \notin TimelineId /\ "dma" \notin TimelineId
  BY DEF TimelineId
<1> QED BY <1>1, <1>2, <1>3, <1>4

\* system_add_tracker: the point is not NoPoint, lists grow by a tracker or a waiter.
LEMMA add_tracker_types ==
  ASSUME TypeInv, NEW t \in Tracker, NEW f \in [FenceOn[t] -> AnyPoint],
         NEW granted, NEW sync \in BOOLEAN, add_tracker(t, f, granted, sync)
  PROVE  TypeInv'
<1> USE DEF TypeInv
<1> DEFINE tl     == Home[Kind[t]]
           served == waits_on(t, f, granted)
           added  == new_holders(t, f, granted, sync)
<1>1. /\ served \subseteq TimelineId
      /\ \A x \in served : f[x] \in AnyPoint
      /\ added \subseteq Holder
      /\ Cardinality(added) \in Nat
  BY NewHolders, HolderFinite DEF Holder
<1>2. inserted(t) => tl \in TimelineId
  BY DEF inserted
<1>3. ListTypes'
  <2>1. point_next' \in [TimelineId -> Point]
    BY <1>2, NextPoint DEF add_tracker, next_after, TypeOK, ListTypes
  <2>2. tracker_list' \in [TimelineId -> Seq(Tracker)]
    BY <1>2 DEF add_tracker, TypeOK, ListTypes
  <2>3. waiter_list' \in [TimelineId -> Seq(Tracker)]
    BY InsertWaiter DEF add_tracker, TypeOK, ListTypes
  <2>4. waiter_head_null' \in [TimelineId -> BOOLEAN]
    BY DEF add_tracker, TypeOK, ListTypes
  <2> QED BY <2>1, <2>2, <2>3, <2>4 DEF add_tracker, TypeOK, ListTypes
<1>4. TrackerTypes'
  <2>1. point' \in [Tracker -> AnyPoint]
    BY <1>2, AnyPointTypes DEF add_tracker, TypeOK, TrackerTypes, ListTypes
  <2>2. deps' \in [Tracker -> SUBSET Tracker]
    BY DEF add_tracker, TypeOK, TrackerTypes
  <2> QED BY <2>1, <2>2 DEF add_tracker, TypeOK, TrackerTypes
<1>5. RefTypes'
  <2>1. holders' \in [Tracker -> SUBSET Holder]
    BY <1>1 DEF add_tracker, TypeOK, RefTypes
  <2>2. trigger_ref_count' \in [Tracker -> Int]
    BY <1>1 DEF add_tracker, refs_after_add, TypeOK, RefTypes
  <2>3. wait_point' \in [Tracker -> [TimelineId -> AnyPoint]]
    BY <1>1, AnyPointTypes DEF add_tracker, TypeOK, RefTypes
  <2> QED BY <2>1, <2>2, <2>3 DEF RefTypes
<1>6. stack' \in Seq(Frame)
  BY FrameTypes DEF add_tracker
<1>7. SchedTypes'
  BY DEF add_tracker, count_inserted, TypeOK, SchedTypes
<1>8. TimerTypes' /\ ExtTypes'
  BY TypesUnchanged DEF add_tracker, TypeOK, ExtTypes
<1>9. TrackersListed'
  <2>1. point[t] = NoPoint /\ \A x \in TimelineId : t \notin Range(tracker_list[x])
    BY DEF add_tracker, TrackersListed
  <2>2. \A u \in Tracker : phase'[u] \in {"free", "init"} => point'[u] = NoPoint
    BY DEF add_tracker, TrackersListed, TypeOK, TrackerTypes
  <2>3. CASE ~inserted(t)
    BY <2>1, <2>2, <2>3 DEF add_tracker, TrackersListed, TypeOK, TrackerTypes
  <2>4. CASE inserted(t)
    <3>1. /\ Distinct(Append(tracker_list[tl], t))
          /\ Range(Append(tracker_list[tl], t)) = Range(tracker_list[tl]) \cup {t}
      BY <1>2, <2>1, <2>4, AppendRange DEF TypeOK, ListTypes, TrackersListed
    <3>2. /\ tracker_list' = [tracker_list EXCEPT ![tl] = Append(tracker_list[tl], t)]
          /\ point' = [point EXCEPT ![t] = point_next[tl]]
          /\ point_next[tl] # NoPoint
      BY <1>2, <2>4, PointAssumption DEF add_tracker, TypeOK, ListTypes, Point, NoPoint
    <3>3. /\ tracker_list'[tl] = Append(tracker_list[tl], t)
          /\ \A x \in TimelineId \ {tl} : tracker_list'[x] = tracker_list[x]
          /\ point'[t] # NoPoint
          /\ \A u \in Tracker \ {t} : point'[u] = point[u]
      BY <1>2, <2>4, <3>2 DEF TypeOK, ListTypes, TrackerTypes
    <3>4. \A u \in Tracker :
            point'[u] # NoPoint => /\ Home[Kind[u]] \in TimelineId
                                   /\ u \in Range(tracker_list'[Home[Kind[u]]])
      BY <1>2, <2>4, <3>1, <3>3 DEF TrackersListed
    <3>5. ASSUME NEW x \in TimelineId
          PROVE  /\ Distinct(tracker_list'[x])
                 /\ \A u \in Range(tracker_list'[x]) :
                      Home[Kind[u]] = x /\ point'[u] # NoPoint
      <4>1. Range(tracker_list[x]) \subseteq Tracker
        BY RangeOfSeq DEF TypeOK, ListTypes
      <4>2. CASE x = tl
        <5>1. /\ Distinct(tracker_list'[x])
              /\ Range(tracker_list'[x]) = Range(tracker_list[x]) \cup {t}
          BY <3>1, <3>3, <4>2
        <5>2. \A u \in Range(tracker_list[x]) : Home[Kind[u]] = x /\ point'[u] # NoPoint
          BY <2>1, <3>3, <4>1 DEF TrackersListed
        <5> QED BY <3>3, <4>2, <5>1, <5>2
      <4>3. CASE x # tl
        BY <2>1, <3>3, <4>1, <4>3 DEF TrackersListed
      <4> QED BY <4>2, <4>3
    <3> HIDE DEF tl
    <3> QED BY <2>2, <3>4, <3>5 DEF TrackersListed
  <2> QED BY <2>3, <2>4
<1> QED BY <1>3, <1>4, <1>5, <1>6, <1>7, <1>8, <1>9 DEF TypeOK

\* tracker_release: the tracker is on its list and leaves it; point_oldest stays a point.
LEMMA tracker_release_types ==
  ASSUME TypeInv, NEW t \in Tracker, tracker_release(t)
  PROVE  TypeInv'
<1> USE DEF TypeInv
<1> DEFINE tl   == Home[Kind[t]]
           list == Without(tracker_list[tl], t)
<1>1. Caller \in Seq(Frame) /\ point \in [Tracker -> AnyPoint]
  BY StackTypes DEF tracker_release, Running, OnTop, TypeOK, TrackerTypes
<1>2. TrackerTypes'
  <2>1. deps' \in [Tracker -> SUBSET Tracker]
    BY DEF tracker_release, TypeOK, TrackerTypes
  <2> QED BY <2>1, AnyPointTypes DEF tracker_release, TypeOK, TrackerTypes
<1>3. RefTypes' /\ ExtTypes'
  BY TypesUnchanged DEF tracker_release, TypeOK
<1>4. SchedTypes' /\ TimerTypes'
  BY DEF tracker_release, TypeOK, SchedTypes, TimerTypes
<1>5. CASE point[t] = NoPoint
  <2>1. ListTypes'
    BY <1>5 DEF tracker_release, TypeOK, ListTypes
  <2>2. TrackersListed'
    BY <1>1, <1>5 DEF tracker_release, TrackersListed, TypeOK, TrackerTypes
  <2>3. stack' \in Seq(Frame)
    BY <1>1, <1>5 DEF tracker_release
  <2> QED BY <1>2, <1>3, <1>4, <2>1, <2>2, <2>3 DEF TypeOK
<1>6. CASE point[t] # NoPoint
  <2>1. /\ tl \in TimelineId
        /\ tracker_list[tl] \in Seq(Tracker)
        /\ t \in Range(tracker_list[tl])
        /\ Distinct(tracker_list[tl])
    BY <1>6 DEF TrackersListed, TypeOK, ListTypes
  <2>2. /\ list \in Seq(Tracker)
        /\ Distinct(list)
        /\ Range(list) = Range(tracker_list[tl]) \ {t}
    BY <2>1, WithoutRange
  <2>3. \A u \in Range(list) :
          u \in Tracker /\ u # t /\ Home[Kind[u]] = tl /\ point[u] # NoPoint
    BY <2>1, <2>2, RangeOfSeq DEF TrackersListed
  <2>4. /\ tracker_list' = [tracker_list EXCEPT ![tl] = list]
        /\ \/ point_oldest' = point_oldest
           \/ point_oldest' = [point_oldest EXCEPT ![tl] = new_oldest(tl, list)]
        /\ point' = [point EXCEPT ![t] = NoPoint]
        /\ phase' = [phase EXCEPT ![t] = "free"]
        /\ UNCHANGED <<point_next, waiter_list, waiter_head_null>>
    BY <1>6 DEF tracker_release
  <2>5. stack' \in Seq(Frame)
    <3> DEFINE loop  == IF Head(tracker_list[tl]) = t
                        THEN <<[op |-> "update_oldest_point", timeline |-> tl]>>
                        ELSE IF tl = "SOFT"
                        THEN <<Walk(point[t], First(waiter_list[tl]))>>
                        ELSE <<>>
               timer == IF tl = "SOFT" THEN <<[op |-> "update_delayed_work"]>> ELSE <<>>
    <3>1. stack' = loop \o timer \o Caller
      BY <1>6 DEF tracker_release
    <3>2. First(waiter_list[tl]) \in Tracker \cup {NoTracker} /\ point[t] \in Point
      BY <1>1, <1>6, <2>1, FirstType, AnyPointTypes DEF TypeOK, ListTypes
    <3>3. loop \in Seq(Frame)
      BY <2>1, <3>2, FrameTypes
    <3>4. timer \in Seq(Frame)
      BY FrameTypes
    <3> HIDE DEF loop, timer
    <3> QED BY <1>1, <3>1, <3>3, <3>4, ConcatProperties
  <2> HIDE DEF tl, list
  <2>6. new_oldest(tl, list) \in Point
    <3>1. CASE list = <<>>
      BY <2>1, <3>1 DEF new_oldest, TypeOK, ListTypes
    <3>2. CASE list # <<>>
      <4>1. Head(list) \in Range(list)
        BY <2>2, <3>2, TailRange
      <4> QED BY <1>1, <2>3, <3>2, <4>1, AnyPointTypes DEF new_oldest
    <3> QED BY <3>1, <3>2
  <2>7. ListTypes'
    BY <2>1, <2>2, <2>4, <2>6 DEF TypeOK, ListTypes
  <2>8. TrackersListed'
    <3>1. /\ tracker_list'[tl] = list
          /\ \A x \in TimelineId \ {tl} : tracker_list'[x] = tracker_list[x]
          /\ point'[t] = NoPoint
          /\ \A u \in Tracker \ {t} : point'[u] = point[u] /\ phase'[u] = phase[u]
      BY <1>1, <2>1, <2>4 DEF TypeOK, ListTypes, TrackerTypes
    <3>2. \A u \in Tracker : phase'[u] \in {"free", "init"} => point'[u] = NoPoint
      BY <3>1 DEF TrackersListed
    <3>3. \A u \in Tracker :
            point'[u] # NoPoint => /\ Home[Kind[u]] \in TimelineId
                                   /\ u \in Range(tracker_list'[Home[Kind[u]]])
      BY <2>2, <3>1 DEF TrackersListed
    <3>4. ASSUME NEW x \in TimelineId
          PROVE  /\ Distinct(tracker_list'[x])
                 /\ \A u \in Range(tracker_list'[x]) :
                      Home[Kind[u]] = x /\ point'[u] # NoPoint
      <4>1. CASE x = tl
        BY <2>2, <2>3, <3>1, <4>1
      <4>2. CASE x # tl
        <5>1. \A u \in Range(tracker_list[x]) : u \in Tracker /\ u # t
          <6>1. Range(tracker_list[x]) \subseteq Tracker
            BY RangeOfSeq DEF TypeOK, ListTypes
          <6> QED BY <4>2, <6>1 DEF TrackersListed, tl
        <5> QED BY <3>1, <4>2, <5>1 DEF TrackersListed
      <4> QED BY <4>1, <4>2
    <3> QED BY <3>2, <3>3, <3>4 DEF TrackersListed
  <2> QED BY <1>2, <1>3, <1>4, <2>5, <2>7, <2>8 DEF TypeOK
<1> QED BY <1>5, <1>6

\* update_oldest_point: one waiter leaves its list.
LEMMA update_oldest_point_types ==
  ASSUME TypeInv, NEW tl \in TimelineId, update_oldest_point(tl)
  PROVE  TypeInv'
<1> USE DEF TypeInv
<1> DEFINE list == waiter_list[tl]
<1>1. /\ stack \in Seq(Frame) /\ Caller \in Seq(Frame)
      /\ list \in Seq(Tracker)
  BY StackTypes DEF update_oldest_point, OnTop, TypeOK, ListTypes
<1>2. TrackerTypes' /\ SchedTypes' /\ TimerTypes' /\ ExtTypes'
  BY TypesUnchanged DEF update_oldest_point, TypeOK
<1>3. TrackersListed'
  BY ListedSame DEF update_oldest_point, trackerVars
<1>4. CASE list = <<>> \/ OnPoint(tl, wait_point[Head(list)][tl])
  <2>1. ListTypes' /\ RefTypes' /\ stack' \in Seq(Frame)
    BY <1>1, <1>4, TypesUnchanged DEF update_oldest_point, listVars, TypeOK
  <2> QED BY <1>2, <1>3, <2>1 DEF TypeOK
<1>5. CASE ~(list = <<>> \/ OnPoint(tl, wait_point[Head(list)][tl]))
  <2>1. /\ waiter_list' = [waiter_list EXCEPT ![tl] = Tail(@)]
        /\ waiter_head_null' = [waiter_head_null EXCEPT ![tl] = @ \/ last_waiter(tl)]
        /\ release_reference(Head(list), tl, stack)
        /\ UNCHANGED <<point_next, point_oldest, tracker_list>>
    BY <1>5 DEF update_oldest_point
  <2>2. Head(list) \in Tracker /\ Tail(list) \in Seq(Tracker) /\ tl \in Holder
    BY <1>1, <1>5, HeadTailProperties DEF Holder
  <2>3. RefTypes' /\ stack' \in Seq(Frame)
    BY <1>1, <2>1, <2>2, ReleaseReferenceTypes
  <2>4. ListTypes'
    BY <2>1, <2>2 DEF TypeOK, ListTypes, last_waiter
  <2> QED BY <1>2, <1>3, <2>3, <2>4 DEF TypeOK
<1> QED BY <1>4, <1>5

\* release_with_depended_point: one waiter leaves the list, the cursor is a tracker.
LEMMA release_depended_types ==
  ASSUME TypeInv, NEW p \in Point, NEW c \in Tracker \cup {NoTracker},
         release_depended(p, c)
  PROVE  TypeInv'
<1> USE DEF TypeInv
<1> DEFINE list == waiter_list["SOFT"]
           hits == {i \in DOMAIN list :
                      /\ \E j \in 1 .. i : list[j] = c
                      /\ wait_point[list[i]]["SOFT"] = p}
           i    == Min(hits)
           more == IF i = Len(list) THEN NoTracker ELSE list[i + 1]
<1>1. /\ stack \in Seq(Frame) /\ Caller \in Seq(Frame)
      /\ list \in Seq(Tracker) /\ DOMAIN list = 1 .. Len(list) /\ Len(list) \in Nat
      /\ "SOFT" \in TimelineId /\ "SOFT" \in Holder
  BY StackTypes, LenProperties
  DEF release_depended, OnTop, TypeOK, ListTypes, TimelineId, Holder
<1>2. TrackerTypes' /\ SchedTypes' /\ TimerTypes' /\ ExtTypes'
  BY TypesUnchanged DEF release_depended, TypeOK
<1>3. TrackersListed'
  BY ListedSame DEF release_depended, trackerVars
<1>4. CASE hits = {}
  <2>1. ListTypes' /\ RefTypes' /\ stack' \in Seq(Frame)
    BY <1>1, <1>4, TypesUnchanged DEF release_depended, listVars, TypeOK
  <2> QED BY <1>2, <1>3, <2>1 DEF TypeOK
<1>5. CASE hits # {}
  <2>1. /\ waiter_list' = [waiter_list EXCEPT !["SOFT"] = RemoveAt(@, i)]
        /\ waiter_head_null' = [waiter_head_null EXCEPT !["SOFT"] = @ \/ i = Len(list)]
        /\ release_reference(list[i], "SOFT", <<Walk(p, more)>> \o Caller)
        /\ UNCHANGED <<point_next, point_oldest, tracker_list>>
    BY <1>5 DEF release_depended
  <2>2. i \in 1 .. Len(list)
    <3>1. hits \in SUBSET Nat /\ hits \subseteq 1 .. Len(list)
      BY <1>1
    <3> HIDE DEF hits
    <3> QED BY <1>5, <3>1, MinInSet
  <2> HIDE DEF hits, i
  <2>3. RemoveAt(list, i) \in Seq(Tracker)
    BY <1>1, <2>2, RemoveAtElements
  <2>4. list[i] \in Tracker /\ more \in Tracker \cup {NoTracker}
    BY <1>1, <2>2, ElementOfSeq
  <2>5. <<Walk(p, more)>> \o Caller \in Seq(Frame)
    BY <1>1, <2>4, FrameTypes, PushType
  <2>6. RefTypes' /\ stack' \in Seq(Frame)
    BY <1>1, <2>1, <2>4, <2>5, ReleaseReferenceTypes
  <2>7. ListTypes'
    BY <1>1, <2>1, <2>3 DEF TypeOK, ListTypes
  <2> QED BY <1>2, <1>3, <2>6, <2>7 DEF TypeOK
<1> QED BY <1>4, <1>5

\* update_delayed_work: only the timer changes.
LEMMA update_delayed_work_types ==
  ASSUME TypeInv, update_delayed_work
  PROVE  TypeInv'
<1> USE DEF TypeInv
<1>1. stack' \in Seq(Frame)
  BY StackTypes DEF update_delayed_work, OnTop, TypeOK
<1>2. ListTypes' /\ TrackerTypes' /\ RefTypes' /\ SchedTypes' /\ ExtTypes'
  BY TypesUnchanged DEF update_delayed_work, TypeOK
<1>3. TrackersListed'
  BY ListedSame DEF update_delayed_work, trackerVars, listVars
<1>4. TimerTypes'
  <2> DEFINE head == Head(tracker_list["SOFT"])
             active == tracker_list["SOFT"] # <<>> /\ trigger_ref_count[head] = 0
  <2>1. active => head \in Tracker
    BY HeadTailProperties DEF TypeOK, ListTypes, TimelineId
  <2>2. \/ UNCHANGED <<timeline_timer, timer_active, work_pending, armed_for>>
        \/ /\ active
           /\ timer_active' = timer_active \cup {head}
           /\ timeline_timer' = TRUE /\ work_pending' = TRUE
           /\ armed_for' = armed_for \/ armed_for' \subseteq Tracker
        \/ /\ work_pending' = FALSE /\ timeline_timer' = FALSE
           /\ UNCHANGED <<timer_active, armed_for>>
    BY DEF update_delayed_work
  <2>3. UNCHANGED <<timer_enabled, work_running, due>>
    BY DEF update_delayed_work
  <2> HIDE DEF head, active
  <2> QED BY <2>1, <2>2, <2>3 DEF TypeOK, TimerTypes
<1> QED BY <1>1, <1>2, <1>3, <1>4 DEF TypeOK

\* tracker_activate: the phase and the stack, whatever the type of the tracker.
LEMMA activate_types ==
  ASSUME TypeInv, NEW t \in Tracker, NEW frames \in Seq(Frame), activate(t, frames),
         mask' \in SUBSET {"GP", "PP"}, runnable' \in SUBSET Tracker,
         tracker_count' \in [GpuKind -> Int]
  PROVE  TypeInv'
<1> USE DEF TypeInv
<1>1. stack' \in Seq(Frame)
  BY StackTypes, ConcatProperties DEF activate, Running, OnTop, TypeOK
<1>2. ListTypes' /\ RefTypes' /\ TimerTypes' /\ ExtTypes'
  BY TypesUnchanged DEF activate, TypeOK
<1>3. TrackerTypes'
  BY DEF activate, TypeOK, TrackerTypes
<1>4. SchedTypes'
  BY DEF activate, TypeOK, SchedTypes
<1>5. TrackersListed'
  BY ListedUnchanged DEF activate, listVars, TypeOK, TrackerTypes
<1> QED BY <1>1, <1>2, <1>3, <1>4, <1>5 DEF TypeOK

\* A decrement keeps the type of the counters.
LEMMA CountDown ==
  ASSUME NEW f \in [GpuKind -> Int], NEW k
  PROVE  [f EXCEPT ![k] = f[k] - 1] \in [GpuKind -> Int]
<1>1. CASE k \in GpuKind
  BY <1>1
<1>2. CASE k \notin GpuKind
  <2>1. [f EXCEPT ![k] = f[k] - 1] = f
    BY <1>2
  <2> QED BY <2>1
<1> QED BY <1>1, <1>2

\* tracker_activate, for each type of tracker.
LEMMA activate_job_types ==
  ASSUME TypeInv, NEW t \in Tracker, NEW done \in BOOLEAN,
         activate_gp_job(t) \/ activate_pp_job(t) \/ activate_soft_job(t, done)
           \/ activate_wait(t)
  PROVE  TypeInv'
<1> USE DEF TypeInv
<1>1. /\ mask \in SUBSET {"GP", "PP"} /\ runnable \in SUBSET Tracker
      /\ tracker_count \in [GpuKind -> Int] /\ DropMask \in Frame
  BY FrameTypes DEF TypeOK, SchedTypes
<1>2. CASE activate_gp_job(t)
  <2>1. tracker_count' \in [GpuKind -> Int]
    BY <1>1, <1>2, CountDown DEF activate_gp_job
  <2>2. mask' \in SUBSET {"GP", "PP"} /\ runnable' \in SUBSET Tracker
    BY <1>1, <1>2 DEF activate_gp_job
  <2>3. \E frames \in Seq(Frame) : activate(t, frames)
    <3>1. <<Call("release", t), Call("put", t), DropMask>> \in Seq(Frame) /\ <<>> \in Seq(Frame)
      BY <1>1, FrameTypes
    <3> QED BY <1>2, <3>1 DEF activate_gp_job
  <2> QED BY <2>1, <2>2, <2>3, activate_types
<1>3. CASE activate_pp_job(t)
  <2>1. tracker_count' \in [GpuKind -> Int]
    BY <1>1, <1>3, CountDown DEF activate_pp_job
  <2>2. mask' \in SUBSET {"GP", "PP"} /\ runnable' \in SUBSET Tracker
    BY <1>1, <1>3 DEF activate_pp_job
  <2>3. \E frames \in Seq(Frame) : activate(t, frames)
    <3>1. <<Call("release", t), DropMask>> \in Seq(Frame) /\ <<>> \in Seq(Frame)
      BY <1>1, FrameTypes
    <3> QED BY <1>3, <3>1 DEF activate_pp_job
  <2> QED BY <2>1, <2>2, <2>3, activate_types
<1>4. CASE activate_soft_job(t, done)
  <2> DEFINE a == IF done THEN <<Call("release", t), Call("destroy", t)>> ELSE <<>>
             b == IF is_aborting THEN <<DropMask>> ELSE <<>>
             c == <<[op |-> "update_delayed_work"]>>
  <2>1. a \in Seq(Frame) /\ b \in Seq(Frame) /\ c \in Seq(Frame)
    BY <1>1, FrameTypes
  <2>2. activate(t, a \o b \o c) /\ UNCHANGED <<mask, runnable, tracker_count>>
    BY <1>4 DEF activate_soft_job
  <2> HIDE DEF a, b, c
  <2>3. a \o b \o c \in Seq(Frame)
    BY <2>1, ConcatProperties
  <2> QED BY <1>1, <2>2, <2>3, activate_types
<1>5. CASE activate_wait(t)
  <2>1. <<Call("release", t)>> \in Seq(Frame)
    BY FrameTypes
  <2> QED BY <1>1, <1>5, <2>1, activate_types DEF activate_wait
<1> QED BY <1>2, <1>3, <1>4, <1>5

\* tracker_put: one reference of the PP job.
LEMMA tracker_put_types ==
  ASSUME TypeInv, NEW g \in Tracker, NEW success \in BOOLEAN, NEW rest \in Seq(Frame),
         pp_tracker[g] # NoTracker, tracker_put(g, success, rest),
         schedule_due' \in BOOLEAN
  PROVE  TypeInv'
<1> USE DEF TypeInv
<1>1. pp_tracker[g] \in Tracker /\ "gp_job" \in Holder
  BY DEF TypeOK, TrackerTypes, Holder
<1>2. RefTypes' /\ stack' \in Seq(Frame)
  BY <1>1, ReleaseReferenceTypes DEF tracker_put
<1>3. ListTypes' /\ TimerTypes' /\ ExtTypes'
  BY TypesUnchanged DEF tracker_put, TypeOK
<1>4. TrackerTypes' /\ SchedTypes'
  BY <1>1 DEF tracker_put, TypeOK, TrackerTypes, SchedTypes
<1>5. TrackersListed'
  BY ListedSame DEF tracker_put, listVars
<1> QED BY <1>2, <1>3, <1>4, <1>5 DEF TypeOK

\* tracker_put within a cascade.
LEMMA put_failed_types ==
  ASSUME TypeInv, NEW g \in Tracker, put_failed(g)
  PROVE  TypeInv'
<1> USE DEF TypeInv
<1>1. Caller \in Seq(Frame) /\ schedule_due' \in BOOLEAN
  BY StackTypes DEF put_failed, Running, OnTop, TypeOK, SchedTypes
<1>2. CASE pp_tracker[g] = NoTracker
  <2>1. /\ ListTypes' /\ TrackerTypes' /\ RefTypes' /\ TimerTypes' /\ ExtTypes'
        /\ stack' \in Seq(Frame)
    BY <1>1, <1>2, TypesUnchanged DEF put_failed, TypeOK
  <2>2. SchedTypes'
    BY <1>2 DEF put_failed, TypeOK, SchedTypes
  <2>3. TrackersListed'
    BY <1>2, ListedSame DEF put_failed, trackerVars, listVars
  <2> QED BY <2>1, <2>2, <2>3 DEF TypeOK
<1>3. CASE pp_tracker[g] # NoTracker
  BY <1>1, <1>3, tracker_put_types DEF put_failed
<1> QED BY <1>2, <1>3

\* The mask is the one of the caller again.
LEMMA drop_mask_types == ASSUME TypeInv, drop_mask PROVE TypeInv'
<1> USE DEF TypeInv
<1>1. stack' \in Seq(Frame) /\ mask' \in SUBSET {"GP", "PP"}
  BY StackTypes, FrameFields DEF drop_mask, OnTop, TypeOK
<1>2. ListTypes' /\ TrackerTypes' /\ RefTypes' /\ TimerTypes' /\ ExtTypes'
  BY TypesUnchanged DEF drop_mask, TypeOK
<1>3. SchedTypes'
  BY <1>1 DEF drop_mask, TypeOK, SchedTypes
<1>4. TrackersListed'
  BY ListedSame DEF drop_mask, trackerVars, listVars
<1> QED BY <1>1, <1>2, <1>3, <1>4 DEF TypeOK

\* The soft job system destroys a job.
LEMMA soft_job_destroy_types ==
  ASSUME TypeInv, NEW t \in Tracker, soft_job_destroy(t) PROVE TypeInv'
<1> USE DEF TypeInv
<1>1. stack' \in Seq(Frame)
  BY StackTypes DEF soft_job_destroy, Running, OnTop, TypeOK
<1>2. /\ ListTypes' /\ TrackerTypes' /\ RefTypes' /\ SchedTypes' /\ TimerTypes'
      /\ ExtTypes'
  BY TypesUnchanged DEF soft_job_destroy, TypeOK
<1>3. TrackersListed'
  BY ListedSame DEF soft_job_destroy, trackerVars, listVars
<1> QED BY <1>1, <1>2, <1>3 DEF TypeOK

\* The time-out ends.
LEMMA end_timeout_types ==
  ASSUME TypeInv, NEW t \in Tracker, end_timeout(t) PROVE TypeInv'
<1> USE DEF TypeInv
<1>1. stack' \in Seq(Frame)
  BY StackTypes DEF end_timeout, Running, OnTop, TypeOK
<1>2. ListTypes' /\ TrackerTypes' /\ RefTypes' /\ SchedTypes' /\ ExtTypes'
  BY TypesUnchanged DEF end_timeout, TypeOK
<1>3. TimerTypes'
  BY DEF end_timeout, TypeOK, TimerTypes
<1>4. TrackersListed'
  BY ListedSame DEF end_timeout, trackerVars, listVars
<1> QED BY <1>1, <1>2, <1>3, <1>4 DEF TypeOK

\* The lock is released.
LEMMA unlock_types == ASSUME TypeInv, unlock PROVE TypeInv'
<1> USE DEF TypeInv
<1>1. stack' \in Seq(Frame) /\ Head(stack) \in Frame
  BY StackTypes DEF unlock, OnTop, TypeOK
<1>2. ListTypes' /\ TrackerTypes' /\ RefTypes' /\ ExtTypes'
  BY TypesUnchanged DEF unlock, TypeOK
<1>3. SchedTypes'
  <2>1. schedule_due' \in BOOLEAN
    BY DEF unlock, TypeOK, SchedTypes
  <2> QED BY <2>1 DEF unlock, TypeOK, SchedTypes
<1>4. TimerTypes'
  BY DEF unlock, TypeOK, TimerTypes
<1>5. TrackersListed'
  BY ListedSame DEF unlock, trackerVars, listVars
<1> QED BY <1>1, <1>2, <1>3, <1>4, <1>5 DEF TypeOK

\* Steps that start with a new stack: the lock was free.
LEMMA lock_types ==
  ASSUME TypeInv, NEW frames \in Seq(Frame), lock(frames), TimerTypes', ExtTypes'
  PROVE  TypeInv'
<1> USE DEF TypeInv
<1>1. ListTypes' /\ TrackerTypes' /\ RefTypes' /\ SchedTypes' /\ stack' \in Seq(Frame)
  BY TypesUnchanged DEF lock, TypeOK
<1>2. TrackersListed'
  BY ListedSame DEF lock, trackerVars, listVars
<1> QED BY <1>1, <1>2 DEF TypeOK

\* A cascade starts with tracker_release.
LEMMA complete_job_types ==
  ASSUME TypeInv, NEW t \in Tracker, complete_job(t) \/ soft_release(t)
  PROVE  TypeInv'
<1>1. TimerTypes' /\ ExtTypes'
  BY TypesUnchanged DEF complete_job, soft_release, TypeInv
<1>2. \A how \in {"mask", "always", "never"} :
        <<Call("release", t), Unlock(how)>> \in Seq(Frame)
  BY FrameTypes
<1>3. \E how \in {"mask", "always", "never"} : lock(<<Call("release", t), Unlock(how)>>)
  BY DEF complete_job, soft_release
<1> QED BY <1>1, <1>2, <1>3, lock_types

\* A cascade starts with tracker_put.
LEMMA signal_pp_tracker_types ==
  ASSUME TypeInv, NEW g \in Tracker, NEW success \in BOOLEAN,
         signal_pp_tracker(g, success)
  PROVE  TypeInv'
<1>1. <<Unlock("always")>> \in Seq(Frame)
  BY FrameTypes
<1>2. schedule_due' \in BOOLEAN
  BY DEF signal_pp_tracker, TypeInv, TypeOK, SchedTypes
<1> QED BY <1>1, <1>2, tracker_put_types DEF signal_pp_tracker

\* A sync or dma fence signals.
LEMMA fence_callback_types ==
  ASSUME TypeInv, NEW t \in Tracker,
         sync_fence_callback(t) \/ do_sync_fence_callback(t) \/ dma_fence_callback(t)
  PROVE  TypeInv'
<1> USE DEF TypeInv
<1>1. CASE sync_fence_callback(t)
  <2>1. /\ ListTypes' /\ TrackerTypes' /\ RefTypes' /\ SchedTypes' /\ TimerTypes'
        /\ stack' \in Seq(Frame)
    BY <1>1, TypesUnchanged DEF sync_fence_callback, TypeOK
  <2>2. ExtTypes'
    BY <1>1 DEF sync_fence_callback, TypeOK, ExtTypes
  <2>3. TrackersListed'
    BY <1>1, ListedSame DEF sync_fence_callback, trackerVars, listVars
  <2> QED BY <2>1, <2>2, <2>3 DEF TypeOK
<1>2. CASE do_sync_fence_callback(t)
  <2>1. ListTypes' /\ TrackerTypes' /\ SchedTypes' /\ TimerTypes'
    BY <1>2, TypesUnchanged DEF do_sync_fence_callback, TypeOK
  <2>2. ExtTypes'
    BY <1>2 DEF do_sync_fence_callback, TypeOK, ExtTypes
  <2>3. TrackersListed'
    BY <1>2, ListedSame DEF do_sync_fence_callback, trackerVars, listVars
  <2>4. /\ "sync" \in Holder
        /\ \A how \in {"mask", "never"} : <<Unlock(how)>> \in Seq(Frame)
    BY FrameTypes DEF Holder
  <2>5. \E how \in {"mask", "never"} : release_reference(t, "sync", <<Unlock(how)>>)
    BY <1>2 DEF do_sync_fence_callback
  <2>6. RefTypes' /\ stack' \in Seq(Frame)
    BY <2>4, <2>5, ReleaseReferenceTypes
  <2> QED BY <2>1, <2>2, <2>3, <2>6 DEF TypeOK
<1>3. CASE dma_fence_callback(t)
  <2>1. ListTypes' /\ TrackerTypes' /\ SchedTypes' /\ TimerTypes'
    BY <1>3, TypesUnchanged DEF dma_fence_callback, TypeOK
  <2>2. ExtTypes'
    BY <1>3 DEF dma_fence_callback, TypeOK, ExtTypes
  <2>3. TrackersListed'
    BY <1>3, ListedSame DEF dma_fence_callback, trackerVars, listVars
  <2>4. /\ "dma" \in Holder
        /\ \A how \in {"mask", "never"} : <<Unlock(how)>> \in Seq(Frame)
    BY FrameTypes DEF Holder
  <2>5. \E how \in {"mask", "never"} : release_reference(t, "dma", <<Unlock(how)>>)
    BY <1>3 DEF dma_fence_callback
  <2>6. RefTypes' /\ stack' \in Seq(Frame)
    BY <2>4, <2>5, ReleaseReferenceTypes
  <2> QED BY <2>1, <2>2, <2>3, <2>6 DEF TypeOK
<1> QED BY <1>1, <1>2, <1>3

\* The delayed work runs.
LEMMA timer_callback_types ==
  ASSUME TypeInv, NEW done \in BOOLEAN, timer_callback(done)
  PROVE  TypeInv'
<1> USE DEF TypeInv
<1> DEFINE tail  == First(tracker_list["SOFT"])
           fires == timer_enabled /\ tail \in timer_active /\ tail \in due
           call  == <<Call("release", tail), Call("destroy", tail)>>
           end   == <<Call("end_timeout", tail), UnlockTimer>>
<1>1. ListTypes' /\ TrackerTypes' /\ RefTypes' /\ SchedTypes' /\ ExtTypes'
  BY TypesUnchanged DEF timer_callback, TypeOK
<1>2. TimerTypes'
  BY DEF timer_callback, TypeOK, TimerTypes
<1>3. TrackersListed'
  BY ListedSame DEF timer_callback, trackerVars, listVars
<1>4. /\ stack' = IF ~fires THEN <<>> ELSE IF done THEN call \o end ELSE end
      /\ fires => tail \in Tracker
  BY DEF timer_callback, TypeOK, TimerTypes
<1>5. fires => call \in Seq(Frame) /\ end \in Seq(Frame)
  BY <1>4, FrameTypes
<1>6. stack' \in Seq(Frame)
  <2> HIDE DEF fires, call, end
  <2> QED BY <1>4, <1>5, ConcatProperties
<1> QED BY <1>1, <1>2, <1>3, <1>6 DEF TypeOK

\* Steps that take no part in a cascade.
LEMMA other_types ==
  ASSUME TypeInv,
         \/ timer_expires \/ executor_schedule \/ abort \/ stop_timer \/ cancel_work_sync
         \/ \E t \in Tracker : time_passes(t)
         \/ UNCHANGED vars
  PROVE  TypeInv'
<1> USE DEF TypeInv
<1>1. /\ UNCHANGED <<trackerVars, refVars, listVars, stack>>
      /\ UNCHANGED schedVars \/ executor_schedule
      /\ UNCHANGED extVars \/ abort
  BY DEF timer_expires, executor_schedule, abort, stop_timer, cancel_work_sync,
         time_passes, vars
<1>2. ListTypes' /\ TrackerTypes' /\ RefTypes' /\ stack' \in Seq(Frame)
  BY <1>1, TypesUnchanged DEF TypeOK
<1>3. SchedTypes'
  BY <1>1, TypesUnchanged DEF executor_schedule, TypeOK, SchedTypes
<1>4. ExtTypes'
  BY <1>1, TypesUnchanged DEF abort, TypeOK, ExtTypes
<1>5. TimerTypes'
  <2>1. CASE UNCHANGED timerVars
    BY <2>1, TypesUnchanged
  <2>2. CASE timer_expires
    BY <2>2 DEF timer_expires, TypeOK, TimerTypes
  <2>3. CASE stop_timer \/ cancel_work_sync
    BY <2>3 DEF stop_timer, cancel_work_sync, TypeOK, TimerTypes
  <2>4. ASSUME NEW t \in Tracker, time_passes(t) PROVE TimerTypes'
    BY <2>4 DEF time_passes, TypeOK, TimerTypes
  <2> QED BY <2>1, <2>2, <2>3, <2>4 DEF executor_schedule, abort, vars
<1>6. TrackersListed'
  BY <1>1, ListedSame DEF trackerVars, listVars
<1> QED BY <1>2, <1>3, <1>4, <1>5, <1>6 DEF TypeOK

\* Every step keeps the types.
LEMMA TypeNext == TypeInv /\ [Next]_vars => TypeInv'
<1> SUFFICES ASSUME TypeInv, [Next]_vars PROVE TypeInv'
  OBVIOUS
<1>1. CASE Ioctl
  <2>1. ASSUME NEW t \in Tracker, add_tracker_any(t) PROVE TypeInv'
    BY <2>1, add_tracker_types DEF add_tracker_any
  <2> QED BY <1>1, <2>1, tracker_init_types, gp_job_create_types DEF Ioctl
<1>2. CASE Locked
  BY <1>2, update_oldest_point_types, release_depended_types, tracker_release_types,
     activate_job_types, put_failed_types, soft_job_destroy_types, end_timeout_types,
     update_delayed_work_types, drop_mask_types, unlock_types DEF Locked
<1>3. CASE Owner
  BY <1>3, complete_job_types, signal_pp_tracker_types, fence_callback_types
  DEF Owner, Device
<1>4. CASE Timer
  BY <1>4, other_types, timer_callback_types DEF Timer
<1>5. CASE executor_schedule \/ Close \/ UNCHANGED vars
  BY <1>5, other_types DEF Close
<1> QED BY <1>1, <1>2, <1>3, <1>4, <1>5 DEF Next

\* Every variable keeps its type, whatever the jobs, the fences and the interleaving:
\* in particular 0 (NO_POINT) is never handed out as a point, and the cascade only
\* unlinks trackers that are on the list (insert_tracker, tracker_release).
THEOREM TypeCorrect == Spec => []TypeOK
<1>1. TypeInv => TypeOK
  BY DEF TypeInv
<1> QED BY <1>1, TypeInit, TypeNext, PTL DEF Spec

------------------------------------------------------------------------------
(* trigger_ref_count is exact, so an activated tracker waits for nothing and *)
(* no count is decremented below 0.  RefInv is the inductive invariant: it   *)
(* says for each place from which a reference can be given back (a waiter    *)
(* list, the queue of signaled sync fences, a GP job) that the reference is  *)
(* there, and for the thread that holds the lock which tracker it may        *)
(* activate or release.                                                      *)

\* The references that a tracker has in each phase.  Without references it is on
\* its way to tracker_activate.
PhaseHolders ==
  \A t \in Tracker :
    /\ phase[t] \in {"free", "active"} => holders[t] = {}
    /\ phase[t] = "init" => "init" \in holders[t] /\ holders[t] \subseteq {"init", "gp_job"}
    /\ phase[t] = "waiting" /\ holders[t] = {} => Running("activate", t)

\* A tracker on a waiter list holds the reference of that waiter, and it is there once.
WaitersHold ==
  \A tl \in TimelineId :
    /\ Distinct(waiter_list[tl])
    /\ \A t \in Range(waiter_list[tl]) : tl \in holders[t]

SyncHolds == \A t \in sync_queue : "sync" \in holders[t]

\* A GP job holds the reference of its PP job, and no other GP job holds it.
GpJobHolds ==
  \A g \in Tracker :
    pp_tracker[g] # NoTracker =>
      /\ "gp_job" \in holders[pp_tracker[g]]
      /\ \A h \in Tracker : pp_tracker[h] = pp_tracker[g] => h = g

\* Frames that are neither tracker_activate nor tracker_release.
Quiet(s) == \A i \in DOMAIN s : s[i].op \notin {"activate", "release"}

\* tracker_activate and tracker_release are called one at a time: for a tracker
\* without references, and for one that is active.
CallsOK ==
  /\ stack # <<>> => Quiet(Caller)
  /\ \A t \in Tracker : Running("activate", t) => phase[t] = "waiting" /\ holders[t] = {}
  /\ \A t \in Tracker : Running("release", t) => phase[t] = "active"

\* Only active trackers are timed.
TimedActive == \A t \in timer_active : phase[t] = "active"

RefInv ==
  /\ TypeInv
  /\ RefCountExact
  /\ PhaseHolders
  /\ WaitersHold
  /\ SyncHolds
  /\ GpJobHolds
  /\ CallsOK
  /\ TimedActive

------------------------------------------------------------------------------
(* The stack                                                                 *)

\* Quiet stacks concatenate.
LEMMA QuietConcat ==
  ASSUME NEW a \in Seq(Frame), NEW b \in Seq(Frame), Quiet(a), Quiet(b)
  PROVE  a \o b \in Seq(Frame) /\ Quiet(a \o b)
<1>1. a \o b \in Seq(Frame) /\ Len(a \o b) = Len(a) + Len(b)
  BY ConcatProperties
<1>2. ASSUME NEW i \in DOMAIN (a \o b)
      PROVE  (a \o b)[i].op \notin {"activate", "release"}
  <2>1. i \in 1 .. Len(a) + Len(b)
    BY <1>1, LenProperties
  <2>2. (a \o b)[i] = IF i <= Len(a) THEN a[i] ELSE b[i - Len(a)]
    BY <2>1, ConcatProperties
  <2>3. CASE i <= Len(a)
    BY <2>1, <2>2, <2>3, LenProperties DEF Quiet
  <2>4. CASE i > Len(a)
    <3>1. i - Len(a) \in DOMAIN b
      BY <2>1, <2>4, LenProperties
    <3> QED BY <2>1, <2>2, <2>4, <3>1, LenProperties DEF Quiet
  <2> QED BY <2>1, <2>3, <2>4, LenProperties
<1> QED BY <1>1, <1>2 DEF Quiet

\* The parts of a quiet stack.
LEMMA QuietTail ==
  ASSUME NEW s \in Seq(Frame), Quiet(s), s # <<>>
  PROVE  Head(s).op \notin {"activate", "release"} /\ Quiet(Tail(s))
BY DEF Quiet

\* Frames that may be anywhere on the stack.
LEMMA QuietFrames ==
  /\ Quiet(<<>>)
  /\ \A t \in Tracker, op \in {"put", "destroy", "end_timeout"} : Quiet(<<Call(op, t)>>)
  /\ \A how \in {"mask", "always", "never"} : Quiet(<<Unlock(how)>>)
  /\ \A tl \in TimelineId : Quiet(<<[op |-> "update_oldest_point", timeline |-> tl]>>)
  /\ \A p \in Point, c \in Tracker \cup {NoTracker} : Quiet(<<Walk(p, c)>>)
  /\ Quiet(<<[op |-> "update_delayed_work"]>>)
  /\ Quiet(<<UnlockTimer>>)
  /\ Quiet(<<DropMask>>)
BY DEF Quiet, Call, Unlock, Walk, UnlockTimer, DropMask

\* When the function on top is not one of the two, no tracker is being activated or
\* released anywhere on the stack.
LEMMA QuietStack ==
  ASSUME RefInv, stack # <<>>, Head(stack).op \notin {"activate", "release"}
  PROVE  Quiet(stack) /\ Quiet(Caller)
<1>1. stack \in Seq(Frame) /\ Quiet(Tail(stack))
  BY DEF RefInv, TypeInv, TypeOK, CallsOK, Caller
<1>2. ASSUME NEW i \in DOMAIN stack PROVE stack[i].op \notin {"activate", "release"}
  <2>1. i \in 1 .. Len(stack) /\ Len(stack) \in Nat
    BY <1>1, LenProperties
  <2>2. CASE i = 1
    BY <2>2
  <2>3. CASE i # 1
    <3>1. /\ i - 1 \in 1 .. Len(Tail(stack)) /\ stack[i] = Tail(stack)[i - 1]
          /\ Tail(stack) \in Seq(Frame)
      BY <1>1, <2>1, <2>3
    <3>2. i - 1 \in DOMAIN Tail(stack)
      BY <3>1, LenProperties
    <3> QED BY <1>1, <3>1, <3>2 DEF Quiet
  <2> QED BY <2>2, <2>3
<1> QED BY <1>1, <1>2 DEF Quiet, Caller

\* A quiet stack activates and releases nothing.
LEMMA CallsQuiet ==
  ASSUME stack' \in Seq(Frame), Quiet(stack')
  PROVE  CallsOK' /\ \A t \in Tracker : ~Running("activate", t)'
BY QuietTail DEF CallsOK, Running, OnTop, Caller

\* The stack with the call of op on tracker t on top.
LEMMA CallsTop ==
  ASSUME NEW t \in Tracker, NEW rest \in Seq(Frame), Quiet(rest),
         NEW op \in {"activate", "release"}, stack' = <<Call(op, t)>> \o rest,
         op = "activate" => phase'[t] = "waiting" /\ holders'[t] = {},
         op = "release" => phase'[t] = "active"
  PROVE  CallsOK' /\ Running(op, t)'
<1>1. /\ stack' # <<>> /\ Head(stack') = Call(op, t) /\ Tail(stack') = rest
  BY FrameTypes
<1>2. Call(op, t).op = op /\ Call(op, t).tracker = t
  BY DEF Call
<1>3. \A u \in Tracker, o \in {"activate", "release"} :
        Running(o, u)' => o = op /\ u = t
  BY <1>1, <1>2 DEF Running, OnTop
<1>4. Running(op, t)'
  BY <1>1, <1>2 DEF Running, OnTop
<1> QED BY <1>1, <1>3, <1>4 DEF CallsOK, Caller

------------------------------------------------------------------------------
(* The references                                                            *)

\* Steps that leave the references alone.
LEMMA RefsSame ==
  ASSUME RefInv,
         UNCHANGED <<holders, trigger_ref_count, pp_tracker, waiter_list, sync_queue>>
  PROVE  RefCountExact' /\ WaitersHold' /\ SyncHolds' /\ GpJobHolds'
BY DEF RefInv, RefCountExact, WaitersHold, SyncHolds, GpJobHolds

\* Steps that leave holders and phases alone.
LEMMA PhasesSame ==
  ASSUME RefInv, UNCHANGED <<holders, phase>>, stack' = stack \/ \A t \in Tracker : ~Running("activate", t)
  PROVE  PhaseHolders'
BY DEF RefInv, PhaseHolders, Running, OnTop

\* No tracker is about to be activated unless tracker_activate is on top.
LEMMA NotActivating ==
  ASSUME stack = <<>> \/ Head(stack).op # "activate"
  PROVE  \A t \in Tracker : ~Running("activate", t)
BY DEF Running, OnTop

\* Giving back a reference that is there: it was counted, and if it was the last one
\* the tracker, which had been added, is activated.
LEMMA DropReference ==
  ASSUME RefInv, NEW t \in Tracker, NEW h \in Holder, h # "init", h \in holders[t],
         NEW rest \in Seq(Frame), Quiet(rest),
         stack = <<>> \/ Head(stack).op # "activate",
         release_reference(t, h, rest), phase' = phase
  PROVE  /\ holders' = [holders EXCEPT ![t] = holders[t] \ {h}]
         /\ RefCountExact' /\ PhaseHolders' /\ CallsOK'
<1> USE DEF RefInv
<1>1. /\ holders \in [Tracker -> SUBSET Holder]
      /\ trigger_ref_count \in [Tracker -> Int]
      /\ phase \in [Tracker -> {"free", "init", "waiting", "active"}]
  BY DEF TypeInv, TypeOK, RefTypes, TrackerTypes
<1>2. /\ holders' = [holders EXCEPT ![t] = holders[t] \ {h}]
      /\ trigger_ref_count' = [trigger_ref_count EXCEPT ![t] = trigger_ref_count[t] - 1]
      /\ stack' = IF last_reference(t) THEN <<Call("activate", t)>> \o rest ELSE rest
  BY DEF release_reference
<1>3. /\ IsFiniteSet(holders[t])
      /\ Cardinality(holders[t] \ {h}) = Cardinality(holders[t]) - 1
      /\ IsFiniteSet(holders[t] \ {h})
  BY <1>1, HolderFinite, FS_RemoveElement
<1>4. RefCountExact'
  BY <1>1, <1>2, <1>3 DEF RefCountExact
<1>5. last_reference(t) <=> holders[t] \ {h} = {}
  <2>1. trigger_ref_count[t] = Cardinality(holders[t])
    BY DEF RefCountExact
  <2>2. Cardinality(holders[t] \ {h}) = 0 <=> holders[t] \ {h} = {}
    BY <1>3, FS_EmptySet
  <2>3. Cardinality(holders[t]) \in Int
    BY <1>1, <2>1
  <2> QED BY <1>3, <2>1, <2>2, <2>3 DEF last_reference
<1>6. phase[t] \in {"init", "waiting"}
  BY <1>1 DEF PhaseHolders
<1>7. phase[t] = "init" => "init" \in holders[t] \ {h} /\ ~last_reference(t)
  BY <1>5 DEF PhaseHolders
<1>8. CallsOK' /\ (last_reference(t) => Running("activate", t)')
  <2>1. CASE last_reference(t)
    <3>1. stack' = <<Call("activate", t)>> \o rest /\ phase'[t] = "waiting"
      BY <1>2, <1>6, <1>7, <2>1
    <3>2. holders'[t] = {}
      BY <1>1, <1>2, <1>5, <2>1
    <3> QED BY <3>1, <3>2, CallsTop
  <2>2. CASE ~last_reference(t)
    BY <1>2, <2>2, CallsQuiet
  <2> QED BY <2>1, <2>2
<1>9. PhaseHolders'
  <2>1. ASSUME NEW u \in Tracker, u # t
        PROVE  /\ holders'[u] = holders[u]
               /\ ~(phase[u] = "waiting" /\ holders[u] = {})
    BY <1>1, <1>2, <2>1, NotActivating DEF PhaseHolders
  <2>2. holders'[t] = holders[t] \ {h}
    BY <1>1, <1>2
  <2>3. \A u \in Tracker :
          /\ phase[u] \in {"free", "active"} => holders'[u] = {}
          /\ phase[u] = "init" => "init" \in holders'[u] /\ holders'[u] \subseteq {"init", "gp_job"}
    BY <1>6, <1>7, <2>1, <2>2 DEF PhaseHolders
  <2>4. \A u \in Tracker : phase[u] = "waiting" /\ holders'[u] = {} => Running("activate", u)'
    BY <1>5, <1>8, <2>1, <2>2
  <2> QED BY <2>3, <2>4 DEF PhaseHolders
<1> QED BY <1>2, <1>4, <1>8, <1>9

------------------------------------------------------------------------------
(* Preservation of RefInv; TypeInv' comes from TypeNext                      *)

\* The invariant holds initially: nobody holds a reference.
LEMMA RefInit == Init => RefInv
<1> SUFFICES ASSUME Init PROVE RefInv
  OBVIOUS
<1>1. TypeInv
  BY TypeInit
<1>2. RefCountExact
  BY FS_EmptySet DEF Init, RefCountExact
<1>3. PhaseHolders
  BY DEF Init, PhaseHolders
<1>4. WaitersHold
  BY EmptyList DEF Init, WaitersHold
<1>5. SyncHolds /\ GpJobHolds /\ TimedActive
  BY DEF Init, SyncHolds, GpJobHolds, TimedActive
<1>6. CallsOK
  BY DEF Init, CallsOK, Running, OnTop
<1> QED BY <1>1, <1>2, <1>3, <1>4, <1>5, <1>6 DEF RefInv

\* Steps that change neither phases nor references, and no activation is under way
\* or the stack stays.
LEMMA SameRefs ==
  ASSUME RefInv, TypeInv', CallsOK',
         UNCHANGED <<phase, holders, trigger_ref_count, pp_tracker, waiter_list, sync_queue>>,
         stack' = stack \/ stack = <<>> \/ Head(stack).op # "activate",
         \A t \in timer_active' : phase[t] = "active"
  PROVE  RefInv'
<1>1. RefCountExact' /\ WaitersHold' /\ SyncHolds' /\ GpJobHolds'
  BY RefsSame
<1>2. PhaseHolders'
  BY PhasesSame, NotActivating
<1>3. TimedActive'
  BY DEF TimedActive
<1> QED BY <1>1, <1>2, <1>3 DEF RefInv

\* A return from a call that is neither tracker_activate nor tracker_release.
LEMMA ReturnRefs ==
  ASSUME RefInv, TypeInv', stack # <<>>, stack' = Caller,
         Head(stack).op \notin {"activate", "release"},
         UNCHANGED <<phase, holders, trigger_ref_count, pp_tracker, waiter_list, sync_queue>>,
         \A t \in timer_active' : phase[t] = "active"
  PROVE  RefInv'
<1>1. CallsOK'
  BY QuietStack, CallsQuiet, StackTypes DEF TypeInv, TypeOK
<1> QED BY <1>1, SameRefs

\* tracker_init: the initial reference.
LEMMA tracker_init_refs ==
  ASSUME RefInv, TypeInv', NEW t \in Tracker, tracker_init(t)
  PROVE  RefInv'
<1> USE DEF RefInv
<1>1. /\ holders \in [Tracker -> SUBSET Holder]
      /\ trigger_ref_count \in [Tracker -> Int]
      /\ phase \in [Tracker -> {"free", "init", "waiting", "active"}]
  BY DEF TypeInv, TypeOK, RefTypes, TrackerTypes
<1>2. /\ phase[t] = "free" /\ holders[t] = {}
      /\ phase' = [phase EXCEPT ![t] = "init"]
      /\ holders' = [holders EXCEPT ![t] = {"init"}]
      /\ trigger_ref_count' = [trigger_ref_count EXCEPT ![t] = 1]
      /\ UNCHANGED <<stack, pp_tracker, waiter_list, timer_active, sync_queue>>
  BY DEF tracker_init, PhaseHolders, listVars, timerVars, extVars
<1>3. RefCountExact'
  BY <1>1, <1>2, FS_Singleton DEF RefCountExact
<1>4. PhaseHolders'
  BY <1>1, <1>2 DEF PhaseHolders, Running, OnTop
<1>5. WaitersHold' /\ SyncHolds' /\ GpJobHolds'
  <2>1. \A tl \in TimelineId : Range(waiter_list[tl]) \subseteq Tracker
    BY RangeOfSeq DEF TypeInv, TypeOK, ListTypes
  <2>2. \A u \in Tracker : u # t => holders'[u] = holders[u]
    BY <1>1, <1>2
  <2>3. WaitersHold'
    BY <1>2, <2>1, <2>2 DEF WaitersHold
  <2>4. sync_queue \subseteq Tracker /\ pp_tracker \in [Tracker -> Tracker \cup {NoTracker}]
    BY DEF TypeInv, TypeOK, ExtTypes, TrackerTypes
  <2>5. SyncHolds'
    BY <1>2, <2>2, <2>4 DEF SyncHolds
  <2>6. GpJobHolds'
    BY <1>2, <2>2, <2>4 DEF GpJobHolds
  <2> QED BY <2>3, <2>5, <2>6
<1>6. CallsOK'
  BY <1>1, <1>2 DEF CallsOK, Running, OnTop, Caller
<1>7. TimedActive'
  BY <1>1, <1>2 DEF TimedActive, TypeInv, TypeOK, TimerTypes
<1> QED BY <1>3, <1>4, <1>5, <1>6, <1>7

\* gp_job_create: the PP tracker gets one more reference.
LEMMA gp_job_create_refs ==
  ASSUME RefInv, TypeInv', NEW g \in Tracker, NEW p \in Tracker, gp_job_create(g, p)
  PROVE  RefInv'
<1> USE DEF RefInv
<1>1. /\ holders \in [Tracker -> SUBSET Holder]
      /\ trigger_ref_count \in [Tracker -> Int]
      /\ phase \in [Tracker -> {"free", "init", "waiting", "active"}]
      /\ pp_tracker \in [Tracker -> Tracker \cup {NoTracker}]
  BY DEF TypeInv, TypeOK, RefTypes, TrackerTypes
<1>2. /\ stack = <<>> /\ phase[g] = "free" /\ holders[g] = {} /\ pp_tracker[g] = NoTracker
      /\ phase[p] = "init" /\ "gp_job" \notin holders[p] /\ g # p
      /\ phase' = [phase EXCEPT ![g] = "init"]
      /\ pp_tracker' = [pp_tracker EXCEPT ![g] = p]
      /\ holders' = [holders EXCEPT ![g] = {"init"}, ![p] = @ \cup {"gp_job"}]
      /\ trigger_ref_count' = [trigger_ref_count EXCEPT ![g] = 1, ![p] = @ + 1]
      /\ UNCHANGED <<stack, waiter_list, timer_active, sync_queue>>
  BY DEF gp_job_create, PhaseHolders, LockFree, listVars, timerVars, extVars
<1>3. /\ holders'[g] = {"init"} /\ holders'[p] = holders[p] \cup {"gp_job"}
      /\ \A u \in Tracker \ {g, p} : holders'[u] = holders[u]
  BY <1>1, <1>2
<1>4. RefCountExact'
  <2>1. IsFiniteSet(holders[p])
    BY <1>1, HolderFinite
  <2>2. Cardinality(holders[p] \cup {"gp_job"}) = Cardinality(holders[p]) + 1
    BY <1>2, <2>1, FS_AddElement
  <2>3. /\ trigger_ref_count'[g] = 1 /\ trigger_ref_count'[p] = trigger_ref_count[p] + 1
        /\ \A u \in Tracker \ {g, p} : trigger_ref_count'[u] = trigger_ref_count[u]
    BY <1>1, <1>2
  <2>4. Cardinality({"init"}) = 1
    BY FS_Singleton
  <2> QED BY <1>3, <2>2, <2>3, <2>4 DEF RefCountExact
<1>5. PhaseHolders'
  BY <1>1, <1>2, <1>3 DEF PhaseHolders, Running, OnTop
<1>6. WaitersHold'
  <2>1. \A tl \in TimelineId : Range(waiter_list[tl]) \subseteq Tracker
    BY RangeOfSeq DEF TypeInv, TypeOK, ListTypes
  <2> QED BY <1>2, <1>3, <2>1 DEF WaitersHold
<1>7. SyncHolds'
  BY <1>2, <1>3 DEF SyncHolds, TypeInv, TypeOK, ExtTypes
<1>8. GpJobHolds'
  <2>1. \A h \in Tracker \ {g} : pp_tracker'[h] = pp_tracker[h] /\ pp_tracker[h] # p
    BY <1>1, <1>2, TimelineAssumption DEF GpJobHolds
  <2>2. pp_tracker'[g] = p
    BY <1>1, <1>2
  <2>3. \A h \in Tracker \ {g} :
          pp_tracker[h] # NoTracker => "gp_job" \in holders'[pp_tracker[h]]
    BY <1>1, <1>2, <1>3 DEF GpJobHolds
  <2> QED BY <1>3, <2>1, <2>2, <2>3 DEF GpJobHolds
<1>9. CallsOK' /\ TimedActive'
  BY <1>1, <1>2 DEF CallsOK, Running, OnTop, TimedActive, TypeInv, TypeOK, TimerTypes
<1> QED BY <1>4, <1>5, <1>6, <1>7, <1>8, <1>9

\* system_add_tracker: one reference for each waiter, less the initial one.
LEMMA add_tracker_refs ==
  ASSUME RefInv, TypeInv', NEW t \in Tracker, NEW f \in [FenceOn[t] -> AnyPoint],
         NEW granted, NEW sync \in BOOLEAN, add_tracker(t, f, granted, sync)
  PROVE  RefInv'
<1> USE DEF RefInv
<1> DEFINE served == waits_on(t, f, granted)
           added  == new_holders(t, f, granted, sync)
           kept   == holders[t] \ {"init"}
<1>1. /\ holders \in [Tracker -> SUBSET Holder]
      /\ trigger_ref_count \in [Tracker -> Int]
      /\ phase \in [Tracker -> {"free", "init", "waiting", "active"}]
  BY DEF TypeInv, TypeOK, RefTypes, TrackerTypes
<1>2. /\ served \subseteq TimelineId
      /\ \A x \in served : f[x] \in AnyPoint
      /\ added \subseteq TimelineId \cup {"sync", "dma"}
      /\ served \subseteq added
  BY NewHolders
<1>3. /\ stack = <<>> /\ phase[t] = "init"
      /\ phase' = [phase EXCEPT ![t] = "waiting"]
      /\ holders' = [holders EXCEPT ![t] = kept \cup added]
      /\ trigger_ref_count' =
           [trigger_ref_count EXCEPT ![t] = trigger_ref_count[t] + Cardinality(added) - 1]
      /\ waiter_list' = [x \in TimelineId |->
                           IF x \in served THEN insert_waiter(x, t, f[x])
                           ELSE waiter_list[x]]
      /\ stack' = IF trigger_ref_count'[t] = 0
                  THEN <<Call("activate", t), Unlock("mask")>> ELSE <<Unlock("mask")>>
      /\ UNCHANGED <<pp_tracker, timer_active, sync_queue>>
  BY Zenon DEF add_tracker, refs_after_add, timerVars, LockFree
<1>4. "init" \in holders[t] /\ holders[t] \subseteq {"init", "gp_job"}
  BY <1>3 DEF PhaseHolders
<1> HIDE DEF served, added
<1>5. /\ IsFiniteSet(kept \cup added)
      /\ Cardinality(kept \cup added) = Cardinality(holders[t]) - 1 + Cardinality(added)
  <2>1. IsFiniteSet(holders[t]) /\ IsFiniteSet(added)
    BY <1>1, <1>2, HolderFinite DEF Holder
  <2>2. IsFiniteSet(kept) /\ Cardinality(kept) = Cardinality(holders[t]) - 1
    BY <1>4, <2>1, FS_RemoveElement
  <2>3. kept \cap added = {}
    BY <1>2, <1>4 DEF TimelineId
  <2>4. Cardinality(kept \cap added) = 0
    BY <2>3, FS_EmptySet
  <2>5. /\ IsFiniteSet(kept \cup added)
        /\ Cardinality(kept \cup added)
             = Cardinality(kept) + Cardinality(added) - Cardinality(kept \cap added)
    BY <2>1, <2>2, FS_Union
  <2>6. Cardinality(holders[t]) \in Int /\ Cardinality(added) \in Int
    BY <2>1, FS_CardinalityType
  <2> QED BY <2>2, <2>4, <2>5, <2>6
<1>6. /\ holders'[t] = kept \cup added
      /\ \A u \in Tracker \ {t} : holders'[u] = holders[u]
  BY <1>1, <1>3
<1>7. trigger_ref_count'[t] = Cardinality(kept \cup added)
  <2>1. IsFiniteSet(added) /\ IsFiniteSet(holders[t])
    BY <1>1, <1>2, HolderFinite DEF Holder
  <2>2. Cardinality(added) \in Int /\ Cardinality(holders[t]) \in Int
    BY <2>1, FS_CardinalityType
  <2> QED BY <1>1, <1>3, <1>5, <2>2 DEF RefCountExact
<1> HIDE DEF kept
<1>8. RefCountExact'
  BY <1>1, <1>3, <1>6, <1>7 DEF RefCountExact
<1>9. CallsOK' /\ (holders'[t] = {} => Running("activate", t)')
  <2>1. trigger_ref_count'[t] = 0 <=> kept \cup added = {}
    BY <1>5, <1>7, FS_EmptySet
  <2>2. CASE trigger_ref_count'[t] = 0
    <3>1. /\ stack' = <<Call("activate", t)>> \o <<Unlock("mask")>>
          /\ <<Unlock("mask")>> \in Seq(Frame) /\ Quiet(<<Unlock("mask")>>)
      BY <1>3, <2>2, FrameTypes, QuietFrames
    <3>2. phase'[t] = "waiting" /\ holders'[t] = {}
      BY <1>1, <1>3, <1>6, <2>1, <2>2
    <3> QED BY <3>1, <3>2, CallsTop
  <2>3. CASE trigger_ref_count'[t] # 0
    <3>1. stack' \in Seq(Frame) /\ Quiet(stack')
      BY <1>3, <2>3, FrameTypes, QuietFrames
    <3> QED BY <1>6, <2>1, <2>3, <3>1, CallsQuiet
  <2> QED BY <2>2, <2>3
<1>10. PhaseHolders'
  <2>1. \A u \in Tracker \ {t} : phase'[u] = phase[u]
                                 /\ ~(phase[u] = "waiting" /\ holders[u] = {})
    BY <1>1, <1>3, NotActivating DEF PhaseHolders
  <2>2. phase'[t] = "waiting"
    BY <1>1, <1>3
  <2> QED BY <1>6, <1>9, <2>1, <2>2 DEF PhaseHolders
<1>11. WaitersHold'
  <2>1. \A x \in TimelineId : t \notin Range(waiter_list[x]) /\ Distinct(waiter_list[x])
    BY <1>4 DEF WaitersHold, TimelineId
  <2>2. ASSUME NEW x \in TimelineId
        PROVE  Distinct(waiter_list'[x]) /\ \A u \in Range(waiter_list'[x]) : x \in holders'[u]
    <3>1. \A u \in Range(waiter_list[x]) : u \in Tracker \ {t} /\ x \in holders[u]
      BY <2>1, RangeOfSeq DEF WaitersHold, TypeInv, TypeOK, ListTypes
    <3>2. CASE x \in served
      <4>1. waiter_list'[x] = insert_waiter(x, t, f[x]) /\ f[x] \in AnyPoint
        BY <1>2, <1>3, <3>2
      <4>2. /\ Distinct(waiter_list'[x])
            /\ Range(waiter_list'[x]) \subseteq Range(waiter_list[x]) \cup {t}
        BY <2>1, <4>1, InsertWaiter DEF TypeInv, TypeOK
      <4>3. x \in holders'[t]
        BY <1>2, <1>6, <3>2
      <4> QED BY <1>6, <3>1, <4>2, <4>3
    <3>3. CASE x \notin served
      BY <1>3, <1>6, <2>1, <3>1, <3>3
    <3> QED BY <3>2, <3>3
  <2> QED BY <2>2 DEF WaitersHold
<1>12. SyncHolds'
  <2>1. t \notin sync_queue /\ sync_queue \subseteq Tracker
    BY <1>4 DEF SyncHolds, TypeInv, TypeOK, ExtTypes
  <2> QED BY <1>3, <1>6, <2>1 DEF SyncHolds
<1>13. GpJobHolds'
  <2>1. "gp_job" \in holders[t] => "gp_job" \in holders'[t]
    BY <1>6 DEF kept
  <2>2. pp_tracker \in [Tracker -> Tracker \cup {NoTracker}]
    BY DEF TypeInv, TypeOK, TrackerTypes
  <2> QED BY <1>3, <1>6, <2>1, <2>2 DEF GpJobHolds
<1>14. TimedActive'
  BY <1>1, <1>3 DEF TimedActive, TypeInv, TypeOK, TimerTypes
<1> QED BY <1>8, <1>9, <1>10, <1>11, <1>12, <1>13, <1>14

\* tracker_release: a tracker that is gone holds nothing.
LEMMA tracker_release_refs ==
  ASSUME RefInv, TypeInv', NEW t \in Tracker, tracker_release(t)
  PROVE  RefInv'
<1> USE DEF RefInv
<1> DEFINE tl    == Home[Kind[t]]
           loop  == IF Head(tracker_list[tl]) = t
                    THEN <<[op |-> "update_oldest_point", timeline |-> tl]>>
                    ELSE IF tl = "SOFT"
                    THEN <<Walk(point[t], First(waiter_list[tl]))>>
                    ELSE <<>>
           timer == IF tl = "SOFT" THEN <<[op |-> "update_delayed_work"]>> ELSE <<>>
<1>1. /\ phase[t] = "active" /\ stack # <<>>
      /\ Caller \in Seq(Frame) /\ Quiet(Caller)
      /\ Head(stack).op = "release"
  BY StackTypes DEF tracker_release, Running, OnTop, CallsOK, TypeInv, TypeOK
<1>2. /\ phase' = [phase EXCEPT ![t] = "free"]
      /\ timer_active' = timer_active \ {t}
      /\ UNCHANGED <<holders, trigger_ref_count, pp_tracker, waiter_list, sync_queue>>
  BY DEF tracker_release, refVars, extVars
<1>3. RefCountExact' /\ WaitersHold' /\ SyncHolds' /\ GpJobHolds'
  BY <1>2, RefsSame
<1>4. PhaseHolders'
  <2>1. \A u \in Tracker : ~(phase[u] = "waiting" /\ holders[u] = {})
    BY <1>1, NotActivating DEF PhaseHolders
  <2>2. phase \in [Tracker -> {"free", "init", "waiting", "active"}]
    BY DEF TypeInv, TypeOK, TrackerTypes
  <2> QED BY <1>1, <1>2, <2>1, <2>2 DEF PhaseHolders
<1>5. CallsOK'
  <2>1. CASE point[t] = NoPoint
    <3>1. stack' = Caller
      BY <2>1 DEF tracker_release
    <3> QED BY <1>1, <3>1, CallsQuiet
  <2>2. CASE point[t] # NoPoint
    <3>1. stack' = loop \o timer \o Caller
      BY <2>2 DEF tracker_release
    <3>2. /\ tl \in TimelineId /\ point[t] \in Point
          /\ First(waiter_list[tl]) \in Tracker \cup {NoTracker}
      BY <2>2, AnyPointTypes, FirstType
      DEF TypeInv, TypeOK, TrackersListed, TrackerTypes, ListTypes
    <3>3. loop \in Seq(Frame) /\ timer \in Seq(Frame)
      BY <3>2, FrameTypes
    <3>4. Quiet(loop) /\ Quiet(timer)
      BY <3>2, QuietFrames
    <3> HIDE DEF loop, timer
    <3>5. loop \o timer \in Seq(Frame) /\ Quiet(loop \o timer)
      BY <3>3, <3>4, QuietConcat
    <3>6. stack' \in Seq(Frame) /\ Quiet(stack')
      BY <1>1, <3>1, <3>5, QuietConcat
    <3> QED BY <3>6, CallsQuiet
  <2> QED BY <2>1, <2>2
<1>6. TimedActive'
  <2>1. phase \in [Tracker -> {"free", "init", "waiting", "active"}] /\ timer_active \subseteq Tracker
    BY DEF TypeInv, TypeOK, TrackerTypes, TimerTypes
  <2> QED BY <1>2, <2>1 DEF TimedActive
<1> QED BY <1>3, <1>4, <1>5, <1>6

\* A waiter leaves the list of timeline tl and gives its reference back.
LEMMA DropWaiter ==
  ASSUME RefInv, TypeInv', NEW tl \in TimelineId, NEW t \in Range(waiter_list[tl]),
         NEW rest \in Seq(Frame), Quiet(rest), Head(stack).op # "activate",
         release_reference(t, tl, rest),
         NEW list, Distinct(list), Range(list) = Range(waiter_list[tl]) \ {t},
         waiter_list' = [waiter_list EXCEPT ![tl] = list],
         UNCHANGED <<phase, pp_tracker, sync_queue, timer_active>>
  PROVE  RefInv'
<1> USE DEF RefInv
<1>1. /\ t \in Tracker /\ tl \in holders[t]
      /\ \A x \in TimelineId : Range(waiter_list[x]) \subseteq Tracker
      /\ tl \in Holder /\ tl # "init" /\ tl # "gp_job" /\ tl # "sync"
      /\ holders \in [Tracker -> SUBSET Holder]
      /\ DOMAIN waiter_list = TimelineId
  BY RangeOfSeq
  DEF WaitersHold, TypeInv, TypeOK, ListTypes, RefTypes, Holder, TimelineId
<1>2. /\ holders' = [holders EXCEPT ![t] = holders[t] \ {tl}]
      /\ RefCountExact' /\ PhaseHolders' /\ CallsOK'
  BY <1>1, DropReference
<1>3. /\ holders'[t] = holders[t] \ {tl}
      /\ \A u \in Tracker \ {t} : holders'[u] = holders[u]
  BY <1>1, <1>2
<1>4. WaitersHold'
  <2>1. ASSUME NEW x \in TimelineId
        PROVE  Distinct(waiter_list'[x]) /\ \A u \in Range(waiter_list'[x]) : x \in holders'[u]
    <3>1. CASE x = tl
      <4>1. waiter_list'[x] = list
        BY <1>1, <3>1
      <4> QED BY <1>1, <1>3, <3>1, <4>1 DEF WaitersHold
    <3>2. CASE x # tl
      <4>1. waiter_list'[x] = waiter_list[x]
        BY <1>1, <3>2
      <4> QED BY <1>1, <1>3, <3>2, <4>1 DEF WaitersHold
    <3> QED BY <3>1, <3>2
  <2> QED BY <2>1 DEF WaitersHold
<1>5. SyncHolds'
  BY <1>1, <1>3 DEF SyncHolds, TypeInv, TypeOK, ExtTypes
<1>6. GpJobHolds'
  BY <1>1, <1>3 DEF GpJobHolds, TypeInv, TypeOK, TrackerTypes
<1>7. TimedActive'
  BY DEF TimedActive
<1> QED BY <1>2, <1>4, <1>5, <1>6, <1>7

\* update_oldest_point: the waiter that is unlinked gives its reference back.
LEMMA update_oldest_point_refs ==
  ASSUME RefInv, TypeInv', NEW tl \in TimelineId, update_oldest_point(tl)
  PROVE  RefInv'
<1> DEFINE list == waiter_list[tl]
<1>1. /\ stack # <<>> /\ Head(stack).op = "update_oldest_point"
      /\ stack \in Seq(Frame) /\ list \in Seq(Tracker)
      /\ Quiet(stack)
  BY QuietStack DEF update_oldest_point, OnTop, RefInv, TypeInv, TypeOK, ListTypes
<1>2. UNCHANGED <<phase, pp_tracker, sync_queue, timer_active>>
  BY DEF update_oldest_point, trackerVars, timerVars, extVars
<1>3. CASE list = <<>> \/ OnPoint(tl, wait_point[Head(list)][tl])
  <2>1. stack' = Caller /\ UNCHANGED <<holders, trigger_ref_count, waiter_list>>
    BY <1>3 DEF update_oldest_point, refVars
  <2> QED BY <1>1, <1>2, <2>1, ReturnRefs DEF RefInv, TimedActive
<1>4. CASE ~(list = <<>> \/ OnPoint(tl, wait_point[Head(list)][tl]))
  <2>1. /\ waiter_list' = [waiter_list EXCEPT ![tl] = Tail(list)]
        /\ release_reference(Head(list), tl, stack)
    BY <1>4 DEF update_oldest_point
  <2>2. /\ Head(list) \in Range(list)
        /\ Distinct(Tail(list)) /\ Range(Tail(list)) = Range(list) \ {Head(list)}
    BY <1>1, <1>4, TailRange DEF RefInv, WaitersHold
  <2> HIDE DEF list
  <2> QED BY <1>1, <1>2, <2>1, <2>2, DropWaiter DEF list
<1> QED BY <1>3, <1>4

\* release_with_depended_point: the same for the waiters of one point.
LEMMA release_depended_refs ==
  ASSUME RefInv, TypeInv', NEW p \in Point, NEW c \in Tracker \cup {NoTracker},
         release_depended(p, c)
  PROVE  RefInv'
<1> DEFINE list == waiter_list["SOFT"]
           hits == {i \in DOMAIN list :
                      /\ \E j \in 1 .. i : list[j] = c
                      /\ wait_point[list[i]]["SOFT"] = p}
           i    == Min(hits)
           more == IF i = Len(list) THEN NoTracker ELSE list[i + 1]
<1>1. /\ stack # <<>> /\ Head(stack).op = "release_depended"
      /\ Caller \in Seq(Frame) /\ Quiet(Caller)
      /\ list \in Seq(Tracker) /\ DOMAIN list = 1 .. Len(list) /\ Len(list) \in Nat
      /\ "SOFT" \in TimelineId
  BY QuietStack, StackTypes, LenProperties
  DEF release_depended, OnTop, RefInv, TypeInv, TypeOK, ListTypes, TimelineId
<1>2. UNCHANGED <<phase, pp_tracker, sync_queue, timer_active>>
  BY DEF release_depended, trackerVars, timerVars, extVars
<1>3. CASE hits = {}
  <2>1. stack' = Caller /\ UNCHANGED <<holders, trigger_ref_count, waiter_list>>
    BY <1>3 DEF release_depended, refVars
  <2> QED BY <1>1, <1>2, <2>1, ReturnRefs DEF RefInv, TimedActive
<1>4. CASE hits # {}
  <2>1. /\ waiter_list' = [waiter_list EXCEPT !["SOFT"] = RemoveAt(@, i)]
        /\ release_reference(list[i], "SOFT", <<Walk(p, more)>> \o Caller)
    BY <1>4 DEF release_depended
  <2>2. i \in 1 .. Len(list)
    <3>1. hits \in SUBSET Nat /\ hits \subseteq 1 .. Len(list)
      BY <1>1
    <3> HIDE DEF hits
    <3> QED BY <1>4, <3>1, MinInSet
  <2> HIDE DEF hits, i
  <2>3. /\ Distinct(RemoveAt(list, i))
        /\ Range(RemoveAt(list, i)) = Range(list) \ {list[i]}
    BY <1>1, <2>2, RemoveAtRange DEF RefInv, WaitersHold
  <2>4. /\ list[i] \in Tracker /\ list[i] \in Range(list)
        /\ more \in Tracker \cup {NoTracker}
    BY <1>1, <2>2, ElementOfSeq DEF Range
  <2> HIDE DEF more
  <2>5. <<Walk(p, more)>> \o Caller \in Seq(Frame) /\ Quiet(<<Walk(p, more)>> \o Caller)
    <3>1. <<Walk(p, more)>> \in Seq(Frame) /\ Quiet(<<Walk(p, more)>>)
      BY <2>4, FrameTypes, QuietFrames
    <3> QED BY <1>1, <3>1, QuietConcat
  <2>6. waiter_list' = [waiter_list EXCEPT !["SOFT"] = RemoveAt(list, i)]
    BY <2>1
  <2> HIDE DEF list
  <2> QED BY <1>1, <1>2, <2>1, <2>3, <2>4, <2>5, <2>6, DropWaiter DEF list
<1> QED BY <1>3, <1>4

\* The tail of the SOFT timeline that update_delayed_work times is active: it has no
\* reference left, and no activation is under way.
LEMMA update_delayed_work_refs ==
  ASSUME RefInv, TypeInv', update_delayed_work
  PROVE  RefInv'
<1> DEFINE head == Head(tracker_list["SOFT"])
           active == tracker_list["SOFT"] # <<>> /\ trigger_ref_count[head] = 0
<1>1. /\ stack # <<>> /\ Head(stack).op = "update_delayed_work" /\ stack' = Caller
      /\ UNCHANGED <<phase, holders, trigger_ref_count, pp_tracker, waiter_list, sync_queue>>
  BY DEF update_delayed_work, OnTop, trackerVars, refVars, listVars, extVars
<1>2. timer_active' = timer_active \/ (active /\ timer_active' = timer_active \cup {head})
  BY DEF update_delayed_work
<1>3. ASSUME active PROVE phase[head] = "active"
  <2>1. head \in Range(tracker_list["SOFT"]) /\ head \in Tracker
    <3>1. tracker_list["SOFT"] \in Seq(Tracker) /\ Distinct(tracker_list["SOFT"])
      BY DEF RefInv, TypeInv, TypeOK, ListTypes, TrackersListed, TimelineId
    <3> QED BY <1>3, <3>1, TailRange, RangeOfSeq
  <2>2. phase[head] \in {"waiting", "active"}
    <3>1. "SOFT" \in TimelineId
      BY DEF TimelineId
    <3>2. point[head] # NoPoint
      BY <2>1, <3>1 DEF RefInv, TypeInv, TrackersListed
    <3> QED BY <2>1, <3>2 DEF RefInv, TypeInv, TypeOK, TrackerTypes, TrackersListed
  <2>3. holders[head] = {}
    <3>1. IsFiniteSet(holders[head])
      BY <2>1, HolderFinite DEF RefInv, TypeInv, TypeOK, RefTypes
    <3>2. Cardinality(holders[head]) = 0
      BY <1>3, <2>1 DEF RefInv, RefCountExact
    <3> QED BY <3>1, <3>2, FS_EmptySet
  <2>4. ~Running("activate", head)
    BY <1>1 DEF Running, OnTop
  <2> QED BY <2>1, <2>2, <2>3, <2>4 DEF RefInv, PhaseHolders
<1> HIDE DEF head, active
<1>4. \A t \in timer_active' : phase[t] = "active"
  BY <1>2, <1>3 DEF RefInv, TimedActive
<1> QED BY <1>1, <1>4, ReturnRefs

\* tracker_activate, with or without a release of the tracker on the spot.
LEMMA ActivateRefs ==
  ASSUME RefInv, TypeInv', NEW t \in Tracker, NEW q \in Seq(Frame), Quiet(q),
         activate(t, q) \/ activate(t, <<Call("release", t)>> \o q)
  PROVE  RefInv'
<1> USE DEF RefInv
<1>1. /\ phase[t] = "waiting" /\ holders[t] = {}
      /\ Caller \in Seq(Frame) /\ Quiet(Caller)
      /\ phase \in [Tracker -> {"free", "init", "waiting", "active"}]
  BY StackTypes DEF activate, Running, OnTop, CallsOK, TypeInv, TypeOK, TrackerTypes
<1>2. /\ phase' = [phase EXCEPT ![t] = "active"]
      /\ UNCHANGED <<holders, trigger_ref_count, pp_tracker, waiter_list, sync_queue,
                     timer_active>>
  BY DEF activate, refVars, listVars, timerVars, extVars
<1>3. RefCountExact' /\ WaitersHold' /\ SyncHolds' /\ GpJobHolds'
  BY <1>2, RefsSame
<1>4. PhaseHolders'
  <2>1. ASSUME NEW u \in Tracker, u # t
        PROVE  phase'[u] = phase[u] /\ ~(phase[u] = "waiting" /\ holders[u] = {})
    BY <1>1, <1>2, <2>1 DEF PhaseHolders, activate, Running, OnTop
  <2>2. phase'[t] = "active"
    BY <1>1, <1>2
  <2> QED BY <1>1, <1>2, <2>1, <2>2 DEF PhaseHolders
<1>5. CallsOK'
  <2>1. q \o Caller \in Seq(Frame) /\ Quiet(q \o Caller)
    BY <1>1, QuietConcat
  <2>2. CASE activate(t, q)
    BY <2>1, <2>2, CallsQuiet DEF activate
  <2>3. CASE activate(t, <<Call("release", t)>> \o q)
    <3>1. stack' = (<<Call("release", t)>> \o q) \o Caller
      BY <2>3 DEF activate
    <3>2. <<Call("release", t)>> \in Seq(Frame)
      BY FrameTypes
    <3>3. (<<Call("release", t)>> \o q) \o Caller = <<Call("release", t)>> \o (q \o Caller)
      BY <1>1, <3>2, ConcatAssociative
    <3>4. phase'[t] = "active"
      BY <1>1, <1>2
    <3> HIDE DEF Caller
    <3> QED BY <2>1, <3>1, <3>3, <3>4, CallsTop
  <2> QED BY <2>2, <2>3
<1>6. TimedActive'
  BY <1>1, <1>2 DEF TimedActive, TypeInv, TypeOK, TimerTypes
<1> QED BY <1>3, <1>4, <1>5, <1>6

\* tracker_activate: only without references, and once.
LEMMA activate_job_refs ==
  ASSUME RefInv, TypeInv', NEW t \in Tracker, NEW done \in BOOLEAN,
         activate_gp_job(t) \/ activate_pp_job(t) \/ activate_soft_job(t, done)
           \/ activate_wait(t)
  PROVE  RefInv'
<1>1. /\ <<>> \in Seq(Frame) /\ Quiet(<<>>)
      /\ <<DropMask>> \in Seq(Frame) /\ Quiet(<<DropMask>>)
      /\ <<Call("put", t)>> \in Seq(Frame) /\ Quiet(<<Call("put", t)>>)
      /\ <<Call("destroy", t)>> \in Seq(Frame) /\ Quiet(<<Call("destroy", t)>>)
      /\ <<Call("release", t)>> \in Seq(Frame)
      /\ <<[op |-> "update_delayed_work"]>> \in Seq(Frame)
      /\ Quiet(<<[op |-> "update_delayed_work"]>>)
  <2>1. DropMask \in Frame /\ [op |-> "update_delayed_work"] \in Frame
    BY FrameTypes DEF RefInv, TypeInv, TypeOK, SchedTypes
  <2>2. Call("put", t) \in Frame /\ Call("destroy", t) \in Frame /\ Call("release", t) \in Frame
    BY FrameTypes
  <2>3. \A fr \in Frame : <<fr>> \in Seq(Frame)
    OBVIOUS
  <2>4. <<>> \in Seq(Frame)
    OBVIOUS
  <2>5. Quiet(<<Call("put", t)>>) /\ Quiet(<<Call("destroy", t)>>)
    BY QuietFrames
  <2>6. Quiet(<<>>) /\ Quiet(<<DropMask>>) /\ Quiet(<<[op |-> "update_delayed_work"]>>)
    BY QuietFrames
  <2> HIDE DEF DropMask
  <2> QED BY <2>1, <2>2, <2>3, <2>4, <2>5, <2>6, Zenon
<1>2. CASE activate_gp_job(t)
  <2> DEFINE q == <<Call("put", t)>> \o <<DropMask>>
  <2>1. q \in Seq(Frame) /\ Quiet(q)
    BY <1>1, QuietConcat
  <2>2. <<Call("release", t), Call("put", t), DropMask>> = <<Call("release", t)>> \o q
    BY <1>1
  <2>3. activate(t, <<>>) \/ activate(t, <<Call("release", t)>> \o q)
    BY <1>2, <2>2 DEF activate_gp_job
  <2> HIDE DEF q
  <2> QED BY <1>1, <2>1, <2>3, ActivateRefs
<1>3. CASE activate_pp_job(t)
  <2>1. <<Call("release", t), DropMask>> = <<Call("release", t)>> \o <<DropMask>>
    BY <1>1
  <2>2. activate(t, <<>>) \/ activate(t, <<Call("release", t)>> \o <<DropMask>>)
    BY <1>3, <2>1 DEF activate_pp_job
  <2> QED BY <1>1, <2>2, ActivateRefs
<1>4. CASE activate_soft_job(t, done)
  <2> DEFINE b == IF is_aborting THEN <<DropMask>> ELSE <<>>
             c == <<[op |-> "update_delayed_work"]>>
             q == (<<Call("destroy", t)>> \o b) \o c
  <2>1. b \in Seq(Frame) /\ Quiet(b) /\ c \in Seq(Frame) /\ Quiet(c)
    BY <1>1
  <2>2. activate(t, (IF done THEN <<Call("release", t), Call("destroy", t)>> ELSE <<>>) \o b \o c)
    BY <1>4 DEF activate_soft_job
  <2> HIDE DEF b, c
  <2>3. b \o c \in Seq(Frame) /\ Quiet(b \o c) /\ q \in Seq(Frame) /\ Quiet(q)
    BY <1>1, <2>1, QuietConcat
  <2>4. CASE done
    <3>1. <<Call("release", t), Call("destroy", t)>> = <<Call("release", t)>> \o <<Call("destroy", t)>>
      BY <1>1
    <3>2. <<Call("release", t), Call("destroy", t)>> \o b \o c = <<Call("release", t)>> \o q
      BY <1>1, <2>1, <3>1, ConcatAssociative, ConcatProperties
    <3>3. activate(t, <<Call("release", t)>> \o q)
      BY <2>2, <2>4, <3>2
    <3> HIDE DEF q
    <3> QED BY <2>3, <3>3, ActivateRefs
  <2>5. CASE ~done
    <3>1. <<>> \o b \o c = b \o c
      BY <2>1
    <3>2. activate(t, b \o c)
      BY <2>2, <2>5, <3>1
    <3> QED BY <2>3, <3>2, ActivateRefs
  <2> QED BY <2>4, <2>5
<1>5. CASE activate_wait(t)
  <2>1. <<Call("release", t)>> = <<Call("release", t)>> \o <<>>
    BY <1>1
  <2> QED BY <1>1, <1>5, <2>1, ActivateRefs DEF activate_wait
<1> QED BY <1>2, <1>3, <1>4, <1>5

\* tracker_put: the GP job gives its reference back and forgets the PP tracker.
LEMMA tracker_put_refs ==
  ASSUME RefInv, TypeInv', NEW g \in Tracker, NEW success \in BOOLEAN,
         NEW rest \in Seq(Frame), Quiet(rest), stack = <<>> \/ Head(stack).op # "activate",
         pp_tracker[g] # NoTracker, tracker_put(g, success, rest)
  PROVE  RefInv'
<1> USE DEF RefInv
<1> DEFINE p == pp_tracker[g]
<1>1. /\ p \in Tracker /\ "gp_job" \in holders[p] /\ "gp_job" \in Holder
      /\ pp_tracker \in [Tracker -> Tracker \cup {NoTracker}]
      /\ holders \in [Tracker -> SUBSET Holder]
  BY DEF GpJobHolds, TypeInv, TypeOK, TrackerTypes, RefTypes, Holder
<1>2. /\ pp_tracker' = [pp_tracker EXCEPT ![g] = NoTracker]
      /\ release_reference(p, "gp_job", rest)
      /\ UNCHANGED <<phase, waiter_list, timer_active, sync_queue>>
  BY DEF tracker_put, listVars, timerVars, extVars
<1>3. /\ holders' = [holders EXCEPT ![p] = holders[p] \ {"gp_job"}]
      /\ RefCountExact' /\ PhaseHolders' /\ CallsOK'
  BY <1>1, <1>2, DropReference
<1>4. /\ holders'[p] = holders[p] \ {"gp_job"}
      /\ \A u \in Tracker \ {p} : holders'[u] = holders[u]
  BY <1>1, <1>3
<1>5. WaitersHold' /\ SyncHolds'
  <2>1. \A x \in TimelineId : x # "gp_job" /\ Range(waiter_list[x]) \subseteq Tracker
    BY RangeOfSeq DEF TypeInv, TypeOK, ListTypes, TimelineId
  <2>2. WaitersHold'
    BY <1>2, <1>4, <2>1 DEF WaitersHold
  <2>3. SyncHolds'
    BY <1>2, <1>4 DEF SyncHolds, TypeInv, TypeOK, ExtTypes
  <2> QED BY <2>2, <2>3
<1>6. GpJobHolds'
  <2>1. \A h \in Tracker \ {g} : pp_tracker'[h] = pp_tracker[h] /\ pp_tracker[h] # p
    BY <1>1, <1>2 DEF GpJobHolds
  <2>2. pp_tracker'[g] = NoTracker
    BY <1>1, <1>2
  <2> HIDE DEF p
  <2> QED BY <1>1, <1>4, <2>1, <2>2 DEF GpJobHolds
<1>7. TimedActive'
  BY <1>2 DEF TimedActive
<1> QED BY <1>3, <1>5, <1>6, <1>7

\* tracker_put, from outside and within a cascade.
LEMMA put_refs ==
  ASSUME RefInv, TypeInv', NEW g \in Tracker, NEW success \in BOOLEAN,
         put_failed(g) \/ signal_pp_tracker(g, success)
  PROVE  RefInv'
<1>1. CASE put_failed(g)
  <2>1. /\ stack # <<>> /\ Head(stack).op = "put"
        /\ Caller \in Seq(Frame) /\ Quiet(Caller)
    BY <1>1, QuietStack, StackTypes DEF put_failed, Running, OnTop, RefInv, TypeInv, TypeOK
  <2>2. CASE pp_tracker[g] = NoTracker
    <3>1. /\ stack' = Caller
          /\ UNCHANGED <<phase, holders, trigger_ref_count, pp_tracker, waiter_list,
                         sync_queue, timer_active>>
      BY <1>1, <2>2 DEF put_failed, trackerVars, refVars, listVars, timerVars, extVars
    <3> QED BY <2>1, <3>1, ReturnRefs DEF RefInv, TimedActive
  <2>3. CASE pp_tracker[g] # NoTracker
    <3>1. tracker_put(g, FALSE, Caller)
      BY <1>1, <2>3 DEF put_failed
    <3> QED BY <2>1, <2>3, <3>1, tracker_put_refs
  <2> QED BY <2>2, <2>3
<1>2. CASE signal_pp_tracker(g, success)
  <2>1. <<Unlock("always")>> \in Seq(Frame) /\ Quiet(<<Unlock("always")>>)
    BY FrameTypes, QuietFrames
  <2>2. /\ stack = <<>> /\ pp_tracker[g] # NoTracker
        /\ tracker_put(g, success, <<Unlock("always")>>)
    BY <1>2 DEF signal_pp_tracker, LockFree
  <2> QED BY <2>1, <2>2, tracker_put_refs
<1> QED BY <1>1, <1>2

\* Calls that change neither lists nor references.
LEMMA return_refs ==
  ASSUME RefInv, TypeInv',
         \/ drop_mask \/ unlock
         \/ \E t \in Tracker : soft_job_destroy(t) \/ end_timeout(t)
  PROVE  RefInv'
<1>1. /\ stack # <<>> /\ Head(stack).op \notin {"activate", "release"} /\ stack' = Caller
      /\ UNCHANGED <<phase, holders, trigger_ref_count, pp_tracker, waiter_list, sync_queue>>
      /\ timer_active' \subseteq timer_active
  BY DEF drop_mask, unlock, soft_job_destroy, end_timeout, Running, OnTop, trackerVars,
         refVars, listVars, extVars, timerVars
<1>2. \A t \in timer_active' : phase[t] = "active"
  BY <1>1 DEF RefInv, TimedActive
<1> QED BY <1>1, <1>2, ReturnRefs

\* Calls of tracker_release from outside: the tracker is active.
LEMMA release_call_refs ==
  ASSUME RefInv, TypeInv', NEW t \in Tracker, complete_job(t) \/ soft_release(t)
  PROVE  RefInv'
<1>1. PICK how \in {"mask", "always", "never"} :
        stack' = <<Call("release", t), Unlock(how)>>
  BY DEF complete_job, soft_release, lock
<1>2. /\ stack = <<>> /\ phase[t] = "active"
      /\ UNCHANGED <<phase, holders, trigger_ref_count, pp_tracker, waiter_list,
                     sync_queue, timer_active>>
  BY DEF complete_job, soft_release, lock, LockFree, trackerVars, refVars, listVars,
         timerVars, extVars
<1>3. CallsOK'
  <2>1. <<Unlock(how)>> \in Seq(Frame) /\ Quiet(<<Unlock(how)>>)
    BY FrameTypes, QuietFrames
  <2>2. stack' = <<Call("release", t)>> \o <<Unlock(how)>>
    BY <1>1
  <2> QED BY <1>2, <2>1, <2>2, CallsTop
<1> QED BY <1>2, <1>3, SameRefs DEF RefInv, TimedActive

\* A sync or dma fence gives its reference back once.
LEMMA fence_callback_refs ==
  ASSUME RefInv, TypeInv', NEW t \in Tracker,
         sync_fence_callback(t) \/ do_sync_fence_callback(t) \/ dma_fence_callback(t)
  PROVE  RefInv'
<1> USE DEF RefInv
<1>1. /\ \A x \in TimelineId : Range(waiter_list[x]) \subseteq Tracker
      /\ \A x \in TimelineId : x # "sync" /\ x # "dma"
      /\ holders \in [Tracker -> SUBSET Holder]
      /\ pp_tracker \in [Tracker -> Tracker \cup {NoTracker}]
      /\ sync_queue \subseteq Tracker
      /\ \A how \in {"mask", "never"} : <<Unlock(how)>> \in Seq(Frame) /\ Quiet(<<Unlock(how)>>)
  <2>1. /\ \A x \in TimelineId : Range(waiter_list[x]) \subseteq Tracker
        /\ \A x \in TimelineId : x # "sync" /\ x # "dma"
    BY RangeOfSeq DEF TypeInv, TypeOK, ListTypes, TimelineId
  <2>2. /\ holders \in [Tracker -> SUBSET Holder]
        /\ pp_tracker \in [Tracker -> Tracker \cup {NoTracker}]
        /\ sync_queue \subseteq Tracker
    BY DEF TypeInv, TypeOK, RefTypes, TrackerTypes, ExtTypes
  <2>3. \A how \in {"mask", "never"} : <<Unlock(how)>> \in Seq(Frame)
    BY FrameTypes
  <2>4. \A how \in {"mask", "never"} : Quiet(<<Unlock(how)>>)
    BY QuietFrames
  <2> QED BY <2>1, <2>2, <2>3, <2>4
<1>2. CASE sync_fence_callback(t)
  <2>1. /\ "sync" \in holders[t] /\ sync_queue' = sync_queue \cup {t}
        /\ UNCHANGED <<phase, holders, trigger_ref_count, pp_tracker, waiter_list, stack,
                       timer_active>>
    BY <1>2 DEF sync_fence_callback, trackerVars, refVars, listVars, timerVars
  <2>2. SyncHolds'
    BY <2>1 DEF SyncHolds
  <2>3. RefCountExact' /\ WaitersHold' /\ GpJobHolds' /\ TimedActive'
    BY <2>1 DEF RefCountExact, WaitersHold, GpJobHolds, TimedActive
  <2>4. PhaseHolders' /\ CallsOK'
    BY <2>1 DEF PhaseHolders, CallsOK, Running, OnTop, Caller
  <2> QED BY <2>2, <2>3, <2>4
<1>3. ASSUME NEW h \in {"sync", "dma"}, h \in holders[t], stack = <<>>,
             NEW how \in {"mask", "never"}, release_reference(t, h, <<Unlock(how)>>),
             UNCHANGED <<phase, pp_tracker, waiter_list, timer_active>>,
             sync_queue' \subseteq sync_queue, h = "sync" => t \notin sync_queue'
      PROVE  RefInv'
  <2>1. h \in Holder /\ h # "init" /\ h # "gp_job"
    BY DEF Holder
  <2>2. /\ holders' = [holders EXCEPT ![t] = holders[t] \ {h}]
        /\ RefCountExact' /\ PhaseHolders' /\ CallsOK'
    BY <1>1, <1>3, <2>1, DropReference
  <2>3. /\ holders'[t] = holders[t] \ {h}
        /\ \A u \in Tracker \ {t} : holders'[u] = holders[u]
    BY <1>1, <2>2
  <2>4. WaitersHold'
    BY <1>1, <1>3, <2>3 DEF WaitersHold
  <2>5. SyncHolds'
    BY <1>1, <1>3, <2>3 DEF SyncHolds
  <2>6. GpJobHolds'
    BY <1>1, <1>3, <2>1, <2>3 DEF GpJobHolds
  <2>7. TimedActive'
    BY <1>3 DEF TimedActive
  <2> QED BY <2>2, <2>4, <2>5, <2>6, <2>7
<1>4. CASE do_sync_fence_callback(t)
  <2>1. \E how \in {"mask", "never"} : release_reference(t, "sync", <<Unlock(how)>>)
    BY <1>4 DEF do_sync_fence_callback
  <2>2. "sync" \in holders[t]
    BY <1>4 DEF do_sync_fence_callback, SyncHolds
  <2>3. /\ stack = <<>> /\ sync_queue' = sync_queue \ {t}
        /\ UNCHANGED <<phase, pp_tracker, waiter_list, timer_active>>
    BY <1>4 DEF do_sync_fence_callback, LockFree, trackerVars, listVars, timerVars
  <2> QED BY <1>3, <2>1, <2>2, <2>3
<1>5. CASE dma_fence_callback(t)
  <2>1. \E how \in {"mask", "never"} : release_reference(t, "dma", <<Unlock(how)>>)
    BY <1>5 DEF dma_fence_callback
  <2>2. /\ stack = <<>> /\ sync_queue' = sync_queue /\ "dma" \in holders[t]
        /\ UNCHANGED <<phase, pp_tracker, waiter_list, timer_active>>
    BY <1>5 DEF dma_fence_callback, LockFree, trackerVars, listVars, timerVars
  <2> QED BY <1>3, <2>1, <2>2
<1> QED BY <1>2, <1>4, <1>5

\* A timed-out tracker is active, so it may be released.
LEMMA timer_callback_refs ==
  ASSUME RefInv, TypeInv', NEW done \in BOOLEAN, timer_callback(done)
  PROVE  RefInv'
<1> USE DEF RefInv
<1> DEFINE tail  == First(tracker_list["SOFT"])
           fires == timer_enabled /\ tail \in timer_active /\ tail \in due
           end   == <<Call("end_timeout", tail), UnlockTimer>>
<1>1. /\ stack = <<>> /\ (done => fires)
      /\ stack' = IF ~fires THEN <<>>
                  ELSE IF done THEN <<Call("release", tail), Call("destroy", tail)>> \o end
                  ELSE end
      /\ UNCHANGED <<phase, holders, trigger_ref_count, pp_tracker, waiter_list,
                     sync_queue, timer_active>>
  BY DEF timer_callback, LockFree, trackerVars, refVars, listVars, extVars
<1>2. fires => tail \in Tracker /\ phase[tail] = "active"
  BY DEF TimedActive, TypeInv, TypeOK, TimerTypes
<1> HIDE DEF tail
<1>3. ASSUME fires PROVE end \in Seq(Frame) /\ Quiet(end)
  <2>1. <<Call("end_timeout", tail)>> \in Seq(Frame) /\ <<UnlockTimer>> \in Seq(Frame)
    BY <1>2, <1>3, FrameTypes
  <2>2. Quiet(<<Call("end_timeout", tail)>>) /\ Quiet(<<UnlockTimer>>)
    BY <1>2, <1>3, QuietFrames
  <2>3. end = <<Call("end_timeout", tail)>> \o <<UnlockTimer>>
    BY <2>1
  <2> HIDE DEF end
  <2> QED BY <2>1, <2>2, <2>3, QuietConcat
<1> HIDE DEF fires, end
<1>4. CallsOK'
  <2>1. CASE ~fires
    BY <1>1, <2>1, EmptySeq, CallsQuiet, QuietFrames
  <2>2. CASE fires /\ ~done
    BY <1>1, <1>3, <2>2, CallsQuiet
  <2>3. CASE fires /\ done
    <3>1. /\ <<Call("release", tail)>> \in Seq(Frame) /\ <<Call("destroy", tail)>> \in Seq(Frame)
          /\ Quiet(<<Call("destroy", tail)>>)
      <4>1. Call("release", tail) \in Frame /\ Call("destroy", tail) \in Frame
        BY <1>2, <2>3, FrameTypes
      <4>2. Quiet(<<Call("destroy", tail)>>)
        BY <1>2, <2>3, QuietFrames
      <4> QED BY <4>1, <4>2
    <3>2. <<Call("release", tail), Call("destroy", tail)>>
            = <<Call("release", tail)>> \o <<Call("destroy", tail)>>
      BY <3>1
    <3>3. stack' = <<Call("release", tail)>> \o (<<Call("destroy", tail)>> \o end)
      BY <1>1, <1>3, <2>3, <3>1, <3>2, ConcatAssociative
    <3>4. /\ <<Call("destroy", tail)>> \o end \in Seq(Frame)
          /\ Quiet(<<Call("destroy", tail)>> \o end)
      BY <1>3, <2>3, <3>1, QuietConcat
    <3> QED BY <1>1, <1>2, <2>3, <3>3, <3>4, CallsTop
  <2> QED BY <2>1, <2>2, <2>3
<1> QED BY <1>1, <1>4, SameRefs DEF TimedActive

\* Steps that take no part in a cascade.
LEMMA other_refs ==
  ASSUME RefInv, TypeInv',
         \/ timer_expires \/ executor_schedule \/ abort \/ stop_timer \/ cancel_work_sync
         \/ \E t \in Tracker : time_passes(t)
         \/ UNCHANGED vars
  PROVE  RefInv'
<1>1. UNCHANGED <<phase, holders, trigger_ref_count, pp_tracker, waiter_list, stack,
                  sync_queue, timer_active>>
  BY DEF timer_expires, executor_schedule, abort, stop_timer, cancel_work_sync,
         time_passes, vars, trackerVars, refVars, listVars, timerVars, extVars
<1>2. CallsOK'
  BY <1>1 DEF RefInv, CallsOK, Running, OnTop, Caller
<1> QED BY <1>1, <1>2, SameRefs DEF RefInv, TimedActive

\* Every step keeps the invariant.
LEMMA RefNext == RefInv /\ [Next]_vars => RefInv'
<1> SUFFICES ASSUME RefInv, [Next]_vars PROVE RefInv'
  OBVIOUS
<1>0. TypeInv'
  BY TypeNext DEF RefInv
<1>1. CASE Ioctl
  <2>1. ASSUME NEW t \in Tracker, add_tracker_any(t) PROVE RefInv'
    BY <1>0, <2>1, add_tracker_refs DEF add_tracker_any
  <2> QED BY <1>0, <1>1, <2>1, tracker_init_refs, gp_job_create_refs DEF Ioctl
<1>2. CASE Locked
  BY <1>0, <1>2, update_oldest_point_refs, release_depended_refs, tracker_release_refs,
     activate_job_refs, put_refs, return_refs, update_delayed_work_refs DEF Locked
<1>3. CASE Owner
  BY <1>0, <1>3, release_call_refs, put_refs, fence_callback_refs DEF Owner, Device
<1>4. CASE Timer
  BY <1>0, <1>4, other_refs, timer_callback_refs DEF Timer
<1>5. CASE executor_schedule \/ Close \/ UNCHANGED vars
  BY <1>0, <1>5, other_refs DEF Close
<1> QED BY <1>1, <1>2, <1>3, <1>4, <1>5 DEF Next

\* RefInv is an invariant: it holds initially and every step keeps it.
THEOREM RefInvariant == Spec => []RefInv
BY RefInit, RefNext, PTL DEF Spec

\* The reference count of every tracker is exactly the number of waiters and GP jobs
\* that still have to release it, in every interleaving (release_waiter, tracker_put).
THEOREM RefCountCorrect == Spec => []RefCountExact
<1>1. RefInv => RefCountExact
  BY DEF RefInv
<1> QED BY <1>1, RefInvariant, PTL

\* Nothing is left that could decrement the count of a tracker once it is activated:
\* no waiter, no queued sync fence and no GP job (tracker_activate).
THEOREM ActivatedCorrect == Spec => []ActivatedHoldsNothing
<1>1. RefInv => ActivatedHoldsNothing
  <2> SUFFICES ASSUME RefInv, NEW t \in Tracker, phase[t] = "active" \/ Running("activate", t)
               PROVE  /\ holders[t] = {}
                      /\ t \notin sync_queue
                      /\ \A g \in Tracker : pp_tracker[g] # t
                      /\ \A tl \in TimelineId : ~Queued(t, tl)
    BY DEF ActivatedHoldsNothing
  <2>1. holders[t] = {}
    BY DEF RefInv, PhaseHolders, CallsOK
  <2>2. t \notin sync_queue
    BY <2>1 DEF RefInv, SyncHolds
  <2>3. \A g \in Tracker : pp_tracker[g] # t
    BY <2>1, TimelineAssumption DEF RefInv, GpJobHolds
  <2>4. \A tl \in TimelineId : ~Queued(t, tl)
    BY <2>1 DEF RefInv, WaitersHold, Queued
  <2> QED BY <2>1, <2>2, <2>3, <2>4
<1> QED BY <1>1, RefInvariant, PTL
==============================================================================
