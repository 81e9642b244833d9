---------------------------- MODULE MaliSoftJobProofs ----------------------------
(***************************************************************************)
(* The soft job system takes its steps on the timeline system as           *)
(* MaliTimeline defines them: SoftSpec implements Spec, so what is proved  *)
(* of the timelines also holds when soft jobs decide what happens to their *)
(* trackers.                                                               *)
(*                                                                         *)
(* SoftInv is the inductive invariant behind the properties of MaliSoftJob *)
(* itself.  JobLife says, for each state of a job, which of its references *)
(* are owed and how far its tracker is; StackOK says which of its          *)
(* mali_soft_job_destroy calls are pending; CloseSteps orders the close.   *)
(***************************************************************************)
EXTENDS MaliSoftJob, MaliTimelineProofs

\* A step of MaliTimeline that Timeline allows is a step of Next.
LEMMA TimelineStep == Timeline => Next
<1> SUFFICES ASSUME Timeline PROVE Next
  OBVIOUS
<1>1. CASE \E t \in Tracker \ Job : tracker_init(t) \/ add_tracker_any(t)
  BY <1>1, Zenon DEF Next, Ioctl
<1>2. CASE \E g, p \in Tracker : gp_job_create(g, p)
  BY <1>2, Zenon DEF Next, Ioctl
<1>3. CASE \/ \E tl \in TimelineId : update_oldest_point(tl)
           \/ \E p \in Point, c \in Tracker \cup {NoTracker} : release_depended(p, c)
           \/ update_delayed_work
           \/ drop_mask
  BY <1>3, Zenon DEF Next, Locked
<1>4. CASE \E t \in Tracker :
             \/ tracker_release(t) \/ activate_gp_job(t) \/ activate_pp_job(t)
             \/ activate_wait(t) \/ put_failed(t) \/ end_timeout(t) \/ Device(t)
  BY <1>4, Zenon DEF Next, Locked, Owner
<1>5. CASE timer_expires \/ \E t \in Tracker : time_passes(t)
  BY <1>5, Zenon DEF Next, Timer
<1>6. CASE executor_schedule \/ stop_timer \/ cancel_work_sync
  BY <1>6, Zenon DEF Next, Close
<1> QED BY <1>1, <1>2, <1>3, <1>4, <1>5, <1>6, Zenon DEF Timeline

\* Every step of the soft job system is a step of the timelines or leaves them alone.
LEMMA SoftStep == [SoftNext]_allVars => [Next]_vars
<1> SUFFICES ASSUME SoftNext PROVE [Next]_vars
  BY DEF allVars
<1>1. CASE Timeline
  BY <1>1, TimelineStep
<1>2. ASSUME NEW t \in Job,
             \/ soft_job_create(t) \/ create_failed(t) \/ soft_job_start(t)
             \/ start_tracker(t) \/ start_add(t)
             \/ signal_job(t) \/ signal_release(t) \/ signal_destroy(t)
             \/ activate_job(t) \/ destroy_locked(t)
             \/ abort_release(t) \/ abort_move(t)
      PROVE  [Next]_vars
  <2>1. t \in Tracker
    BY DEF Job
  <2>2. CASE soft_job_create(t) \/ create_failed(t) \/ soft_job_start(t) \/ signal_job(t)
             \/ signal_destroy(t) \/ abort_move(t)
    BY <2>2, Zenon DEF soft_job_create, create_failed, soft_job_start, signal_job, signal_destroy,
       abort_move
  <2>3. CASE start_tracker(t) \/ start_add(t)
    BY <2>1, <2>3, Zenon DEF start_tracker, start_add, Next, Ioctl
  <2>4. CASE signal_release(t) \/ abort_release(t)
    BY <2>1, <2>4, Zenon DEF signal_release, abort_release, Next, Owner
  <2>5. CASE activate_job(t)
    <3>1. (is_aborting \/ t \in SelfSignaled) \in BOOLEAN
      OBVIOUS
    <3>2. activate_soft_job(t, is_aborting \/ t \in SelfSignaled)
      BY <2>5, Zenon DEF activate_job
    <3> QED BY <2>1, <3>1, <3>2, Zenon DEF Next, Locked
  <2>6. CASE destroy_locked(t)
    BY <2>1, <2>6, Zenon DEF destroy_locked, Next, Locked
  <2> QED BY <1>2, <2>2, <2>3, <2>4, <2>5, <2>6
<1>3. CASE timeout_job
  <2> DEFINE u    == First(tracker_list["SOFT"])
             done == timer_enabled /\ u \in timer_active /\ u \in due /\ times_out(u)
  <2>1. done \in BOOLEAN
    OBVIOUS
  <2>2. timer_callback(done)
    BY <1>3, Zenon DEF timeout_job
  <2> HIDE DEF done
  <2> QED BY <2>1, <2>2, Zenon DEF Next, Timer
<1>4. CASE return_from_release
  BY <1>4, Zenon DEF return_from_release, Next, Locked
<1>5. CASE close
  BY <1>5, Zenon DEF close, Next, Close
<1>6. CASE abort_collect
  BY <1>6, Zenon DEF abort_collect
<1> QED BY <1>1, <1>2, <1>3, <1>4, <1>5, <1>6, Zenon DEF SoftNext

\* The soft job system implements the timeline system: it never does to a tracker what
\* its owner is not allowed to do (add it twice, release it before it is active).
THEOREM SoftJobsImplementTimelines == SoftSpec => Spec
<1>1. SoftInit => Init
  BY DEF SoftInit
<1> QED BY <1>1, SoftStep, PTL DEF SoftSpec, Spec

\* So the reference counts are exact with soft jobs too: one that is signaled, timed out
\* or aborted leaves nothing behind that could activate or release its tracker again.
THEOREM SoftJobsKeepCounts == SoftSpec => [](RefCountExact /\ ActivatedHoldsNothing)
BY SoftJobsImplementTimelines, RefCountCorrect, ActivatedCorrect, PTL

------------------------------------------------------------------------------
(* The life of a soft job                                                    *)

\* A call of mali_soft_job_destroy for t is pending on the stack s.
Pending(s, t) == \E i \in DOMAIN s : s[i] = Call("destroy", t)
Owed(t)       == Pending(stack, t)

\* At most one such call for each job, and the outermost function, and only that,
\* gives the lock back.
Once(s) == \A i, j \in DOMAIN s : s[i] = s[j] /\ s[i].op = "destroy" => i = j
UnlockEnds(s) == \A i \in DOMAIN s : s[i].op = "unlock" <=> i = Len(s)

\* The tracker of t has been released, or is just about to be.
Ended(t) == phase[t] = IF Running("release", t) THEN "active" ELSE "free"

\* Nobody but its creator knows of t.
Private(t) ==
  /\ phase[t] = "free" /\ t \notin activated /\ signaler[t] = "none"
  /\ t \notin abort_list /\ ~Owed(t)

\* A started job that has not been signaled: before its activation, active, or
\* released by an activation that came after the abort.
StartedLife(t) ==
  /\ signaler[t] = "none" /\ t \notin abort_list /\ refcount[t] = 1
  /\ \/ /\ t \notin activated /\ ~Owed(t) /\ phase[t] \in {"free", "init", "waiting"}
        /\ is_aborting => phase[t] = "waiting"
     \/ t \in activated /\ ~Owed(t) /\ phase[t] = "active" /\ ~Running("release", t)
     \/ t \notin activated /\ Owed(t) /\ is_aborting /\ Ended(t)

\* A job that timed out, with the reference of its pending mali_soft_job_destroy.  The
\* abort destroys it without a release.
TimedOutLife(t) ==
  /\ signaler[t] \in {"none", "destroy"} /\ t \in activated /\ Ended(t)
  /\ signaler[t] = "destroy" => is_aborting /\ t \notin abort_list /\ ~Owed(t)
  /\ refcount[t] = 1 + Count(Owed(t))
  /\ Running("release", t) => Owed(t)
  /\ Owed(t) => work_running /\ t \notin abort_list

\* A signaled job: its signaler waits, releases the tracker or destroys the job, or the
\* abort is to do both, or only a mali_soft_job_destroy is left.
SignaledLife(t) ==
  \/ /\ signaler[t] = "wait" /\ ~is_aborting /\ t \notin abort_list /\ t \notin SelfSignaled
     /\ refcount[t] = 1 /\ ~Owed(t) /\ ~Running("release", t)
     /\ t \in activated <=> phase[t] = "active"
  \/ /\ signaler[t] = "release" /\ refcount[t] = 1
     /\ t \in activated /\ Ended(t) /\ ~Owed(t)
  \/ /\ signaler[t] = "destroy" /\ t \in activated /\ Ended(t)
     /\ refcount[t] = 1 + Count(Owed(t))
     /\ Running("release", t) => Owed(t)
     /\ Owed(t) => t \notin abort_list
  \/ /\ signaler[t] = "none" /\ refcount[t] = 1 /\ t \in activated
     /\ IF t \in abort_list
        THEN phase[t] = "active" /\ ~Owed(t) /\ ~Running("release", t)
        ELSE Owed(t) /\ Ended(t)

JobLife(t) ==
  /\ \/ job_state[t] = "FREE" /\ Private(t) /\ refcount[t] = 0
     \/ job_state[t] = "ALLOCATED" /\ Private(t) /\ refcount[t] = 1 /\ ~is_aborting
     \/ job_state[t] = "STARTED" /\ StartedLife(t)
     \/ job_state[t] = "TIMED_OUT" /\ TimedOutLife(t)
     \/ job_state[t] = "SIGNALED" /\ SignaledLife(t)
  /\ is_aborting /\ signaler[t] # "none" =>
       t \in abort_list \/ (aborted /\ signaler[t] = "destroy")

\* How far the close of the session got.
CloseSteps ==
  /\ ~timer_enabled => is_aborting
  /\ aborted => is_aborting
  /\ ~aborted => abort_list = {}
  /\ is_aborting /\ ~timer_enabled /\ ~aborted => \A t \in Job : job_state[t] # "SIGNALED"

SoftInv ==
  /\ RefInv
  /\ SoftTypeOK
  /\ Once(stack) /\ UnlockEnds(stack)
  /\ CloseSteps
  /\ \A t \in Job : JobLife(t)
------------------------------------------------------------------------------
(* The stack                                                                 *)

\* Frames that neither destroy a job nor give the lock back.
Inner(s) == \A i \in DOMAIN s : s[i].op \notin {"destroy", "unlock"}

\* The elements of a concatenation, by position.
LEMMA ConcatFrames ==
  ASSUME NEW a \in Seq(Frame), NEW b \in Seq(Frame)
  PROVE  /\ a \o b \in Seq(Frame) /\ Len(a \o b) = Len(a) + Len(b)
         /\ DOMAIN (a \o b) = 1 .. Len(a) + Len(b)
         /\ DOMAIN a = 1 .. Len(a) /\ DOMAIN b = 1 .. Len(b)
         /\ Len(a) \in Nat /\ Len(b) \in Nat
         /\ \A i \in 1 .. Len(a) + Len(b) : (a \o b)[i] = IF i <= Len(a) THEN a[i] ELSE b[i - Len(a)]
<1>1. a \o b \in Seq(Frame) /\ Len(a \o b) = Len(a) + Len(b)
  BY ConcatProperties
<1>2. \A i \in 1 .. Len(a) + Len(b) : (a \o b)[i] = IF i <= Len(a) THEN a[i] ELSE b[i - Len(a)]
  BY ConcatProperties, Zenon
<1> QED BY <1>1, <1>2, LenProperties

\* Inner frames on top of a stack change nothing below.
LEMMA InnerConcat ==
  ASSUME NEW a \in Seq(Frame), NEW b \in Seq(Frame), Inner(a), Once(b), UnlockEnds(b), b # <<>>
  PROVE  /\ Once(a \o b) /\ UnlockEnds(a \o b)
         /\ \A t : Pending(a \o b, t) <=> Pending(b, t)
<1> DEFINE s == a \o b
           n == Len(a)
<1>1. /\ s \in Seq(Frame) /\ Len(s) = n + Len(b)
      /\ DOMAIN s = 1 .. n + Len(b) /\ DOMAIN a = 1 .. n /\ DOMAIN b = 1 .. Len(b)
      /\ n \in Nat /\ Len(b) \in Nat
      /\ \A i \in 1 .. n + Len(b) : s[i] = IF i <= n THEN a[i] ELSE b[i - n]
  BY ConcatFrames
<1>2. Len(b) > 0
  BY <1>1
<1> HIDE DEF s, n
<1>3. \A i \in DOMAIN s : s[i].op \in {"destroy", "unlock"} =>
        i > n /\ i - n \in DOMAIN b /\ s[i] = b[i - n]
  BY <1>1 DEF Inner
<1>4. \A i \in DOMAIN b : i + n \in DOMAIN s /\ s[i + n] = b[i]
  <2> SUFFICES ASSUME NEW i \in DOMAIN b PROVE i + n \in DOMAIN s /\ s[i + n] = b[i]
    OBVIOUS
  <2>1. i + n \in 1 .. n + Len(b) /\ ~(i + n <= n) /\ (i + n) - n = i
    BY <1>1
  <2> QED BY <1>1, <2>1
<1>5. Once(s)
  <2> SUFFICES ASSUME NEW i \in DOMAIN s, NEW j \in DOMAIN s, s[i] = s[j], s[i].op = "destroy"
               PROVE  i = j
    BY DEF Once
  <2>1. i - n = j - n
    BY <1>3 DEF Once
  <2> QED BY <1>1, <2>1
<1>6. UnlockEnds(s)
  <2> SUFFICES ASSUME NEW i \in DOMAIN s PROVE s[i].op = "unlock" <=> i = n + Len(b)
    BY <1>1 DEF UnlockEnds
  <2>1. ASSUME s[i].op = "unlock" PROVE i = n + Len(b)
    <3>1. i - n = Len(b)
      BY <1>3, <2>1 DEF UnlockEnds
    <3>2. i \in Int /\ n \in Int
      BY <1>1
    <3> QED BY <3>1, <3>2
  <2>2. ASSUME i = n + Len(b) PROVE s[i].op = "unlock"
    <3>1. Len(b) \in DOMAIN b /\ b[Len(b)].op = "unlock"
      BY <1>1, <1>2 DEF UnlockEnds
    <3>2. Len(b) + n = i
      BY <1>1, <2>2
    <3> QED BY <1>4, <3>1, <3>2
  <2> QED BY <2>1, <2>2
<1>7. ASSUME NEW t PROVE Pending(s, t) <=> Pending(b, t)
  <2>1. Call("destroy", t).op = "destroy"
    BY DEF Call
  <2> QED BY <1>3, <1>4, <2>1 DEF Pending
<1> QED BY <1>5, <1>6, <1>7 DEF s

\* A return from a function that is not the outermost.
LEMMA PopFrame ==
  ASSUME NEW s \in Seq(Frame), s # <<>>, Once(s), UnlockEnds(s), Head(s).op # "unlock"
  PROVE  /\ Tail(s) \in Seq(Frame) /\ Tail(s) # <<>> /\ Once(Tail(s)) /\ UnlockEnds(Tail(s))
         /\ \A t : Pending(Tail(s), t) <=> Pending(s, t) /\ Head(s) # Call("destroy", t)
<1>1. /\ Tail(s) \in Seq(Frame) /\ Len(Tail(s)) = Len(s) - 1 /\ Len(s) \in Nat /\ Len(s) >= 1
      /\ DOMAIN s = 1 .. Len(s) /\ DOMAIN Tail(s) = 1 .. Len(s) - 1 /\ Head(s) = s[1]
      /\ \A i \in 1 .. Len(s) - 1 : Tail(s)[i] = s[i + 1]
  BY HeadTailProperties, LenProperties, EmptySeq
<1>2. Len(s) # 1
  BY <1>1 DEF UnlockEnds
<1>3. Tail(s) # <<>>
  <2>1. Len(Tail(s)) # 0
    BY <1>1, <1>2
  <2> QED BY <2>1, EmptySeq
<1> DEFINE r == Tail(s)
<1> HIDE DEF r
<1>4. \A i \in DOMAIN r : i + 1 \in DOMAIN s /\ r[i] = s[i + 1]
  BY <1>1 DEF r
<1>5. \A i \in DOMAIN s : i # 1 => i - 1 \in DOMAIN r /\ s[i] = r[i - 1]
  <2> SUFFICES ASSUME NEW i \in DOMAIN s, i # 1 PROVE i - 1 \in DOMAIN r /\ s[i] = r[i - 1]
    OBVIOUS
  <2>1. i - 1 \in 1 .. Len(s) - 1 /\ (i - 1) + 1 = i
    BY <1>1
  <2> QED BY <1>1, <2>1 DEF r
<1>6. Once(r)
  <2> SUFFICES ASSUME NEW i \in DOMAIN r, NEW j \in DOMAIN r, r[i] = r[j], r[i].op = "destroy"
               PROVE  i = j
    BY DEF Once
  <2>1. i + 1 = j + 1
    BY <1>4 DEF Once
  <2> QED BY <1>1, <2>1 DEF r
<1>7. UnlockEnds(r)
  <2> SUFFICES ASSUME NEW i \in DOMAIN r PROVE r[i].op = "unlock" <=> i = Len(s) - 1
    BY <1>1 DEF UnlockEnds, r
  <2>1. s[i + 1].op = "unlock" <=> i + 1 = Len(s)
    BY <1>4 DEF UnlockEnds
  <2> QED BY <1>1, <1>4, <2>1 DEF r
<1>8. ASSUME NEW t PROVE Pending(r, t) <=> Pending(s, t) /\ Head(s) # Call("destroy", t)
  <2>1. ASSUME Pending(r, t) PROVE Pending(s, t) /\ Head(s) # Call("destroy", t)
    <3>1. PICK i \in DOMAIN r : r[i] = Call("destroy", t)
      BY <2>1 DEF Pending
    <3>2. i + 1 \in DOMAIN s /\ s[i + 1] = Call("destroy", t) /\ i + 1 # 1 /\ 1 \in DOMAIN s
      BY <1>1, <1>4, <3>1 DEF r
    <3>3. Call("destroy", t).op = "destroy"
      BY DEF Call
    <3>4. s[1] # Call("destroy", t)
      BY <3>2, <3>3 DEF Once
    <3> QED BY <1>1, <3>2, <3>4 DEF Pending
  <2>2. ASSUME Pending(s, t), Head(s) # Call("destroy", t) PROVE Pending(r, t)
    <3>1. PICK i \in DOMAIN s : s[i] = Call("destroy", t)
      BY <2>2 DEF Pending
    <3>2. i # 1
      BY <1>1, <2>2, <3>1
    <3> QED BY <1>5, <3>1, <3>2 DEF Pending
  <2> QED BY <2>1, <2>2
<1> QED BY <1>1, <1>3, <1>6, <1>7, <1>8 DEF r

\* The outermost function is alone on the stack.
LEMMA PopUnlock ==
  ASSUME NEW s \in Seq(Frame), s # <<>>, UnlockEnds(s), Head(s).op = "unlock"
  PROVE  Tail(s) = <<>> /\ \A t : ~Pending(s, t)
<1>1. /\ Tail(s) \in Seq(Frame) /\ Len(Tail(s)) = Len(s) - 1 /\ Len(s) \in Nat /\ Len(s) >= 1
      /\ DOMAIN s = 1 .. Len(s) /\ Head(s) = s[1]
  BY HeadTailProperties, LenProperties, EmptySeq
<1>2. Len(s) = 1
  BY <1>1 DEF UnlockEnds
<1>3. Tail(s) = <<>>
  <2>1. Len(Tail(s)) = 0
    BY <1>1, <1>2
  <2> QED BY <1>1, <2>1, EmptySeq, Zenon
<1>4. ASSUME NEW t PROVE ~Pending(s, t)
  <2>1. Call("destroy", t).op = "destroy"
    BY DEF Call
  <2> QED BY <1>1, <1>2, <2>1 DEF Pending
<1> QED BY <1>3, <1>4

\* The frames that the timeline system pushes.
LEMMA InnerFrames ==
  /\ <<>> \in Seq(Frame) /\ Inner(<<>>)
  /\ \A t \in Tracker, op \in {"activate", "release", "put", "end_timeout"} :
       <<Call(op, t)>> \in Seq(Frame) /\ Inner(<<Call(op, t)>>)
  /\ \A tl \in TimelineId :
       LET s == <<[op |-> "update_oldest_point", timeline |-> tl]>> IN s \in Seq(Frame) /\ Inner(s)
  /\ \A p \in Point, c \in Tracker \cup {NoTracker} : <<Walk(p, c)>> \in Seq(Frame) /\ Inner(<<Walk(p, c)>>)
  /\ LET s == <<[op |-> "update_delayed_work"]>> IN s \in Seq(Frame) /\ Inner(s)
<1>1. \A t \in Tracker, op \in {"activate", "release", "put", "end_timeout"} : Inner(<<Call(op, t)>>)
  BY DEF Inner, Call
<1>2. \A tl \in TimelineId : Inner(<<[op |-> "update_oldest_point", timeline |-> tl]>>)
  BY DEF Inner
<1>3. \A p \in Point, c \in Tracker \cup {NoTracker} : Inner(<<Walk(p, c)>>)
  BY DEF Inner, Walk
<1>4. Inner(<<[op |-> "update_delayed_work"]>>) /\ Inner(<<>>)
  BY DEF Inner
<1>5. \A f \in Frame : <<f>> \in Seq(Frame)
  OBVIOUS
<1> QED BY <1>1, <1>2, <1>3, <1>4, <1>5, FrameTypes

LEMMA InnerJoin ==
  ASSUME NEW a \in Seq(Frame), NEW b \in Seq(Frame), Inner(a), Inner(b)
  PROVE  a \o b \in Seq(Frame) /\ Inner(a \o b)
<1>1. /\ a \o b \in Seq(Frame) /\ DOMAIN (a \o b) = 1 .. Len(a) + Len(b)
      /\ DOMAIN a = 1 .. Len(a) /\ DOMAIN b = 1 .. Len(b) /\ Len(a) \in Nat /\ Len(b) \in Nat
      /\ \A i \in 1 .. Len(a) + Len(b) : (a \o b)[i] = IF i <= Len(a) THEN a[i] ELSE b[i - Len(a)]
  BY ConcatFrames
<1>2. ASSUME NEW i \in 1 .. Len(a) + Len(b) PROVE (a \o b)[i].op \notin {"destroy", "unlock"}
  <2>1. CASE i <= Len(a)
    BY <1>1, <2>1 DEF Inner
  <2>2. CASE ~(i <= Len(a))
    <3>1. i - Len(a) \in DOMAIN b
      BY <1>1, <2>2
    <3> QED BY <1>1, <2>2, <3>1 DEF Inner
  <2> QED BY <2>1, <2>2
<1> QED BY <1>1, <1>2 DEF Inner

StackOK == stack \in Seq(Frame) /\ Once(stack) /\ UnlockEnds(stack)

\* Steps of the timeline system keep the pending calls of the soft job system.
OwedKept == StackOK' /\ \A t : Owed(t)' <=> Owed(t)

LEMMA StackSame == ASSUME StackOK, UNCHANGED stack PROVE OwedKept
BY DEF StackOK, OwedKept, Owed

LEMMA StackReturn ==
  ASSUME StackOK, stack # <<>>, Head(stack).op \notin {"unlock", "destroy"},
         NEW new \in Seq(Frame), Inner(new), stack' = new \o Caller
  PROVE  OwedKept
<1>1. /\ Caller \in Seq(Frame) /\ Caller # <<>> /\ Once(Caller) /\ UnlockEnds(Caller)
      /\ \A t : Pending(Caller, t) <=> Pending(stack, t) /\ Head(stack) # Call("destroy", t)
  BY PopFrame DEF StackOK, Caller
<1>2. \A t : Head(stack) # Call("destroy", t)
  BY DEF Call
<1>3. stack' \in Seq(Frame)
  BY <1>1, ConcatFrames
<1>4. Once(stack') /\ UnlockEnds(stack') /\ \A t : Pending(stack', t) <=> Pending(Caller, t)
  BY <1>1, InnerConcat
<1> QED BY <1>1, <1>2, <1>3, <1>4 DEF OwedKept, StackOK, Owed

LEMMA StackPop ==
  ASSUME StackOK, stack # <<>>, Head(stack).op \notin {"unlock", "destroy"}, stack' = Caller
  PROVE  OwedKept
<1>1. Caller \in Seq(Frame)
  BY PopFrame DEF StackOK, Caller
<1>2. stack' = <<>> \o Caller
  BY <1>1
<1> QED BY <1>2, StackReturn, InnerFrames

LEMMA StackCall ==
  ASSUME StackOK, stack # <<>>, NEW new \in Seq(Frame), Inner(new), stack' = new \o stack
  PROVE  OwedKept
<1>1. stack' \in Seq(Frame)
  BY ConcatFrames DEF StackOK
<1>2. Once(stack') /\ UnlockEnds(stack') /\ \A t : Pending(stack', t) <=> Pending(stack, t)
  BY InnerConcat DEF StackOK
<1> QED BY <1>1, <1>2 DEF OwedKept, StackOK, Owed

LEMMA UnlockFrame ==
  ASSUME NEW u \in Frame, u.op = "unlock"
  PROVE  /\ <<u>> \in Seq(Frame) /\ <<u>> # <<>> /\ Once(<<u>>) /\ UnlockEnds(<<u>>)
         /\ \A t : ~Pending(<<u>>, t)
<1>1. <<u>> \in Seq(Frame) /\ <<u>> # <<>> /\ Once(<<u>>) /\ UnlockEnds(<<u>>)
  BY DEF Once, UnlockEnds
<1>2. \A t : Call("destroy", t).op = "destroy"
  BY DEF Call
<1> QED BY <1>1, <1>2 DEF Pending

LEMMA StackLock ==
  ASSUME LockFree, NEW new \in Seq(Frame), Inner(new), NEW u \in Frame, u.op = "unlock",
         stack' = new \o <<u>>
  PROVE  OwedKept
<1>1. stack' \in Seq(Frame)
  BY UnlockFrame, ConcatFrames
<1>2. Once(stack') /\ UnlockEnds(stack') /\ \A t : ~Pending(stack', t)
  BY UnlockFrame, InnerConcat
<1>3. \A t : ~Pending(stack, t)
  BY DEF LockFree, Pending
<1> QED BY <1>1, <1>2, <1>3 DEF OwedKept, StackOK, Owed

------------------------------------------------------------------------------
(* Steps of the timelines                                                    *)

\* Nothing happens to the tracker of t, or it is released.
TrackerKept(t) == phase'[t] = phase[t] /\ (Running("release", t)' <=> Running("release", t))
TrackerReleased(t) == Running("release", t) /\ ~Running("release", t)' /\ phase'[t] = "free"

\* What a step of the timeline system does to the soft jobs.
Kept == OwedKept /\ \A t \in Job : TrackerKept(t) \/ TrackerReleased(t)

\* tracker_release is called for no soft job.
NoJobReleased(s) == s # <<>> /\ Head(s).op = "release" => Head(s).tracker \notin Job

LEMMA KeptSame ==
  ASSUME StackOK, UNCHANGED stack, \A t \in Job : phase'[t] = phase[t]
  PROVE  Kept
BY StackSame DEF Kept, TrackerKept, Running, OnTop

\* The function on top, which is not tracker_release, returns or calls others.
LEMMA KeptReturn ==
  ASSUME RefInv, StackOK, stack # <<>>,
         Head(stack).op \notin {"unlock", "destroy", "release"},
         NEW new \in Seq(Frame), Inner(new), NoJobReleased(new), stack' = new \o Caller,
         \A t \in Job : phase'[t] = phase[t]
  PROVE  Kept
<1>1. OwedKept
  BY StackReturn
<1>2. \A t \in Job : ~Running("release", t)
  BY DEF Running, OnTop
<1>3. NoJobReleased(stack')
  <2>1. Caller \in Seq(Frame) /\ Quiet(Caller)
    BY StackTypes DEF StackOK, RefInv, CallsOK
  <2>2. CASE new = <<>>
    <3>1. stack' = Caller
      BY <2>1, <2>2
    <3> QED BY <2>1, <3>1, QuietTail DEF NoJobReleased
  <2>3. CASE new # <<>>
    <3>1. Head(stack') = Head(new)
      BY <2>1, <2>3
    <3> QED BY <2>3, <3>1 DEF NoJobReleased
  <2> QED BY <2>2, <2>3
<1>4. \A t \in Job : ~Running("release", t)'
  BY <1>3 DEF NoJobReleased, Running, OnTop
<1> QED BY <1>1, <1>2, <1>4 DEF Kept, TrackerKept

LEMMA KeptPop ==
  ASSUME RefInv, StackOK, stack # <<>>,
         Head(stack).op \notin {"unlock", "destroy", "release"}, stack' = Caller,
         \A t \in Job : phase'[t] = phase[t]
  PROVE  Kept
<1>1. Caller \in Seq(Frame)
  BY StackTypes DEF StackOK
<1>2. stack' = <<>> \o Caller
  BY <1>1
<1> QED BY <1>2, KeptReturn, InnerFrames DEF NoJobReleased

\* The function on top calls another.
LEMMA KeptCall ==
  ASSUME StackOK, stack # <<>>, Head(stack).op # "release",
         NEW f \in Frame, f.op \notin {"destroy", "unlock", "release"}, stack' = <<f>> \o stack,
         \A t \in Job : phase'[t] = phase[t]
  PROVE  Kept
<1>1. <<f>> \in Seq(Frame) /\ Inner(<<f>>)
  BY DEF Inner
<1>2. OwedKept
  BY <1>1, StackCall
<1>3. stack' # <<>> /\ Head(stack') = f
  BY DEF StackOK
<1>4. \A t \in Job : ~Running("release", t) /\ ~Running("release", t)'
  BY <1>3 DEF Running, OnTop
<1> QED BY <1>2, <1>4 DEF Kept, TrackerKept

\* A thread takes the lock, and not to release a soft job.
LEMMA KeptLock ==
  ASSUME LockFree, NEW new \in Seq(Frame), Inner(new), NoJobReleased(new),
         NEW u \in Frame, u.op = "unlock", stack' = new \o <<u>>,
         \A t \in Job : phase'[t] = phase[t]
  PROVE  Kept
<1>1. OwedKept
  BY StackLock
<1>2. \A t \in Job : ~Running("release", t)
  BY DEF LockFree, Running, OnTop
<1>3. NoJobReleased(stack')
  <2>1. CASE new = <<>>
    <3>1. stack' = <<u>>
      BY <2>1
    <3> QED BY <3>1 DEF NoJobReleased
  <2>2. CASE new # <<>>
    <3>1. Head(stack') = Head(new)
      BY <2>2
    <3> QED BY <2>2, <3>1 DEF NoJobReleased
  <2> QED BY <2>1, <2>2
<1>4. \A t \in Job : ~Running("release", t)'
  BY <1>3 DEF NoJobReleased, Running, OnTop
<1> QED BY <1>1, <1>2, <1>4 DEF Kept, TrackerKept

\* tracker_release: what waited for the tracker is released next.
LEMMA tracker_release_kept ==
  ASSUME RefInv, StackOK, NEW t \in Tracker, tracker_release(t)
  PROVE  /\ OwedKept /\ \A u \in Tracker : ~Running("release", u)'
         /\ phase' = [phase EXCEPT ![t] = "free"] /\ Running("release", t)
<1> USE DEF RefInv
<1> DEFINE tl    == Home[Kind[t]]
           loop  == IF Head(tracker_list[tl]) = t
                    THEN <<[op |-> "update_oldest_point", timeline |-> tl]>>
                    ELSE IF tl = "SOFT"
                    THEN <<Walk(point[t], First(waiter_list[tl]))>>
                    ELSE <<>>
           timer == IF tl = "SOFT" THEN <<[op |-> "update_delayed_work"]>> ELSE <<>>
<1>1. /\ stack # <<>> /\ Caller \in Seq(Frame) /\ Quiet(Caller)
      /\ Head(stack).op = "release" /\ Running("release", t)
      /\ phase' = [phase EXCEPT ![t] = "free"]
  BY StackTypes DEF tracker_release, Running, OnTop, CallsOK, TypeInv, TypeOK
<1>2. PICK new \in Seq(Frame) : Inner(new) /\ Quiet(new) /\ stack' = new \o Caller
  <2>1. CASE point[t] = NoPoint
    <3>1. stack' = <<>> \o Caller
      BY <1>1, <2>1 DEF tracker_release
    <3> QED BY <3>1, InnerFrames, QuietFrames
  <2>2. CASE point[t] # NoPoint
    <3>1. stack' = loop \o timer \o Caller
      BY <2>2 DEF tracker_release
    <3>2. /\ tl \in TimelineId /\ point[t] \in Point
          /\ First(waiter_list[tl]) \in Tracker \cup {NoTracker}
      BY <2>2, AnyPointTypes, FirstType
      DEF TypeInv, TypeOK, TrackersListed, TrackerTypes, ListTypes
    <3>3. loop \in Seq(Frame) /\ timer \in Seq(Frame) /\ Inner(loop) /\ Inner(timer)
      BY <3>2, InnerFrames
    <3>4. Quiet(loop) /\ Quiet(timer)
      BY <3>2, QuietFrames
    <3> HIDE DEF loop, timer
    <3>5. loop \o timer \in Seq(Frame) /\ Quiet(loop \o timer) /\ Inner(loop \o timer)
      BY <3>3, <3>4, QuietConcat, InnerJoin
    <3> QED BY <3>1, <3>5
  <2> QED BY <2>1, <2>2
<1>3. OwedKept
  BY <1>1, <1>2, StackReturn
<1>4. stack' \in Seq(Frame) /\ Quiet(stack')
  BY <1>1, <1>2, QuietConcat
<1>5. \A u \in Tracker : ~Running("release", u)'
  BY <1>4, QuietTail DEF Running, OnTop
<1> QED BY <1>1, <1>3, <1>5

LEMMA ReleasedKept ==
  ASSUME RefInv, StackOK, NEW t \in Tracker, tracker_release(t)
  PROVE  Kept
<1>1. /\ OwedKept /\ \A u \in Tracker : ~Running("release", u)'
      /\ phase' = [phase EXCEPT ![t] = "free"] /\ Running("release", t)
  BY tracker_release_kept
<1>2. phase \in [Tracker -> {"free", "init", "waiting", "active"}]
  BY DEF RefInv, TypeInv, TypeOK, TrackerTypes
<1>3. \A u \in Tracker \ {t} : ~Running("release", u)
  BY <1>1 DEF Running
<1>4. \A u \in Job : u \in Tracker
  BY DEF Job
<1> QED BY <1>1, <1>2, <1>3, <1>4 DEF Kept, TrackerKept, TrackerReleased

\* Dropping a reference from outside, or within a cascade.
LEMMA DropKept ==
  ASSUME RefInv, StackOK, NEW t \in Tracker, NEW h, UNCHANGED phase
  PROVE  /\ \A how \in {"mask", "always", "never"} :
              LockFree /\ release_reference(t, h, <<Unlock(how)>>) => Kept
         /\ stack # <<>> /\ Head(stack).op \notin {"release", "unlock", "destroy"} =>
              /\ release_reference(t, h, stack) => Kept
              /\ release_reference(t, h, Caller) => Kept
              /\ \A p \in Point, c \in Tracker \cup {NoTracker} :
                   release_reference(t, h, <<Walk(p, c)>> \o Caller) => Kept
<1>1. <<Call("activate", t)>> \in Seq(Frame) /\ Inner(<<Call("activate", t)>>)
  BY InnerFrames
<1>2. NoJobReleased(<<Call("activate", t)>>) /\ NoJobReleased(<<>>)
  BY DEF NoJobReleased, Call
<1>3. Call("activate", t) \in Frame /\ Call("activate", t).op = "activate"
  BY FrameTypes DEF Call
<1>4. ASSUME NEW how \in {"mask", "always", "never"}, LockFree,
             release_reference(t, h, <<Unlock(how)>>)
      PROVE  Kept
  <2>1. Unlock(how) \in Frame /\ Unlock(how).op = "unlock"
    BY FrameTypes DEF Unlock
  <2>2. PICK new \in {<<Call("activate", t)>>, <<>>} : stack' = new \o <<Unlock(how)>>
    BY <1>4, <2>1 DEF release_reference
  <2>3. new \in Seq(Frame) /\ Inner(new) /\ NoJobReleased(new)
    BY <1>1, <1>2, InnerFrames
  <2> QED BY <1>4, <2>1, <2>2, <2>3, KeptLock
<1>5. ASSUME stack # <<>>, Head(stack).op \notin {"release", "unlock", "destroy"}
      PROVE  /\ release_reference(t, h, stack) => Kept
             /\ release_reference(t, h, Caller) => Kept
             /\ \A p \in Point, c \in Tracker \cup {NoTracker} :
                  release_reference(t, h, <<Walk(p, c)>> \o Caller) => Kept
  <2>0. Caller \in Seq(Frame)
    BY <1>5, StackTypes DEF StackOK
  <2>1. ASSUME release_reference(t, h, stack) PROVE Kept
    <3>1. stack' = stack \/ stack' = <<Call("activate", t)>> \o stack
      BY <2>1 DEF release_reference
    <3> QED BY <1>3, <1>5, <3>1, KeptSame, KeptCall
  <2>2. ASSUME release_reference(t, h, Caller) PROVE Kept
    <3>1. PICK new \in {<<Call("activate", t)>>, <<>>} : stack' = new \o Caller
      BY <2>0, <2>2 DEF release_reference
    <3>2. new \in Seq(Frame) /\ Inner(new) /\ NoJobReleased(new)
      BY <1>1, <1>2, InnerFrames
    <3> QED BY <1>5, <3>1, <3>2, KeptReturn
  <2>3. ASSUME NEW p \in Point, NEW c \in Tracker \cup {NoTracker},
               release_reference(t, h, <<Walk(p, c)>> \o Caller)
        PROVE  Kept
    <3>1. <<Walk(p, c)>> \in Seq(Frame) /\ Inner(<<Walk(p, c)>>)
      BY InnerFrames
    <3>2. NoJobReleased(<<Walk(p, c)>>)
      BY DEF NoJobReleased, Walk
    <3>3. CASE stack' = <<Walk(p, c)>> \o Caller
      BY <1>5, <3>1, <3>2, <3>3, KeptReturn
    <3>4. CASE stack' = <<Call("activate", t)>> \o (<<Walk(p, c)>> \o Caller)
      <4>1. stack' = (<<Call("activate", t)>> \o <<Walk(p, c)>>) \o Caller
        BY <1>1, <2>0, <3>1, <3>4, ConcatAssociative
      <4>2. /\ <<Call("activate", t)>> \o <<Walk(p, c)>> \in Seq(Frame)
            /\ Inner(<<Call("activate", t)>> \o <<Walk(p, c)>>)
        BY <1>1, <3>1, InnerJoin
      <4>3. Head(<<Call("activate", t)>> \o <<Walk(p, c)>>) = Call("activate", t)
        OBVIOUS
      <4>4. NoJobReleased(<<Call("activate", t)>> \o <<Walk(p, c)>>)
        BY <1>3, <4>3 DEF NoJobReleased
      <4> QED BY <1>5, <4>1, <4>2, <4>4, KeptReturn
    <3> QED BY <2>3, <3>3, <3>4 DEF release_reference
  <2> QED BY <2>1, <2>2, <2>3
<1> QED BY <1>4, <1>5

\* The loops that release waiters, and the functions that return.
LEMMA cascade_kept ==
  ASSUME RefInv, StackOK,
         \/ \E tl \in TimelineId : update_oldest_point(tl)
         \/ \E p \in Point, c \in Tracker \cup {NoTracker} : release_depended(p, c)
         \/ update_delayed_work \/ drop_mask
         \/ \E t \in Tracker : put_failed(t) \/ end_timeout(t)
  PROVE  Kept
<1> USE DEF RefInv
<1>1. ASSUME NEW tl \in TimelineId, update_oldest_point(tl) PROVE Kept
  <2> DEFINE list == waiter_list[tl]
  <2>1. /\ stack # <<>> /\ Head(stack).op = "update_oldest_point" /\ UNCHANGED phase
        /\ list \in Seq(Tracker)
    BY <1>1 DEF update_oldest_point, OnTop, trackerVars, TypeInv, TypeOK, ListTypes
  <2>2. CASE stack' = Caller
    BY <2>1, <2>2, KeptPop
  <2>3. CASE list # <<>> /\ release_reference(Head(list), tl, stack)
    <3>1. Head(list) \in Tracker
      BY <2>1, <2>3
    <3> QED BY <2>1, <2>3, <3>1, DropKept
  <2> QED BY <1>1, <2>2, <2>3 DEF update_oldest_point
<1>2. ASSUME NEW p \in Point, NEW c \in Tracker \cup {NoTracker}, release_depended(p, c) PROVE Kept
  <2> DEFINE list == waiter_list["SOFT"]
             hits == {i \in DOMAIN list :
                        /\ \E j \in 1 .. i : list[j] = c
                        /\ wait_point[list[i]]["SOFT"] = p}
             i    == Min(hits)
             more == IF i = Len(list) THEN NoTracker ELSE list[i + 1]
  <2>1. /\ stack # <<>> /\ Head(stack).op = "release_depended" /\ UNCHANGED phase
        /\ list \in Seq(Tracker) /\ DOMAIN list = 1 .. Len(list) /\ Len(list) \in Nat
    BY <1>2, LenProperties
    DEF release_depended, OnTop, trackerVars, TypeInv, TypeOK, ListTypes, TimelineId
  <2>2. CASE hits = {}
    <3>1. stack' = Caller
      BY <1>2, <2>2 DEF release_depended
    <3> QED BY <2>1, <3>1, KeptPop
  <2>3. CASE hits # {}
    <3>1. release_reference(list[i], "SOFT", <<Walk(p, more)>> \o Caller)
      BY <1>2, <2>3 DEF release_depended
    <3>2. i \in 1 .. Len(list)
      <4>1. hits \in SUBSET Nat /\ hits \subseteq 1 .. Len(list)
        BY <2>1
      <4> HIDE DEF hits
      <4> QED BY <2>3, <4>1, MinInSet
    <3> HIDE DEF hits, i
    <3>3. list[i] \in Tracker /\ more \in Tracker \cup {NoTracker}
      BY <2>1, <3>2
    <3> HIDE DEF list, more
    <3> QED BY <2>1, <3>1, <3>3, DropKept
  <2> QED BY <2>2, <2>3
<1>3. CASE update_delayed_work \/ drop_mask \/ \E t \in Tracker : end_timeout(t)
  <2>1. /\ stack # <<>> /\ Head(stack).op \notin {"unlock", "destroy", "release"}
        /\ stack' = Caller /\ UNCHANGED phase
    BY <1>3 DEF update_delayed_work, drop_mask, end_timeout, Running, OnTop, trackerVars
  <2> QED BY <2>1, KeptPop
<1>4. ASSUME NEW t \in Tracker, put_failed(t) PROVE Kept
  <2>1. /\ stack # <<>> /\ Head(stack).op = "put" /\ UNCHANGED phase
        /\ pp_tracker \in [Tracker -> Tracker \cup {NoTracker}]
    BY <1>4 DEF put_failed, tracker_put, Running, OnTop, trackerVars, TypeInv, TypeOK, TrackerTypes
  <2>2. CASE stack' = Caller
    BY <2>1, <2>2, KeptPop
  <2>3. CASE pp_tracker[t] # NoTracker /\ tracker_put(t, FALSE, Caller)
    <3>1. pp_tracker[t] \in Tracker /\ release_reference(pp_tracker[t], "gp_job", Caller)
      BY <2>1, <2>3 DEF tracker_put
    <3> QED BY <2>1, <3>1, DropKept
  <2> QED BY <1>4, <2>2, <2>3 DEF put_failed
<1> QED BY <1>1, <1>2, <1>3, <1>4

\* tracker_activate for a tracker that is not a soft job's.
LEMMA activate_kept ==
  ASSUME RefInv, StackOK, NEW t \in Tracker,
         activate_gp_job(t) \/ activate_pp_job(t) \/ activate_wait(t)
  PROVE  Kept
<1> USE DEF RefInv
<1>1. /\ t \notin Job /\ stack # <<>> /\ Head(stack).op = "activate"
      /\ phase' = [phase EXCEPT ![t] = "active"]
      /\ phase \in [Tracker -> {"free", "init", "waiting", "active"}]
  BY HomeValues DEF activate_gp_job, activate_pp_job, activate_wait, activate, Running, OnTop,
     Job, IsSoft, TypeInv, TypeOK, TrackerTypes
<1>2. \A u \in Job : phase'[u] = phase[u]
  BY <1>1 DEF Job
<1>3. DropMask \in Frame /\ DropMask.op = "drop_mask"
  BY FrameTypes DEF DropMask, TypeInv, TypeOK, SchedTypes
<1>4. Call("release", t).tracker = t /\ Call("release", t).op = "release"
      /\ Call("put", t).op = "put" /\ Call("release", t) \in Frame /\ Call("put", t) \in Frame
  BY FrameTypes DEF Call
<1>5. ASSUME NEW new \in {<<>>, <<Call("release", t)>>, <<Call("release", t), DropMask>>,
                          <<Call("release", t), Call("put", t), DropMask>>}
      PROVE  new \in Seq(Frame) /\ Inner(new) /\ NoJobReleased(new)
  <2> DEFINE r == Call("release", t)
             p == Call("put", t)
             d == DropMask
  <2>1. /\ r \in Frame /\ p \in Frame /\ d \in Frame /\ r.tracker \notin Job
        /\ r.op = "release" /\ p.op = "put" /\ d.op = "drop_mask"
    BY <1>1, <1>3, <1>4
  <2>2. new \in {<<>>, <<r>>, <<r, d>>, <<r, p, d>>}
    OBVIOUS
  <2> HIDE DEF r, p, d
  <2>3. /\ <<>> \in Seq(Frame) /\ <<r>> \in Seq(Frame) /\ <<r, d>> \in Seq(Frame)
        /\ <<r, p, d>> \in Seq(Frame)
    BY <2>1
  <2>4. Inner(new) /\ NoJobReleased(new)
    <3>1. CASE new = <<>>
      BY <3>1, InnerFrames DEF NoJobReleased
    <3>2. CASE new = <<r>>
      BY <2>1, <3>2 DEF Inner, NoJobReleased
    <3>3. CASE new = <<r, d>>
      BY <2>1, <3>3 DEF Inner, NoJobReleased
    <3>4. CASE new = <<r, p, d>>
      BY <2>1, <3>4 DEF Inner, NoJobReleased
    <3> QED BY <2>2, <3>1, <3>2, <3>3, <3>4
  <2> QED BY <2>2, <2>3, <2>4
<1>6. PICK new \in {<<>>, <<Call("release", t)>>, <<Call("release", t), DropMask>>,
                    <<Call("release", t), Call("put", t), DropMask>>} : stack' = new \o Caller
  BY DEF activate_gp_job, activate_pp_job, activate_wait, activate
<1> QED BY <1>1, <1>2, <1>5, <1>6, KeptReturn

\* What the GPU, the fences and their work items do.
LEMMA Device_kept ==
  ASSUME RefInv, StackOK, NEW t \in Tracker, Device(t)
  PROVE  Kept
<1> USE DEF RefInv
<1>0. \A how \in {"mask", "always", "never"} : Unlock(how) \in Frame /\ Unlock(how).op = "unlock"
  BY FrameTypes DEF Unlock
<1>1. CASE complete_job(t)
  <2>1. PICK how \in {"mask", "always", "never"} : stack' = <<Call("release", t), Unlock(how)>>
    BY <1>1 DEF complete_job, lock
  <2>2. stack' = <<Call("release", t)>> \o <<Unlock(how)>>
    BY <2>1
  <2>3. /\ t \notin Job /\ LockFree /\ UNCHANGED phase
    BY <1>1 DEF complete_job, lock, trackerVars, Job, IsSoft, GpuKind
  <2>4. <<Call("release", t)>> \in Seq(Frame) /\ Inner(<<Call("release", t)>>)
    BY InnerFrames
  <2>5. NoJobReleased(<<Call("release", t)>>)
    BY <2>3 DEF NoJobReleased, Call
  <2> QED BY <1>0, <2>2, <2>3, <2>4, <2>5, KeptLock
<1>2. ASSUME NEW success \in BOOLEAN, signal_pp_tracker(t, success) PROVE Kept
  <2>1. /\ LockFree /\ UNCHANGED phase /\ pp_tracker[t] \in Tracker
        /\ release_reference(pp_tracker[t], "gp_job", <<Unlock("always")>>)
    BY <1>2 DEF signal_pp_tracker, tracker_put, TypeInv, TypeOK, TrackerTypes
  <2> QED BY <2>1, DropKept
<1>3. CASE sync_fence_callback(t)
  BY <1>3, KeptSame DEF sync_fence_callback, trackerVars
<1>4. CASE do_sync_fence_callback(t) \/ dma_fence_callback(t)
  <2>1. PICK how \in {"mask", "never"}, h \in {"sync", "dma"} : release_reference(t, h, <<Unlock(how)>>)
    BY <1>4 DEF do_sync_fence_callback, dma_fence_callback
  <2>2. LockFree /\ UNCHANGED phase
    BY <1>4 DEF do_sync_fence_callback, dma_fence_callback, trackerVars
  <2> QED BY <2>1, <2>2, DropKept
<1> QED BY <1>1, <1>2, <1>3, <1>4 DEF Device

\* Trackers that are not of soft jobs are created and added.
LEMMA ioctl_kept ==
  ASSUME RefInv, StackOK,
         \/ \E t \in Tracker \ Job : tracker_init(t) \/ add_tracker_any(t)
         \/ \E g, p \in Tracker : gp_job_create(g, p)
  PROVE  Kept
<1> USE DEF RefInv
<1>0. phase \in [Tracker -> {"free", "init", "waiting", "active"}] /\ Job \subseteq Tracker
  BY DEF TypeInv, TypeOK, TrackerTypes, Job
<1>1. ASSUME NEW t \in Tracker \ Job, tracker_init(t) PROVE Kept
  BY <1>0, <1>1, KeptSame DEF tracker_init
<1>2. ASSUME NEW g \in Tracker, NEW p \in Tracker, gp_job_create(g, p) PROVE Kept
  <2>1. g \notin Job
    BY <1>2, TimelineAssumption DEF gp_job_create, Job, IsSoft
  <2> QED BY <1>0, <1>2, <2>1, KeptSame DEF gp_job_create
<1>3. ASSUME NEW t \in Tracker \ Job, add_tracker_any(t) PROVE Kept
  <2>1. /\ LockFree /\ phase' = [phase EXCEPT ![t] = "waiting"]
        /\ \/ stack' = <<Call("activate", t), Unlock("mask")>>
           \/ stack' = <<Unlock("mask")>>
    BY <1>3, ZenonT(40) DEF add_tracker_any, add_tracker
  <2>2. \E new \in {<<Call("activate", t)>>, <<>>} : stack' = new \o <<Unlock("mask")>>
    BY <2>1
  <2>3. \A new \in {<<Call("activate", t)>>, <<>>} :
          new \in Seq(Frame) /\ Inner(new) /\ NoJobReleased(new)
    <3>1. <<Call("activate", t)>> \in Seq(Frame) /\ Inner(<<Call("activate", t)>>)
      BY InnerFrames
    <3>2. NoJobReleased(<<Call("activate", t)>>) /\ NoJobReleased(<<>>)
      BY DEF NoJobReleased, Call
    <3> QED BY <3>1, <3>2, InnerFrames
  <2>4. Unlock("mask") \in Frame /\ Unlock("mask").op = "unlock"
    BY FrameTypes DEF Unlock
  <2> QED BY <1>0, <2>1, <2>2, <2>3, <2>4, KeptLock
<1> QED BY <1>1, <1>2, <1>3

\* Every step of the timelines that does not start in the soft job system.
LEMMA TimelineKept ==
  ASSUME RefInv, StackOK, Timeline
  PROVE  Kept
<1>1. CASE \/ timer_expires \/ executor_schedule \/ stop_timer \/ cancel_work_sync
           \/ \E t \in Tracker : time_passes(t)
  BY <1>1, KeptSame DEF timer_expires, executor_schedule, stop_timer, cancel_work_sync,
     time_passes, trackerVars
<1> QED BY <1>1, cascade_kept, activate_kept, ReleasedKept, Device_kept, ioctl_kept DEF Timeline

------------------------------------------------------------------------------
(* The life of a job, step by step                                           *)

\* The soft job variables of t stay.
SameJob(t) ==
  /\ job_state'[t] = job_state[t] /\ refcount'[t] = refcount[t] /\ signaler'[t] = signaler[t]
  /\ t \in activated' <=> t \in activated
  /\ t \in abort_list' <=> t \in abort_list
  /\ aborted => aborted'

\* A job that a step leaves alone.
LEMMA LifeSame ==
  ASSUME NEW t \in Job, JobLife(t), SameJob(t), TrackerKept(t), Owed(t)' <=> Owed(t),
         is_aborting' = is_aborting, work_running => work_running' \/ ~Owed(t)
  PROVE  JobLife(t)'
<1>1. Count(Owed(t))' = Count(Owed(t)) /\ Ended(t)' = Ended(t)
  BY DEF Count, Ended, TrackerKept
<1>2. Private(t)' <=> Private(t)
  BY DEF Private, SameJob, TrackerKept
<1>3. StartedLife(t)' <=> StartedLife(t)
  BY <1>1 DEF StartedLife, SameJob, TrackerKept
<1>4. TimedOutLife(t) => TimedOutLife(t)'
  BY <1>1 DEF TimedOutLife, SameJob, TrackerKept
<1>5. SignaledLife(t)' <=> SignaledLife(t)
  BY <1>1 DEF SignaledLife, SameJob, TrackerKept
<1> QED BY <1>2, <1>3, <1>4, <1>5 DEF JobLife, SameJob

\* A job whose tracker is released by a call on the stack.
LEMMA LifeReleased ==
  ASSUME RefInv, NEW t \in Job, JobLife(t), SameJob(t), TrackerReleased(t), Owed(t)' <=> Owed(t),
         is_aborting' = is_aborting, work_running => work_running'
  PROVE  JobLife(t)'
<1>1. Count(Owed(t))' = Count(Owed(t))
  BY DEF Count
<1>2. phase[t] = "active" /\ phase'[t] = "free" /\ Running("release", t) /\ ~Running("release", t)'
  BY DEF RefInv, CallsOK, TrackerReleased, Job
<1>3. Ended(t)' /\ ~Private(t)
  BY <1>2 DEF Ended, Private
<1>4. StartedLife(t) => StartedLife(t)'
  BY <1>2, <1>3 DEF StartedLife, SameJob
<1>5. TimedOutLife(t) => TimedOutLife(t)'
  BY <1>1, <1>2, <1>3 DEF TimedOutLife, SameJob
<1>6. SignaledLife(t) => SignaledLife(t)'
  BY <1>1, <1>2, <1>3 DEF SignaledLife, SameJob
<1> QED BY <1>3, <1>4, <1>5, <1>6 DEF JobLife, SameJob

\* The parts of the invariant that every step needs.
LEMMA SoftParts ==
  ASSUME SoftInv
  PROVE  /\ RefInv /\ StackOK /\ SoftTypeOK /\ CloseSteps
         /\ \A t \in Job : JobLife(t) /\ t \in Tracker
         /\ \A t \in Job : Running("release", t) => phase[t] = "active"
         /\ LockFree => \A t \in Job : ~Owed(t) /\ \A op : ~Running(op, t)
         /\ phase \in [Tracker -> {"free", "init", "waiting", "active"}]
<1>1. RefInv /\ StackOK /\ SoftTypeOK /\ CloseSteps /\ \A t \in Job : JobLife(t) /\ t \in Tracker
  BY DEF SoftInv, StackOK, RefInv, TypeInv, TypeOK, Job
<1>2. LockFree => \A t \in Job : ~Owed(t) /\ \A op : ~Running(op, t)
  BY DEF LockFree, Owed, Pending, Running, OnTop
<1>3. phase \in [Tracker -> {"free", "init", "waiting", "active"}]
  BY <1>1 DEF RefInv, TypeInv, TypeOK, TrackerTypes
<1> QED BY <1>1, <1>2, <1>3 DEF RefInv, CallsOK

\* The rest of the invariant, once the life of every job is settled; RefInv' follows from
\* RefNext because every step is a step of the timelines.
SoftRest == SoftTypeOK' /\ StackOK' /\ CloseSteps' /\ \A t \in Job : JobLife(t)'

\* After stop_timer no job of a session that closes is half signaled.
LEMMA NoneSignaled ==
  ASSUME SoftInv, is_aborting, ~aborted, LockFree, NEW t \in Job
  PROVE  job_state[t] # "SIGNALED"
<1>1. JobLife(t) /\ ~Owed(t) /\ t \notin abort_list
  BY SoftParts DEF CloseSteps
<1> QED BY <1>1 DEF JobLife, SignaledLife

\* Steps of the timelines.
LEMMA Timeline_life == ASSUME SoftInv, Timeline PROVE SoftRest
<1>1. RefInv /\ StackOK /\ SoftTypeOK /\ CloseSteps /\ \A t \in Job : JobLife(t)
  BY SoftParts
<1>2. Kept
  BY <1>1, TimelineKept
<1>3. /\ is_aborting' = is_aborting /\ (work_running => work_running')
      /\ timer_enabled' = timer_enabled \/ stop_timer
  <2>1. CASE \E t \in Tracker \ Job : tracker_init(t) \/ add_tracker_any(t)
    BY <2>1 DEF tracker_init, add_tracker_any, add_tracker, timerVars, extVars
  <2>2. CASE \E g, p \in Tracker : gp_job_create(g, p)
    BY <2>2 DEF gp_job_create, timerVars, extVars
  <2>3. CASE \/ \E tl \in TimelineId : update_oldest_point(tl)
             \/ \E p \in Point, c \in Tracker \cup {NoTracker} : release_depended(p, c)
             \/ update_delayed_work \/ drop_mask
    <3>1. ASSUME NEW tl \in TimelineId, update_oldest_point(tl) PROVE UNCHANGED <<timerVars, extVars>>
      BY <3>1 DEF update_oldest_point
    <3>2. ASSUME NEW p \in Point, NEW c \in Tracker \cup {NoTracker}, release_depended(p, c)
          PROVE  UNCHANGED <<timerVars, extVars>>
      BY <3>2 DEF release_depended
    <3>3. CASE update_delayed_work \/ drop_mask
      BY <3>3 DEF update_delayed_work, drop_mask, timerVars, extVars
    <3> QED BY <2>3, <3>1, <3>2, <3>3 DEF timerVars, extVars
  <2>4. CASE \E t \in Tracker :
               \/ tracker_release(t) \/ activate_gp_job(t) \/ activate_pp_job(t)
               \/ activate_wait(t) \/ end_timeout(t)
    <3>1. ASSUME NEW t \in Tracker, tracker_release(t)
          PROVE  UNCHANGED <<timer_enabled, work_running, is_aborting>>
      BY <3>1 DEF tracker_release, extVars
    <3>2. ASSUME NEW t \in Tracker, activate_gp_job(t) \/ activate_pp_job(t) \/ activate_wait(t)
          PROVE  UNCHANGED <<timerVars, extVars>>
      BY <3>2 DEF activate_gp_job, activate_pp_job, activate_wait, activate
    <3>3. ASSUME NEW t \in Tracker, end_timeout(t)
          PROVE  UNCHANGED <<timer_enabled, work_running, is_aborting>>
      BY <3>3 DEF end_timeout, extVars
    <3> QED BY <2>4, <3>1, <3>2, <3>3 DEF timerVars, extVars
  <2>5. CASE \E t \in Tracker : put_failed(t) \/ Device(t)
    <3>1. ASSUME NEW t \in Tracker, put_failed(t) PROVE UNCHANGED <<timerVars, extVars>>
      BY <3>1 DEF put_failed, tracker_put
    <3>2. ASSUME NEW t \in Tracker, Device(t) PROVE UNCHANGED <<timerVars, is_aborting>>
      BY <3>2 DEF Device, complete_job, signal_pp_tracker, tracker_put, sync_fence_callback,
         do_sync_fence_callback, dma_fence_callback, extVars
    <3> QED BY <2>5, <3>1, <3>2 DEF timerVars, extVars
  <2>6. CASE \/ timer_expires \/ executor_schedule \/ stop_timer \/ cancel_work_sync
             \/ \E t \in Tracker : time_passes(t)
    BY <2>6 DEF timer_expires, executor_schedule, stop_timer, cancel_work_sync, time_passes,
       timerVars, extVars
  <2> QED BY <2>1, <2>2, <2>3, <2>4, <2>5, <2>6 DEF Timeline
<1>4. /\ \A t \in Job : SameJob(t)
      /\ UNCHANGED <<job_state, refcount, activated, signaler, abort_list, aborted>>
  BY DEF Timeline, softVars, SameJob
<1>5. \A t \in Job : JobLife(t)'
  BY <1>1, <1>2, <1>3, <1>4, LifeSame, LifeReleased DEF Kept, OwedKept
<1>6. SoftTypeOK' /\ StackOK'
  BY <1>1, <1>2, <1>4 DEF SoftTypeOK, Kept, OwedKept
<1>7. CloseSteps'
  <2>1. CASE timer_enabled' = timer_enabled
    BY <1>1, <1>3, <1>4, <2>1 DEF CloseSteps
  <2>2. CASE stop_timer
    <3>1. is_aborting /\ LockFree
      BY <2>2 DEF stop_timer
    <3> QED BY <1>1, <1>3, <1>4, <3>1, NoneSignaled DEF CloseSteps
  <2> QED BY <1>3, <2>1, <2>2
<1> QED BY <1>5, <1>6, <1>7 DEF SoftRest

\* A step that only changes the soft job variables of t.
LEMMA SoftOnly ==
  ASSUME SoftInv, UNCHANGED vars, NEW t \in Job, \A u \in Job \ {t} : SameJob(u),
         SoftTypeOK', CloseSteps', JobLife(t)'
  PROVE  SoftRest
<1>1. StackOK /\ (\A u \in Job : JobLife(u)) /\ Job \subseteq Tracker
  BY SoftParts DEF Job
<1>2. /\ UNCHANGED <<stack, phase>> /\ is_aborting' = is_aborting /\ work_running' = work_running
  BY DEF vars, trackerVars, timerVars, extVars
<1>3. OwedKept /\ \A u \in Job : TrackerKept(u)
  BY <1>1, <1>2, StackSame DEF TrackerKept, Running, OnTop
<1>4. \A u \in Job \ {t} : JobLife(u)'
  BY <1>1, <1>2, <1>3, LifeSame DEF OwedKept
<1> QED BY <1>3, <1>4 DEF SoftRest, OwedKept

\* The close of a session is where it was.
LEMMA CloseSame ==
  ASSUME CloseSteps, UNCHANGED <<timer_enabled, is_aborting, aborted>>,
         ~aborted => abort_list' = {},
         is_aborting => \A t \in Job : job_state'[t] = "SIGNALED" => job_state[t] = "SIGNALED"
  PROVE  CloseSteps'
BY DEF CloseSteps

\* mali_soft_job_destroy: the types, and the other jobs.
LEMMA destroy_types ==
  ASSUME SoftTypeOK, NEW t \in Job, refcount[t] \in {1, 2}, destroy(t)
  PROVE  /\ job_state' \in [Job -> {"FREE", "ALLOCATED", "STARTED", "SIGNALED", "TIMED_OUT"}]
         /\ refcount' \in [Job -> Nat] /\ activated' \in SUBSET Job
         /\ \A u \in Job \ {t} : /\ job_state'[u] = job_state[u] /\ refcount'[u] = refcount[u]
                                 /\ u \in activated' <=> u \in activated
         /\ \A u \in Job : job_state'[u] = "SIGNALED" => job_state[u] = "SIGNALED"
         /\ refcount[t] = 1 => job_state'[t] = "FREE" /\ refcount'[t] = 0 /\ t \notin activated'
         /\ refcount[t] = 2 => /\ job_state'[t] = job_state[t] /\ refcount'[t] = 1
                               /\ t \in activated' <=> t \in activated
<1>1. /\ job_state \in [Job -> {"FREE", "ALLOCATED", "STARTED", "SIGNALED", "TIMED_OUT"}]
      /\ refcount \in [Job -> Nat] /\ activated \in SUBSET Job
  BY DEF SoftTypeOK
<1>2. refcount' = [refcount EXCEPT ![t] = refcount[t] - 1]
  BY DEF destroy
<1>3. CASE refcount[t] = 1
  <2>1. job_state' = [job_state EXCEPT ![t] = "FREE"] /\ activated' = activated \ {t}
    BY <1>3 DEF destroy
  <2> QED BY <1>1, <1>2, <1>3, <2>1
<1>4. CASE refcount[t] = 2
  <2>1. UNCHANGED <<job_state, activated>>
    BY <1>4 DEF destroy
  <2> QED BY <1>1, <1>2, <1>4, <2>1
<1> QED BY <1>3, <1>4

LEMMA soft_job_create_life == ASSUME SoftInv, NEW t \in Job, soft_job_create(t) PROVE SoftRest
<1>1. SoftTypeOK /\ CloseSteps /\ JobLife(t)
  BY SoftParts
<1>2. /\ ~is_aborting /\ job_state[t] = "FREE" /\ UNCHANGED vars
      /\ job_state' = [job_state EXCEPT ![t] = "ALLOCATED"]
      /\ refcount' = [refcount EXCEPT ![t] = 1]
      /\ UNCHANGED <<activated, signaler, abort_list, aborted>>
  BY DEF soft_job_create, initial_refcount
<1>3. /\ UNCHANGED <<phase, stack, timer_enabled, is_aborting>>
  BY <1>2 DEF vars, trackerVars, timerVars, extVars
<1>4. /\ SoftTypeOK' /\ \A u \in Job \ {t} : SameJob(u)
      /\ job_state'[t] = "ALLOCATED" /\ refcount'[t] = 1 /\ signaler'[t] = signaler[t]
  BY <1>1, <1>2 DEF SoftTypeOK, SameJob
<1>5. JobLife(t)'
  <2>1. Private(t)
    BY <1>1, <1>2 DEF JobLife
  <2>2. Private(t)'
    BY <1>2, <1>3, <1>4, <2>1 DEF Private, Owed, Pending
  <2> QED BY <1>2, <1>3, <1>4, <2>2 DEF JobLife
<1>6. CloseSteps'
  BY <1>1, <1>2, <1>3, CloseSame DEF CloseSteps
<1> QED BY <1>2, <1>4, <1>5, <1>6, SoftOnly

LEMMA create_failed_life == ASSUME SoftInv, NEW t \in Job, create_failed(t) PROVE SoftRest
<1>1. SoftTypeOK /\ CloseSteps /\ JobLife(t)
  BY SoftParts
<1>2. /\ job_state[t] = "ALLOCATED" /\ destroy(t) /\ UNCHANGED vars
      /\ UNCHANGED <<signaler, abort_list, aborted>>
  BY DEF create_failed
<1>3. UNCHANGED <<phase, stack, timer_enabled, is_aborting>>
  BY <1>2 DEF vars, trackerVars, timerVars, extVars
<1>4. Private(t) /\ refcount[t] = 1
  BY <1>1, <1>2 DEF JobLife
<1>5. /\ SoftTypeOK' /\ \A u \in Job \ {t} : SameJob(u)
      /\ job_state'[t] = "FREE" /\ refcount'[t] = 0 /\ t \notin activated'
      /\ \A u \in Job : job_state'[u] = "SIGNALED" => job_state[u] = "SIGNALED"
  BY <1>1, <1>2, <1>4, destroy_types DEF SoftTypeOK, SameJob
<1>6. JobLife(t)'
  BY <1>2, <1>3, <1>4, <1>5 DEF JobLife, Private, Owed, Pending
<1>7. CloseSteps'
  BY <1>1, <1>2, <1>3, <1>5, CloseSame DEF CloseSteps
<1> QED BY <1>2, <1>5, <1>6, <1>7, SoftOnly

LEMMA soft_job_start_life == ASSUME SoftInv, NEW t \in Job, soft_job_start(t) PROVE SoftRest
<1>1. SoftTypeOK /\ CloseSteps /\ JobLife(t)
  BY SoftParts
<1>2. /\ job_state[t] = "ALLOCATED" /\ UNCHANGED vars
      /\ job_state' = [job_state EXCEPT ![t] = "STARTED"]
      /\ UNCHANGED <<refcount, activated, signaler, abort_list, aborted>>
  BY DEF soft_job_start
<1>3. UNCHANGED <<phase, stack, timer_enabled, is_aborting>>
  BY <1>2 DEF vars, trackerVars, timerVars, extVars
<1>4. SoftTypeOK' /\ \A u \in Job \ {t} : SameJob(u)
  BY <1>1, <1>2 DEF SoftTypeOK, SameJob
<1>5. job_state'[t] = "STARTED"
  BY <1>1, <1>2 DEF SoftTypeOK
<1>6. JobLife(t)'
  <2>1. Private(t) /\ refcount[t] = 1 /\ ~is_aborting
    BY <1>1, <1>2 DEF JobLife
  <2>2. StartedLife(t)'
    BY <1>2, <1>3, <2>1 DEF Private, StartedLife, Owed, Pending
  <2> QED BY <1>3, <1>5, <2>1, <2>2 DEF JobLife
<1>7. CloseSteps'
  BY <1>1, <1>2, <1>3, CloseSame DEF CloseSteps, SoftTypeOK
<1> QED BY <1>2, <1>4, <1>6, <1>7, SoftOnly

LEMMA signal_job_life == ASSUME SoftInv, NEW t \in Job, signal_job(t) PROVE SoftRest
<1>1. SoftTypeOK /\ CloseSteps /\ JobLife(t) /\ (Running("release", t) => phase[t] = "active")
  BY SoftParts
<1>2. /\ ~is_aborting /\ t \notin SelfSignaled /\ job_state[t] \in {"STARTED", "TIMED_OUT"}
      /\ UNCHANGED vars
      /\ job_state' = [job_state EXCEPT ![t] = "SIGNALED"]
      /\ signaler' = [signaler EXCEPT ![t] = IF job_state[t] = "STARTED" THEN "wait" ELSE "destroy"]
      /\ UNCHANGED <<refcount, activated, abort_list, aborted>>
  BY DEF signal_job, may_signal
<1>3. UNCHANGED <<phase, stack, timer_enabled, is_aborting, work_running>>
  BY <1>2 DEF vars, trackerVars, timerVars, extVars
<1>4. /\ SoftTypeOK' /\ \A u \in Job \ {t} : SameJob(u)
      /\ job_state'[t] = "SIGNALED"
      /\ signaler'[t] = IF job_state[t] = "STARTED" THEN "wait" ELSE "destroy"
  BY <1>1, <1>2 DEF SoftTypeOK, SameJob
<1>5. /\ Owed(t)' <=> Owed(t)
      /\ Running("release", t)' <=> Running("release", t)
      /\ Count(Owed(t))' = Count(Owed(t))
  BY <1>3 DEF Owed, Pending, Running, OnTop, Count
<1>6. JobLife(t)'
  <2>1. CASE job_state[t] = "STARTED"
    <3>1. StartedLife(t)
      BY <1>1, <2>1 DEF JobLife
    <3>2. SignaledLife(t)'
      BY <1>1, <1>2, <1>3, <1>4, <1>5, <2>1, <3>1 DEF StartedLife, SignaledLife
    <3> QED BY <1>2, <1>3, <1>4, <3>2 DEF JobLife
  <2>2. CASE job_state[t] = "TIMED_OUT"
    <3>1. TimedOutLife(t)
      BY <1>1, <2>2 DEF JobLife
    <3>2. SignaledLife(t)'
      BY <1>2, <1>3, <1>4, <1>5, <2>2, <3>1 DEF TimedOutLife, SignaledLife, Ended
    <3> QED BY <1>2, <1>3, <1>4, <3>2 DEF JobLife
  <2> QED BY <1>2, <2>1, <2>2
<1>7. CloseSteps'
  BY <1>1, <1>2, <1>3, CloseSame DEF CloseSteps
<1> QED BY <1>2, <1>4, <1>6, <1>7, SoftOnly

LEMMA signal_destroy_life == ASSUME SoftInv, NEW t \in Job, signal_destroy(t) PROVE SoftRest
<1>1. SoftTypeOK /\ CloseSteps /\ JobLife(t)
  BY SoftParts
<1>2. /\ t \notin abort_list /\ signaler[t] = "destroy" /\ destroy(t) /\ UNCHANGED vars
      /\ signaler' = [signaler EXCEPT ![t] = "none"]
      /\ UNCHANGED <<abort_list, aborted>>
  BY DEF signal_destroy
<1>3. UNCHANGED <<phase, stack, timer_enabled, is_aborting, work_running>>
  BY <1>2 DEF vars, trackerVars, timerVars, extVars
<1>4. /\ t \in activated /\ Ended(t) /\ refcount[t] = 1 + Count(Owed(t))
      /\ Running("release", t) => Owed(t)
      /\ job_state[t] = "SIGNALED" \/ (job_state[t] = "TIMED_OUT" /\ ~Owed(t))
  BY <1>1, <1>2 DEF JobLife, Private, StartedLife, TimedOutLife, SignaledLife
<1>5. refcount[t] = IF Owed(t) THEN 2 ELSE 1
  BY <1>4 DEF Count
<1>6. /\ SoftTypeOK' /\ \A u \in Job \ {t} : SameJob(u)
      /\ signaler'[t] = "none"
      /\ \A u \in Job : job_state'[u] = "SIGNALED" => job_state[u] = "SIGNALED"
      /\ ~Owed(t) => job_state'[t] = "FREE" /\ refcount'[t] = 0 /\ t \notin activated'
      /\ Owed(t) => job_state'[t] = "SIGNALED" /\ refcount'[t] = 1 /\ t \in activated'
  BY <1>1, <1>2, <1>4, <1>5, destroy_types DEF SoftTypeOK, SameJob
<1>7. (Owed(t)' <=> Owed(t)) /\ Ended(t)'
  BY <1>3, <1>4 DEF Owed, Pending, Ended, Running, OnTop
<1>8. JobLife(t)'
  <2>1. CASE ~Owed(t)
    <3>1. phase[t] = "free"
      BY <1>4, <2>1 DEF Ended
    <3> QED BY <1>2, <1>3, <1>6, <1>7, <2>1, <3>1 DEF JobLife, Private
  <2>2. CASE Owed(t)
    <3>1. SignaledLife(t)'
      BY <1>2, <1>6, <1>7, <2>2 DEF SignaledLife
    <3> QED BY <1>6, <2>2, <3>1 DEF JobLife
  <2> QED BY <2>1, <2>2
<1>9. CloseSteps'
  BY <1>1, <1>2, <1>3, <1>6, CloseSame DEF CloseSteps
<1> QED BY <1>2, <1>6, <1>8, <1>9, SoftOnly

LEMMA abort_move_life == ASSUME SoftInv, NEW t \in Job, abort_move(t) PROVE SoftRest
<1>1. SoftTypeOK /\ CloseSteps /\ JobLife(t)
  BY SoftParts
<1>2. /\ t \in abort_list /\ UNCHANGED vars
      /\ signaler[t] = IF job_state[t] = "SIGNALED" THEN "destroy" ELSE "none"
      /\ abort_list' = abort_list \ {t}
      /\ signaler' = [signaler EXCEPT ![t] = "destroy"]
      /\ UNCHANGED <<job_state, refcount, activated, aborted>>
  BY DEF abort_move
<1>3. UNCHANGED <<phase, stack, timer_enabled, is_aborting, work_running>>
  BY <1>2 DEF vars, trackerVars, timerVars, extVars
<1>4. is_aborting /\ aborted
  BY <1>1, <1>2 DEF CloseSteps
<1>5. /\ SoftTypeOK' /\ \A u \in Job \ {t} : SameJob(u)
      /\ signaler'[t] = "destroy" /\ t \notin abort_list'
  BY <1>1, <1>2 DEF SoftTypeOK, SameJob
<1>6. (Owed(t)' <=> Owed(t)) /\ (Ended(t)' <=> Ended(t)) /\ Count(Owed(t))' = Count(Owed(t))
      /\ (Running("release", t)' <=> Running("release", t))
  BY <1>3 DEF Owed, Pending, Ended, Running, OnTop, Count
<1>7. JobLife(t)'
  <2>1. CASE job_state[t] = "SIGNALED"
    <3>1. SignaledLife(t)
      BY <1>1, <2>1 DEF JobLife
    <3>2. SignaledLife(t)'
      BY <1>2, <1>5, <1>6, <2>1, <3>1 DEF SignaledLife
    <3> QED BY <1>2, <1>4, <1>5, <2>1, <3>2 DEF JobLife
  <2>2. CASE job_state[t] # "SIGNALED"
    <3>1. job_state[t] = "TIMED_OUT" /\ TimedOutLife(t)
      BY <1>1, <1>2, <2>2 DEF JobLife, Private, StartedLife
    <3>2. TimedOutLife(t)'
      BY <1>2, <1>3, <1>4, <1>5, <1>6, <3>1 DEF TimedOutLife
    <3> QED BY <1>2, <1>4, <1>5, <3>1, <3>2 DEF JobLife
  <2> QED BY <2>1, <2>2
<1>8. CloseSteps'
  BY <1>1, <1>2, <1>3 DEF CloseSteps
<1> QED BY <1>2, <1>5, <1>7, <1>8, SoftOnly

\* A step of one job, the tracker of which moves too.
LEMMA JobStep ==
  ASSUME SoftInv, NEW t \in Job, StackOK', SoftTypeOK', CloseSteps', JobLife(t)',
         \A u \in Job \ {t} : SameJob(u) /\ TrackerKept(u) /\ (Owed(u)' <=> Owed(u)),
         is_aborting' = is_aborting, work_running => work_running' \/ LockFree
  PROVE  SoftRest
<1>1. /\ \A u \in Job : JobLife(u)
      /\ LockFree => \A u \in Job : ~Owed(u)
  BY SoftParts
<1>2. \A u \in Job \ {t} : JobLife(u)'
  BY <1>1, LifeSame
<1> QED BY <1>2 DEF SoftRest

\* A soft job tracker is released by a thread that takes the lock for it.
LEMMA soft_release_stack ==
  ASSUME SoftInv, NEW t \in Job, soft_release(t)
  PROVE  /\ phase[t] = "active" /\ phase' = phase /\ StackOK'
         /\ Running("release", t)' /\ ~Owed(t) /\ ~Owed(t)'
         /\ \A u \in Job \ {t} : TrackerKept(u) /\ (Owed(u)' <=> Owed(u))
         /\ UNCHANGED <<timer_enabled, work_running, is_aborting>> /\ LockFree
<1>1. /\ LockFree /\ phase[t] = "active" /\ UNCHANGED <<phase, timer_enabled, work_running, is_aborting>>
      /\ stack' = <<Call("release", t), Unlock("mask")>> /\ t \in Tracker
  BY DEF soft_release, lock, trackerVars, timerVars, extVars, Job
<1>2. <<Call("release", t)>> \in Seq(Frame) /\ Inner(<<Call("release", t)>>)
  BY <1>1, InnerFrames
<1>3. Unlock("mask") \in Frame /\ Unlock("mask").op = "unlock"
  BY FrameTypes DEF Unlock
<1>4. stack' = <<Call("release", t)>> \o <<Unlock("mask")>>
  BY <1>1
<1>5. OwedKept
  BY <1>1, <1>2, <1>3, <1>4, StackLock
<1>6. stack' # <<>> /\ Head(stack') = Call("release", t)
  BY <1>1
<1>7. Running("release", t)' /\ \A u \in Job \ {t} : ~Running("release", u)'
  BY <1>6 DEF Running, OnTop, Call
<1>8. \A u \in Job : ~Owed(u) /\ ~Running("release", u)
  BY <1>1, SoftParts
<1> QED BY <1>1, <1>5, <1>7, <1>8 DEF OwedKept, TrackerKept

LEMMA start_tracker_life == ASSUME SoftInv, NEW t \in Job, start_tracker(t) PROVE SoftRest
<1>1. SoftTypeOK /\ CloseSteps /\ StackOK /\ JobLife(t) /\ t \in Tracker
      /\ (Running("release", t) => phase[t] = "active")
      /\ phase \in [Tracker -> {"free", "init", "waiting", "active"}]
  BY SoftParts
<1>2. /\ job_state[t] \in {"STARTED", "SIGNALED"} /\ phase[t] = "free" /\ t \notin activated
      /\ ~is_aborting /\ phase' = [phase EXCEPT ![t] = "init"]
      /\ UNCHANGED <<stack, timer_enabled, work_running, is_aborting>>
      /\ UNCHANGED <<job_state, refcount, activated, signaler, abort_list, aborted>>
  BY DEF start_tracker, Starting, tracker_init, softVars, timerVars, extVars
<1>3. OwedKept /\ (Running("release", t)' <=> Running("release", t))
      /\ \A u \in Job \ {t} : TrackerKept(u) /\ SameJob(u)
  BY <1>1, <1>2, StackSame DEF TrackerKept, SameJob, Running, OnTop, Job
<1>4. SoftTypeOK' /\ CloseSteps'
  BY <1>1, <1>2 DEF SoftTypeOK, CloseSteps
<1>5. phase'[t] = "init"
  BY <1>1, <1>2
<1>6. JobLife(t)'
  <2>1. CASE job_state[t] = "STARTED"
    <3>1. StartedLife(t) /\ ~(t \in activated)
      BY <1>1, <1>2, <2>1 DEF JobLife
    <3>2. StartedLife(t)'
      BY <1>2, <1>3, <1>5, <3>1 DEF StartedLife, OwedKept
    <3> QED BY <1>2, <2>1, <3>2 DEF JobLife
  <2>2. CASE job_state[t] = "SIGNALED"
    <3>1. SignaledLife(t)
      BY <1>1, <2>2 DEF JobLife
    <3>2. SignaledLife(t)'
      BY <1>2, <1>3, <1>5, <3>1 DEF SignaledLife, OwedKept
    <3> QED BY <1>2, <2>2, <3>2 DEF JobLife
  <2> QED BY <1>2, <2>1, <2>2
<1> QED BY <1>2, <1>3, <1>4, <1>6, JobStep DEF OwedKept

LEMMA start_add_life == ASSUME SoftInv, NEW t \in Job, start_add(t) PROVE SoftRest
<1>1. SoftTypeOK /\ CloseSteps /\ StackOK /\ JobLife(t) /\ t \in Tracker
      /\ phase \in [Tracker -> {"free", "init", "waiting", "active"}]
  BY SoftParts
<1>2. PICK f, sync, granted : add_tracker(t, f, granted, sync)
  BY DEF start_add, add_tracker_any
<1>3. /\ phase[t] = "init" /\ LockFree /\ ~is_aborting /\ phase' = [phase EXCEPT ![t] = "waiting"]
      /\ \/ stack' = <<Call("activate", t), Unlock("mask")>>
         \/ stack' = <<Unlock("mask")>>
      /\ UNCHANGED timerVars /\ is_aborting' = is_aborting
  BY <1>2, Zenon DEF add_tracker
<1>4. UNCHANGED <<timer_enabled, work_running, job_state, refcount, activated, signaler, abort_list, aborted>>
  BY <1>3 DEF start_add, softVars, timerVars
<1>5. OwedKept
  <2>1. \E new \in {<<Call("activate", t)>>, <<>>} : stack' = new \o <<Unlock("mask")>>
    BY <1>3
  <2>2. Unlock("mask") \in Frame /\ Unlock("mask").op = "unlock"
    BY FrameTypes DEF Unlock
  <2>3. \A new \in {<<Call("activate", t)>>, <<>>} : new \in Seq(Frame) /\ Inner(new)
    <3>1. <<Call("activate", t)>> \in Seq(Frame) /\ Inner(<<Call("activate", t)>>)
      BY <1>1, InnerFrames
    <3> QED BY <3>1, InnerFrames
  <2> QED BY <1>3, <2>1, <2>2, <2>3, StackLock
<1>6. \A u \in Job : ~Running("release", u) /\ ~Running("release", u)' /\ ~Owed(u)
  <2>1. stack' # <<>> /\ Head(stack') \in {Call("activate", t), Unlock("mask")}
    BY <1>3
  <2>2. Head(stack').op # "release"
    BY <2>1 DEF Call, Unlock
  <2> QED BY <1>3, <2>2, SoftParts DEF Running, OnTop
<1>7. \A u \in Job \ {t} : TrackerKept(u) /\ SameJob(u)
  BY <1>1, <1>3, <1>4, <1>6 DEF TrackerKept, SameJob, Job
<1>8. SoftTypeOK' /\ CloseSteps'
  BY <1>1, <1>3, <1>4 DEF SoftTypeOK, CloseSteps
<1>9. phase'[t] = "waiting"
  BY <1>1, <1>3
<1>10. JobLife(t)'
  <2>1. CASE job_state[t] = "STARTED"
    <3>1. StartedLife(t)
      BY <1>1, <2>1 DEF JobLife
    <3>2. StartedLife(t)'
      BY <1>3, <1>4, <1>5, <1>6, <1>9, <3>1 DEF StartedLife, OwedKept
    <3> QED BY <1>3, <1>4, <2>1, <3>2 DEF JobLife
  <2>2. CASE job_state[t] = "SIGNALED"
    <3>1. SignaledLife(t)
      BY <1>1, <2>2 DEF JobLife
    <3>2. SignaledLife(t)'
      BY <1>3, <1>4, <1>5, <1>6, <1>9, <3>1 DEF SignaledLife, OwedKept, Ended
    <3> QED BY <1>3, <1>4, <2>2, <3>2 DEF JobLife
  <2>3. CASE job_state[t] \notin {"STARTED", "SIGNALED"}
    BY <1>1, <1>3, <1>6, <2>3 DEF JobLife, Private, TimedOutLife, Ended
  <2> QED BY <2>1, <2>2, <2>3
<1> QED BY <1>3, <1>4, <1>5, <1>7, <1>8, <1>10, JobStep DEF OwedKept

LEMMA signal_release_life == ASSUME SoftInv, NEW t \in Job, signal_release(t) PROVE SoftRest
<1>1. SoftTypeOK /\ CloseSteps /\ JobLife(t)
  BY SoftParts
<1>2. /\ signaler[t] = "wait" /\ t \in activated /\ soft_release(t)
      /\ signaler' = [signaler EXCEPT ![t] = "release"]
      /\ UNCHANGED <<job_state, refcount, activated, abort_list, aborted>>
  BY DEF signal_release
<1>3. /\ phase[t] = "active" /\ phase' = phase /\ StackOK'
      /\ Running("release", t)' /\ ~Owed(t) /\ ~Owed(t)'
      /\ \A u \in Job \ {t} : TrackerKept(u) /\ (Owed(u)' <=> Owed(u))
      /\ UNCHANGED <<timer_enabled, work_running, is_aborting>>
  BY <1>2, soft_release_stack
<1>4. /\ SoftTypeOK' /\ (\A u \in Job \ {t} : SameJob(u)) /\ signaler'[t] = "release"
  BY <1>1, <1>2 DEF SoftTypeOK, SameJob
<1>5. job_state[t] = "SIGNALED" /\ refcount[t] = 1 /\ ~is_aborting
  BY <1>1, <1>2 DEF JobLife, Private, StartedLife, TimedOutLife, SignaledLife
<1>6. SignaledLife(t)'
  BY <1>2, <1>3, <1>4, <1>5 DEF SignaledLife, Ended
<1>7. JobLife(t)'
  BY <1>2, <1>3, <1>5, <1>6 DEF JobLife
<1>8. CloseSteps'
  BY <1>1, <1>2, <1>3 DEF CloseSteps
<1> QED BY <1>3, <1>4, <1>7, <1>8, JobStep

LEMMA abort_release_life == ASSUME SoftInv, NEW t \in Job, abort_release(t) PROVE SoftRest
<1>1. SoftTypeOK /\ CloseSteps /\ JobLife(t)
  BY SoftParts
<1>2. /\ signaler[t] = "none" /\ t \in abort_list /\ job_state[t] = "SIGNALED" /\ soft_release(t)
      /\ signaler' = [signaler EXCEPT ![t] = "release"]
      /\ UNCHANGED <<job_state, refcount, activated, abort_list, aborted>>
  BY DEF abort_release
<1>3. /\ phase[t] = "active" /\ phase' = phase /\ StackOK'
      /\ Running("release", t)' /\ ~Owed(t) /\ ~Owed(t)'
      /\ \A u \in Job \ {t} : TrackerKept(u) /\ (Owed(u)' <=> Owed(u))
      /\ UNCHANGED <<timer_enabled, work_running, is_aborting>>
  BY <1>2, soft_release_stack
<1>4. /\ SoftTypeOK' /\ (\A u \in Job \ {t} : SameJob(u)) /\ signaler'[t] = "release"
  BY <1>1, <1>2 DEF SoftTypeOK, SameJob
<1>5. refcount[t] = 1 /\ t \in activated
  BY <1>1, <1>2 DEF JobLife, SignaledLife
<1>6. SignaledLife(t)'
  BY <1>2, <1>3, <1>4, <1>5 DEF SignaledLife, Ended
<1>7. JobLife(t)'
  BY <1>2, <1>3, <1>5, <1>6 DEF JobLife
<1>8. CloseSteps'
  BY <1>1, <1>2, <1>3 DEF CloseSteps
<1> QED BY <1>3, <1>4, <1>7, <1>8, JobStep

\* The calls that release a tracker and destroy its job, on top of a stack that has no
\* such call yet.
LEMMA DestroyConcat ==
  ASSUME NEW t \in Tracker, NEW b \in Seq(Frame), b # <<>>, Once(b), UnlockEnds(b), ~Pending(b, t),
         stack' = <<Call("release", t), Call("destroy", t)>> \o b
  PROVE  /\ StackOK' /\ stack' # <<>> /\ Head(stack') = Call("release", t)
         /\ \A u : Owed(u)' <=> u = t \/ Pending(b, u)
<1> DEFINE d == Call("destroy", t)
           r == Call("release", t)
           s == <<d>> \o b
           n == Len(b)
<1>1. d \in Frame /\ r \in Frame /\ d.op = "destroy" /\ r.op = "release"
      /\ \A u : Call("destroy", u) = d <=> u = t
  BY FrameTypes DEF Call
<1> HIDE DEF d
<1>2. /\ <<d>> \in Seq(Frame) /\ Len(<<d>>) = 1 /\ <<d>>[1] = d
      /\ s \in Seq(Frame) /\ DOMAIN s = 1 .. 1 + n /\ DOMAIN b = 1 .. n /\ n \in Nat /\ Len(s) = 1 + n
      /\ \A i \in 1 .. 1 + n : s[i] = IF i <= 1 THEN d ELSE b[i - 1]
  <2>1. <<d>> \in Seq(Frame) /\ Len(<<d>>) = 1 /\ <<d>>[1] = d
    BY <1>1
  <2>2. /\ s \in Seq(Frame) /\ DOMAIN s = 1 .. Len(<<d>>) + Len(b) /\ DOMAIN b = 1 .. Len(b)
        /\ Len(b) \in Nat /\ Len(s) = Len(<<d>>) + Len(b)
        /\ \A i \in 1 .. Len(<<d>>) + Len(b) :
             s[i] = IF i <= Len(<<d>>) THEN <<d>>[i] ELSE b[i - Len(<<d>>)]
    BY <2>1, ConcatFrames
  <2> QED BY <2>1, <2>2
<1>3. n >= 1 /\ s # <<>>
  BY <1>2
<1> HIDE DEF s, n
<1>4. \A i \in DOMAIN s : i # 1 => i - 1 \in DOMAIN b /\ s[i] = b[i - 1]
  BY <1>2
<1>5. \A i \in DOMAIN b : i + 1 \in DOMAIN s /\ s[i + 1] = b[i]
  <2> SUFFICES ASSUME NEW i \in DOMAIN b PROVE i + 1 \in DOMAIN s /\ s[i + 1] = b[i]
    OBVIOUS
  <2>1. i + 1 \in 1 .. 1 + n /\ ~(i + 1 <= 1) /\ (i + 1) - 1 = i
    BY <1>2
  <2> QED BY <1>2, <2>1
<1>6. s[1] = d /\ 1 \in DOMAIN s
  BY <1>2
<1>7. \A i \in DOMAIN b : b[i] # d
  BY DEF Pending, d
<1>8. Once(s)
  <2> SUFFICES ASSUME NEW i \in DOMAIN s, NEW j \in DOMAIN s, s[i] = s[j], s[i].op = "destroy"
               PROVE  i = j
    BY DEF Once
  <2>1. CASE i = 1 \/ j = 1
    BY <1>4, <1>6, <1>7, <2>1
  <2>2. CASE i # 1 /\ j # 1
    <3>1. i - 1 = j - 1
      BY <1>4, <2>2 DEF Once
    <3> QED BY <1>2, <3>1
  <2> QED BY <2>1, <2>2
<1>9. UnlockEnds(s)
  <2> SUFFICES ASSUME NEW i \in DOMAIN s PROVE s[i].op = "unlock" <=> i = 1 + n
    BY <1>2 DEF UnlockEnds
  <2>1. CASE i = 1
    BY <1>1, <1>3, <1>6, <2>1, <1>2
  <2>2. CASE i # 1
    <3>1. s[i].op = "unlock" <=> i - 1 = n
      BY <1>2, <1>4, <2>2 DEF UnlockEnds, n
    <3> QED BY <1>2, <3>1
  <2> QED BY <2>1, <2>2
<1>10. \A u : Pending(s, u) <=> u = t \/ Pending(b, u)
  <2> SUFFICES ASSUME NEW u PROVE Pending(s, u) <=> u = t \/ Pending(b, u)
    OBVIOUS
  <2>1. ASSUME Pending(s, u), u # t PROVE Pending(b, u)
    BY <1>1, <1>4, <1>6, <2>1 DEF Pending
  <2>2. ASSUME Pending(b, u) PROVE Pending(s, u)
    BY <1>5, <2>2 DEF Pending
  <2>3. ASSUME u = t PROVE Pending(s, u)
    BY <1>6, <2>3 DEF Pending, d
  <2> QED BY <2>1, <2>2, <2>3
<1>11. stack' = <<r>> \o s
  <2>1. <<r, d>> = <<r>> \o <<d>>
    BY <1>1
  <2> QED BY <1>1, <1>2, <2>1, ConcatAssociative DEF s, d
<1>12. <<r>> \in Seq(Frame) /\ Inner(<<r>>)
  BY InnerFrames
<1>13. /\ Once(stack') /\ UnlockEnds(stack')
       /\ \A u : Pending(stack', u) <=> Pending(s, u)
  BY <1>2, <1>3, <1>8, <1>9, <1>11, <1>12, InnerConcat
<1>14. stack' \in Seq(Frame) /\ stack' # <<>> /\ Head(stack') = r
  BY <1>1, <1>2, <1>11
<1> QED BY <1>10, <1>13, <1>14 DEF StackOK, Owed

LEMMA activate_job_life == ASSUME SoftInv, NEW t \in Job, activate_job(t) PROVE SoftRest
<1>1. RefInv /\ SoftTypeOK /\ CloseSteps /\ StackOK /\ JobLife(t) /\ t \in Tracker
      /\ phase \in [Tracker -> {"free", "init", "waiting", "active"}]
  BY SoftParts
<1> DEFINE done == is_aborting \/ t \in SelfSignaled
           drop == IF is_aborting THEN <<DropMask>> ELSE <<>>
           work == <<[op |-> "update_delayed_work"]>>
<1>2. activate_soft_job(t, done)
  BY DEF activate_job
<1>3. /\ stack # <<>> /\ Head(stack).op = "activate" /\ phase[t] = "waiting"
      /\ phase' = [phase EXCEPT ![t] = "active"]
      /\ stack' = (IF done THEN <<Call("release", t), Call("destroy", t)>> ELSE <<>>)
                   \o drop \o work \o Caller
      /\ UNCHANGED <<timer_enabled, work_running, is_aborting>>
  BY <1>1, <1>2 DEF activate_soft_job, activate, Running, OnTop, timerVars, extVars, RefInv, CallsOK
<1>4. /\ activated' = IF is_aborting THEN activated ELSE activated \cup {t}
      /\ job_state' = IF t \in SelfSignaled /\ ~is_aborting
                      THEN [job_state EXCEPT ![t] = "SIGNALED"] ELSE job_state
      /\ UNCHANGED <<refcount, signaler, abort_list, aborted>>
  BY DEF activate_job, activated_after
<1> HIDE DEF done
<1>5. /\ t \notin activated /\ ~Owed(t) /\ refcount[t] = 1 /\ ~Running("release", t) /\ t \notin abort_list
      /\ \/ job_state[t] = "STARTED" /\ signaler[t] = "none"
         \/ /\ job_state[t] = "SIGNALED" /\ signaler[t] = "wait" /\ ~is_aborting
            /\ t \notin SelfSignaled
  BY <1>1, <1>3 DEF JobLife, Private, StartedLife, TimedOutLife, SignaledLife, Ended, Running, OnTop
<1>6. PICK b \in Seq(Frame) : /\ b # <<>> /\ Once(b) /\ UnlockEnds(b)
                              /\ \A u : Pending(b, u) <=> Owed(u)
                              /\ b = drop \o work \o Caller
                              /\ Head(b).op # "release"
  <2>1. /\ Caller \in Seq(Frame) /\ Caller # <<>> /\ Once(Caller) /\ UnlockEnds(Caller)
        /\ \A u : Pending(Caller, u) <=> Pending(stack, u) /\ Head(stack) # Call("destroy", u)
    BY <1>1, <1>3, PopFrame DEF StackOK, Caller
  <2>2. DropMask \in Frame /\ DropMask.op = "drop_mask"
    BY <1>1, FrameTypes DEF DropMask, RefInv, TypeInv, TypeOK, SchedTypes
  <2>3. drop \in Seq(Frame) /\ Inner(drop)
    BY <2>2, InnerFrames DEF Inner
  <2>4. work \in Seq(Frame) /\ Inner(work)
    BY InnerFrames
  <2>5. drop \o work \in Seq(Frame) /\ Inner(drop \o work) /\ drop \o work \o Caller \in Seq(Frame)
    <3> HIDE DEF drop, work
    <3> QED BY <2>1, <2>3, <2>4, InnerJoin, ConcatFrames
  <2>6. /\ drop \o work \o Caller # <<>>
        /\ Head(drop \o work \o Caller).op \in {"drop_mask", "update_delayed_work"}
    BY <2>1, <2>2
  <2>7. \A u : Head(stack) # Call("destroy", u)
    BY <1>3 DEF Call
  <2> HIDE DEF drop, work
  <2>8. /\ Once(drop \o work \o Caller) /\ UnlockEnds(drop \o work \o Caller)
        /\ \A u : Pending(drop \o work \o Caller, u) <=> Pending(Caller, u)
    BY <2>1, <2>5, InnerConcat
  <2> QED BY <2>1, <2>5, <2>6, <2>7, <2>8 DEF Owed
<1> HIDE DEF drop, work
<1>7. CASE done
  <2>1. stack' = <<Call("release", t), Call("destroy", t)>> \o b
    <3>1. stack' = <<Call("release", t), Call("destroy", t)>> \o drop \o work \o Caller
      BY <1>3, <1>7
    <3>2. /\ <<Call("release", t), Call("destroy", t)>> \in Seq(Frame) /\ Caller \in Seq(Frame)
          /\ drop \in Seq(Frame) /\ work \in Seq(Frame)
      <4>1. Call("release", t) \in Frame /\ Call("destroy", t) \in Frame
        BY <1>1, FrameTypes
      <4>2. DropMask \in Frame /\ [op |-> "update_delayed_work"] \in Frame
        BY <1>1, FrameTypes DEF RefInv, TypeInv, TypeOK, SchedTypes
      <4>3. Caller \in Seq(Frame)
        BY <1>1, <1>3, StackTypes DEF StackOK
      <4> HIDE DEF DropMask
      <4>4. <<DropMask>> \in Seq(Frame) /\ <<>> \in Seq(Frame)
        BY <4>2
      <4> QED BY <4>1, <4>2, <4>3, <4>4 DEF drop, work
    <3>3. drop \o work \in Seq(Frame)
      BY <3>2, ConcatProperties
    <3> DEFINE x == <<Call("release", t), Call("destroy", t)>>
    <3> HIDE DEF x
    <3>4. x \o (drop \o work) = x \o drop \o work
      BY SMTT(30), <3>2, ConcatAssociative DEF x
    <3>5. x \o (drop \o work \o Caller) = (x \o (drop \o work)) \o Caller
      BY SMTT(30), <3>2, <3>3, ConcatAssociative DEF x
    <3>6. stack' = x \o b
      BY <1>6, <3>1, <3>4, <3>5 DEF x
    <3> QED BY <3>6 DEF x
  <2>2. /\ StackOK' /\ stack' # <<>> /\ Head(stack') = Call("release", t)
        /\ \A u : Owed(u)' <=> u = t \/ Owed(u)
    BY <1>1, <1>5, <1>6, <2>1, DestroyConcat
  <2>3. Running("release", t)' /\ \A u \in Job \ {t} : ~Running("release", u)'
    BY <2>2 DEF Running, OnTop, Call
  <2>4. phase'[t] = "active" /\ Ended(t)'
    BY <1>1, <1>3, <2>3 DEF Ended
  <2>5. \A u \in Job \ {t} : TrackerKept(u) /\ SameJob(u) /\ (Owed(u)' <=> Owed(u))
    BY <1>1, <1>3, <1>4, <2>2, <2>3 DEF TrackerKept, SameJob, Running, OnTop, Job, SoftTypeOK
  <2>6. CASE is_aborting
    <3>1. StartedLife(t)'
      BY <1>3, <1>4, <1>5, <2>2, <2>4, <2>6 DEF StartedLife
    <3>2. JobLife(t)'
      BY <1>3, <1>4, <1>5, <2>6, <3>1 DEF JobLife
    <3>3. SoftTypeOK' /\ CloseSteps'
      BY <1>1, <1>3, <1>4, <2>6 DEF SoftTypeOK, CloseSteps
    <3> QED BY <1>3, <2>2, <2>5, <3>2, <3>3, JobStep
  <2>7. CASE ~is_aborting
    <3>0. t \in SelfSignaled
      BY <1>7, <2>7 DEF done
    <3>1. job_state'[t] = "SIGNALED" /\ t \in activated' /\ signaler[t] = "none"
      BY <1>1, <1>4, <1>5, <2>7, <3>0 DEF SoftTypeOK
    <3>2. SignaledLife(t)'
      BY <1>4, <1>5, <2>2, <2>4, <3>1 DEF SignaledLife
    <3>3. JobLife(t)'
      BY <1>3, <2>7, <3>1, <3>2 DEF JobLife
    <3>4. SoftTypeOK' /\ CloseSteps'
      BY <1>1, <1>3, <1>4, <2>7 DEF SoftTypeOK, CloseSteps
    <3> QED BY <1>3, <2>2, <2>5, <3>3, <3>4, JobStep
  <2> QED BY <2>6, <2>7
<1>8. CASE ~done
  <2>1. stack' = b
    <3>1. stack' = <<>> \o drop \o work \o Caller
      BY <1>3, <1>8
    <3>2. drop \in Seq(Frame)
      <4>1. drop = <<>>
        BY <1>8 DEF done, drop
      <4> QED BY <4>1
    <3>3. <<>> \o drop = drop
      BY <3>2
    <3> QED BY <1>6, <3>1, <3>3
  <2>2. StackOK' /\ (\A u : Owed(u)' <=> Owed(u)) /\ \A u \in Job : ~Running("release", u)'
    BY <1>6, <2>1 DEF StackOK, Owed, Running, OnTop
  <2>3. phase'[t] = "active" /\ ~is_aborting /\ t \notin SelfSignaled
    BY <1>1, <1>3, <1>8 DEF done
  <2>4. t \in activated' /\ job_state' = job_state
    BY <1>4, <2>3
  <2>5. \A u \in Job \ {t} : TrackerKept(u) /\ SameJob(u) /\ (Owed(u)' <=> Owed(u))
    BY <1>1, <1>3, <1>4, <2>2, <2>4 DEF TrackerKept, SameJob, Running, OnTop, Job
  <2>6. JobLife(t)'
    <3>1. CASE job_state[t] = "STARTED" /\ signaler[t] = "none"
      <4>1. StartedLife(t)'
        BY <1>3, <1>4, <1>5, <2>2, <2>3, <2>4, <3>1 DEF StartedLife
      <4> QED BY <1>3, <1>4, <2>3, <2>4, <3>1, <4>1 DEF JobLife
    <3>2. CASE job_state[t] = "SIGNALED" /\ signaler[t] = "wait"
      <4>1. SignaledLife(t)'
        BY <1>3, <1>4, <1>5, <2>2, <2>3, <2>4, <3>2 DEF SignaledLife
      <4> QED BY <1>3, <1>4, <2>3, <2>4, <3>2, <4>1 DEF JobLife
    <3> QED BY <1>5, <3>1, <3>2
  <2>7. SoftTypeOK' /\ CloseSteps'
    BY <1>1, <1>3, <1>4, <2>3, <2>4 DEF SoftTypeOK, CloseSteps
  <2> QED BY <1>3, <2>2, <2>5, <2>6, <2>7, JobStep
<1> QED BY <1>7, <1>8

LEMMA destroy_locked_life == ASSUME SoftInv, NEW t \in Job, destroy_locked(t) PROVE SoftRest
<1>1. RefInv /\ SoftTypeOK /\ CloseSteps /\ StackOK /\ JobLife(t) /\ t \in Tracker
  BY SoftParts
<1>2. /\ stack # <<>> /\ Head(stack).op = "destroy" /\ Head(stack).tracker = t /\ stack' = Caller
      /\ destroy(t)
      /\ UNCHANGED <<phase, timer_enabled, work_running, is_aborting, signaler, abort_list, aborted>>
  BY DEF destroy_locked, soft_job_destroy, Running, OnTop, trackerVars, timerVars, extVars
<1>3. Head(stack) = Call("destroy", t)
  <2>1. Head(stack) \in Frame
    BY <1>1, <1>2, StackTypes DEF StackOK
  <2> QED BY <1>2, <2>1 DEF Frame, Call
<1>4. /\ Caller \in Seq(Frame) /\ Caller # <<>> /\ Once(Caller) /\ UnlockEnds(Caller)
      /\ \A u : Pending(Caller, u) <=> Pending(stack, u) /\ Head(stack) # Call("destroy", u)
  BY <1>1, <1>2, PopFrame DEF StackOK, Caller
<1>5. Quiet(Caller) /\ Head(Caller).op # "release"
  BY <1>1, <1>2, <1>4, QuietTail DEF RefInv, CallsOK
<1>6. /\ StackOK' /\ ~Owed(t)' /\ (\A u : u # t => (Owed(u)' <=> Owed(u)))
      /\ \A u : ~Running("release", u) /\ ~Running("release", u)'
  <2>1. \A u : Call("destroy", u) = Call("destroy", t) <=> u = t
    BY DEF Call
  <2> QED BY <1>2, <1>3, <1>4, <1>5, <2>1 DEF StackOK, Owed, Running, OnTop
<1>7. Owed(t)
  <2>1. 1 \in DOMAIN stack /\ stack[1] = Head(stack)
    BY <1>1, <1>2 DEF StackOK
  <2> QED BY <1>3, <2>1 DEF Owed, Pending
<1>8. /\ phase[t] = "free" /\ refcount[t] \in {1, 2}
      /\ refcount[t] = 1 => signaler[t] = "none" /\ t \notin abort_list
      /\ refcount[t] = 2 => \/ job_state[t] = "TIMED_OUT"
                            \/ job_state[t] = "SIGNALED" /\ signaler[t] = "destroy"
  <2>1. Ended(t) => phase[t] = "free"
    BY <1>6 DEF Ended
  <2>2. Count(Owed(t)) = 1
    BY <1>7 DEF Count
  <2>3. CASE job_state[t] \in {"FREE", "ALLOCATED"}
    BY <1>1, <1>7, <2>3 DEF JobLife, Private
  <2>4. CASE job_state[t] = "STARTED"
    BY <1>1, <1>7, <2>1, <2>4 DEF JobLife, StartedLife
  <2>5. CASE job_state[t] = "TIMED_OUT"
    BY <1>1, <2>1, <2>2, <2>5 DEF JobLife, TimedOutLife
  <2>6. CASE job_state[t] = "SIGNALED"
    <3>1. SignaledLife(t)
      BY <1>1, <2>6 DEF JobLife
    <3>2. \/ /\ signaler[t] = "destroy" /\ Ended(t) /\ refcount[t] = 1 + Count(Owed(t))
          \/ /\ signaler[t] = "none" /\ refcount[t] = 1 /\ t \notin abort_list /\ Ended(t)
      BY <1>7, <3>1 DEF SignaledLife
    <3> QED BY <2>1, <2>2, <2>6, <3>2
  <2> QED BY <1>1, <2>3, <2>4, <2>5, <2>6 DEF JobLife
<1>9. /\ SoftTypeOK' /\ \A u \in Job \ {t} : SameJob(u)
      /\ \A u \in Job : job_state'[u] = "SIGNALED" => job_state[u] = "SIGNALED"
      /\ refcount[t] = 1 => job_state'[t] = "FREE" /\ refcount'[t] = 0 /\ t \notin activated'
      /\ refcount[t] = 2 => /\ job_state'[t] = job_state[t] /\ refcount'[t] = 1
                            /\ t \in activated' <=> t \in activated
  BY <1>1, <1>2, <1>8, destroy_types DEF SoftTypeOK, SameJob
<1>10. Ended(t)' /\ Count(Owed(t))' = 0
  BY <1>2, <1>6, <1>8 DEF Ended, Count
<1>11. JobLife(t)'
  <2>1. CASE refcount[t] = 1
    BY <1>2, <1>6, <1>8, <1>9, <2>1 DEF JobLife, Private
  <2>2. CASE refcount[t] = 2 /\ job_state[t] = "TIMED_OUT"
    <3>1. TimedOutLife(t)
      BY <1>1, <2>2 DEF JobLife
    <3>2. TimedOutLife(t)'
      BY <1>2, <1>6, <1>9, <1>10, <2>2, <3>1 DEF TimedOutLife
    <3> QED BY <1>1, <1>2, <1>9, <2>2, <3>2 DEF JobLife
  <2>3. CASE refcount[t] = 2 /\ job_state[t] = "SIGNALED" /\ signaler[t] = "destroy"
    <3>1. SignaledLife(t) /\ t \in activated
      BY <1>1, <2>3 DEF JobLife, SignaledLife
    <3>2. SignaledLife(t)'
      BY <1>2, <1>6, <1>9, <1>10, <2>3, <3>1 DEF SignaledLife
    <3> QED BY <1>1, <1>2, <1>9, <2>3, <3>2 DEF JobLife
  <2> QED BY <1>8, <2>1, <2>2, <2>3
<1>12. CloseSteps'
  BY <1>1, <1>2, <1>9 DEF CloseSteps
<1>13. \A u \in Job \ {t} : TrackerKept(u)
  BY <1>2, <1>6 DEF TrackerKept
<1> QED BY <1>2, <1>6, <1>9, <1>11, <1>12, <1>13, JobStep

LEMMA timeout_job_life == ASSUME SoftInv, timeout_job PROVE SoftRest
<1> DEFINE t     == First(tracker_list["SOFT"])
           fires == timer_enabled /\ t \in timer_active /\ t \in due
           done  == timer_enabled /\ t \in timer_active /\ t \in due /\ times_out(t)
           end   == <<Call("end_timeout", t), UnlockTimer>>
<1>1. /\ RefInv /\ SoftTypeOK /\ CloseSteps /\ StackOK /\ \A u \in Job : JobLife(u) /\ u \in Tracker
      /\ LockFree => \A u \in Job : ~Owed(u) /\ \A op : ~Running(op, u)
  BY SoftParts
<1>2. /\ LockFree /\ work_running' = fires
      /\ stack' = IF ~fires THEN <<>>
                  ELSE IF done THEN <<Call("release", t), Call("destroy", t)>> \o end
                  ELSE end
      /\ UNCHANGED <<phase, timer_enabled, is_aborting>>
  BY Zenon DEF timeout_job, timer_callback, trackerVars, extVars
<1>3. /\ IF done THEN time_out(t) ELSE UNCHANGED <<job_state, refcount>>
      /\ UNCHANGED <<activated, signaler, abort_list, aborted>>
  BY Zenon DEF timeout_job
<1>4. fires => t \in Tracker /\ phase[t] = "active"
  BY <1>1 DEF RefInv, TimedActive, TypeInv, TypeOK, TimerTypes
<1>5. done => fires /\ times_out(t)
  OBVIOUS
<1> HIDE DEF done, fires, t
<1>6. CASE ~done
  <2>1. StackOK' /\ (\A u : Owed(u)' <=> Owed(u)) /\ \A u \in Job : ~Running("release", u)'
    <3>1. CASE ~fires
      <4>1. stack' = stack
        BY <1>2, <3>1 DEF LockFree
      <4> QED BY <1>1, <1>2, <4>1, StackSame DEF OwedKept, Running, OnTop
    <3>2. CASE fires
      <4>1. stack' = <<Call("end_timeout", t)>> \o <<UnlockTimer>>
        BY <1>2, <1>6, <3>2
      <4>2. <<Call("end_timeout", t)>> \in Seq(Frame) /\ Inner(<<Call("end_timeout", t)>>)
        BY <1>4, <3>2, InnerFrames
      <4>3. UnlockTimer \in Frame /\ UnlockTimer.op = "unlock"
        BY FrameTypes DEF UnlockTimer
      <4>4. OwedKept
        BY <1>2, <4>1, <4>2, <4>3, StackLock
      <4>5. Head(stack').op = "end_timeout"
        BY <4>1 DEF Call
      <4> QED BY <4>4, <4>5 DEF OwedKept, Running, OnTop
    <3> QED BY <3>1, <3>2
  <2>2. UNCHANGED <<job_state, refcount, activated, signaler, abort_list, aborted>>
    BY <1>3, <1>6
  <2>3. \A u \in Job : SameJob(u) /\ TrackerKept(u)
    BY <1>1, <1>2, <2>1, <2>2 DEF SameJob, TrackerKept
  <2>4. \A u \in Job : JobLife(u)'
    BY <1>1, <1>2, <2>1, <2>3, LifeSame
  <2>5. SoftTypeOK' /\ CloseSteps'
    BY <1>1, <1>2, <2>2 DEF SoftTypeOK, CloseSteps
  <2> QED BY <2>1, <2>4, <2>5 DEF SoftRest
<1>7. CASE done
  <2>0. PICK x \in Job : x = t
    BY <1>5, <1>7 DEF times_out
  <2> DEFINE back == <<Call("end_timeout", x), UnlockTimer>>
  <2>1. /\ x \in Tracker /\ phase[x] = "active" /\ work_running'
        /\ ~is_aborting /\ job_state[x] = "STARTED"
    BY <1>2, <1>4, <1>5, <1>7, <2>0 DEF times_out
  <2>2. /\ signaler[x] = "none" /\ x \notin abort_list /\ refcount[x] = 1 /\ x \in activated
        /\ ~Owed(x)
    BY <1>1, <1>2, <2>1 DEF JobLife, StartedLife
  <2>3. /\ job_state' = [job_state EXCEPT ![x] = "TIMED_OUT"]
        /\ refcount' = [refcount EXCEPT ![x] = refcount[x] + 1]
    BY <1>3, <1>7, <2>0 DEF time_out
  <2>4. /\ back \in Seq(Frame) /\ back # <<>> /\ Once(back) /\ UnlockEnds(back)
        /\ \A u : ~Pending(back, u)
    <3>1. <<Call("end_timeout", x)>> \in Seq(Frame) /\ Inner(<<Call("end_timeout", x)>>)
      BY <2>1, InnerFrames
    <3>2. UnlockTimer \in Frame /\ UnlockTimer.op = "unlock"
      BY FrameTypes DEF UnlockTimer
    <3>3. /\ <<UnlockTimer>> \in Seq(Frame) /\ <<UnlockTimer>> # <<>> /\ Once(<<UnlockTimer>>)
          /\ UnlockEnds(<<UnlockTimer>>) /\ \A u : ~Pending(<<UnlockTimer>>, u)
      BY <3>2, UnlockFrame
    <3>4. back = <<Call("end_timeout", x)>> \o <<UnlockTimer>>
      OBVIOUS
    <3>5. back \in Seq(Frame) /\ back # <<>>
      BY <3>1, <3>3, <3>4
    <3> HIDE DEF back
    <3> QED BY <3>1, <3>3, <3>4, <3>5, InnerConcat
  <2>5. stack' = <<Call("release", x), Call("destroy", x)>> \o back
    BY <1>2, <1>5, <1>7, <2>0
  <2> HIDE DEF back
  <2>6. /\ StackOK' /\ stack' # <<>> /\ Head(stack') = Call("release", x)
        /\ \A u : Owed(u)' <=> u = x \/ Pending(back, u)
    BY <2>1, <2>4, <2>5, DestroyConcat
  <2>7. Running("release", x)' /\ \A u \in Job \ {x} : ~Running("release", u)'
    BY <2>6 DEF Running, OnTop, Call
  <2>8. /\ \A u \in Job \ {x} : SameJob(u) /\ TrackerKept(u) /\ (Owed(u)' <=> Owed(u))
    BY <1>1, <1>2, <1>3, <2>3, <2>4, <2>6, <2>7 DEF SameJob, TrackerKept, SoftTypeOK
  <2>9. job_state'[x] = "TIMED_OUT" /\ refcount'[x] = 2 /\ SoftTypeOK'
    BY <1>1, <1>3, <2>1, <2>2, <2>3 DEF SoftTypeOK
  <2>10. Ended(x)' /\ Count(Owed(x))' = 1
    BY <1>2, <2>1, <2>6, <2>7 DEF Ended, Count
  <2>11. JobLife(x)'
    <3>1. TimedOutLife(x)'
      BY <1>3, <2>1, <2>2, <2>6, <2>9, <2>10 DEF TimedOutLife
    <3> QED BY <1>3, <2>2, <2>9, <3>1 DEF JobLife
  <2>12. CloseSteps'
    BY <1>1, <1>2, <1>3, <2>1 DEF CloseSteps
  <2> QED BY <1>2, <2>1, <2>6, <2>8, <2>9, <2>11, <2>12, JobStep
<1> QED BY <1>6, <1>7

LEMMA return_from_release_life == ASSUME SoftInv, return_from_release PROVE SoftRest
<1>1. RefInv /\ SoftTypeOK /\ CloseSteps /\ StackOK /\ \A u \in Job : JobLife(u)
  BY SoftParts
<1>2. /\ stack # <<>> /\ Head(stack).op = "unlock" /\ stack' = Caller
      /\ UNCHANGED <<phase, timer_enabled, is_aborting>>
      /\ signaler' = [t \in Job |-> IF signaler[t] = "release" THEN "destroy" ELSE signaler[t]]
      /\ UNCHANGED <<job_state, refcount, activated, abort_list, aborted>>
  BY DEF return_from_release, unlock, OnTop, trackerVars, extVars
<1>3. stack' = <<>> /\ \A t : ~Owed(t)
  BY <1>1, <1>2, PopUnlock DEF StackOK, Caller, Owed
<1>4. StackOK' /\ \A t : ~Owed(t)' /\ ~Running("release", t) /\ ~Running("release", t)'
  BY <1>2, <1>3, EmptySeq DEF StackOK, Once, UnlockEnds, Owed, Pending, Running, OnTop
<1>5. SoftTypeOK' /\ CloseSteps'
  BY <1>1, <1>2 DEF SoftTypeOK, CloseSteps
<1>6. ASSUME NEW t \in Job PROVE JobLife(t)'
  <2>1. signaler'[t] = IF signaler[t] = "release" THEN "destroy" ELSE signaler[t]
    BY <1>2
  <2>2. Count(Owed(t)) = 0 /\ Count(Owed(t))' = 0
    BY <1>3, <1>4 DEF Count
  <2>3. Ended(t)' <=> Ended(t)
    BY <1>2, <1>4 DEF Ended
  <2>4. Private(t) => Private(t)'
    BY <1>2, <1>4, <2>1 DEF Private
  <2>5. StartedLife(t) => StartedLife(t)'
    BY <1>2, <1>3, <1>4, <2>1, <2>3 DEF StartedLife
  <2>6. TimedOutLife(t) => TimedOutLife(t)'
    BY <1>2, <1>4, <2>1, <2>2, <2>3 DEF TimedOutLife
  <2>7. SignaledLife(t) => SignaledLife(t)'
    BY <1>2, <1>3, <1>4, <2>1, <2>2, <2>3 DEF SignaledLife
  <2> QED BY <1>1, <1>2, <2>1, <2>4, <2>5, <2>6, <2>7 DEF JobLife
<1> QED BY <1>4, <1>5, <1>6 DEF SoftRest

LEMMA close_life == ASSUME SoftInv, close PROVE SoftRest
<1>1. RefInv /\ SoftTypeOK /\ CloseSteps /\ StackOK /\ (\A u \in Job : JobLife(u) /\ u \in Tracker)
      /\ phase \in [Tracker -> {"free", "init", "waiting", "active"}]
  BY SoftParts
<1>2. /\ ~is_aborting /\ is_aborting' = TRUE
      /\ \A t \in Tracker : phase[t] # "init"
      /\ \A t \in Job : job_state[t] # "ALLOCATED" /\ ~Starting(t) /\ signaler[t] = "none"
      /\ UNCHANGED <<phase, stack, timer_enabled, work_running>>
      /\ UNCHANGED <<job_state, refcount, activated, signaler, abort_list, aborted>>
  BY DEF close, abort, softVars, trackerVars, timerVars
<1>3. OwedKept /\ \A t : Running("release", t)' <=> Running("release", t)
  BY <1>1, <1>2, StackSame DEF Running, OnTop
<1>4. SoftTypeOK' /\ CloseSteps'
  BY <1>1, <1>2 DEF SoftTypeOK, CloseSteps
<1>5. ASSUME NEW t \in Job PROVE JobLife(t)'
  <2>1. /\ JobLife(t) /\ phase[t] # "init" /\ phase[t] \in {"free", "init", "waiting", "active"}
        /\ job_state[t] # "ALLOCATED" /\ ~Starting(t) /\ signaler[t] = "none"
    BY <1>1, <1>2
  <2>2. (Ended(t)' <=> Ended(t)) /\ (Owed(t)' <=> Owed(t)) /\ Count(Owed(t))' = Count(Owed(t))
    BY <1>2, <1>3 DEF Ended, OwedKept, Count
  <2>3. CASE job_state[t] = "FREE"
    BY <1>2, <2>1, <2>2, <2>3 DEF JobLife, Private
  <2>4. CASE job_state[t] = "STARTED"
    <3>1. StartedLife(t)
      BY <2>1, <2>4 DEF JobLife
    <3>2. phase[t] = "free" => t \in activated
      BY <2>1, <2>4 DEF Starting
    <3>3. StartedLife(t)'
      BY <1>2, <1>3, <2>1, <2>2, <3>1, <3>2 DEF StartedLife
    <3> QED BY <1>2, <2>1, <2>4, <3>3 DEF JobLife
  <2>5. CASE job_state[t] = "TIMED_OUT"
    <3>1. TimedOutLife(t)'
      BY <1>2, <1>3, <2>1, <2>2, <2>5 DEF JobLife, TimedOutLife
    <3> QED BY <1>2, <2>1, <2>5, <3>1 DEF JobLife
  <2>6. CASE job_state[t] = "SIGNALED"
    <3>1. SignaledLife(t)'
      BY <1>2, <1>3, <2>1, <2>2, <2>6 DEF JobLife, SignaledLife
    <3> QED BY <1>2, <2>1, <2>6, <3>1 DEF JobLife
  <2> QED BY <2>1, <2>3, <2>4, <2>5, <2>6 DEF JobLife
<1> QED BY <1>3, <1>4, <1>5 DEF SoftRest, OwedKept

LEMMA abort_collect_life == ASSUME SoftInv, abort_collect PROVE SoftRest
<1>1. RefInv /\ SoftTypeOK /\ CloseSteps /\ StackOK /\ \A u \in Job : JobLife(u)
  BY SoftParts
<1>2. /\ is_aborting /\ ~aborted /\ ~timer_enabled /\ ~work_running
      /\ job_state' = [t \in Job |-> IF t \in unsignaled THEN "SIGNALED" ELSE job_state[t]]
      /\ abort_list' = unsignaled \cup {t \in Job : job_state[t] = "TIMED_OUT"}
      /\ aborted' = TRUE
      /\ UNCHANGED <<refcount, activated, signaler>> /\ UNCHANGED vars
  BY DEF abort_collect
<1>3. UNCHANGED <<phase, stack, is_aborting, work_running, timer_enabled>>
  BY <1>2 DEF vars, trackerVars, timerVars, extVars
<1>4. OwedKept /\ \A t : Running("release", t)' <=> Running("release", t)
  BY <1>1, <1>3, StackSame DEF Running, OnTop
<1>5. unsignaled \subseteq Job
  BY DEF unsignaled
<1>6. SoftTypeOK' /\ CloseSteps'
  <2>1. \A t \in Job : job_state'[t] \in {"FREE", "ALLOCATED", "STARTED", "SIGNALED", "TIMED_OUT"}
    BY <1>1, <1>2 DEF SoftTypeOK
  <2>2. job_state' \in [Job -> {"FREE", "ALLOCATED", "STARTED", "SIGNALED", "TIMED_OUT"}]
    BY <1>2, <2>1
  <2> QED BY <1>1, <1>2, <1>3, <1>5, <2>2 DEF SoftTypeOK, CloseSteps
<1>7. ASSUME NEW t \in Job PROVE JobLife(t)'
  <2>1. JobLife(t) /\ job_state[t] # "SIGNALED" /\ t \notin abort_list
    BY <1>1, <1>2 DEF CloseSteps
  <2>2. (Ended(t)' <=> Ended(t)) /\ (Owed(t)' <=> Owed(t)) /\ Count(Owed(t))' = Count(Owed(t))
    BY <1>3, <1>4 DEF Ended, OwedKept, Count
  <2>3. t \in unsignaled <=> job_state[t] = "STARTED" /\ t \in activated
    BY DEF unsignaled
  <2>4. /\ job_state'[t] = IF t \in unsignaled THEN "SIGNALED" ELSE job_state[t]
        /\ t \in abort_list' <=> t \in unsignaled \/ job_state[t] = "TIMED_OUT"
    BY <1>2
  <2>5. CASE t \in unsignaled
    <3>1. StartedLife(t)
      BY <2>1, <2>3, <2>5 DEF JobLife
    <3>2. SignaledLife(t)'
      BY <1>2, <1>3, <1>4, <2>2, <2>3, <2>4, <2>5, <3>1 DEF StartedLife, SignaledLife
    <3> QED BY <2>4, <2>5, <3>2 DEF JobLife
  <2>6. CASE job_state[t] = "STARTED" /\ t \notin unsignaled
    <3>1. StartedLife(t)
      BY <2>1, <2>6 DEF JobLife
    <3>2. StartedLife(t)'
      BY <1>2, <1>3, <1>4, <2>2, <2>3, <2>4, <2>6, <3>1 DEF StartedLife
    <3> QED BY <1>2, <2>4, <2>6, <3>1, <3>2 DEF JobLife, StartedLife
  <2>7. CASE job_state[t] = "TIMED_OUT"
    <3>1. TimedOutLife(t) /\ signaler[t] = "none"
      BY <1>2, <2>1, <2>7 DEF JobLife
    <3>2. TimedOutLife(t)'
      BY <1>2, <1>3, <1>4, <2>2, <3>1 DEF TimedOutLife
    <3> QED BY <1>2, <2>3, <2>4, <2>7, <3>1, <3>2 DEF JobLife, TimedOutLife
  <2>8. CASE job_state[t] \in {"FREE", "ALLOCATED"}
    BY <1>2, <1>3, <1>4, <2>1, <2>2, <2>3, <2>4, <2>8 DEF JobLife, Private
  <2> QED BY <2>1, <2>5, <2>6, <2>7, <2>8 DEF JobLife
<1> QED BY <1>4, <1>6, <1>7 DEF SoftRest, OwedKept

------------------------------------------------------------------------------
(* The invariant of the soft job system                                      *)

LEMMA SoftInvInit == SoftInit => SoftInv
<1> SUFFICES ASSUME SoftInit PROVE SoftInv
  OBVIOUS
<1>1. RefInv
  BY RefInit DEF SoftInit
<1>2. SoftTypeOK /\ CloseSteps
  BY DEF SoftInit, SoftTypeOK, CloseSteps, Init
<1>3. stack = <<>>
  BY DEF SoftInit, Init
<1>4. Once(stack) /\ UnlockEnds(stack) /\ \A t : ~Owed(t)
  BY <1>3 DEF Once, UnlockEnds, Owed, Pending
<1>5. \A t \in Job : JobLife(t)
  BY <1>4 DEF SoftInit, Init, JobLife, Private, Job
<1> QED BY <1>1, <1>2, <1>4, <1>5 DEF SoftInv

\* Every step keeps the invariant.
LEMMA SoftInvNext == SoftInv /\ [SoftNext]_allVars => SoftInv'
<1> SUFFICES ASSUME SoftInv, [SoftNext]_allVars PROVE SoftInv'
  OBVIOUS
<1>1. RefInv'
  BY SoftStep, RefNext DEF SoftInv
<1>2. CASE SoftNext
  <2>1. ASSUME NEW t \in Job,
               \/ soft_job_create(t) \/ create_failed(t) \/ soft_job_start(t)
               \/ start_tracker(t) \/ start_add(t)
               \/ signal_job(t) \/ signal_release(t) \/ signal_destroy(t)
               \/ activate_job(t) \/ destroy_locked(t)
               \/ abort_release(t) \/ abort_move(t)
        PROVE  SoftRest
    BY <2>1, soft_job_create_life, create_failed_life, soft_job_start_life, start_tracker_life,
       start_add_life, signal_job_life, signal_release_life, signal_destroy_life,
       activate_job_life, destroy_locked_life, abort_release_life, abort_move_life
  <2>2. SoftRest
    BY <1>2, <2>1, Timeline_life, timeout_job_life, return_from_release_life, close_life,
       abort_collect_life DEF SoftNext
  <2> QED BY <1>1, <2>2 DEF SoftRest, SoftInv, StackOK
<1>3. CASE UNCHANGED allVars
  <2>1. UNCHANGED vars /\ UNCHANGED softVars
    BY <1>3 DEF allVars
  <2>2. /\ UNCHANGED <<phase, stack, timer_enabled, is_aborting, work_running>>
        /\ UNCHANGED <<job_state, refcount, activated, signaler, abort_list, aborted>>
    BY <2>1 DEF vars, softVars, trackerVars, timerVars, extVars
  <2>3. OwedKept /\ \A t \in Job : JobLife(t) /\ SameJob(t) /\ TrackerKept(t)
    BY <2>2, SoftParts, StackSame DEF SameJob, TrackerKept, Running, OnTop
  <2>4. \A t \in Job : JobLife(t)'
    BY <2>2, <2>3, LifeSame DEF OwedKept
  <2>5. SoftTypeOK' /\ CloseSteps'
    BY <2>2, SoftParts DEF SoftTypeOK, CloseSteps
  <2> QED BY <1>1, <2>3, <2>4, <2>5 DEF SoftInv, OwedKept, StackOK
<1> QED BY <1>2, <1>3

\* SoftInv holds in every state of the soft job system (mali_soft_job.c).
THEOREM SoftInvariant == SoftSpec => []SoftInv
BY SoftInvInit, SoftInvNext, PTL DEF SoftSpec

\* The number of frames of a call that is on the stack at most once.
LEMMA FramesOnce ==
  ASSUME NEW op, NEW t,
         \A i, j \in DOMAIN stack : stack[i] = Call(op, t) /\ stack[j] = Call(op, t) => i = j
  PROVE  Frames(op, t) = Count(\E i \in DOMAIN stack : stack[i] = Call(op, t))
<1> DEFINE S == {i \in DOMAIN stack : stack[i] = Call(op, t)}
<1>1. CASE S = {}
  <2>1. ~(\E i \in DOMAIN stack : stack[i] = Call(op, t))
    BY <1>1
  <2> QED BY <1>1, <2>1, FS_EmptySet DEF Frames, Count
<1>2. CASE S # {}
  <2>1. PICK i \in DOMAIN stack : stack[i] = Call(op, t)
    BY <1>2
  <2>2. S = {i}
    BY <2>1
  <2>3. Cardinality(S) = 1
    BY <2>2, FS_Singleton
  <2> QED BY <2>1, <2>3 DEF Frames, Count
<1> QED BY <1>1, <1>2

\* The calls of a job that are under way.
LEMMA FramesOf ==
  ASSUME SoftInv, NEW t \in Job
  PROVE  /\ Frames("destroy", t) = Count(Owed(t))
         /\ Frames("release", t) = Count(Running("release", t))
         /\ Frames("activate", t) = Count(Running("activate", t))
<1>1. Frames("destroy", t) = Count(Owed(t))
  <2>1. Call("destroy", t).op = "destroy"
    BY DEF Call
  <2> QED BY <2>1, FramesOnce DEF SoftInv, Once, Owed, Pending
<1>2. ASSUME NEW op \in {"release", "activate"}
      PROVE  Frames(op, t) = Count(Running(op, t))
  <2>1. stack \in Seq(Frame) /\ (stack # <<>> => Quiet(Caller))
    BY DEF SoftInv, RefInv, CallsOK, TypeInv, TypeOK
  <2>2. Call(op, t).op = op /\ Call(op, t).tracker = t
    BY DEF Call
  <2>3. \A i \in DOMAIN stack : stack[i].op = op => i = 1 /\ stack[i] = Head(stack)
    <3> SUFFICES ASSUME NEW i \in DOMAIN stack, stack[i].op = op, i # 1 PROVE FALSE
      BY <2>1
    <3>1. i - 1 \in DOMAIN Caller /\ Caller[i - 1] = stack[i] /\ stack # <<>>
      BY <2>1 DEF Caller
    <3> QED BY <2>1, <3>1 DEF Quiet
  <2>4. stack # <<>> => 1 \in DOMAIN stack /\ stack[1] = Head(stack) /\ Head(stack) \in Frame
    BY <2>1
  <2>5. (\E i \in DOMAIN stack : stack[i] = Call(op, t)) <=> Running(op, t)
    <3>1. ASSUME NEW i \in DOMAIN stack, stack[i] = Call(op, t) PROVE Running(op, t)
      BY <2>1, <2>2, <2>3, <3>1 DEF Running, OnTop
    <3>2. ASSUME Running(op, t) PROVE \E i \in DOMAIN stack : stack[i] = Call(op, t)
      <4>1. Head(stack) = Call(op, t)
        BY <2>2, <2>4, <3>2 DEF Running, OnTop, Frame, Call
      <4> QED BY <2>4, <3>2, <4>1 DEF Running, OnTop
    <3> QED BY <3>1, <3>2
  <2>6. Frames(op, t) = Count(\E i \in DOMAIN stack : stack[i] = Call(op, t))
    BY <2>2, <2>3, FramesOnce
  <2> QED BY <2>5, <2>6 DEF Count
<1> QED BY <1>1, <1>2

\* The reference count of every soft job is what is still owed to it, through signals,
\* time-outs, activations and the abort (mali_soft_job_destroy frees it exactly once, and
\* nobody drops a reference that he does not have).
THEOREM JobRefCountCorrect == SoftSpec => []JobRefCount
<1>1. SoftInv => JobRefCount
  <2> SUFFICES ASSUME SoftInv, NEW t \in Job
               PROVE  refcount[t] =
                        Frames("destroy", t)
                        + Count(/\ job_state[t] \in {"ALLOCATED", "STARTED", "TIMED_OUT"}
                                /\ ~(job_state[t] = "STARTED" /\ Frames("destroy", t) > 0))
                        + Count(job_state[t] = "SIGNALED" /\ (signaler[t] # "none" \/ t \in abort_list))
    BY DEF JobRefCount
  <2>1. JobLife(t) /\ Frames("destroy", t) = Count(Owed(t))
    BY FramesOf DEF SoftInv
  <2>2. Frames("destroy", t) = IF Owed(t) THEN 1 ELSE 0
    BY <2>1 DEF Count
  <2>3. CASE job_state[t] \in {"FREE", "ALLOCATED"}
    BY <2>1, <2>2, <2>3 DEF JobLife, Private, Count
  <2>4. CASE job_state[t] = "STARTED"
    BY <2>1, <2>2, <2>4 DEF JobLife, StartedLife, Count
  <2>5. CASE job_state[t] = "TIMED_OUT"
    BY <2>1, <2>2, <2>5 DEF JobLife, TimedOutLife, Count
  <2>6. CASE job_state[t] = "SIGNALED"
    <3>1. SignaledLife(t)
      BY <2>1, <2>6 DEF JobLife
    <3>2. refcount[t] = (IF Owed(t) THEN 1 ELSE 0)
                        + (IF signaler[t] # "none" \/ t \in abort_list THEN 1 ELSE 0)
      BY <3>1 DEF SignaledLife, Count
    <3> QED BY <2>2, <2>6, <3>2 DEF Count
  <2> QED BY <2>1, <2>3, <2>4, <2>5, <2>6 DEF JobLife
<1> QED BY <1>1, SoftInvariant, PTL

\* A job is not freed while its tracker is in use, a signaler or the abort works on it, or
\* a call that activates, releases or destroys it is on the stack.  The end of the time-out
\* is not among these calls: it writes to the tracker of a job that may be free
\* (JobOutlivesCalls fails).
THEOREM JobOutlivesTrackerCorrect == SoftSpec => []JobOutlivesTracker
<1>1. SoftInv => JobOutlivesTracker
  <2> SUFFICES ASSUME SoftInv, NEW t \in Job, job_state[t] = "FREE"
               PROVE  /\ phase[t] = "free" /\ signaler[t] = "none" /\ t \notin abort_list
                      /\ \A op \in {"activate", "release", "destroy"} : ~(Frames(op, t) > 0)
    BY DEF JobOutlivesTracker
  <2>1. Private(t)
    BY DEF SoftInv, JobLife
  <2>2. ~Running("activate", t) /\ ~Running("release", t) /\ ~Owed(t)
    BY <2>1 DEF SoftInv, RefInv, CallsOK, Private, Job
  <2> QED BY <2>1, <2>2, FramesOf DEF Private, Count
<1> QED BY <1>1, SoftInvariant, PTL

\* The tracker of a soft job is released once and only while it is active, although the
\* signaler, the timer, the activation and the abort may all be about to do it.
THEOREM ReleasedOnceCorrect == SoftSpec => []ReleasedOnce
<1>1. SoftInv => ReleasedOnce
  <2> SUFFICES ASSUME SoftInv, NEW t \in Job
               PROVE  LET pending == Frames("release", t)
                                       + Count(signaler[t] = "wait" /\ t \in activated)
                                       + Count(/\ t \in abort_list /\ job_state[t] = "SIGNALED"
                                               /\ signaler[t] = "none")
                      IN  pending > 0 => pending = 1 /\ phase[t] = "active"
    BY DEF ReleasedOnce
  <2>1. JobLife(t) /\ Frames("release", t) = (IF Running("release", t) THEN 1 ELSE 0)
        /\ (Running("release", t) => phase[t] = "active")
    BY FramesOf, SoftParts DEF Count
  <2>2. signaler[t] = "wait" /\ t \in activated => phase[t] = "active" /\ ~Running("release", t)
    BY <2>1 DEF JobLife, Private, StartedLife, TimedOutLife, SignaledLife
  <2>3. t \in abort_list /\ job_state[t] = "SIGNALED" /\ signaler[t] = "none"
          => phase[t] = "active" /\ ~Running("release", t)
    BY <2>1 DEF JobLife, SignaledLife
  <2> QED BY <2>1, <2>2, <2>3 DEF Count
<1> QED BY <1>1, SoftInvariant, PTL

\* The timer only ever times out a job that is activated and started or signaled (the
\* asserts of mali_soft_job_system_timeout_job).
THEOREM TimeoutCorrect == SoftSpec => []TimeoutSeesActivated
<1>1. SoftInv => TimeoutSeesActivated
  <2> DEFINE tail == First(tracker_list["SOFT"])
  <2> SUFFICES ASSUME SoftInv, LockFree, tail \in timer_active
               PROVE  tail \in activated /\ job_state[tail] \in {"STARTED", "SIGNALED"}
    BY DEF TimeoutSeesActivated
  <2>1. /\ tail \in Tracker /\ phase[tail] = "active" /\ "SOFT" \in TimelineId
        /\ tracker_list["SOFT"] \in Seq(Tracker)
    BY DEF SoftInv, RefInv, TimedActive, TypeInv, TypeOK, TimerTypes, ListTypes, TimelineId
  <2>2. tail \in Job
    <3>1. tracker_list["SOFT"] # <<>>
      BY <2>1, TimelineAssumption DEF First
    <3>2. tail \in Range(tracker_list["SOFT"])
      BY <2>1, <3>1 DEF First, Range
    <3>3. Home[Kind[tail]] = "SOFT"
      BY <2>1, <3>2 DEF SoftInv, RefInv, TypeInv, TrackersListed
    <3> QED BY <2>1, <3>3, HomeValues DEF Job
  <2> HIDE DEF tail
  <2>3. JobLife(tail) /\ ~Owed(tail) /\ ~Running("release", tail)
    BY <2>2, SoftParts
  <2> QED BY <2>1, <2>3 DEF JobLife, Private, StartedLife, TimedOutLife, SignaledLife, Ended
<1> QED BY <1>1, SoftInvariant, PTL

\* The abort finds every job started or timed out: nothing that was under way when the
\* session was closed is half done (the assert of soft_job_system_abort).
THEOREM AbortStatesCorrect == SoftSpec => []AbortStates
<1>1. SoftInv => AbortStates
  BY DEF SoftInv, CloseSteps, AbortStates, Allocated, JobLife
<1> QED BY <1>1, SoftInvariant, PTL

\* Types of the soft job system.
THEOREM SoftTypeCorrect == SoftSpec => []SoftTypeOK
<1>1. SoftInv => SoftTypeOK
  BY DEF SoftInv
<1> QED BY <1>1, SoftInvariant, PTL
==============================================================================
