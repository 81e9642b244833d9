------------------------------ MODULE MaliJobProofs ------------------------------
(***************************************************************************)
(* The jobs between the scheduler and the executor, with any number of     *)
(* jobs, sub jobs, sessions and groups: every sub job is waiting, on a     *)
(* group or completed, the queues hold the jobs with sub jobs left, once   *)
(* and in order, an aborted session has no job left in them, the executor  *)
(* finds the jobs it has counted, and the whole implements MaliJobSpec.    *)
(*                                                                         *)
(* JobInv is inductive on its own, but for the groups that a job starts    *)
(* on, which ExecInv (MaliExecutorProofs) shows to be without a job.  The  *)
(* order of the queues (QueuesOrdered), what the executor has counted      *)
(* (PhysInv) and the remaining types (OsTypes) rest on it, each on its     *)
(* own.                                                                    *)
(***************************************************************************)
EXTENDS MaliExecutorProofs, MaliListLemmas

Priority == {"high", "normal"}
RunsOn(j) == {g \in Group : running[g] = j}
Waits(j)  == job_phase[j] = "queued" /\ Unstarted(j) > 0
Live      == {j \in Job : job_phase[j] # "free"}

GpWaiting(p) == {j \in Job : JobKind[j] = "gp" /\ QueueOf(j) = p /\ Waits(j)}
PpWaiting(p) == {j \in Job : JobKind[j] # "gp" /\ QueueOf(j) = p /\ Waits(j)}
AllGp        == {j \in Job : JobKind[j] = "gp" /\ Waits(j)}
AllPp        == {j \in Job : JobKind[j] # "gp" /\ Waits(j)}

IsQueues(r)  == r = [high |-> r.high, normal |-> r.normal]
IsList(q, S) == q \in Seq(Job) /\ Distinct(q) /\ Range(q) = S

JobTypes ==
  /\ job_phase \in [Job -> {"free", "timeline", "deferred", "queued", "done"}]
  /\ session_phase \in [Session -> {"open", "scheduler", "executor", "aborting", "drain"}]
  /\ sub_jobs_started \in [Job -> Nat] /\ sub_jobs_completed \in [Job -> Nat]
  /\ running \in [Group -> Job \cup {NoJob}]
  /\ IsQueues(job_queue_gp) /\ IsQueues(job_queue_pp)
  /\ depth = [gp |-> depth.gp, pp |-> depth.pp]
  /\ schedule_due \in BOOLEAN

\* A queue holds the jobs of its kind and priority that have sub jobs left, once.
QueuesMatch ==
  /\ \A p \in Priority : IsList(job_queue_gp[p], GpWaiting(p)) /\ IsList(job_queue_pp[p], PpWaiting(p))
  /\ IsList(created, Live)

\* What was started of a queued job and not completed is on a group.
CountersMatch ==
  \A j \in Job :
    /\ sub_jobs_completed[j] <= sub_jobs_started[j] /\ sub_jobs_started[j] <= SubJobs[j]
    /\ job_phase[j] \in {"free", "timeline", "deferred"} => sub_jobs_started[j] = 0
    /\ job_phase[j] = "queued" =>
         /\ sub_jobs_completed[j] < SubJobs[j]
         /\ sub_jobs_started[j] - sub_jobs_completed[j] = Cardinality(RunsOn(j))
    /\ job_phase[j] # "queued" => RunsOn(j) = {}

\* A session that closes has nothing left to start once the scheduler has aborted it,
\* and nothing that runs once the executor has.
ClosingMatch ==
  \A j \in Job : job_phase[j] = "queued" =>
    /\ session_phase[SessionOf[j]] # "drain"
    /\ session_phase[SessionOf[j]] \in {"executor", "aborting"} => Unstarted(j) = 0

DepthMatch ==
  /\ depth.gp = Cardinality(AllGp)
  /\ depth.pp = UnstartedOf(AllPp)

JobInv == JobTypes /\ QueuesMatch /\ CountersMatch /\ ClosingMatch /\ DepthMatch

------------------------------------------------------------------------------
(* A walk over a list                                                        *)

IsWalk(w, q, S) ==
  w = [n \in 0..Len(q) |->
         IF n = 0 THEN <<>> ELSE IF q[n] \in S THEN Append(w[n - 1], q[n]) ELSE w[n - 1]]

\* r is what is left of the first n elements of q without those outside S.
KeptOf(r, q, n, S) ==
  \E h \in [1..Len(r) -> 1..n] :
    /\ \A i, k \in 1..Len(r) : i < k => h[i] < h[k]
    /\ \A i \in 1..Len(r) : r[i] = q[h[i]]
    /\ \A k \in 1..n : q[k] \in S <=> \E i \in 1..Len(r) : h[i] = k

LEMMA WalkExists ==
  ASSUME NEW T, NEW q \in Seq(T), NEW S
  PROVE  \E w : IsWalk(w, q, S)
<1> DEFINE Step(w, n) ==
             w[n] = IF n = 0 THEN <<>> ELSE IF q[n] \in S THEN Append(w[n - 1], q[n]) ELSE w[n - 1]
           Good == {n \in Nat : n <= Len(q) => \E w : \A i \in 0..n : Step(w, i)}
<1>1. 0 \in Good
  <2> DEFINE w == [i \in 0..0 |-> <<>>]
  <2>1. \A i \in 0..0 : Step(w, i)
    OBVIOUS
  <2> HIDE DEF w, Step
  <2> QED BY <2>1
<1>2. ASSUME NEW n \in Nat, n \in Good PROVE n + 1 \in Good
  <2> SUFFICES ASSUME n + 1 <= Len(q) PROVE \E w : \A i \in 0..(n + 1) : Step(w, i)
    OBVIOUS
  <2>1. PICK w : \A i \in 0..n : Step(w, i)
    BY <1>2
  <2> DEFINE v == [i \in 0..(n + 1) |->
               IF i <= n THEN w[i] ELSE IF q[i] \in S THEN Append(w[i - 1], q[i]) ELSE w[i - 1]]
  <2>2. ASSUME NEW i \in 0..(n + 1) PROVE Step(v, i)
    <3>1. CASE i <= n
      <4>1. Step(w, i)
        BY <2>1, <3>1
      <4>2. v[i] = w[i] /\ (i # 0 => v[i - 1] = w[i - 1])
        BY <3>1
      <4> HIDE DEF v
      <4> QED BY <4>1, <4>2
    <3>2. CASE i = n + 1
      <4>1. v[n + 1] = IF q[n + 1] \in S THEN Append(w[n], q[n + 1]) ELSE w[n]
        OBVIOUS
      <4>2. v[n] = w[n]
        OBVIOUS
      <4> HIDE DEF v
      <4> QED BY <3>2, <4>1, <4>2
    <3> QED BY <3>1, <3>2
  <2> HIDE DEF v, Step
  <2> QED BY <2>2
<1>3. Len(q) \in Good
  <2> HIDE DEF Good
  <2> QED BY <1>1, <1>2, FromZero
<1>4. PICK w : \A i \in 0..Len(q) : Step(w, i)
  BY <1>3
<1> DEFINE v == [i \in 0..Len(q) |-> w[i]]
<1>5. IsWalk(v, q, S)
  <2>1. ASSUME NEW n \in 0..Len(q)
        PROVE  v[n] = IF n = 0 THEN <<>> ELSE IF q[n] \in S THEN Append(v[n - 1], q[n]) ELSE v[n - 1]
    <3>1. v[n] = w[n] /\ (n # 0 => v[n - 1] = w[n - 1])
      OBVIOUS
    <3> HIDE DEF v
    <3> QED BY <1>4, <3>1
  <2> QED BY <2>1 DEF IsWalk
<1> QED BY <1>5

\* One more element of q.
LEMMA KeptStep ==
  ASSUME NEW T, NEW q \in Seq(T), NEW S, NEW n \in Nat, n + 1 <= Len(q),
         NEW r \in Seq(T), KeptOf(r, q, n, S)
  PROVE  LET s == IF q[n + 1] \in S THEN Append(r, q[n + 1]) ELSE r
         IN  s \in Seq(T) /\ KeptOf(s, q, n + 1, S)
<1>1. PICK h \in [1..Len(r) -> 1..n] :
        /\ \A i, k \in 1..Len(r) : i < k => h[i] < h[k]
        /\ \A i \in 1..Len(r) : r[i] = q[h[i]]
        /\ \A k \in 1..n : q[k] \in S <=> \E i \in 1..Len(r) : h[i] = k
  BY DEF KeptOf
<1>2. n + 1 \in 1..Len(q) /\ q[n + 1] \in T /\ Len(r) \in Nat
  OBVIOUS
<1>3. CASE q[n + 1] \notin S
  <2>1. h \in [1..Len(r) -> 1..(n + 1)]
    OBVIOUS
  <2>2. \A k \in 1..(n + 1) : q[k] \in S <=> \E i \in 1..Len(r) : h[i] = k
    BY <1>1, <1>3
  <2>3. KeptOf(r, q, n + 1, S)
    BY <1>1, <2>1, <2>2 DEF KeptOf
  <2> QED BY <1>3, <2>3
<1>4. CASE q[n + 1] \in S
  <2> DEFINE s == Append(r, q[n + 1])
             g == [i \in 1..(Len(r) + 1) |-> IF i <= Len(r) THEN h[i] ELSE n + 1]
  <2>1. /\ s \in Seq(T) /\ Len(s) = Len(r) + 1
        /\ \A i \in 1..Len(r) : s[i] = r[i]
        /\ s[Len(r) + 1] = q[n + 1]
    BY <1>2
  <2>2. /\ g \in [1..(Len(r) + 1) -> 1..(n + 1)]
        /\ \A i \in 1..Len(r) : g[i] = h[i] /\ h[i] \in 1..n
        /\ g[Len(r) + 1] = n + 1
    BY SMTT(30), <1>2
  <2> HIDE DEF s, g
  <2>3. \A i, k \in 1..Len(s) : i < k => g[i] < g[k]
    <3> SUFFICES ASSUME NEW i \in 1..Len(s), NEW k \in 1..Len(s), i < k PROVE g[i] < g[k]
      OBVIOUS
    <3>1. i \in 1..Len(r)
      BY <1>2, <2>1
    <3>2. CASE k \in 1..Len(r)
      BY <1>1, <2>2, <3>1, <3>2
    <3>3. CASE k = Len(r) + 1
      BY <2>2, <3>1, <3>3
    <3> QED BY <1>2, <2>1, <3>2, <3>3
  <2>4. \A i \in 1..Len(s) : s[i] = q[g[i]]
    <3> SUFFICES ASSUME NEW i \in 1..Len(s) PROVE s[i] = q[g[i]]
      OBVIOUS
    <3>1. CASE i \in 1..Len(r)
      BY <1>1, <2>1, <2>2, <3>1
    <3>2. CASE i = Len(r) + 1
      BY <2>1, <2>2, <3>2
    <3> QED BY <1>2, <2>1, <3>1, <3>2
  <2>5. \A k \in 1..(n + 1) : q[k] \in S <=> \E i \in 1..Len(s) : g[i] = k
    <3> SUFFICES ASSUME NEW k \in 1..(n + 1) PROVE q[k] \in S <=> \E i \in 1..Len(s) : g[i] = k
      OBVIOUS
    <3>1. CASE k = n + 1
      <4>1. Len(r) + 1 \in 1..Len(s) /\ g[Len(r) + 1] = k
        BY <1>2, <2>1, <2>2, <3>1
      <4> QED BY <1>4, <3>1, <4>1
    <3>2. CASE k \in 1..n
      <4>1. (\E i \in 1..Len(r) : h[i] = k) => \E i \in 1..Len(s) : g[i] = k
        BY <1>2, <2>1, <2>2
      <4>2. (\E i \in 1..Len(s) : g[i] = k) => \E i \in 1..Len(r) : h[i] = k
        <5> SUFFICES ASSUME NEW i \in 1..Len(s), g[i] = k PROVE i \in 1..Len(r)
          BY <2>2
        <5> QED BY <1>2, <2>1, <2>2, <3>2
      <4> QED BY <1>1, <3>2, <4>1, <4>2
    <3> QED BY <3>1, <3>2
  <2>6. KeptOf(s, q, n + 1, S)
    <3>1. g \in [1..Len(s) -> 1..(n + 1)]
      BY <2>1, <2>2
    <3> QED BY <2>3, <2>4, <2>5, <3>1 DEF KeptOf
  <2> QED BY <1>4, <2>1, <2>6 DEF s
<1> QED BY <1>3, <1>4

\* What is left of q is in the order of q.
LEMMA KeptFacts ==
  ASSUME NEW T, NEW q \in Seq(T), NEW S
  PROVE  Kept(q, S) \in Seq(T) /\ KeptOf(Kept(q, S), q, Len(q), S)
<1> DEFINE w == CHOOSE v : IsWalk(v, q, S)
<1>1. IsWalk(w, q, S)
  BY WalkExists
<1>2. Kept(q, S) = w[Len(q)]
  BY DEF Kept, IsWalk
<1> HIDE DEF w
<1>3. ASSUME NEW n \in 0..Len(q)
      PROVE  w[n] = IF n = 0 THEN <<>> ELSE IF q[n] \in S THEN Append(w[n - 1], q[n]) ELSE w[n - 1]
  BY <1>1 DEF IsWalk
<1> DEFINE Good == {n \in Nat : n <= Len(q) => w[n] \in Seq(T) /\ KeptOf(w[n], q, n, S)}
<1>4. 0 \in Good
  <2>1. w[0] = <<>>
    BY <1>3
  <2>2. KeptOf(<<>>, q, 0, S)
    <3> DEFINE h == [i \in 1..0 |-> i]
    <3>1. h \in [1..Len(<<>>) -> 1..0] /\ 1..0 = {} /\ Len(<<>>) = 0
      OBVIOUS
    <3> HIDE DEF h
    <3> QED BY <3>1 DEF KeptOf
  <2>3. <<>> \in Seq(T)
    OBVIOUS
  <2>4. w[0] \in Seq(T) /\ KeptOf(w[0], q, 0, S)
    BY <2>1, <2>2, <2>3

  <2> QED BY <2>4
<1>5. ASSUME NEW n \in Nat, n \in Good PROVE n + 1 \in Good
  <2> SUFFICES ASSUME n + 1 <= Len(q) PROVE w[n + 1] \in Seq(T) /\ KeptOf(w[n + 1], q, n + 1, S)
    OBVIOUS
  <2>1. w[n] \in Seq(T) /\ KeptOf(w[n], q, n, S)
    BY <1>5
  <2>2. w[n + 1] = IF q[n + 1] \in S THEN Append(w[n], q[n + 1]) ELSE w[n]
    BY <1>3
  <2> HIDE DEF Good
  <2> QED BY <2>1, <2>2, KeptStep
<1>6. Len(q) \in Good
  <2> HIDE DEF Good
  <2> QED BY <1>4, <1>5, FromZero
<1> QED BY <1>2, <1>6

\* Unlinking keeps a list a list.
LEMMA KeptList ==
  ASSUME NEW T, NEW q \in Seq(T), Distinct(q), NEW S
  PROVE  /\ Kept(q, S) \in Seq(T)
         /\ Distinct(Kept(q, S))
         /\ Range(Kept(q, S)) = Range(q) \cap S
<1> DEFINE r == Kept(q, S)
<1>1. r \in Seq(T) /\ KeptOf(r, q, Len(q), S)
  BY KeptFacts
<1> HIDE DEF r
<1>2. PICK h \in [1..Len(r) -> 1..Len(q)] :
        /\ \A i, k \in 1..Len(r) : i < k => h[i] < h[k]
        /\ \A i \in 1..Len(r) : r[i] = q[h[i]]
        /\ \A k \in 1..Len(q) : q[k] \in S <=> \E i \in 1..Len(r) : h[i] = k
  BY <1>1 DEF KeptOf
<1>3. DOMAIN r = 1..Len(r) /\ DOMAIN q = 1..Len(q) /\ Len(r) \in Nat /\ Len(q) \in Nat
  BY <1>1
<1>4. Distinct(r)
  <2> SUFFICES ASSUME NEW i \in 1..Len(r), NEW k \in 1..Len(r), r[i] = r[k] PROVE i = k
    BY <1>3 DEF Distinct
  <2>1. h[i] = h[k]
    BY <1>2, <1>3 DEF Distinct
  <2>2. h[i] \in 1..Len(q) /\ h[k] \in 1..Len(q)
    OBVIOUS
  <2>3. ~(i < k) /\ ~(k < i)
    BY <1>2, <2>1, <2>2
  <2> QED BY <1>3, <2>3
<1>5. Range(r) = Range(q) \cap S
  <2>1. Range(r) = {r[i] : i \in 1..Len(r)} /\ Range(q) = {q[i] : i \in 1..Len(q)}
    BY <1>3 DEF Range
  <2> QED BY <1>2, <2>1
<1> QED BY <1>1, <1>4, <1>5 DEF r

------------------------------------------------------------------------------
(* Sums over the jobs that wait                                              *)

\* Only what x contributes changes.
LEMMA SumMoves ==
  ASSUME NEW A, IsFiniteSet(A), NEW B, NEW x, A \ {x} = B \ {x},
         NEW f, NEW g, \A y \in A : f[y] \in Int, \A y \in B : g[y] \in Int,
         \A y \in A \ {x} : f[y] = g[y]
  PROVE  /\ IsFiniteSet(B)
         /\ SumFunctionOnSet(g, B) = SumFunctionOnSet(f, A)
              + (IF x \in B THEN g[x] ELSE 0) - (IF x \in A THEN f[x] ELSE 0)
<1> DEFINE C == A \ {x}
           c == SumFunctionOnSet(f, C)
<1>1. IsFiniteSet(C) /\ IsFiniteSet(B) /\ B \ {x} = C
  <2>1. IsFiniteSet(C)
    BY FS_RemoveElement
  <2>2. B \subseteq C \cup {x} /\ IsFiniteSet(C \cup {x})
    BY <2>1, FS_AddElement
  <2> QED BY <2>1, <2>2, FS_Subset
<1>2. c \in Int /\ SumFunctionOnSet(g, C) = c
  <2>1. \A y \in C : f[y] = g[y] /\ f[y] \in Int
    OBVIOUS
  <2> HIDE DEF C
  <2> QED BY <1>1, <2>1, SumSame, SumRecursion
<1>3. SumFunctionOnSet(f, A) = c + (IF x \in A THEN f[x] ELSE 0)
  <2>1. CASE x \in A
    <3>1. SumFunctionOnSet(f, A) = f[x] + SumFunctionOnSet(f, A \ {x})
      BY <2>1, SumPick
    <3>2. SumFunctionOnSet(f, A) = f[x] + c
      BY <3>1
    <3> HIDE DEF c, C
    <3> QED BY <1>2, <2>1, <3>2
  <2>2. CASE x \notin A
    <3>1. SumFunctionOnSet(f, A) = c
      <4>1. C = A
        BY <2>2
      <4> QED BY <4>1
    <3> HIDE DEF c, C
    <3> QED BY <1>2, <2>2, <3>1
  <2> QED BY <2>1, <2>2
<1>4. SumFunctionOnSet(g, B) = c + (IF x \in B THEN g[x] ELSE 0)
  <2>1. CASE x \in B
    <3>1. SumFunctionOnSet(g, B) = g[x] + SumFunctionOnSet(g, B \ {x})
      BY <1>1, <2>1, SumPick
    <3>2. SumFunctionOnSet(g, B) = g[x] + c
      BY <1>1, <1>2, <3>1
    <3> HIDE DEF c, C
    <3> QED BY <1>2, <2>1, <3>2
  <2>2. CASE x \notin B
    <3>1. SumFunctionOnSet(g, B) = c
      <4>1. C = B
        BY <1>1, <2>2
      <4> QED BY <1>2, <4>1
    <3> HIDE DEF c, C
    <3> QED BY <1>2, <2>2, <3>1
  <2> QED BY <2>1, <2>2
<1> HIDE DEF c, C
<1> QED BY <1>1, <1>2, <1>3, <1>4

\* The jobs that wait are finitely many, and each has a number of sub jobs left.
LEMMA AllPpFinite ==
  ASSUME JobTypes, QueuesMatch
  PROVE  /\ IsFiniteSet(AllPp)
         /\ \A j \in Job : Unstarted(j) \in Int
         /\ \A j \in AllPp : Unstarted(j) \in Nat \ {0}
<1>1. IsFiniteSet(PpWaiting("high")) /\ IsFiniteSet(PpWaiting("normal"))
  BY ListFinite DEF QueuesMatch, IsList, Priority
<1>2. AllPp = PpWaiting("high") \cup PpWaiting("normal")
  BY DEF AllPp, PpWaiting, QueueOf
<1>3. \A j \in Job : Unstarted(j) \in Int
  BY SchedulerAssumption DEF JobTypes, Unstarted
<1>4. \A j \in AllPp : Unstarted(j) > 0
  BY DEF AllPp, Waits
<1>5. IsFiniteSet(AllPp)
  BY <1>1, <1>2, FS_Union
<1> QED BY <1>3, <1>4, <1>5 DEF AllPp

\* depth.pp follows the job x whose unstarted sub jobs change.
LEMMA DepthMoves ==
  ASSUME JobTypes, QueuesMatch, JobTypes', NEW x \in Job,
         \A j \in Job \ {x} : UNCHANGED <<job_phase[j], sub_jobs_started[j]>>
  PROVE  UnstartedOf(AllPp)' = UnstartedOf(AllPp)
            + (IF x \in AllPp' THEN Unstarted(x)' ELSE 0) - (IF x \in AllPp THEN Unstarted(x) ELSE 0)
<1> DEFINE f == [j \in Job |-> Unstarted(j)]
           g == [j \in Job |-> Unstarted(j)']
<1>1. IsFiniteSet(AllPp) /\ \A j \in Job : Unstarted(j) \in Int /\ Unstarted(j)' \in Int
  <2>1. \A j \in Job : Unstarted(j)' \in Int
    BY SchedulerAssumption DEF JobTypes, Unstarted
  <2> QED BY <2>1, AllPpFinite
<1>2. \A j \in Job \ {x} : Unstarted(j)' = Unstarted(j)
  BY DEF Unstarted
<1>3. AllPp \ {x} = AllPp' \ {x}
  BY DEF AllPp, Waits, Unstarted
<1>4. AllPp \subseteq Job /\ AllPp' \subseteq Job
  BY DEF AllPp
<1>5. /\ \A y \in AllPp : f[y] \in Int
      /\ \A y \in AllPp' : g[y] \in Int
      /\ \A y \in AllPp \ {x} : f[y] = g[y]
      /\ f[x] = Unstarted(x) /\ g[x] = Unstarted(x)'
  BY <1>1, <1>2, <1>4
<1>6. UnstartedOf(AllPp) = SumFunctionOnSet(f, AllPp)
  BY DEF UnstartedOf
<1>7. UnstartedOf(AllPp)' = SumFunctionOnSet(g, AllPp')
  BY DEF UnstartedOf
<1> HIDE DEF f, g
<1>8. SumFunctionOnSet(g, AllPp') = SumFunctionOnSet(f, AllPp)
         + (IF x \in AllPp' THEN g[x] ELSE 0) - (IF x \in AllPp THEN f[x] ELSE 0)
  BY <1>1, <1>3, <1>5, SumMoves
<1> QED BY <1>5, <1>6, <1>7, <1>8

LEMMA DepthInt == ASSUME JobTypes, QueuesMatch PROVE UnstartedOf(AllPp) \in Nat
<1>1. \A j \in AllPp : [i \in Job |-> Unstarted(i)][j] \in Nat
  BY AllPpFinite DEF AllPp
<1> QED BY <1>1, AllPpFinite, SumNat DEF UnstartedOf

LEMMA AllGpFinite == ASSUME JobTypes, QueuesMatch PROVE IsFiniteSet(AllGp) /\ Cardinality(AllGp) \in Nat
<1>1. IsFiniteSet(GpWaiting("high")) /\ IsFiniteSet(GpWaiting("normal"))
  BY ListFinite DEF QueuesMatch, IsList, Priority
<1>2. AllGp = GpWaiting("high") \cup GpWaiting("normal")
  BY DEF AllGp, GpWaiting, QueueOf
<1>3. IsFiniteSet(AllGp)
  BY <1>1, <1>2, FS_Union
<1> QED BY <1>3, FS_CardinalityType

------------------------------------------------------------------------------
(* The lists                                                                 *)

LEMMA ListWithout ==
  ASSUME NEW q, NEW S, IsList(q, S), NEW j
  PROVE  IsList(Without(q, j), S \ {j})
<1>1. /\ Without(q, j) \in Seq(Job) /\ Distinct(Without(q, j))
      /\ Range(Without(q, j)) = Range(q) \cap (Job \ {j})
  BY KeptList DEF Without, IsList
<1>2. Range(q) \subseteq Job
  BY DEF IsList, Range
<1> QED BY <1>1, <1>2 DEF IsList

LEMMA ListAdd ==
  ASSUME NEW q, NEW S, IsList(q, S), NEW j \in Job \ S
  PROVE  IsList(list_add(j, q), S \cup {j})
<1> DEFINE before == {i \in DOMAIN q : HasStarted(q[i]) \/ CreatedBefore(q[i], j)}
           B == before \cup {0}
           m == Max(B)
<1>1. DOMAIN q = 1..Len(q) /\ Len(q) \in Nat /\ q \in Seq(Job) /\ Distinct(q) /\ j \notin Range(q)
  BY DEF IsList
<1>2. B \in SUBSET (0..Len(q)) /\ B # {}
  BY <1>1
<1> HIDE DEF before, B
<1>3. m \in 0..Len(q)
  BY <1>1, <1>2, MaxInSet
<1>4. list_add(j, q) = InsertAt(q, m + 1, j)
  BY DEF list_add, B, before
<1> HIDE DEF m
<1>5. m + 1 \in 1..Len(q) + 1
  BY <1>1, <1>3
<1> QED BY <1>1, <1>4, <1>5, InsertAtRange DEF IsList

LEMMA ListAppend ==
  ASSUME NEW q, NEW S, IsList(q, S), NEW j \in Job \ S
  PROVE  IsList(Append(q, j), S \cup {j})
BY AppendRange DEF IsList

LEMMA ListEnds ==
  ASSUME NEW q, NEW S, IsList(q, S)
  PROVE  /\ q = <<>> <=> S = {}
         /\ q # <<>> => Head(q) \in S
<1>1. q \in Seq(Job) /\ Range(q) = S /\ DOMAIN q = 1..Len(q) /\ Len(q) \in Nat
  BY DEF IsList
<1>2. q # <<>> => Len(q) >= 1 /\ Head(q) = q[1]
  BY <1>1
<1>3. q # <<>> => Head(q) \in S
  BY <1>1, <1>2 DEF Range
<1>4. q = <<>> => S = {}
  BY <1>1 DEF Range
<1> QED BY <1>3, <1>4

\* Nothing of the jobs changes.
LEMMA JobsSame ==
  ASSUME JobInv, UNCHANGED <<jobVars, queueVars, session_phase, running>>, schedule_due' \in BOOLEAN
  PROVE  JobInv'
<1>1. /\ job_phase' = job_phase /\ created' = created /\ sub_jobs_started' = sub_jobs_started
      /\ sub_jobs_completed' = sub_jobs_completed /\ job_queue_gp' = job_queue_gp
      /\ job_queue_pp' = job_queue_pp /\ depth' = depth /\ session_phase' = session_phase
      /\ running' = running
  BY DEF jobVars, queueVars
<1>2. /\ \A j : Unstarted(j)' = Unstarted(j) /\ Waits(j)' = Waits(j) /\ RunsOn(j)' = RunsOn(j)
      /\ \A p : GpWaiting(p)' = GpWaiting(p) /\ PpWaiting(p)' = PpWaiting(p)
      /\ AllGp' = AllGp /\ AllPp' = AllPp /\ Live' = Live
      /\ UnstartedOf(AllPp)' = UnstartedOf(AllPp)
  BY <1>1 DEF Unstarted, Waits, RunsOn, GpWaiting, PpWaiting, AllGp, AllPp, Live, UnstartedOf
<1>3. JobTypes'
  BY <1>1 DEF JobInv, JobTypes, IsQueues
<1>4. QueuesMatch'
  BY <1>1, <1>2 DEF JobInv, QueuesMatch
<1>5. CountersMatch' /\ ClosingMatch'
  BY <1>1, <1>2 DEF JobInv, CountersMatch, ClosingMatch
<1>6. DepthMatch'
  BY <1>1, <1>2 DEF JobInv, DepthMatch
<1> QED BY <1>3, <1>4, <1>5, <1>6 DEF JobInv

------------------------------------------------------------------------------
(* One job moves                                                             *)

\* Only j begins or ceases to wait.
LEMMA WaitingMoves ==
  ASSUME NEW j \in Job, \A i \in Job \ {j} : UNCHANGED <<job_phase[i], sub_jobs_started[i]>>
  PROVE  /\ \A p : GpWaiting(p)' = IF JobKind[j] = "gp" /\ QueueOf(j) = p
                                   THEN IF Waits(j)' THEN GpWaiting(p) \cup {j} ELSE GpWaiting(p) \ {j}
                                   ELSE GpWaiting(p)
         /\ \A p : PpWaiting(p)' = IF JobKind[j] # "gp" /\ QueueOf(j) = p
                                   THEN IF Waits(j)' THEN PpWaiting(p) \cup {j} ELSE PpWaiting(p) \ {j}
                                   ELSE PpWaiting(p)
         /\ AllGp' = IF JobKind[j] = "gp" /\ Waits(j)' THEN AllGp \cup {j} ELSE AllGp \ {j}
         /\ AllPp' = IF JobKind[j] # "gp" /\ Waits(j)' THEN AllPp \cup {j} ELSE AllPp \ {j}
         /\ Live' = IF job_phase'[j] # "free" THEN Live \cup {j} ELSE Live \ {j}
<1>1. \A i \in Job \ {j} : Waits(i)' <=> Waits(i)
  BY DEF Waits, Unstarted
<1>2. \A p : GpWaiting(p)' = {i \in Job : JobKind[i] = "gp" /\ QueueOf(i) = p /\ Waits(i)'}
  BY DEF GpWaiting, QueueOf
<1>3. \A p : PpWaiting(p)' = {i \in Job : JobKind[i] # "gp" /\ QueueOf(i) = p /\ Waits(i)'}
  BY DEF PpWaiting, QueueOf
<1>4. AllGp' = {i \in Job : JobKind[i] = "gp" /\ Waits(i)'}
  BY DEF AllGp
<1>5. AllPp' = {i \in Job : JobKind[i] # "gp" /\ Waits(i)'}
  BY DEF AllPp
<1>6. \A p : GpWaiting(p) = {i \in Job : JobKind[i] = "gp" /\ QueueOf(i) = p /\ Waits(i)}
  BY DEF GpWaiting
<1>7. \A p : PpWaiting(p) = {i \in Job : JobKind[i] # "gp" /\ QueueOf(i) = p /\ Waits(i)}
  BY DEF PpWaiting
<1>8. ASSUME NEW p
      PROVE  GpWaiting(p)' = IF JobKind[j] = "gp" /\ QueueOf(j) = p
                             THEN IF Waits(j)' THEN GpWaiting(p) \cup {j} ELSE GpWaiting(p) \ {j}
                             ELSE GpWaiting(p)
  BY <1>1, <1>2, <1>6
<1>9. ASSUME NEW p
      PROVE  PpWaiting(p)' = IF JobKind[j] # "gp" /\ QueueOf(j) = p
                             THEN IF Waits(j)' THEN PpWaiting(p) \cup {j} ELSE PpWaiting(p) \ {j}
                             ELSE PpWaiting(p)
  BY <1>1, <1>3, <1>7
<1>10. AllGp' = IF JobKind[j] = "gp" /\ Waits(j)' THEN AllGp \cup {j} ELSE AllGp \ {j}
  BY <1>1, <1>4 DEF AllGp
<1>11. AllPp' = IF JobKind[j] # "gp" /\ Waits(j)' THEN AllPp \cup {j} ELSE AllPp \ {j}
  BY <1>1, <1>5 DEF AllPp
<1>12. Live' = IF job_phase'[j] # "free" THEN Live \cup {j} ELSE Live \ {j}
  BY DEF Live
<1> QED BY <1>8, <1>9, <1>10, <1>11, <1>12

LEMMA GpCount ==
  ASSUME JobTypes, QueuesMatch, NEW j \in Job, \A i \in Job \ {j} : UNCHANGED <<job_phase[i], sub_jobs_started[i]>>
  PROVE  Cardinality(AllGp') = Cardinality(AllGp) + (IF j \in AllGp' THEN 1 ELSE 0)
                                                  - (IF j \in AllGp THEN 1 ELSE 0)
<1>1. AllGp' = IF j \in AllGp' THEN AllGp \cup {j} ELSE AllGp \ {j}
  BY WaitingMoves DEF AllGp
<1>2. IsFiniteSet(AllGp) /\ Cardinality(AllGp) \in Nat
  BY AllGpFinite
<1>3. CASE j \in AllGp'
  BY <1>1, <1>2, <1>3, FS_AddElement
<1>4. CASE j \notin AllGp'
  BY <1>1, <1>2, <1>4, FS_RemoveElement
<1> QED BY <1>3, <1>4

\* The depths after j moved.
LEMMA DepthDone ==
  ASSUME JobInv, JobTypes', NEW j \in Job, \A i \in Job \ {j} : UNCHANGED <<job_phase[i], sub_jobs_started[i]>>,
         depth'.gp = depth.gp + (IF j \in AllGp' THEN 1 ELSE 0) - (IF j \in AllGp THEN 1 ELSE 0),
         depth'.pp = depth.pp + (IF j \in AllPp' THEN Unstarted(j)' ELSE 0)
                              - (IF j \in AllPp THEN Unstarted(j) ELSE 0)
  PROVE  DepthMatch'
<1>1. UnstartedOf(AllPp)' = depth'.pp
  BY DepthMoves DEF JobInv, DepthMatch
<1>2. Cardinality(AllGp') = depth'.gp
  BY GpCount DEF JobInv, DepthMatch
<1> QED BY <1>1, <1>2 DEF DepthMatch

\* A job that is as it was, but for the groups it runs on.
LEMMA OthersSame ==
  ASSUME CountersMatch, ClosingMatch, NEW i \in Job,
         UNCHANGED <<job_phase[i], sub_jobs_started[i], sub_jobs_completed[i], session_phase>>,
         RunsOn(i)' = RunsOn(i)
  PROVE  /\ sub_jobs_completed'[i] <= sub_jobs_started'[i] /\ sub_jobs_started'[i] <= SubJobs[i]
         /\ job_phase'[i] \in {"free", "timeline", "deferred"} => sub_jobs_started'[i] = 0
         /\ job_phase'[i] = "queued" =>
              /\ sub_jobs_completed'[i] < SubJobs[i]
              /\ sub_jobs_started'[i] - sub_jobs_completed'[i] = Cardinality(RunsOn(i)')
              /\ session_phase'[SessionOf[i]] # "drain"
              /\ session_phase'[SessionOf[i]] \in {"executor", "aborting"} => Unstarted(i)' = 0
         /\ job_phase'[i] # "queued" => RunsOn(i)' = {}
BY DEF CountersMatch, ClosingMatch, Unstarted

\* The executor starts a sub job of j on g: physical_get, virtual_get and gp_get.
LEMMA JobStarted ==
  ASSUME JobInv, NEW j \in Job, Waits(j), NEW g \in Group, running[g] = NoJob,
         running' = [running EXCEPT ![g] = j],
         IF JobKind[j] = "gp" THEN gp_get(j) ELSE pp_get(j),
         UNCHANGED <<job_phase, created, sub_jobs_completed, session_phase, schedule_due>>
  PROVE  JobInv'
<1>1. /\ sub_jobs_started' = [sub_jobs_started EXCEPT ![j] = @ + 1]
      /\ job_phase[j] = "queued" /\ Unstarted(j) \in Nat \ {0}
      /\ sub_jobs_started[j] \in Nat /\ SubJobs[j] \in Nat
      /\ sub_jobs_started'[j] = sub_jobs_started[j] + 1
      /\ Unstarted(j)' = Unstarted(j) - 1
      /\ \A i \in Job \ {j} : UNCHANGED <<job_phase[i], sub_jobs_started[i]>>
  <2>1. sub_jobs_started' = [sub_jobs_started EXCEPT ![j] = @ + 1]
    BY DEF gp_get, pp_get
  <2>2. sub_jobs_started \in [Job -> Nat] /\ SubJobs[j] \in Nat
    BY SchedulerAssumption DEF JobInv, JobTypes
  <2>3. sub_jobs_started[j] \in Nat /\ sub_jobs_started'[j] = sub_jobs_started[j] + 1
    BY <2>1, <2>2
  <2>4. \A i \in Job \ {j} : sub_jobs_started'[i] = sub_jobs_started[i] /\ job_phase'[i] = job_phase[i]
    BY <2>1, <2>2
  <2> QED BY <2>1, <2>2, <2>3, <2>4 DEF Waits, Unstarted
<1>2. /\ j \notin {NoJob} /\ running \in [Group -> Job \cup {NoJob}]
      /\ running' \in [Group -> Job \cup {NoJob}]
  BY SchedulerAssumption DEF JobInv, JobTypes
<1>3. JobTypes'
  <2>1. sub_jobs_started' \in [Job -> Nat]
    BY <1>1 DEF JobInv, JobTypes
  <2>2. IsQueues(job_queue_gp') /\ IsQueues(job_queue_pp')
    BY DEF gp_get, pp_get, JobInv, JobTypes, IsQueues
  <2>3. depth' = [gp |-> depth'.gp, pp |-> depth'.pp]
    BY DEF gp_get, pp_get, JobInv, JobTypes
  <2> QED BY <1>2, <2>1, <2>2, <2>3 DEF JobInv, JobTypes
<1>4. QueuesMatch'
  <2>1. Live' = Live /\ IsList(created', Live')
    BY DEF Live, JobInv, QueuesMatch
  <2>2. QueueOf(j) \in Priority
    BY DEF QueueOf, Priority
  <2>3. CASE JobKind[j] = "gp"
    <3>1. Unstarted(j)' = 0
      BY <1>1, <2>3, SchedulerAssumption DEF Unstarted
    <3>2. \A p \in Priority : /\ PpWaiting(p)' = PpWaiting(p)
                              /\ GpWaiting(p)' = IF p = QueueOf(j) THEN GpWaiting(p) \ {j} ELSE GpWaiting(p)
      BY <1>1, <2>3, <3>1, WaitingMoves DEF Waits
    <3>3. /\ job_queue_pp' = job_queue_pp
          /\ \A p \in Priority : job_queue_gp'[p] = IF p = QueueOf(j) THEN Without(job_queue_gp[p], j)
                                                    ELSE job_queue_gp[p]
      BY <2>2, <2>3 DEF gp_get, JobInv, JobTypes, IsQueues, Priority
    <3>4. ASSUME NEW p \in Priority PROVE IsList(job_queue_gp'[p], GpWaiting(p)')
      BY <3>2, <3>3, ListWithout DEF JobInv, QueuesMatch
    <3>5. ASSUME NEW p \in Priority PROVE IsList(job_queue_pp'[p], PpWaiting(p)')
      BY <3>2, <3>3 DEF JobInv, QueuesMatch
    <3> QED BY <2>1, <3>4, <3>5 DEF QueuesMatch
  <2>4. CASE JobKind[j] # "gp"
    <3>1. Waits(j)' <=> Unstarted(j) # 1
      BY <1>1 DEF Waits
    <3>2. \A p \in Priority : /\ GpWaiting(p)' = GpWaiting(p)
                              /\ PpWaiting(p)' = IF p = QueueOf(j) /\ last_sub_job(j)
                                                 THEN PpWaiting(p) \ {j} ELSE PpWaiting(p)
      <4>1. j \in PpWaiting(QueueOf(j))
        BY <2>4 DEF PpWaiting
      <4> QED BY <1>1, <2>4, <3>1, <4>1, WaitingMoves DEF last_sub_job
    <3>3. /\ job_queue_gp' = job_queue_gp
          /\ \A p \in Priority : job_queue_pp'[p] = IF p = QueueOf(j) /\ last_sub_job(j)
                                                    THEN Without(job_queue_pp[p], j) ELSE job_queue_pp[p]
      BY <2>2, <2>4 DEF pp_get, JobInv, JobTypes, IsQueues, Priority
    <3>4. ASSUME NEW p \in Priority PROVE IsList(job_queue_pp'[p], PpWaiting(p)')
      BY <3>2, <3>3, ListWithout DEF JobInv, QueuesMatch
    <3>5. ASSUME NEW p \in Priority PROVE IsList(job_queue_gp'[p], GpWaiting(p)')
      BY <3>2, <3>3 DEF JobInv, QueuesMatch
    <3> QED BY <2>1, <3>4, <3>5 DEF QueuesMatch
  <2> QED BY <2>3, <2>4
<1>5. \A i \in Job \ {j} : RunsOn(i)' = RunsOn(i)
  <2>1. \A h \in Group : running'[h] = IF h = g THEN j ELSE running[h]
    BY <1>2
  <2> QED BY <2>1, SchedulerAssumption DEF RunsOn
<1>6. Cardinality(RunsOn(j)') = Cardinality(RunsOn(j)) + 1 /\ Cardinality(RunsOn(j)) \in Nat
  <2>1. g \notin RunsOn(j) /\ RunsOn(j)' = RunsOn(j) \cup {g}
    BY <1>2, SchedulerAssumption DEF RunsOn
  <2>2. IsFiniteSet(RunsOn(j))
    BY GroupFinite, FS_Subset DEF RunsOn
  <2> QED BY <2>1, <2>2, FS_AddElement, FS_CardinalityType
<1>7. CountersMatch' /\ ClosingMatch'
  <2>1. ASSUME NEW i \in Job
        PROVE  /\ sub_jobs_completed'[i] <= sub_jobs_started'[i] /\ sub_jobs_started'[i] <= SubJobs[i]
               /\ job_phase'[i] \in {"free", "timeline", "deferred"} => sub_jobs_started'[i] = 0
               /\ job_phase'[i] = "queued" =>
                    /\ sub_jobs_completed'[i] < SubJobs[i]
                    /\ sub_jobs_started'[i] - sub_jobs_completed'[i] = Cardinality(RunsOn(i)')
                    /\ session_phase'[SessionOf[i]] # "drain"
                    /\ session_phase'[SessionOf[i]] \in {"executor", "aborting"} => Unstarted(i)' = 0
               /\ job_phase'[i] # "queued" => RunsOn(i)' = {}
    <3>1. CASE i = j
      <4>1. /\ sub_jobs_completed[j] \in Nat /\ sub_jobs_completed[j] <= sub_jobs_started[j]
            /\ sub_jobs_completed[j] < SubJobs[j]
            /\ sub_jobs_started[j] - sub_jobs_completed[j] = Cardinality(RunsOn(j))
        BY <1>1 DEF JobInv, JobTypes, CountersMatch
      <4>2. session_phase[SessionOf[j]] \notin {"drain", "executor", "aborting"}
        BY <1>1 DEF JobInv, ClosingMatch
      <4>3. sub_jobs_started'[j] <= SubJobs[j]
        BY <1>1 DEF Unstarted
      <4> QED BY <1>1, <1>6, <3>1, <4>1, <4>2, <4>3
    <3>2. CASE i # j
      BY <1>1, <1>5, <3>2, OthersSame DEF JobInv
    <3> QED BY <3>1, <3>2
  <2> QED BY <2>1 DEF CountersMatch, ClosingMatch
<1>8. DepthMatch'
  <2>1. CASE JobKind[j] = "gp"
    <3>1. j \in AllGp /\ j \notin AllGp' /\ j \notin AllPp /\ j \notin AllPp'
      <4>1. Unstarted(j)' = 0
        BY <1>1, <2>1, SchedulerAssumption DEF Unstarted
      <4> QED BY <2>1, <4>1 DEF AllGp, AllPp, Waits
    <3>2. depth'.gp = depth.gp - 1 /\ depth'.pp = depth.pp
      BY <2>1 DEF gp_get, JobInv, JobTypes
    <3>3. Cardinality(AllGp) \in Nat /\ UnstartedOf(AllPp) \in Nat
      BY AllGpFinite, DepthInt DEF JobInv
    <3> QED BY <1>1, <1>3, <3>1, <3>2, <3>3, DepthDone DEF JobInv, DepthMatch
  <2>2. CASE JobKind[j] # "gp"
    <3>1. j \notin AllGp /\ j \notin AllGp' /\ j \in AllPp
      BY <2>2 DEF AllGp, AllPp
    <3>2. IF j \in AllPp' THEN Unstarted(j)' = Unstarted(j) - 1 ELSE Unstarted(j) = 1
      BY <1>1, <2>2 DEF AllPp, Waits
    <3>3. depth'.pp = depth.pp - 1 /\ depth'.gp = depth.gp
      BY <2>2 DEF pp_get, JobInv, JobTypes
    <3>4. Cardinality(AllGp) \in Nat /\ UnstartedOf(AllPp) \in Nat
      BY AllGpFinite, DepthInt DEF JobInv
    <3>5. depth.gp \in Nat /\ depth.pp \in Nat
      BY <3>4 DEF JobInv, DepthMatch
    <3>6. /\ depth'.gp = depth.gp + (IF j \in AllGp' THEN 1 ELSE 0) - (IF j \in AllGp THEN 1 ELSE 0)
          /\ depth'.pp = depth.pp + (IF j \in AllPp' THEN Unstarted(j)' ELSE 0)
                              - (IF j \in AllPp THEN Unstarted(j) ELSE 0)
      BY <1>1, <3>1, <3>2, <3>3, <3>5
    <3> QED BY <1>1, <1>3, <3>6, DepthDone
  <2> QED BY <2>1, <2>2
<1> QED BY <1>3, <1>4, <1>7, <1>8 DEF JobInv

\* A job that may still be queued.
Unqueued(j) == job_phase[j] \in {"timeline", "deferred"}

\* queue_gp_job and queue_pp_job.
LEMMA JobQueued ==
  ASSUME JobInv, NEW j \in Job, Unqueued(j), ~is_aborting(j),
         IF JobKind[j] = "gp" THEN queue_gp_job(j) ELSE queue_pp_job(j),
         schedule_due' \in BOOLEAN, UNCHANGED <<session_phase, running>>
  PROVE  JobInv'
<1>1. /\ job_phase' = [job_phase EXCEPT ![j] = "queued"] /\ schedule_due' \in BOOLEAN
      /\ UNCHANGED <<created, sub_jobs_started, sub_jobs_completed>>
      /\ IF JobKind[j] = "gp"
         THEN /\ job_queue_gp' = [job_queue_gp EXCEPT ![QueueOf(j)] = list_add(j, @)]
              /\ depth' = [depth EXCEPT !.gp = @ + 1] /\ job_queue_pp' = job_queue_pp
         ELSE /\ job_queue_pp' = [job_queue_pp EXCEPT ![QueueOf(j)] = list_add(j, @)]
              /\ depth' = [depth EXCEPT !.pp = @ + SubJobs[j]] /\ job_queue_gp' = job_queue_gp
  BY DEF queue_gp_job, queue_pp_job
<1>2. /\ job_phase'[j] = "queued" /\ \A i \in Job \ {j} : UNCHANGED <<job_phase[i], sub_jobs_started[i]>>
      /\ sub_jobs_started[j] = 0 /\ sub_jobs_completed[j] = 0
      /\ Unstarted(j)' = SubJobs[j] /\ SubJobs[j] \in Nat \ {0}
      /\ ~Waits(j) /\ Waits(j)'
  <2>1. job_phase'[j] = "queued" /\ \A i \in Job \ {j} : UNCHANGED <<job_phase[i], sub_jobs_started[i]>>
    BY <1>1 DEF JobInv, JobTypes
  <2>2. sub_jobs_started[j] = 0 /\ sub_jobs_completed[j] = 0
    BY DEF JobInv, JobTypes, CountersMatch, Unqueued
  <2>3. Unstarted(j)' = SubJobs[j] /\ SubJobs[j] \in Nat \ {0}
    BY <1>1, <2>2, SchedulerAssumption DEF Unstarted
  <2> QED BY <2>1, <2>2, <2>3 DEF Waits, Unqueued
<1>3. JobTypes'
  <2>1. job_phase' \in [Job -> {"free", "timeline", "deferred", "queued", "done"}]
    BY <1>1 DEF JobInv, JobTypes
  <2>2. IsQueues(job_queue_gp') /\ IsQueues(job_queue_pp') /\ depth' = [gp |-> depth'.gp, pp |-> depth'.pp]
    BY <1>1 DEF JobInv, JobTypes, IsQueues
  <2> QED BY <1>1, <2>1, <2>2 DEF JobInv, JobTypes
<1>4. QueuesMatch'
  <2>1. Live' = Live
    BY <1>2, WaitingMoves DEF Live, Unqueued
  <2>2. QueueOf(j) \in Priority
    BY DEF QueueOf, Priority
  <2>3. j \notin GpWaiting(QueueOf(j)) /\ j \notin PpWaiting(QueueOf(j))
    BY <1>2 DEF GpWaiting, PpWaiting
  <2>4. CASE JobKind[j] = "gp"
    <3>1. \A p \in Priority : /\ PpWaiting(p)' = PpWaiting(p)
                              /\ GpWaiting(p)' = IF p = QueueOf(j) THEN GpWaiting(p) \cup {j} ELSE GpWaiting(p)
      BY <1>2, <2>4, WaitingMoves
    <3>2. /\ job_queue_pp' = job_queue_pp
          /\ \A p \in Priority : job_queue_gp'[p] = IF p = QueueOf(j) THEN list_add(j, job_queue_gp[p])
                                                    ELSE job_queue_gp[p]
      BY <1>1, <2>2, <2>4 DEF JobInv, JobTypes, IsQueues, Priority
    <3>3. ASSUME NEW p \in Priority PROVE IsList(job_queue_gp'[p], GpWaiting(p)')
      <4>1. IsList(job_queue_gp[p], GpWaiting(p))
        BY DEF JobInv, QueuesMatch
      <4>2. CASE p = QueueOf(j)
        BY <2>3, <3>1, <3>2, <4>1, <4>2, ListAdd
      <4> QED BY <3>1, <3>2, <4>1, <4>2
    <3>4. ASSUME NEW p \in Priority PROVE IsList(job_queue_pp'[p], PpWaiting(p)')
      BY <3>1, <3>2 DEF JobInv, QueuesMatch
    <3> QED BY <1>1, <2>1, <3>3, <3>4 DEF JobInv, QueuesMatch
  <2>5. CASE JobKind[j] # "gp"
    <3>1. \A p \in Priority : /\ GpWaiting(p)' = GpWaiting(p)
                              /\ PpWaiting(p)' = IF p = QueueOf(j) THEN PpWaiting(p) \cup {j} ELSE PpWaiting(p)
      BY <1>2, <2>5, WaitingMoves
    <3>2. /\ job_queue_gp' = job_queue_gp
          /\ \A p \in Priority : job_queue_pp'[p] = IF p = QueueOf(j) THEN list_add(j, job_queue_pp[p])
                                                    ELSE job_queue_pp[p]
      BY <1>1, <2>2, <2>5 DEF JobInv, JobTypes, IsQueues, Priority
    <3>3. ASSUME NEW p \in Priority PROVE IsList(job_queue_pp'[p], PpWaiting(p)')
      <4>1. IsList(job_queue_pp[p], PpWaiting(p))
        BY DEF JobInv, QueuesMatch
      <4>2. CASE p = QueueOf(j)
        BY <2>3, <3>1, <3>2, <4>1, <4>2, ListAdd
      <4> QED BY <3>1, <3>2, <4>1, <4>2
    <3>4. ASSUME NEW p \in Priority PROVE IsList(job_queue_gp'[p], GpWaiting(p)')
      BY <3>1, <3>2 DEF JobInv, QueuesMatch
    <3> QED BY <1>1, <2>1, <3>3, <3>4 DEF JobInv, QueuesMatch
  <2> QED BY <2>4, <2>5
<1>5. \A i \in Job : RunsOn(i)' = RunsOn(i)
  BY DEF RunsOn
<1>6. RunsOn(j) = {} /\ Cardinality({}) = 0
  BY FS_EmptySet DEF JobInv, CountersMatch, Unqueued
<1>7. session_phase[SessionOf[j]] = "open"
  BY DEF is_aborting
<1>8. CountersMatch' /\ ClosingMatch'
  <2>1. ASSUME NEW i \in Job
        PROVE  /\ sub_jobs_completed'[i] <= sub_jobs_started'[i] /\ sub_jobs_started'[i] <= SubJobs[i]
               /\ job_phase'[i] \in {"free", "timeline", "deferred"} => sub_jobs_started'[i] = 0
               /\ job_phase'[i] = "queued" =>
                    /\ sub_jobs_completed'[i] < SubJobs[i]
                    /\ sub_jobs_started'[i] - sub_jobs_completed'[i] = Cardinality(RunsOn(i)')
                    /\ session_phase'[SessionOf[i]] # "drain"
                    /\ session_phase'[SessionOf[i]] \in {"executor", "aborting"} => Unstarted(i)' = 0
               /\ job_phase'[i] # "queued" => RunsOn(i)' = {}
    <3>1. CASE i = j
      <4>1. /\ sub_jobs_started'[j] = 0 /\ sub_jobs_completed'[j] = 0 /\ SubJobs[j] \in Nat \ {0}
            /\ session_phase'[SessionOf[j]] = "open" /\ job_phase'[j] = "queued"
        BY <1>1, <1>2, <1>7
      <4>2. Cardinality(RunsOn(j)') = 0
        BY <1>5, <1>6
      <4> QED BY <3>1, <4>1, <4>2
    <3>2. CASE i # j
      BY <1>1, <1>2, <1>5, <3>2, OthersSame DEF JobInv
    <3> QED BY <3>1, <3>2
  <2> QED BY <2>1 DEF CountersMatch, ClosingMatch
<1>9. DepthMatch'
  <2>1. Cardinality(AllGp) \in Nat /\ UnstartedOf(AllPp) \in Nat
    BY AllGpFinite, DepthInt DEF JobInv
  <2>2. depth.gp \in Nat /\ depth.pp \in Nat
    BY <2>1 DEF JobInv, DepthMatch
  <2>3. j \notin AllGp /\ j \notin AllPp /\ (j \in AllGp' <=> JobKind[j] = "gp") /\ (j \in AllPp' <=> JobKind[j] # "gp")
    BY <1>2 DEF AllGp, AllPp
  <2>4. /\ depth'.gp = depth.gp + (IF JobKind[j] = "gp" THEN 1 ELSE 0)
        /\ depth'.pp = depth.pp + (IF JobKind[j] # "gp" THEN SubJobs[j] ELSE 0)
    BY <1>1, <2>2 DEF JobInv, JobTypes
  <2>5. /\ depth'.gp = depth.gp + (IF j \in AllGp' THEN 1 ELSE 0) - (IF j \in AllGp THEN 1 ELSE 0)
        /\ depth'.pp = depth.pp + (IF j \in AllPp' THEN Unstarted(j)' ELSE 0)
                            - (IF j \in AllPp THEN Unstarted(j) ELSE 0)
    BY <1>2, <2>2, <2>3, <2>4
  <2> QED BY <1>2, <1>3, <2>5, DepthDone
<1> QED BY <1>3, <1>4, <1>8, <1>9 DEF JobInv

\* delete_job, of a job that was never queued or that is done.
LEMMA JobDeleted ==
  ASSUME JobInv, NEW j \in Job, Unqueued(j) \/ job_phase[j] = "done", delete_job(j),
         UNCHANGED <<queueVars, session_phase, schedule_due, running>>
  PROVE  JobInv'
<1>1. /\ job_phase' = [job_phase EXCEPT ![j] = "free"] /\ created' = Without(created, j)
      /\ sub_jobs_started' = [sub_jobs_started EXCEPT ![j] = 0]
      /\ sub_jobs_completed' = [sub_jobs_completed EXCEPT ![j] = 0]
      /\ UNCHANGED <<job_queue_gp, job_queue_pp, depth>>
  BY DEF delete_job, queueVars
<1>2. /\ job_phase'[j] = "free" /\ job_phase[j] # "queued"
      /\ sub_jobs_started'[j] = 0 /\ sub_jobs_completed'[j] = 0
      /\ \A i \in Job \ {j} : /\ UNCHANGED <<job_phase[i], sub_jobs_started[i]>>
                              /\ sub_jobs_completed'[i] = sub_jobs_completed[i]
  BY <1>1 DEF JobInv, JobTypes, Unqueued
<1>3. ~Waits(j) /\ ~Waits(j)'
  BY <1>2 DEF Waits
<1>4. JobTypes'
  BY <1>1 DEF JobInv, JobTypes
<1>5. /\ \A p \in Priority : GpWaiting(p)' = GpWaiting(p) /\ PpWaiting(p)' = PpWaiting(p)
      /\ Live' = Live \ {j}
  BY <1>2, <1>3, WaitingMoves DEF GpWaiting, PpWaiting
<1>6. QueuesMatch'
  BY <1>1, <1>5, ListWithout DEF JobInv, QueuesMatch
<1>7. \A i \in Job : RunsOn(i)' = RunsOn(i)
  BY DEF RunsOn
<1>8. RunsOn(j) = {} /\ SubJobs[j] \in Nat
  BY <1>2, SchedulerAssumption DEF JobInv, CountersMatch
<1>9. CountersMatch' /\ ClosingMatch'
  <2>1. ASSUME NEW i \in Job
        PROVE  /\ sub_jobs_completed'[i] <= sub_jobs_started'[i] /\ sub_jobs_started'[i] <= SubJobs[i]
               /\ job_phase'[i] \in {"free", "timeline", "deferred"} => sub_jobs_started'[i] = 0
               /\ job_phase'[i] = "queued" =>
                    /\ sub_jobs_completed'[i] < SubJobs[i]
                    /\ sub_jobs_started'[i] - sub_jobs_completed'[i] = Cardinality(RunsOn(i)')
                    /\ session_phase'[SessionOf[i]] # "drain"
                    /\ session_phase'[SessionOf[i]] \in {"executor", "aborting"} => Unstarted(i)' = 0
               /\ job_phase'[i] # "queued" => RunsOn(i)' = {}
    <3>1. CASE i = j
      BY <1>2, <1>7, <1>8, <3>1
    <3>2. CASE i # j
      BY <1>2, <1>7, <3>2, OthersSame DEF JobInv
    <3> QED BY <3>1, <3>2
  <2> QED BY <2>1 DEF CountersMatch, ClosingMatch
<1>10. DepthMatch'
  <2>1. j \notin AllGp /\ j \notin AllPp /\ j \notin AllGp' /\ j \notin AllPp'
    BY <1>3 DEF AllGp, AllPp
  <2>2. AllGp' = AllGp /\ AllPp' = AllPp
    BY <1>2, <2>1, WaitingMoves DEF AllGp, AllPp
  <2>3. Cardinality(AllGp) \in Nat /\ UnstartedOf(AllPp) \in Nat
    BY AllGpFinite, DepthInt DEF JobInv
  <2> QED BY <1>1, <1>2, <1>4, <2>1, <2>3, DepthDone DEF JobInv, DepthMatch
<1> QED BY <1>4, <1>6, <1>9, <1>10 DEF JobInv

\* The queues stay as they are, and so do the jobs that wait.
LEMMA QueuesSame ==
  ASSUME QueuesMatch, DepthMatch, UNCHANGED <<queueVars, created, sub_jobs_started>>,
         \A i \in Job : (Waits(i)' <=> Waits(i)) /\ (job_phase'[i] = "free" <=> job_phase[i] = "free")
  PROVE  QueuesMatch' /\ DepthMatch'
<1>1. /\ \A p : GpWaiting(p)' = GpWaiting(p) /\ PpWaiting(p)' = PpWaiting(p)
      /\ AllGp' = AllGp /\ AllPp' = AllPp /\ Live' = Live
  BY DEF GpWaiting, PpWaiting, AllGp, AllPp, Live, QueueOf
<1>2. UnstartedOf(AllPp)' = UnstartedOf(AllPp)
  BY <1>1 DEF UnstartedOf, Unstarted
<1>3. job_queue_gp' = job_queue_gp /\ job_queue_pp' = job_queue_pp /\ depth' = depth /\ created' = created
  BY DEF queueVars
<1> QED BY <1>1, <1>2, <1>3 DEF QueuesMatch, DepthMatch

LEMMA MaskReturned ==
  ASSUME JobInv, NEW j \in Job, return_mask(j) PROVE schedule_due' \in BOOLEAN
BY DEF return_mask, JobInv, JobTypes

\* A job is given to the deferred queue.
LEMMA JobDeferred ==
  ASSUME JobInv, NEW j \in Job, job_phase[j] = "timeline",
         job_phase' = [job_phase EXCEPT ![j] = "deferred"],
         UNCHANGED <<created, queueVars, sub_jobs_started, sub_jobs_completed, session_phase, schedule_due, running>>
  PROVE  JobInv'
<1>1. /\ job_phase'[j] = "deferred" /\ \A i \in Job \ {j} : job_phase'[i] = job_phase[i]
      /\ job_phase' \in [Job -> {"free", "timeline", "deferred", "queued", "done"}]
  BY DEF JobInv, JobTypes
<1>2. JobTypes'
  BY <1>1 DEF JobInv, JobTypes, queueVars
<1>3. QueuesMatch' /\ DepthMatch'
  <2>1. \A i \in Job : (Waits(i)' <=> Waits(i)) /\ (job_phase'[i] = "free" <=> job_phase[i] = "free")
    BY <1>1 DEF Waits, Unstarted
  <2> QED BY <2>1, QueuesSame DEF JobInv
<1>4. CountersMatch' /\ ClosingMatch'
  <2>1. \A i \in Job : RunsOn(i)' = RunsOn(i)
    BY DEF RunsOn
  <2> QED BY <1>1, <2>1 DEF JobInv, CountersMatch, ClosingMatch, Unstarted
<1> QED BY <1>2, <1>3, <1>4 DEF JobInv

LEMMA JobCreated == ASSUME JobInv, NEW j \in Job, start_job(j), UNCHANGED running PROVE JobInv'
<1>1. /\ job_phase[j] = "free" /\ job_phase' = [job_phase EXCEPT ![j] = "timeline"]
      /\ created' = Append(created, j)
      /\ UNCHANGED <<job_queue_gp, job_queue_pp, depth, sub_jobs_started, sub_jobs_completed,
                     session_phase, schedule_due>>
  BY DEF start_job, queueVars
<1>2. /\ job_phase'[j] = "timeline" /\ \A i \in Job \ {j} : job_phase'[i] = job_phase[i]
      /\ job_phase' \in [Job -> {"free", "timeline", "deferred", "queued", "done"}]
  BY <1>1 DEF JobInv, JobTypes
<1>3. JobTypes'
  BY <1>1, <1>2 DEF JobInv, JobTypes
<1>4. ~Waits(j) /\ ~Waits(j)' /\ \A i \in Job \ {j} : UNCHANGED <<job_phase[i], sub_jobs_started[i]>>
  BY <1>1, <1>2 DEF Waits
<1>5. /\ \A p \in Priority : GpWaiting(p)' = GpWaiting(p) /\ PpWaiting(p)' = PpWaiting(p)
      /\ Live' = Live \cup {j} /\ j \notin Live
      /\ AllGp' = AllGp /\ AllPp' = AllPp
  BY <1>1, <1>2, <1>4, WaitingMoves DEF GpWaiting, PpWaiting, Live, AllGp, AllPp
<1>6. QueuesMatch'
  BY <1>1, <1>5, ListAppend DEF JobInv, QueuesMatch
<1>7. CountersMatch' /\ ClosingMatch'
  <2>1. \A i \in Job : RunsOn(i)' = RunsOn(i)
    BY DEF RunsOn
  <2> QED BY <1>1, <1>2, <2>1 DEF JobInv, CountersMatch, ClosingMatch, Unstarted
<1>8. DepthMatch'
  <2>1. UnstartedOf(AllPp)' = UnstartedOf(AllPp)
    BY <1>1, <1>5 DEF UnstartedOf, Unstarted
  <2> QED BY <1>1, <1>5, <2>1 DEF JobInv, DepthMatch
<1> QED BY <1>3, <1>6, <1>7, <1>8 DEF JobInv

------------------------------------------------------------------------------
(* Sessions                                                                  *)

\* Session s closes one step further, or opens anew.
LEMMA SessionMoves ==
  ASSUME JobInv, NEW s \in Session, NEW p, session_phase' = [session_phase EXCEPT ![s] = p],
         p \in {"open", "scheduler", "executor", "aborting", "drain"},
         UNCHANGED <<jobVars, queueVars, schedule_due, running>>,
         p \in {"executor", "aborting"} => session_phase[s] \in {"executor", "aborting"},
         p = "drain" => \A j \in Job : SessionOf[j] = s => job_phase[j] # "queued"
  PROVE  JobInv'
<1>1. /\ session_phase' \in [Session -> {"open", "scheduler", "executor", "aborting", "drain"}]
      /\ \A j \in Job : session_phase'[SessionOf[j]] = IF SessionOf[j] = s THEN p
                                                       ELSE session_phase[SessionOf[j]]
  BY SchedulerAssumption DEF JobInv, JobTypes
<1>2. UNCHANGED <<job_phase, created, sub_jobs_started, sub_jobs_completed, job_queue_gp, job_queue_pp, depth>>
  BY DEF jobVars, queueVars
<1>3. JobTypes'
  BY <1>1, <1>2 DEF JobInv, JobTypes
<1>4. QueuesMatch' /\ DepthMatch'
  <2>1. \A i \in Job : (Waits(i)' <=> Waits(i)) /\ (job_phase'[i] = "free" <=> job_phase[i] = "free")
    BY <1>2 DEF Waits, Unstarted
  <2> QED BY <1>2, <2>1, QueuesSame DEF JobInv
<1>5. CountersMatch'
  <2>1. \A i \in Job : RunsOn(i)' = RunsOn(i)
    BY DEF RunsOn
  <2> QED BY <1>2, <2>1 DEF JobInv, CountersMatch
<1>6. ClosingMatch'
  <2> SUFFICES ASSUME NEW j \in Job, job_phase[j] = "queued"
               PROVE  /\ session_phase'[SessionOf[j]] # "drain"
                      /\ session_phase'[SessionOf[j]] \in {"executor", "aborting"} => Unstarted(j) = 0
    BY <1>2 DEF ClosingMatch, Unstarted
  <2>1. /\ session_phase[SessionOf[j]] # "drain"
        /\ session_phase[SessionOf[j]] \in {"executor", "aborting"} => Unstarted(j) = 0
    BY DEF JobInv, ClosingMatch
  <2> QED BY <1>1, <2>1
<1> QED BY <1>3, <1>4, <1>5, <1>6 DEF JobInv

LEMMA SessionSteps ==
  ASSUME JobInv, NEW s \in Session,
         \/ begin_close(s) /\ UNCHANGED running
         \/ end_close(s) /\ UNCHANGED running
         \/ AbortExecutor(s)
  PROVE  JobInv'
<1>1. CASE begin_close(s) /\ UNCHANGED running
  BY <1>1, SessionMoves DEF begin_close
<1>2. CASE end_close(s) /\ UNCHANGED running
  BY <1>2, SessionMoves DEF end_close
<1>3. CASE AbortExecutor(s)
  BY <1>3, SessionMoves DEF AbortExecutor
<1> QED BY <1>1, <1>2, <1>3

------------------------------------------------------------------------------
(* Completion                                                                *)

\* What a group runs is queued, and is over when its last group is done.
LEMMA RunningJob ==
  ASSUME JobInv, NEW g \in Group, running[g] # NoJob
  PROVE  /\ running[g] \in Job /\ job_phase[running[g]] = "queued"
         /\ Cardinality(RunsOn(running[g])) \in Nat \ {0}
         /\ IsFiniteSet(RunsOn(running[g]))
<1>1. running[g] \in Job /\ g \in RunsOn(running[g])
  BY DEF JobInv, JobTypes, RunsOn
<1>2. job_phase[running[g]] = "queued"
  BY <1>1 DEF JobInv, CountersMatch
<1>3. IsFiniteSet(RunsOn(running[g]))
  BY GroupFinite, FS_Subset DEF RunsOn
<1>4. Cardinality(RunsOn(running[g])) \in Nat /\ Cardinality(RunsOn(running[g])) # 0
  BY <1>1, <1>3, FS_CardinalityType, FS_EmptySet
<1> QED BY <1>1, <1>2, <1>3, <1>4

LEMMA JobCompleted ==
  ASSUME JobInv, NEW g \in Group, NEW j, running[g] = j, j # NoJob, NEW rest, complete_group(g, rest),
         UNCHANGED session_phase
  PROVE  JobInv'
<1>1. /\ running' = [running EXCEPT ![g] = NoJob]
      /\ sub_jobs_completed' = [sub_jobs_completed EXCEPT ![j] = @ + 1]
      /\ job_phase' = IF completes(j) THEN [job_phase EXCEPT ![j] = "done"] ELSE job_phase
      /\ UNCHANGED <<created, queueVars, sub_jobs_started, schedule_due>>
  BY DEF complete_group
<1>2. /\ j \in Job /\ job_phase[j] = "queued" /\ Cardinality(RunsOn(j)) \in Nat \ {0}
      /\ IsFiniteSet(RunsOn(j)) /\ running[g] = j
  BY RunningJob

<1>3. /\ sub_jobs_completed[j] \in Nat /\ sub_jobs_started[j] \in Nat /\ SubJobs[j] \in Nat
      /\ sub_jobs_completed[j] < SubJobs[j]
      /\ sub_jobs_started[j] <= SubJobs[j]
      /\ sub_jobs_started[j] - sub_jobs_completed[j] = Cardinality(RunsOn(j))
      /\ sub_jobs_started'[j] = sub_jobs_started[j]
      /\ sub_jobs_completed'[j] = sub_jobs_completed[j] + 1
      /\ \A i \in Job \ {j} : UNCHANGED <<job_phase[i], sub_jobs_started[i], sub_jobs_completed[i]>>
  <2>1. sub_jobs_completed \in [Job -> Nat] /\ sub_jobs_started \in [Job -> Nat] /\ SubJobs[j] \in Nat
    BY <1>2, SchedulerAssumption DEF JobInv, JobTypes
  <2>2. /\ sub_jobs_completed[j] < SubJobs[j] /\ sub_jobs_started[j] <= SubJobs[j]
        /\ sub_jobs_started[j] - sub_jobs_completed[j] = Cardinality(RunsOn(j))
    BY <1>2 DEF JobInv, CountersMatch
  <2>3. \A i \in Job \ {j} : UNCHANGED <<job_phase[i], sub_jobs_started[i], sub_jobs_completed[i]>>
    BY <1>1, <1>2, <2>1 DEF JobInv, JobTypes
  <2> QED BY <1>1, <1>2, <2>1, <2>2, <2>3
<1>4. \A h \in Group : running'[h] = IF h = g THEN NoJob ELSE running[h]
  BY <1>1 DEF JobInv, JobTypes
<1>5. \A i \in Job \ {j} : RunsOn(i)' = RunsOn(i)
  BY <1>2, <1>4, SchedulerAssumption DEF RunsOn
<1>6. RunsOn(j)' = RunsOn(j) \ {g} /\ g \in RunsOn(j)
  BY <1>2, <1>4, SchedulerAssumption DEF RunsOn
<1>7. Cardinality(RunsOn(j)') = Cardinality(RunsOn(j)) - 1 /\ IsFiniteSet(RunsOn(j)')
  BY <1>2, <1>6, FS_RemoveElement
<1>8. JobTypes'
  <2>1. running' \in [Group -> Job \cup {NoJob}] /\ sub_jobs_completed' \in [Job -> Nat]
        /\ job_phase' \in [Job -> {"free", "timeline", "deferred", "queued", "done"}]
    BY <1>1, <1>2, <1>3 DEF JobInv, JobTypes
  <2> QED BY <1>1, <2>1 DEF JobInv, JobTypes, queueVars
<1>9. job_phase'[j] = IF completes(j) THEN "done" ELSE "queued"
  BY <1>1, <1>2 DEF JobInv, JobTypes
<1>10. completes(j) => /\ sub_jobs_started[j] = SubJobs[j] /\ RunsOn(j)' = {}
  <2> SUFFICES ASSUME completes(j) PROVE sub_jobs_started[j] = SubJobs[j] /\ Cardinality(RunsOn(j)') = 0
    BY <1>7, FS_EmptySet
  <2> QED BY <1>2, <1>3, <1>7 DEF completes
<1>11. QueuesMatch' /\ DepthMatch'
  <2>1. Waits(j)' <=> Waits(j)
    BY <1>2, <1>3, <1>9, <1>10 DEF Waits, Unstarted
  <2>2. \A i \in Job : (Waits(i)' <=> Waits(i)) /\ (job_phase'[i] = "free" <=> job_phase[i] = "free")
    BY <1>2, <1>3, <1>9, <2>1 DEF Waits, Unstarted
  <2> QED BY <1>1, <2>2, QueuesSame DEF JobInv
<1>12. CountersMatch' /\ ClosingMatch'
  <2>1. ASSUME NEW i \in Job
        PROVE  /\ sub_jobs_completed'[i] <= sub_jobs_started'[i] /\ sub_jobs_started'[i] <= SubJobs[i]
               /\ job_phase'[i] \in {"free", "timeline", "deferred"} => sub_jobs_started'[i] = 0
               /\ job_phase'[i] = "queued" =>
                    /\ sub_jobs_completed'[i] < SubJobs[i]
                    /\ sub_jobs_started'[i] - sub_jobs_completed'[i] = Cardinality(RunsOn(i)')
                    /\ session_phase'[SessionOf[i]] # "drain"
                    /\ session_phase'[SessionOf[i]] \in {"executor", "aborting"} => Unstarted(i)' = 0
               /\ job_phase'[i] # "queued" => RunsOn(i)' = {}
    <3>1. CASE i = j
      <4>1. /\ session_phase[SessionOf[j]] # "drain"
            /\ session_phase[SessionOf[j]] \in {"executor", "aborting"} => Unstarted(j) = 0
        BY <1>2 DEF JobInv, ClosingMatch
      <4>2. Unstarted(j)' = Unstarted(j)
        BY <1>3 DEF Unstarted
      <4>3. /\ sub_jobs_completed'[j] <= sub_jobs_started'[j] /\ sub_jobs_started'[j] <= SubJobs[j]
            /\ ~completes(j) => sub_jobs_completed'[j] < SubJobs[j]
            /\ sub_jobs_started'[j] - sub_jobs_completed'[j] = Cardinality(RunsOn(j)')
        BY <1>2, <1>3, <1>7 DEF completes
      <4> QED BY <1>9, <1>10, <3>1, <4>1, <4>2, <4>3
    <3>2. CASE i # j
      BY <1>3, <1>5, <3>2, OthersSame DEF JobInv
    <3> QED BY <3>1, <3>2
  <2> QED BY <2>1 DEF CountersMatch, ClosingMatch
<1> QED BY <1>8, <1>11, <1>12 DEF JobInv

LEMMA GroupAborted == ASSUME JobInv, NEW s \in Session, AbortGroup(s) PROVE JobInv'
<1>1. CASE \E g \in Group : RunsFor(g, s) /\ complete_group(g, exec) /\ UNCHANGED session_phase
  <2>1. PICK g \in Group : RunsFor(g, s) /\ complete_group(g, exec) /\ UNCHANGED session_phase
    BY <1>1
  <2>2. PICK j : j = running[g]
    OBVIOUS
  <2> QED BY <2>1, <2>2, JobCompleted DEF RunsFor
<1>2. CASE /\ \A g \in Group : ~RunsFor(g, s)
           /\ session_phase' = [session_phase EXCEPT ![s] = "drain"]
           /\ Finished
           /\ UNCHANGED <<jobVars, queueVars, schedule_due, powerVars, exec_state, running,
                          disable_requested, os>>
  <2>1. ASSUME NEW j \in Job, SessionOf[j] = s, job_phase[j] = "queued" PROVE FALSE
    <3>1. RunsOn(j) = {}
      BY <1>2, <2>1, SchedulerAssumption DEF RunsOn, RunsFor
    <3>2. Unstarted(j) = 0
      BY <2>1 DEF JobInv, ClosingMatch, AbortGroup
    <3>3. /\ sub_jobs_completed[j] < SubJobs[j]
          /\ sub_jobs_started[j] - sub_jobs_completed[j] = 0
      BY <2>1, <3>1, FS_EmptySet DEF JobInv, CountersMatch
    <3>4. sub_jobs_started[j] \in Nat /\ sub_jobs_completed[j] \in Nat /\ SubJobs[j] \in Nat
      BY SchedulerAssumption DEF JobInv, JobTypes
    <3> QED BY <3>2, <3>3, <3>4 DEF Unstarted
  <2> QED BY <1>2, <2>1, SessionMoves
<1> QED BY <1>1, <1>2 DEF AbortGroup

------------------------------------------------------------------------------
(* The abort of a session in the scheduler                                   *)

MappedTo(r, r_, K) == r_ = [p \in DOMAIN r |-> Kept(r[p], K)]

LEMMA QueuesMapped ==
  ASSUME NEW r, IsQueues(r), NEW r_, NEW K, MappedTo(r, r_, K)
  PROVE  IsQueues(r_) /\ \A p \in Priority : r_[p] = Kept(r[p], K)
<1>1. DOMAIN r = {"high", "normal"}
  BY DEF IsQueues
<1>2. r_ = [p \in {"high", "normal"} |-> Kept(r[p], K)]
  BY <1>1 DEF MappedTo
<1>3. \A p \in Priority : r_[p] = Kept(r[p], K)
  BY <1>2 DEF Priority
<1>4. r_ = [high |-> r_.high, normal |-> r_.normal]
  BY <1>2
<1> QED BY <1>3, <1>4 DEF IsQueues

LEMMA ListKept ==
  ASSUME NEW q, NEW S, IsList(q, S), NEW K
  PROVE  IsList(Kept(q, K), S \cap K)
BY KeptList DEF IsList

\* What mali_scheduler_abort_session does with the GP jobs G and the PP jobs P of the
\* session that wait, when K are the jobs of the others.
AbortedTo(s, G, P, K) ==
  /\ session_phase[s] = "scheduler"
  /\ \A p \in Priority : /\ job_queue_gp'[p] = Kept(job_queue_gp[p], K)
                         /\ job_queue_pp'[p] = Kept(job_queue_pp[p], K)
  /\ IsQueues(job_queue_gp') /\ IsQueues(job_queue_pp')
  /\ depth' = [gp |-> depth.gp - Cardinality(G), pp |-> depth.pp - UnstartedOf(P)]
  /\ sub_jobs_started' = [j \in Job |-> IF j \in P THEN SubJobs[j] ELSE sub_jobs_started[j]]
  /\ sub_jobs_completed' =
       [j \in Job |-> sub_jobs_completed[j] + IF j \in P THEN Unstarted(j) ELSE 0]
  /\ job_phase' = [j \in Job |-> IF j \in G \cup ended(P) THEN "done" ELSE job_phase[j]]
  /\ session_phase' = [session_phase EXCEPT ![s] = "executor"]
  /\ UNCHANGED <<created, schedule_due>>

LEMMA Aborted ==
  ASSUME JobInv, NEW s \in Session, abort_session(s)
  PROVE  \E G, P, K : /\ G = {j \in AllGp : SessionOf[j] = s} /\ P = {j \in AllPp : SessionOf[j] = s}
                      /\ K = {j \in Job : SessionOf[j] # s} /\ AbortedTo(s, G, P, K)
<1>0. PICK G, P, K : /\ G = {j \in AllGp : SessionOf[j] = s} /\ P = {j \in AllPp : SessionOf[j] = s}
                     /\ K = {j \in Job : SessionOf[j] # s}
  OBVIOUS
<1> DEFINE Mine(q)  == {j \in Range(q) : SessionOf[j] = s}
<1>1. /\ Range(job_queue_gp.high) = GpWaiting("high") /\ Range(job_queue_gp.normal) = GpWaiting("normal")
      /\ Range(job_queue_pp.high) = PpWaiting("high") /\ Range(job_queue_pp.normal) = PpWaiting("normal")
  BY DEF JobInv, QueuesMatch, IsList, Priority
<1>2. AllGp = GpWaiting("high") \cup GpWaiting("normal")
  BY DEF AllGp, GpWaiting, QueueOf
<1>3. AllPp = PpWaiting("high") \cup PpWaiting("normal")
  BY DEF AllPp, PpWaiting, QueueOf
<1>4. Mine(job_queue_gp.high) \cup Mine(job_queue_gp.normal) = G
  BY <1>0, <1>1, <1>2
<1>5. Mine(job_queue_pp.high) \cup Mine(job_queue_pp.normal) = P
  BY <1>0, <1>1, <1>3
<1>6. /\ session_phase[s] = "scheduler"
      /\ MappedTo(job_queue_gp, job_queue_gp', K) /\ MappedTo(job_queue_pp, job_queue_pp', K)
      /\ depth' = depth_without(G, P)
      /\ sub_jobs_started' = [j \in Job |-> IF j \in P THEN SubJobs[j] ELSE sub_jobs_started[j]]
      /\ sub_jobs_completed' =
           [j \in Job |-> sub_jobs_completed[j] + IF j \in P THEN Unstarted(j) ELSE 0]
      /\ job_phase' = [j \in Job |-> IF j \in G \cup ended(P) THEN "done" ELSE job_phase[j]]
      /\ session_phase' = [session_phase EXCEPT ![s] = "executor"]
      /\ UNCHANGED <<created, schedule_due>>
  BY <1>0, <1>4, <1>5, Zenon DEF abort_session, MappedTo
<1>7. IsQueues(job_queue_gp) /\ IsQueues(job_queue_pp)
  BY DEF JobInv, JobTypes
<1> HIDE DEF Mine
<1>8. /\ IsQueues(job_queue_gp') /\ IsQueues(job_queue_pp')
      /\ \A p \in Priority : /\ job_queue_gp'[p] = Kept(job_queue_gp[p], K)
                             /\ job_queue_pp'[p] = Kept(job_queue_pp[p], K)
  BY <1>6, <1>7, QueuesMapped
<1>9. AbortedTo(s, G, P, K)
  BY <1>6, <1>8 DEF depth_without, AbortedTo
<1> QED BY <1>0, <1>9

LEMMA SessionAborted ==
  ASSUME JobInv, NEW s \in Session, abort_session(s), UNCHANGED running
  PROVE  JobInv'
<1>0. PICK G, P, K : /\ G = {j \in AllGp : SessionOf[j] = s} /\ P = {j \in AllPp : SessionOf[j] = s}
                     /\ K = {j \in Job : SessionOf[j] # s} /\ AbortedTo(s, G, P, K)
  BY Aborted
<1>1. /\ session_phase[s] = "scheduler"
      /\ \A p \in Priority : /\ job_queue_gp'[p] = Kept(job_queue_gp[p], K)
                             /\ job_queue_pp'[p] = Kept(job_queue_pp[p], K)
      /\ IsQueues(job_queue_gp') /\ IsQueues(job_queue_pp')
      /\ depth' = [gp |-> depth.gp - Cardinality(G), pp |-> depth.pp - UnstartedOf(P)]
      /\ sub_jobs_started' = [j \in Job |-> IF j \in P THEN SubJobs[j] ELSE sub_jobs_started[j]]
      /\ sub_jobs_completed' =
           [j \in Job |-> sub_jobs_completed[j] + IF j \in P THEN Unstarted(j) ELSE 0]
      /\ job_phase' = [j \in Job |-> IF j \in G \cup ended(P) THEN "done" ELSE job_phase[j]]
      /\ session_phase' = [session_phase EXCEPT ![s] = "executor"]
      /\ UNCHANGED <<created, schedule_due>>
  BY <1>0 DEF AbortedTo
<1>2. G \subseteq Job /\ P \subseteq Job /\ G \cap P = {} /\ G \cap ended(P) = {} /\ ended(P) \subseteq P
  BY <1>0 DEF AllGp, AllPp, ended
<1>3. ASSUME NEW j \in Job
      PROVE  /\ sub_jobs_started[j] \in Nat /\ sub_jobs_completed[j] \in Nat /\ SubJobs[j] \in Nat
             /\ sub_jobs_completed[j] <= sub_jobs_started[j] /\ sub_jobs_started[j] <= SubJobs[j]
             /\ Unstarted(j) = SubJobs[j] - sub_jobs_started[j]
             /\ Unstarted(j)' = SubJobs[j] - sub_jobs_started'[j]
             /\ sub_jobs_started'[j] = IF j \in P THEN SubJobs[j] ELSE sub_jobs_started[j]
             /\ sub_jobs_completed'[j] = sub_jobs_completed[j] + IF j \in P THEN Unstarted(j) ELSE 0
             /\ job_phase'[j] = IF j \in G \cup ended(P) THEN "done" ELSE job_phase[j]
             /\ session_phase'[SessionOf[j]] = IF SessionOf[j] = s THEN "executor"
                                               ELSE session_phase[SessionOf[j]]
             /\ j \in P \/ j \in G => job_phase[j] = "queued" /\ Unstarted(j) > 0
             /\ SessionOf[j] = s /\ j \notin P /\ j \notin G /\ job_phase[j] = "queued" => Unstarted(j) = 0
             /\ SessionOf[j] # s => j \notin P /\ j \notin G
  <2>1. sub_jobs_started[j] \in Nat /\ sub_jobs_completed[j] \in Nat /\ SubJobs[j] \in Nat
    BY SchedulerAssumption DEF JobInv, JobTypes
  <2>2. sub_jobs_completed[j] <= sub_jobs_started[j] /\ sub_jobs_started[j] <= SubJobs[j]
    BY DEF JobInv, CountersMatch
  <2>3. session_phase'[SessionOf[j]] = IF SessionOf[j] = s THEN "executor" ELSE session_phase[SessionOf[j]]
    BY <1>1, SchedulerAssumption DEF JobInv, JobTypes
  <2>4. j \in P \/ j \in G => job_phase[j] = "queued" /\ Unstarted(j) > 0
    BY <1>0 DEF AllGp, AllPp, Waits
  <2>5. SessionOf[j] = s /\ j \notin P /\ j \notin G /\ job_phase[j] = "queued" => Unstarted(j) = 0
    BY <1>0, <2>1, <2>2 DEF AllGp, AllPp, Waits, Unstarted
  <2>6. SessionOf[j] # s => j \notin P /\ j \notin G
    BY <1>0
  <2> QED BY <1>1, <2>1, <2>2, <2>3, <2>4, <2>5, <2>6 DEF Unstarted
<1>4. \A j \in Job : Waits(j)' <=> (Waits(j) /\ SessionOf[j] # s)
  <2> SUFFICES ASSUME NEW j \in Job PROVE Waits(j)' <=> (Waits(j) /\ SessionOf[j] # s)
    OBVIOUS
  <2>1. CASE j \in P
    <3>1. Unstarted(j)' = 0 /\ SessionOf[j] = s
      BY <1>3, <2>1
    <3> QED BY <3>1 DEF Waits
  <2>2. CASE j \in G
    BY <1>3, <2>2 DEF Waits
  <2>3. CASE j \notin P /\ j \notin G
    <3>1. job_phase'[j] = job_phase[j] /\ Unstarted(j)' = Unstarted(j)
      BY <1>2, <1>3, <2>3
    <3> QED BY <1>3, <2>3, <3>1 DEF Waits
  <2> QED BY <2>1, <2>2, <2>3
<1>5. JobTypes'
  <2>1. sub_jobs_started' \in [Job -> Nat] /\ sub_jobs_completed' \in [Job -> Nat]
    <3>1. ASSUME NEW j \in Job
          PROVE  (IF j \in P THEN SubJobs[j] ELSE sub_jobs_started[j]) \in Nat
                 /\ sub_jobs_completed[j] + (IF j \in P THEN Unstarted(j) ELSE 0) \in Nat
      BY <1>3
    <3> QED BY <1>1, <3>1
  <2>2. job_phase' \in [Job -> {"free", "timeline", "deferred", "queued", "done"}]
    BY <1>1 DEF JobInv, JobTypes
  <2>3. session_phase' \in [Session -> {"open", "scheduler", "executor", "aborting", "drain"}]
    BY <1>1 DEF JobInv, JobTypes
  <2>4. depth' = [gp |-> depth'.gp, pp |-> depth'.pp]
    BY <1>1
  <2> QED BY <1>1, <2>1, <2>2, <2>3, <2>4 DEF JobInv, JobTypes
<1>6. QueuesMatch'
  <2>1. \A p : GpWaiting(p)' = GpWaiting(p) \cap K /\ PpWaiting(p)' = PpWaiting(p) \cap K
    BY <1>0, <1>4 DEF GpWaiting, PpWaiting, QueueOf
  <2>2. Live' = Live
    BY <1>2, <1>3 DEF Live
  <2>3. ASSUME NEW p \in Priority
        PROVE  IsList(job_queue_gp'[p], GpWaiting(p)') /\ IsList(job_queue_pp'[p], PpWaiting(p)')
    BY <1>1, <2>1, ListKept DEF JobInv, QueuesMatch
  <2> QED BY <1>1, <2>2, <2>3 DEF JobInv, QueuesMatch
<1>7. \A i \in Job : RunsOn(i)' = RunsOn(i)
  BY DEF RunsOn
<1>8. CountersMatch' /\ ClosingMatch'
  <2>1. ASSUME NEW i \in Job
        PROVE  /\ sub_jobs_completed'[i] <= sub_jobs_started'[i] /\ sub_jobs_started'[i] <= SubJobs[i]
               /\ job_phase'[i] \in {"free", "timeline", "deferred"} => sub_jobs_started'[i] = 0
               /\ job_phase'[i] = "queued" =>
                    /\ sub_jobs_completed'[i] < SubJobs[i]
                    /\ sub_jobs_started'[i] - sub_jobs_completed'[i] = Cardinality(RunsOn(i))
                    /\ session_phase'[SessionOf[i]] # "drain"
                    /\ session_phase'[SessionOf[i]] \in {"executor", "aborting"} => Unstarted(i)' = 0
               /\ job_phase'[i] # "queued" => RunsOn(i) = {}
    <3>0. /\ job_phase[i] \in {"free", "timeline", "deferred"} => sub_jobs_started[i] = 0
          /\ job_phase[i] = "queued" =>
               /\ sub_jobs_completed[i] < SubJobs[i]
               /\ sub_jobs_started[i] - sub_jobs_completed[i] = Cardinality(RunsOn(i))
               /\ session_phase[SessionOf[i]] # "drain"
               /\ session_phase[SessionOf[i]] \in {"executor", "aborting"} => Unstarted(i) = 0
          /\ job_phase[i] # "queued" => RunsOn(i) = {}
      BY DEF JobInv, CountersMatch, ClosingMatch
    <3>00. IsFiniteSet(RunsOn(i)) /\ (Cardinality(RunsOn(i)) = 0 => RunsOn(i) = {})
      BY GroupFinite, FS_Subset, FS_EmptySet DEF RunsOn
    <3>1. CASE i \in P
      <4>1. i \in ended(P) <=> sub_jobs_completed[i] + Unstarted(i) = SubJobs[i]
        BY <3>1 DEF ended
      <4>2. i \notin G
        BY <1>2, <3>1
      <4> QED BY <1>3, <3>0, <3>00, <3>1, <4>1, <4>2
    <3>2. CASE i \in G
      <4>1. i \notin P /\ SubJobs[i] = 1 /\ job_phase[i] = "queued"
        BY <1>0, <1>2, <3>2, SchedulerAssumption DEF AllGp, Waits
      <4>2. sub_jobs_started[i] = 0 /\ sub_jobs_completed[i] = 0
        BY <1>3, <3>2, <4>1
      <4> QED BY <1>3, <3>0, <3>00, <3>2, <4>1, <4>2
    <3>3. CASE i \notin P /\ i \notin G
      <4>1. /\ job_phase'[i] = job_phase[i] /\ sub_jobs_started'[i] = sub_jobs_started[i]
            /\ sub_jobs_completed'[i] = sub_jobs_completed[i] /\ Unstarted(i)' = Unstarted(i)
        BY <1>2, <1>3, <3>3
      <4> QED BY <1>3, <3>0, <3>3, <4>1
    <3> QED BY <3>1, <3>2, <3>3
  <2> QED BY <1>7, <2>1 DEF CountersMatch, ClosingMatch
<1>9. DepthMatch'
  <2>1. AllGp' = AllGp \ G /\ AllPp' = AllPp \ P
    BY <1>0, <1>4 DEF AllGp, AllPp
  <2>2. IsFiniteSet(AllGp) /\ Cardinality(AllGp) \in Nat /\ IsFiniteSet(AllPp) /\ UnstartedOf(AllPp) \in Nat
    BY AllGpFinite, AllPpFinite, DepthInt DEF JobInv
  <2>3. Cardinality(AllGp') = Cardinality(AllGp) - Cardinality(G)
    <3>1. AllGp \cap G = G
      BY <1>0
    <3> QED BY ZenonT(60), <2>1, <2>2, <3>1, FS_Difference
  <2>4. UnstartedOf(AllPp) = UnstartedOf(P) + UnstartedOf(AllPp \ P) /\ UnstartedOf(P) \in Int
        /\ UnstartedOf(AllPp \ P) \in Int
    <3> DEFINE f == [j \in Job |-> Unstarted(j)]
    <3>1. \A x \in AllPp : f[x] \in Int
      BY AllPpFinite DEF JobInv, AllPp
    <3>2. P \in SUBSET AllPp /\ AllPp \ P \in SUBSET AllPp
      BY <1>0
    <3> HIDE DEF f
    <3>3. SumFunctionOnSet(f, AllPp) = SumFunctionOnSet(f, P) + SumFunctionOnSet(f, AllPp \ P)
      BY <2>2, <3>1, <3>2, SumSplit
    <3>4. SumFunctionOnSet(f, P) \in Int /\ SumFunctionOnSet(f, AllPp \ P) \in Int
      BY <2>2, <3>1, <3>2, FS_Subset, SumRecursion
    <3> QED BY <3>3, <3>4 DEF UnstartedOf, f
  <2>5. UnstartedOf(AllPp)' = UnstartedOf(AllPp \ P)
    <3> DEFINE f == [j \in Job |-> Unstarted(j)]
               g == [j \in Job |-> Unstarted(j)']
    <3>1. \A x \in AllPp \ P : f[x] = g[x] /\ f[x] \in Int
      BY <1>3, AllPpFinite DEF JobInv, AllPp
    <3>2. IsFiniteSet(AllPp \ P)
      BY <2>2, FS_Subset
    <3> HIDE DEF f, g
    <3>3. SumFunctionOnSet(f, AllPp \ P) = SumFunctionOnSet(g, AllPp \ P)
      BY <3>1, <3>2, SumSame
    <3> QED BY <2>1, <3>3 DEF UnstartedOf, f, g
  <2>6. depth'.gp = depth.gp - Cardinality(G) /\ depth'.pp = depth.pp - UnstartedOf(P)
    BY <1>1
  <2>7. depth.gp = Cardinality(AllGp) /\ depth.pp = UnstartedOf(AllPp)
    BY DEF JobInv, DepthMatch
  <2>8. UnstartedOf(AllPp)' = depth.pp - UnstartedOf(P)
    BY <2>4, <2>5, <2>7
  <2> QED BY <2>3, <2>6, <2>7, <2>8 DEF DepthMatch
<1> QED BY <1>5, <1>6, <1>8, <1>9 DEF JobInv

------------------------------------------------------------------------------
(* What the executor starts                                                  *)

\* The heads of the queues.
LEMMA Heads ==
  ASSUME JobInv, NEW p \in Priority
  PROVE  /\ \A j \in Range(job_queue_pp[p]) : j \in Job /\ JobKind[j] # "gp" /\ Waits(j) /\ QueueOf(j) = p
         /\ \A j \in Range(job_queue_gp[p]) : j \in Job /\ JobKind[j] = "gp" /\ Waits(j) /\ QueueOf(j) = p
BY DEF JobInv, QueuesMatch, IsList, GpWaiting, PpWaiting

LEMMA PhysicalPeek ==
  ASSUME JobInv, physical_peek # NoJob
  PROVE  physical_peek \in Job /\ JobKind[physical_peek] = "physical" /\ Waits(physical_peek)
<1> DEFINE normal == {j \in Range(job_queue_pp.normal) : j = Head(job_queue_pp.normal) /\ Physical(j)}
           high   == {j \in Range(job_queue_pp.high) : j = Head(job_queue_pp.high) /\ Physical(j)}
           best   == IF Partial = {} /\ high # {} THEN high ELSE normal
<1>1. physical_peek = IF best = {} THEN NoJob ELSE CHOOSE j \in best : TRUE
  BY DEF physical_peek
<1>2. \A j \in normal \cup high : j \in Job /\ JobKind[j] = "physical" /\ Waits(j)
  BY Heads DEF Physical, Priority
<1>3. best \subseteq normal \cup high
  OBVIOUS
<1> HIDE DEF best
<1>4. best # {} /\ physical_peek \in best
  BY <1>1
<1> QED BY <1>2, <1>3, <1>4

LEMMA VirtualPeek ==
  ASSUME JobInv, virtual_peek # NoJob
  PROVE  virtual_peek \in Job /\ JobKind[virtual_peek] = "virtual" /\ Waits(virtual_peek)
<1> DEFINE heads(q) == {j \in Range(q) : j = Head(q) /\ Virtual_(j)}
           high     == heads(job_queue_pp.high)
           normal   == heads(job_queue_pp.normal)
           best     == IF high # {} THEN high ELSE normal
<1>1. virtual_peek = IF best = {} THEN NoJob ELSE CHOOSE j \in best : TRUE
  BY DEF virtual_peek
<1>2. \A j \in normal \cup high : j \in Job /\ JobKind[j] = "virtual" /\ Waits(j)
  BY Heads DEF Virtual_, Priority
<1>3. best \subseteq normal \cup high
  OBVIOUS
<1> HIDE DEF best
<1>4. best # {} /\ virtual_peek \in best
  BY <1>1
<1> QED BY <1>2, <1>3, <1>4

LEMMA GpPeek ==
  ASSUME JobInv, depth.gp > 0
  PROVE  gp_peek \in Job /\ JobKind[gp_peek] = "gp" /\ Waits(gp_peek)
<1>1. AllGp = GpWaiting("high") \cup GpWaiting("normal")
  BY DEF AllGp, GpWaiting, QueueOf
<1>2. AllGp # {}
  BY FS_EmptySet DEF JobInv, DepthMatch
<1>3. /\ IsList(job_queue_gp.high, GpWaiting("high"))
      /\ IsList(job_queue_gp.normal, GpWaiting("normal"))
  BY DEF JobInv, QueuesMatch, Priority
<1>4. gp_peek \in GpWaiting("high") \cup GpWaiting("normal")
  BY <1>1, <1>2, <1>3, ListEnds DEF gp_peek
<1> QED BY <1>4 DEF GpWaiting

\* A group that is idle has no job.
LEMMA IdleFree == ASSUME ExecInv, NEW g \in Group, exec_state[g] = "idle" PROVE running[g] = NoJob
BY DEF ExecInv, ListsMatch

LEMMA PhysicalAssigned == ASSUME ExecInv, JobInv, AssignPhysical PROVE JobInv'
<1>1. PICK j : j = physical_peek
  OBVIOUS
<1>2. j \in Job /\ JobKind[j] = "physical" /\ Waits(j) /\ pp_get(j)
  BY <1>1, PhysicalPeek DEF AssignPhysical
<1>3. PICK c \in OnList("idle") : running' = [running EXCEPT ![c] = j]
  BY <1>1 DEF AssignPhysical
<1>4. c \in Group /\ running[c] = NoJob
  BY IdleFree, Groups DEF OnList
<1>5. UNCHANGED <<job_phase, created, sub_jobs_completed, session_phase, schedule_due>>
  BY DEF AssignPhysical
<1> QED BY <1>2, <1>3, <1>4, <1>5, JobStarted

LEMMA VirtualAssigned == ASSUME ExecInv, JobInv, AssignVirtual PROVE JobInv'
<1>1. UNCHANGED <<job_phase, created, sub_jobs_completed, session_phase, schedule_due>>
  BY DEF AssignVirtual
<1>2. CASE UNCHANGED <<queueVars, sub_jobs_started, running>>
  <2>1. schedule_due' \in BOOLEAN /\ UNCHANGED <<jobVars, queueVars, session_phase, running>>
    BY <1>1, <1>2 DEF JobInv, JobTypes, jobVars
  <2> QED BY <2>1, JobsSame
<1>3. CASE /\ VirtualIs("idle") /\ next_is_virtual /\ pp_get(virtual_peek)
           /\ running' = [running EXCEPT ![Virtual] = virtual_peek]
  <2>1. PICK j : j = virtual_peek
    OBVIOUS
  <2>2. j \in Job /\ JobKind[j] = "virtual" /\ Waits(j) /\ pp_get(j)
    BY <1>3, <2>1, VirtualPeek DEF next_is_virtual
  <2>3. Virtual \in Group /\ running[Virtual] = NoJob /\ running' = [running EXCEPT ![Virtual] = j]
    BY <1>3, <2>1, IdleFree, Groups DEF VirtualIs
  <2> QED BY <1>1, <2>2, <2>3, JobStarted
<1>4. \/ UNCHANGED <<queueVars, sub_jobs_started, running>>
      \/ /\ VirtualIs("idle") /\ next_is_virtual /\ pp_get(virtual_peek)
         /\ running' = [running EXCEPT ![Virtual] = virtual_peek]
  BY DEF AssignVirtual, queueVars
<1> QED BY <1>2, <1>3, <1>4

LEMMA GpAssigned == ASSUME ExecInv, JobInv, AssignGp PROVE JobInv'
<1>1. UNCHANGED <<job_phase, created, sub_jobs_completed, session_phase, schedule_due>>
  BY DEF AssignGp
<1>2. CASE UNCHANGED <<queueVars, sub_jobs_started, running>>
  <2>1. schedule_due' \in BOOLEAN /\ UNCHANGED <<jobVars, queueVars, session_phase, running>>
    BY <1>1, <1>2 DEF JobInv, JobTypes, jobVars
  <2> QED BY <2>1, JobsSame
<1>3. CASE /\ exec_state[Gp] = "idle" /\ depth.gp > 0 /\ gp_get(gp_peek)
           /\ running' = [running EXCEPT ![Gp] = gp_peek]
  <2>1. PICK j : j = gp_peek
    OBVIOUS
  <2>2. j \in Job /\ JobKind[j] = "gp" /\ Waits(j) /\ gp_get(j)
    BY <1>3, <2>1, GpPeek
  <2>3. Gp \in Group /\ running[Gp] = NoJob /\ running' = [running EXCEPT ![Gp] = j]
    BY <1>3, <2>1, IdleFree, Groups
  <2> QED BY <1>1, <2>2, <2>3, JobStarted
<1>4. \/ UNCHANGED <<queueVars, sub_jobs_started, running>>
      \/ /\ exec_state[Gp] = "idle" /\ depth.gp > 0 /\ gp_get(gp_peek)
         /\ running' = [running EXCEPT ![Gp] = gp_peek]
  BY DEF AssignGp, queueVars
<1> QED BY <1>2, <1>3, <1>4

------------------------------------------------------------------------------
(* Every step                                                                *)

\* Only PP jobs are deferred.
DeferredPp == \A j \in Job : job_phase[j] = "deferred" => JobKind[j] # "gp"

LEMMA JobStepKeeps == ASSUME JobInv, DeferredPp, JobStep PROVE JobInv'
<1>1. running' = running
  BY DEF JobStep, executorVars
<1>2. ASSUME NEW j \in Job, start_job(j) \/ complete_job(j) PROVE JobInv'
  BY <1>1, <1>2, JobCreated, JobDeleted DEF complete_job
<1>3. ASSUME NEW s \in Session, begin_close(s) \/ end_close(s) \/ abort_session(s) PROVE JobInv'
  BY <1>1, <1>3, SessionSteps, SessionAborted
<1>4. ASSUME NEW j \in Job, activate_gp_job(j) PROVE JobInv'
  <2>1. JobKind[j] = "gp" /\ Unqueued(j) /\ UNCHANGED session_phase
    BY <1>4 DEF activate_gp_job, Unqueued
  <2>2. CASE is_aborting(j)
    BY <1>1, <1>4, <2>1, <2>2, JobDeleted DEF activate_gp_job, fail_job
  <2>3. CASE ~is_aborting(j)
    BY <1>1, <1>4, <2>1, <2>3, MaskReturned, JobQueued DEF activate_gp_job
  <2> QED BY <2>2, <2>3
<1>5. ASSUME NEW j \in Job, JobKind[j] # "gp", Unqueued(j), fail_job(j), UNCHANGED session_phase PROVE JobInv'
  BY <1>1, <1>5, JobDeleted DEF fail_job
<1>6. ASSUME NEW j \in Job, JobKind[j] # "gp", Unqueued(j), ~is_aborting(j), queue_pp_job(j),
             schedule_due' \in BOOLEAN, UNCHANGED session_phase
      PROVE  JobInv'
  BY <1>1, <1>6, JobQueued
<1>7. ASSUME NEW j \in Job, activate_pp_job(j) PROVE JobInv'
  <2>1. JobKind[j] # "gp" /\ job_phase[j] = "timeline" /\ Unqueued(j) /\ UNCHANGED session_phase
    BY <1>7 DEF activate_pp_job, Unqueued
  <2>2. CASE fail_job(j)
    BY <1>5, <2>1, <2>2
  <2>3. CASE ~is_aborting(j) /\ queue_pp_job(j) /\ return_mask(j)
    BY <1>6, <2>1, <2>3, MaskReturned
  <2>4. CASE /\ job_phase' = [job_phase EXCEPT ![j] = "deferred"]
             /\ UNCHANGED <<created, queueVars, sub_jobs_started, sub_jobs_completed, schedule_due>>
    BY <1>1, <2>1, <2>4, JobDeferred
  <2> QED BY <1>7, <2>2, <2>3, <2>4 DEF activate_pp_job
<1>8. ASSUME NEW j \in Job, do_pp_job_queue(j) PROVE JobInv'
  <2>1. job_phase[j] = "deferred" /\ Unqueued(j) /\ UNCHANGED session_phase
    BY <1>8 DEF do_pp_job_queue, Unqueued
  <2>2. JobKind[j] # "gp"
    BY <1>8 DEF DeferredPp, do_pp_job_queue
  <2> QED BY <1>5, <1>6, <1>8, <2>1, <2>2 DEF do_pp_job_queue
<1> QED BY <1>2, <1>3, <1>4, <1>7, <1>8 DEF JobStep

LEMMA DeferredKept == ASSUME JobInv, DeferredPp, Next PROVE DeferredPp'
<1> USE DEF DeferredPp
<1>0. job_phase \in [Job -> {"free", "timeline", "deferred", "queued", "done"}]
  BY DEF JobInv, JobTypes
<1>1. CASE UNCHANGED job_phase
  BY <1>1
<1>2. ASSUME NEW g \in Group, NEW rest, complete_group(g, rest) PROVE DeferredPp'
  <2>1. job_phase' = job_phase \/ job_phase' = [job_phase EXCEPT ![running[g]] = "done"]
    BY <1>2 DEF complete_group
  <2> QED BY <1>0, <2>1
<1>3. CASE JobStep
  <2>1. ASSUME NEW j \in Job, start_job(j) \/ complete_job(j) \/ activate_gp_job(j)
        PROVE  DeferredPp'
    BY <1>0, <2>1 DEF start_job, complete_job, activate_gp_job, fail_job, delete_job, queue_gp_job
  <2>2. ASSUME NEW j \in Job, activate_pp_job(j) \/ do_pp_job_queue(j) PROVE DeferredPp'
    BY <1>0, <2>2 DEF activate_pp_job, do_pp_job_queue, fail_job, delete_job, queue_pp_job
  <2>3. ASSUME NEW s \in Session, begin_close(s) \/ end_close(s) PROVE DeferredPp'
    BY <2>3 DEF begin_close, end_close, jobVars
  <2>4. ASSUME NEW s \in Session, abort_session(s) PROVE DeferredPp'
    <3>1. \A j \in Job : job_phase'[j] \in {"done", job_phase[j]}
      BY <2>4, Zenon DEF abort_session
    <3> QED BY <3>1
  <2> QED BY <1>3, <2>1, <2>2, <2>3, <2>4 DEF JobStep
<1>4. UNCHANGED job_phase \/ (\E g \in Group, rest \in {<<>>, exec} : complete_group(g, rest)) \/ JobStep
  <2>1. CASE ScheduleStep
    BY <2>1 DEF ScheduleStep, Schedule, ActivateInactive, Steal, AssignPhysical, RejoinIdle,
         ActivateVirtual, AssignVirtual, AssignGp, schedulerVars, jobVars
  <2>2. CASE ScheduleFromMask \/ (\E g \in Switchable : GroupEnable(g) \/ GroupDisable(g))
               \/ (\E s \in Session : AbortExecutor(s))
    BY <2>2 DEF ScheduleFromMask, GroupEnable, GroupDisable, AbortExecutor, schedulerVars, jobVars
  <2>3. ASSUME NEW s \in Session, AbortGroup(s)
        PROVE UNCHANGED job_phase \/ (\E g \in Group, rest \in {<<>>, exec} : complete_group(g, rest))
    BY <2>3 DEF AbortGroup, jobVars
  <2>4. ASSUME NEW g \in Group, CompleteGroup(g)
        PROVE  \E h \in Group, rest \in {<<>>, exec} : complete_group(h, rest)
    BY <2>4 DEF CompleteGroup
  <2>5. CASE GroupPowerUp \/ PowerUpReturn \/ GroupPowerDown \/ PowerStep
    BY <2>5 DEF GroupPowerUp, PowerUpReturn, GroupPowerDown, PowerStep, schedulerVars, jobVars
  <2>6. CASE \/ Pause \/ ExecutorSuspend \/ SuspendIdle \/ SuspendGroup("suspend_gp", Gp)
             \/ SuspendGroup("suspend_virtual", Virtual) \/ SuspendInactive
    BY <2>6 DEF Pause, ExecutorSuspend, SuspendIdle, SuspendGroup, SuspendInactive, schedulerVars, jobVars
  <2>7. CASE PmOsSuspend \/ PmOsResume \/ ExecutorResume \/ RuntimeSuspend
    BY <2>7 DEF PmOsSuspend, PmOsResume, ExecutorResume, RuntimeSuspend, schedulerVars, jobVars
  <2> QED BY <2>1, <2>2, <2>3, <2>4, <2>5, <2>6, <2>7 DEF Next
<1> QED BY <1>1, <1>2, <1>3, <1>4

\* What a step of anything but the scheduler and the executor leaves alone.
LEMMA JobsAside ==
  ASSUME \/ Schedule \/ ActivateInactive \/ Steal \/ RejoinIdle \/ ActivateVirtual
         \/ \E g \in Switchable : GroupEnable(g) \/ GroupDisable(g)
         \/ GroupPowerUp \/ PowerUpReturn \/ GroupPowerDown \/ PowerStep
         \/ Pause \/ ExecutorSuspend \/ SuspendIdle \/ SuspendGroup("suspend_gp", Gp)
         \/ SuspendGroup("suspend_virtual", Virtual) \/ SuspendInactive
         \/ PmOsSuspend \/ PmOsResume \/ ExecutorResume \/ RuntimeSuspend
  PROVE  UNCHANGED <<schedulerVars, running>>
<1>1. CASE Schedule \/ ActivateInactive \/ Steal \/ RejoinIdle \/ ActivateVirtual
  BY <1>1 DEF Schedule, ActivateInactive, Steal, RejoinIdle, ActivateVirtual
<1>2. CASE \E g \in Switchable : GroupEnable(g) \/ GroupDisable(g)
  BY <1>2 DEF GroupEnable, GroupDisable
<1>3. CASE GroupPowerUp \/ PowerUpReturn \/ GroupPowerDown \/ PowerStep
  BY <1>3 DEF GroupPowerUp, PowerUpReturn, GroupPowerDown, PowerStep, executorVars
<1>4. CASE \/ Pause \/ ExecutorSuspend \/ SuspendIdle \/ SuspendGroup("suspend_gp", Gp)
           \/ SuspendGroup("suspend_virtual", Virtual) \/ SuspendInactive
  BY <1>4 DEF Pause, ExecutorSuspend, SuspendIdle, SuspendGroup, SuspendInactive
<1>5. CASE PmOsSuspend \/ PmOsResume \/ ExecutorResume \/ RuntimeSuspend
  BY <1>5 DEF PmOsSuspend, PmOsResume, ExecutorResume, RuntimeSuspend, executorVars
<1> QED BY <1>1, <1>2, <1>3, <1>4, <1>5

LEMMA JobInvNext == ASSUME ExecInv, JobInv, DeferredPp, Next PROVE JobInv'
<1>1. CASE UNCHANGED <<schedulerVars, running>>
  <2>1. schedule_due' \in BOOLEAN /\ UNCHANGED <<jobVars, queueVars, session_phase, running>>
    BY <1>1 DEF schedulerVars, JobInv, JobTypes
  <2> QED BY <2>1, JobsSame
<1>2. CASE ScheduleStep
  BY <1>1, <1>2, JobsAside, PhysicalAssigned, VirtualAssigned, GpAssigned DEF ScheduleStep
<1>3. CASE ScheduleFromMask
  <2>1. schedule_due' \in BOOLEAN /\ UNCHANGED <<jobVars, queueVars, session_phase, running>>
    BY <1>3 DEF ScheduleFromMask
  <2> QED BY <2>1, JobsSame
<1>4. ASSUME NEW g \in Group, CompleteGroup(g) PROVE JobInv'
  <2>1. PICK j : j = running[g]
    OBVIOUS
  <2> QED BY <1>4, <2>1, JobCompleted DEF CompleteGroup
<1>5. ASSUME NEW s \in Session, AbortExecutor(s) \/ AbortGroup(s) PROVE JobInv'
  BY <1>5, SessionSteps, GroupAborted
<1>6. CASE JobStep
  BY <1>6, JobStepKeeps
<1> QED BY <1>1, <1>2, <1>3, <1>4, <1>5, <1>6, JobsAside DEF Next

JobsInv == ExecInv /\ JobInv /\ DeferredPp

LEMMA JobInvInit == ASSUME Init PROVE JobInv /\ DeferredPp
<1>0. /\ job_phase = [j \in Job |-> "free"] /\ running = [g \in Group |-> NoJob]
      /\ sub_jobs_started = [j \in Job |-> 0] /\ sub_jobs_completed = [j \in Job |-> 0]
      /\ created = <<>> /\ job_queue_gp = [high |-> <<>>, normal |-> <<>>]
      /\ job_queue_pp = [high |-> <<>>, normal |-> <<>>] /\ depth = [gp |-> 0, pp |-> 0]
      /\ session_phase = [s \in Session |-> "open"] /\ schedule_due = FALSE
  BY DEF Init, SchedulerInit, ExecutorInit
<1>1. IsList(<<>>, {})
  BY DEF IsList, Distinct, Range
<1>2. \A j \in Job : ~Waits(j) /\ RunsOn(j) = {}
  BY <1>0, SchedulerAssumption DEF Waits, RunsOn
<1>3. /\ \A p : GpWaiting(p) = {} /\ PpWaiting(p) = {}
      /\ AllGp = {} /\ AllPp = {} /\ Live = {}
  BY <1>0, <1>2 DEF GpWaiting, PpWaiting, AllGp, AllPp, Live
<1>4. QueuesMatch
  <2>1. ASSUME NEW p \in Priority PROVE job_queue_gp[p] = <<>> /\ job_queue_pp[p] = <<>>
    <3>1. p = "high" \/ p = "normal"
      BY <2>1 DEF Priority
    <3> QED BY <1>0, <3>1
  <2> QED BY <1>0, <1>1, <1>3, <2>1 DEF QueuesMatch
<1>5. UnstartedOf({}) = 0
  <2> DEFINE f == [j \in Job |-> Unstarted(j)]
  <2>1. SumFunctionOnSet(f, {}) = 0
    BY FS_EmptySet, SumRecursion
  <2> QED BY <2>1 DEF UnstartedOf
<1>6. DepthMatch
  BY <1>0, <1>3, <1>5, FS_EmptySet DEF DepthMatch
<1>7. JobTypes
  <2>1. IsQueues(job_queue_gp) /\ IsQueues(job_queue_pp) /\ depth = [gp |-> depth.gp, pp |-> depth.pp]
    BY <1>0 DEF IsQueues
  <2>2. running \in [Group -> Job \cup {NoJob}]
    BY <1>0
  <2>3. /\ job_phase \in [Job -> {"free", "timeline", "deferred", "queued", "done"}]
        /\ session_phase \in [Session -> {"open", "scheduler", "executor", "aborting", "drain"}]
        /\ sub_jobs_started \in [Job -> Nat] /\ sub_jobs_completed \in [Job -> Nat]
    BY <1>0
  <2>4. schedule_due \in BOOLEAN
    BY <1>0
  <2> QED BY <2>1, <2>2, <2>3, <2>4 DEF JobTypes
<1>8. CountersMatch /\ ClosingMatch /\ DeferredPp
  BY <1>0, <1>2, SchedulerAssumption DEF CountersMatch, ClosingMatch, DeferredPp
<1> QED BY <1>4, <1>6, <1>7, <1>8 DEF JobInv

LEMMA JobsInvAlways == Spec => []JobsInv
<1>1. Init => JobsInv
  BY ExecInvInit, JobInvInit DEF JobsInv
<1>2. JobsInv /\ Next => JobsInv'
  BY ExecInvNext, JobInvNext, DeferredKept DEF JobsInv
<1>3. JobsInv /\ UNCHANGED vars => JobsInv'
  <2> SUFFICES ASSUME JobsInv, UNCHANGED vars PROVE JobsInv'
    OBVIOUS
  <2>1. schedule_due' \in BOOLEAN /\ UNCHANGED <<jobVars, queueVars, session_phase, running>>
    BY DEF vars, schedulerVars, executorVars, JobsInv, JobInv, JobTypes
  <2>2. DeferredPp'
    BY DEF vars, schedulerVars, jobVars, JobsInv, DeferredPp
  <2> QED BY <2>1, <2>2, JobsSame, ExecInvStutter DEF JobsInv
<1> QED BY <1>1, <1>2, <1>3, PTL DEF Spec

------------------------------------------------------------------------------
(* What the invariant says of the jobs                                       *)

\* The length of a list of different elements is their number.
LEMMA ListLength == ASSUME NEW q, NEW S, IsList(q, S) PROVE Cardinality(S) = Len(q) /\ IsFiniteSet(S)
<1>1. q \in [1..Len(q) -> S] /\ Len(q) \in Nat
  <2>1. q \in Seq(Job) /\ Range(q) = S
    BY DEF IsList
  <2>2. \A i \in 1..Len(q) : q[i] \in S
    BY <2>1 DEF Range
  <2> QED BY <2>1, <2>2, LenProperties
<1>2. IsInjective(q)
  BY DEF IsInjective, IsList, Distinct
<1>3. \A x \in S : \E i \in 1..Len(q) : q[i] = x
  BY <1>1 DEF IsList, Range
<1>4. q \in Bijection(1..Len(q), S)
  BY <1>1, <1>2, <1>3 DEF Bijection, Injection, Surjection
<1> QED BY <1>1, <1>4, FS_CountingElements, ListFinite DEF ExistsBijection, IsList

LEMMA QueueLengths ==
  ASSUME JobInv
  PROVE  depth.gp = Len(job_queue_gp.high) + Len(job_queue_gp.normal)
<1>1. /\ IsList(job_queue_gp.high, GpWaiting("high")) /\ IsList(job_queue_gp.normal, GpWaiting("normal"))
  BY DEF JobInv, QueuesMatch, Priority
<1>2. AllGp = GpWaiting("high") \cup GpWaiting("normal") /\ GpWaiting("high") \cap GpWaiting("normal") = {}
  BY DEF AllGp, GpWaiting, QueueOf
<1>3. Cardinality(AllGp) = Cardinality(GpWaiting("high")) + Cardinality(GpWaiting("normal"))
  BY <1>1, <1>2, ListLength, DisjointCount
<1> QED BY <1>1, <1>3, ListLength DEF JobInv, DepthMatch

LEMMA QueueSums ==
  ASSUME JobInv
  PROVE  depth.pp = SumUnstarted(job_queue_pp.high) + SumUnstarted(job_queue_pp.normal)
<1>1. Range(job_queue_pp.high) = PpWaiting("high") /\ Range(job_queue_pp.normal) = PpWaiting("normal")
  BY DEF JobInv, QueuesMatch, Priority, IsList
<1>2. PpWaiting("normal") = AllPp \ PpWaiting("high") /\ PpWaiting("high") \in SUBSET AllPp
  BY DEF AllPp, PpWaiting, QueueOf
<1> DEFINE f == [j \in Job |-> Unstarted(j)]
<1>3. IsFiniteSet(AllPp) /\ \A x \in AllPp : f[x] \in Int
  BY AllPpFinite DEF JobInv, AllPp
<1>4. SumFunctionOnSet(f, AllPp) = SumFunctionOnSet(f, PpWaiting("high")) + SumFunctionOnSet(f, PpWaiting("normal"))
  <2> HIDE DEF f
  <2> QED BY <1>2, <1>3, SumSplit
<1>5. UnstartedOf(AllPp) = UnstartedOf(PpWaiting("high")) + UnstartedOf(PpWaiting("normal"))
  BY <1>4 DEF UnstartedOf
<1> QED BY <1>1, <1>5 DEF SumUnstarted, JobInv, DepthMatch

LEMMA InvAccounted == ASSUME JobInv PROVE SubJobsAccounted
<1>1. ASSUME NEW j \in Job
      PROVE  /\ job_phase[j] = "queued" =>
                  sub_jobs_started[j] - sub_jobs_completed[j] = Cardinality({g \in Group : running[g] = j})
             /\ job_phase[j] # "queued" => \A g \in Group : running[g] # j
  BY DEF JobInv, CountersMatch, RunsOn
<1>2. ASSUME NEW j \in Job
      PROVE  QueuedIn(IF JobKind[j] = "gp" THEN job_queue_gp ELSE job_queue_pp, j)
                <=> (job_phase[j] = "queued" /\ Unstarted(j) > 0)
  <2>1. /\ Range(job_queue_gp.high) = GpWaiting("high") /\ Range(job_queue_gp.normal) = GpWaiting("normal")
        /\ Range(job_queue_pp.high) = PpWaiting("high") /\ Range(job_queue_pp.normal) = PpWaiting("normal")
    BY DEF JobInv, QueuesMatch, Priority, IsList
  <2> QED BY <2>1 DEF QueuedIn, GpWaiting, PpWaiting, QueueOf, Waits
<1> QED BY <1>1, <1>2, QueueLengths, QueueSums DEF SubJobsAccounted

\* Every sub job of a queued job is waiting, on a group or completed, and the depths of
\* the queues count those that wait, with any number of jobs, sessions and groups
\* (mali_scheduler_job_pp_physical_get, mali_executor_complete_group and the abort of a session).
THEOREM SubJobsAccountedCorrect == Spec => []SubJobsAccounted
<1>1. JobsInv => SubJobsAccounted
  BY InvAccounted DEF JobsInv
<1> QED BY <1>1, JobsInvAlways, PTL

\* Once mali_executor_abort_session has ended, no job of the session is queued or runs,
\* whatever was activated or completed meanwhile (mali_kernel_core.c).
THEOREM AbortedGoneCorrect == Spec => []AbortedGone
<1>1. JobsInv => AbortedGone
  BY DEF JobsInv, JobInv, ClosingMatch, AbortedGone
<1> QED BY <1>1, JobsInvAlways, PTL

------------------------------------------------------------------------------
(* The scheduler and the executor implement MaliJobSpec                      *)

ToDo(j)   == IF job_phase[j] \in {"free", "done"} THEN 0 ELSE Unstarted(j)
AllToDo   == [j \in Job |-> ToDo(j)]
Closing   == {s \in Session : session_phase[s] # "open"}
JobSpecStep == [ImplementsJobs!JobSpecNext]_(ImplementsJobs!jobSpecVars)

\* The state functions of MaliJobSpec, under their names here.
LEMMA JobSpecVars ==
  /\ ImplementsJobs!jobSpecVars = <<Live, AllToDo, running, Closing>>
  /\ \A s : ImplementsJobs!JobsOf(s) = {j \in Live : SessionOf[j] = s}
BY DEF ImplementsJobs!jobSpecVars, ImplementsJobs!JobsOf, Live, AllToDo, ToDo, Closing

LEMMA Stutters ==
  ASSUME running' = running, Live' = Live, Closing' = Closing, \A j \in Job : ToDo(j)' = ToDo(j)
  PROVE  JobSpecStep
<1>1. AllToDo' = AllToDo
  BY DEF AllToDo
<1> QED BY <1>1, JobSpecVars DEF JobSpecStep, ImplementsJobs!jobSpecVars, Live, AllToDo, ToDo, Closing

\* An action on job j.
LEMMA Submits ==
  ASSUME NEW j \in Job, j \notin Live, SessionOf[j] \notin Closing, Live' = Live \cup {j},
         ToDo(j)' = SubJobs[j], \A i \in Job \ {j} : ToDo(i)' = ToDo(i), UNCHANGED <<running, Closing>>
  PROVE  JobSpecStep
<1>1. AllToDo' = [AllToDo EXCEPT ![j] = SubJobs[j]]
  BY DEF AllToDo
<1>2. ImplementsJobs!Submit(j)
  BY <1>1 DEF ImplementsJobs!Submit, Live, AllToDo, ToDo, Closing
<1> QED BY <1>2 DEF JobSpecStep, ImplementsJobs!JobSpecNext

LEMMA Releases ==
  ASSUME NEW j \in Job, j \in Live, RunsOn(j) = {}, ToDo(j) \in {0, SubJobs[j]}, Live' = Live \ {j},
         ToDo(j)' = 0, \A i \in Job \ {j} : ToDo(i)' = ToDo(i), UNCHANGED <<running, Closing>>
  PROVE  JobSpecStep
<1>1. AllToDo' = [AllToDo EXCEPT ![j] = 0] /\ AllToDo[j] \in {0, SubJobs[j]}
  BY DEF AllToDo
<1>2. \A g \in Group : running[g] # j
  BY DEF RunsOn
<1>3. ImplementsJobs!Release(j)
  BY <1>1, <1>2 DEF ImplementsJobs!Release, Live, AllToDo, ToDo, Closing
<1> QED BY <1>3 DEF JobSpecStep, ImplementsJobs!JobSpecNext

LEMMA Starts ==
  ASSUME NEW j \in Job, j \in Live, ToDo(j) > 0, NEW g \in Group, running[g] = NoJob,
         running' = [running EXCEPT ![g] = j], ToDo(j)' = ToDo(j) - 1,
         \A i \in Job \ {j} : ToDo(i)' = ToDo(i), UNCHANGED <<Live, Closing>>
  PROVE  JobSpecStep
<1>1. AllToDo' = [AllToDo EXCEPT ![j] = @ - 1] /\ AllToDo[j] > 0
  BY DEF AllToDo
<1>2. ImplementsJobs!Start(g, j)
  BY <1>1 DEF ImplementsJobs!Start, Live, AllToDo, ToDo, Closing
<1> QED BY <1>2 DEF JobSpecStep, ImplementsJobs!JobSpecNext

LEMMA Finishes ==
  ASSUME NEW g \in Group, running[g] # NoJob, running' = [running EXCEPT ![g] = NoJob],
         \A i \in Job : ToDo(i)' = ToDo(i), UNCHANGED <<Live, Closing>>
  PROVE  JobSpecStep
<1>1. AllToDo' = AllToDo
  BY DEF AllToDo
<1>2. ImplementsJobs!Finish(g)
  BY <1>1 DEF ImplementsJobs!Finish, Live, AllToDo, ToDo, Closing
<1> QED BY <1>2 DEF JobSpecStep, ImplementsJobs!JobSpecNext

LEMMA Cancels ==
  ASSUME NEW s \in Session, s \in Closing, NEW S, S \subseteq {j \in Live : SessionOf[j] = s},
         \A i \in Job : ToDo(i)' = IF i \in S THEN 0 ELSE ToDo(i), UNCHANGED <<running, Live, Closing>>
  PROVE  JobSpecStep
<1>1. AllToDo' = [j \in Job |-> IF j \in S THEN 0 ELSE AllToDo[j]]
  BY DEF AllToDo
<1>2. S \in SUBSET ImplementsJobs!JobsOf(s)
  BY JobSpecVars
<1>3. ImplementsJobs!Cancel(s)
  BY <1>1, <1>2 DEF ImplementsJobs!Cancel, Live, AllToDo, ToDo, Closing
<1> QED BY <1>3 DEF JobSpecStep, ImplementsJobs!JobSpecNext

LEMMA Closes ==
  ASSUME NEW s \in Session, UNCHANGED <<running, Live>>, \A i \in Job : ToDo(i)' = ToDo(i),
         \/ s \notin Closing /\ Closing' = Closing \cup {s}
         \/ s \in Closing /\ Closing' = Closing \ {s} /\ \A j \in Live : SessionOf[j] # s
  PROVE  JobSpecStep
<1>1. AllToDo' = AllToDo
  BY DEF AllToDo
<1>2. CASE s \notin Closing /\ Closing' = Closing \cup {s}
  <2>1. ImplementsJobs!Close(s)
    BY <1>1, <1>2 DEF ImplementsJobs!Close, Live, AllToDo, ToDo, Closing
  <2> QED BY <2>1 DEF JobSpecStep, ImplementsJobs!JobSpecNext
<1>3. CASE s \in Closing /\ Closing' = Closing \ {s} /\ \A j \in Live : SessionOf[j] # s
  <2>1. ImplementsJobs!JobsOf(s) = {}
    BY <1>3, JobSpecVars
  <2>2. ImplementsJobs!Closed(s)
    BY <1>1, <1>3, <2>1 DEF ImplementsJobs!Closed, Live, AllToDo, ToDo, Closing
  <2> QED BY <2>2 DEF JobSpecStep, ImplementsJobs!JobSpecNext
<1> QED BY <1>2, <1>3

\* What a job has to do follows its phase and its counter.
LEMMA ToDoSame ==
  ASSUME UNCHANGED <<job_phase, sub_jobs_started>>
  PROVE  Live' = Live /\ \A j \in Job : ToDo(j)' = ToDo(j)
BY DEF Live, ToDo, Unstarted

LEMMA DeleteImplements ==
  ASSUME JobInv, NEW j \in Job, Unqueued(j) \/ job_phase[j] = "done", delete_job(j), UNCHANGED <<running, session_phase>>
  PROVE  JobSpecStep
<1>1. /\ job_phase \in [Job -> {"free", "timeline", "deferred", "queued", "done"}]
      /\ sub_jobs_started \in [Job -> Nat] /\ SubJobs[j] \in Nat
      /\ Unqueued(j) => sub_jobs_started[j] = 0
      /\ RunsOn(j) = {}
  BY SchedulerAssumption DEF JobInv, JobTypes, CountersMatch, Unqueued
<1>2. j \in Live /\ ToDo(j) \in {0, SubJobs[j]}
  BY <1>1 DEF Live, ToDo, Unstarted, Unqueued
<1>3. /\ job_phase' = [job_phase EXCEPT ![j] = "free"] /\ sub_jobs_started' = [sub_jobs_started EXCEPT ![j] = 0]
  BY DEF delete_job
<1>4. Live' = Live \ {j} /\ ToDo(j)' = 0 /\ \A i \in Job \ {j} : ToDo(i)' = ToDo(i)
  BY <1>1, <1>3 DEF Live, ToDo, Unstarted
<1>5. Closing' = Closing
  BY DEF Closing
<1> QED BY <1>1, <1>2, <1>4, <1>5, Releases

LEMMA QueueImplements ==
  ASSUME JobInv, NEW j \in Job, Unqueued(j), NEW p \in {"deferred", "queued"},
         job_phase' = [job_phase EXCEPT ![j] = p], UNCHANGED <<sub_jobs_started, running, session_phase>>
  PROVE  JobSpecStep
<1>1. job_phase \in [Job -> {"free", "timeline", "deferred", "queued", "done"}]
  BY DEF JobInv, JobTypes
<1>2. Live' = Live /\ \A i \in Job : ToDo(i)' = ToDo(i)
  BY <1>1 DEF Live, ToDo, Unstarted, Unqueued
<1>3. Closing' = Closing
  BY DEF Closing
<1> QED BY <1>2, <1>3, Stutters

LEMMA CreateImplements == ASSUME JobInv, NEW j \in Job, start_job(j), UNCHANGED running PROVE JobSpecStep
<1>1. /\ job_phase \in [Job -> {"free", "timeline", "deferred", "queued", "done"}]
      /\ sub_jobs_started[j] = 0 /\ SubJobs[j] \in Nat /\ session_phase[SessionOf[j]] = "open"
      /\ job_phase[j] = "free"
  BY SchedulerAssumption DEF JobInv, JobTypes, CountersMatch, start_job, is_aborting
<1>2. job_phase' = [job_phase EXCEPT ![j] = "timeline"] /\ UNCHANGED <<sub_jobs_started, session_phase>>
  BY DEF start_job
<1>3. Live' = Live \cup {j} /\ j \notin Live /\ ToDo(j)' = SubJobs[j] /\ \A i \in Job \ {j} : ToDo(i)' = ToDo(i)
  BY <1>1, <1>2 DEF Live, ToDo, Unstarted
<1>4. Closing' = Closing /\ SessionOf[j] \notin Closing
  BY <1>1, <1>2 DEF Closing
<1> QED BY <1>3, <1>4, Submits

LEMMA StartImplements ==
  ASSUME JobInv, NEW j \in Job, Waits(j), NEW g \in Group, running[g] = NoJob,
         running' = [running EXCEPT ![g] = j],
         sub_jobs_started' = [sub_jobs_started EXCEPT ![j] = @ + 1], UNCHANGED <<job_phase, session_phase>>
  PROVE  JobSpecStep
<1>1. sub_jobs_started \in [Job -> Nat] /\ SubJobs[j] \in Nat
  BY SchedulerAssumption DEF JobInv, JobTypes
<1>2. j \in Live /\ ToDo(j) > 0 /\ ToDo(j)' = ToDo(j) - 1
  BY <1>1 DEF Live, ToDo, Waits, Unstarted
<1>3. Live' = Live /\ Closing' = Closing /\ \A i \in Job \ {j} : ToDo(i)' = ToDo(i)
  BY <1>1 DEF Live, ToDo, Unstarted, Closing
<1> QED BY <1>2, <1>3, Starts

LEMMA FinishImplements ==
  ASSUME JobInv, NEW g \in Group, NEW j, running[g] = j, j # NoJob, NEW rest, complete_group(g, rest),
         UNCHANGED session_phase
  PROVE  JobSpecStep
<1>1. /\ j \in Job /\ job_phase[j] = "queued" /\ Cardinality(RunsOn(j)) \in Nat \ {0}
      /\ job_phase \in [Job -> {"free", "timeline", "deferred", "queued", "done"}]
      /\ sub_jobs_started[j] \in Nat /\ sub_jobs_completed[j] \in Nat /\ SubJobs[j] \in Nat
  BY RunningJob, SchedulerAssumption DEF JobInv, JobTypes
<1>2. /\ sub_jobs_started[j] <= SubJobs[j]
      /\ sub_jobs_started[j] - sub_jobs_completed[j] = Cardinality(RunsOn(j))
  BY <1>1 DEF JobInv, CountersMatch
<1>3. /\ running' = [running EXCEPT ![g] = NoJob] /\ sub_jobs_started' = sub_jobs_started
      /\ job_phase' = IF completes(j) THEN [job_phase EXCEPT ![j] = "done"] ELSE job_phase
  BY DEF complete_group
<1>4. completes(j) => Unstarted(j) = 0
  BY <1>1, <1>2 DEF completes, Unstarted
<1>5. Live' = Live /\ \A i \in Job : ToDo(i)' = ToDo(i)
  BY <1>1, <1>3, <1>4 DEF Live, ToDo, Unstarted
<1>6. Closing' = Closing
  BY DEF Closing
<1> QED BY <1>3, <1>5, <1>6, Finishes

LEMMA AbortImplements == ASSUME JobInv, NEW s \in Session, abort_session(s), UNCHANGED running PROVE JobSpecStep
<1>0. PICK G, P, K : /\ G = {j \in AllGp : SessionOf[j] = s} /\ P = {j \in AllPp : SessionOf[j] = s}
                     /\ AbortedTo(s, G, P, K)
  BY Aborted
<1>1. /\ session_phase[s] = "scheduler"
      /\ sub_jobs_started' = [j \in Job |-> IF j \in P THEN SubJobs[j] ELSE sub_jobs_started[j]]
      /\ job_phase' = [j \in Job |-> IF j \in G \cup ended(P) THEN "done" ELSE job_phase[j]]
      /\ session_phase' = [session_phase EXCEPT ![s] = "executor"]
  BY <1>0 DEF AbortedTo
<1>2. /\ \A j \in G \cup P : j \in Job /\ job_phase[j] = "queued" /\ SessionOf[j] = s
      /\ ended(P) \subseteq P
  BY <1>0 DEF AllGp, AllPp, Waits, ended
<1>3. SubJobs \in [Job -> Nat] /\ session_phase \in [Session -> {"open", "scheduler", "executor", "aborting", "drain"}]
  BY SchedulerAssumption DEF JobInv, JobTypes
<1>4. Live' = Live
  BY <1>1, <1>2 DEF Live
<1>5. ASSUME NEW i \in Job PROVE ToDo(i)' = IF i \in G \cup P THEN 0 ELSE ToDo(i)
  <2>1. CASE i \in G \cup ended(P)
    BY <1>1, <1>2, <2>1 DEF ToDo
  <2>2. CASE i \in P \ (G \cup ended(P))
    BY <1>1, <1>2, <1>3, <2>2 DEF ToDo, Unstarted
  <2>3. CASE i \notin G \cup P
    BY <1>1, <1>2, <2>3 DEF ToDo, Unstarted
  <2> QED BY <1>2, <2>1, <2>2, <2>3
<1>6. s \in Closing /\ Closing' = Closing
  BY <1>1, <1>3 DEF Closing
<1>7. G \cup P \subseteq {j \in Live : SessionOf[j] = s}
  BY <1>2 DEF Live
<1> QED BY <1>4, <1>5, <1>6, <1>7, Cancels

LEMMA SessionImplements ==
  ASSUME JobInv, NEW s \in Session,
         \/ begin_close(s) /\ UNCHANGED running
         \/ end_close(s) /\ UNCHANGED running
         \/ AbortExecutor(s)
  PROVE  JobSpecStep
<1>1. /\ UNCHANGED <<job_phase, sub_jobs_started, running>>
      /\ \/ session_phase[s] = "open" /\ session_phase' = [session_phase EXCEPT ![s] = "scheduler"]
         \/ /\ session_phase[s] = "drain" /\ session_phase' = [session_phase EXCEPT ![s] = "open"]
            /\ \A j \in Job : SessionOf[j] = s => job_phase[j] = "free"
         \/ session_phase[s] = "executor" /\ session_phase' = [session_phase EXCEPT ![s] = "aborting"]
  BY DEF begin_close, end_close, AbortExecutor, jobVars
<1>2. session_phase \in [Session -> {"open", "scheduler", "executor", "aborting", "drain"}]
  BY DEF JobInv, JobTypes
<1>3. \/ s \notin Closing /\ Closing' = Closing \cup {s}
      \/ s \in Closing /\ Closing' = Closing \ {s} /\ \A j \in Live : SessionOf[j] # s
      \/ Closing' = Closing
  BY <1>1, <1>2 DEF Closing, Live
<1> QED BY <1>1, <1>3, ToDoSame, Stutters, Closes

LEMMA JobStepImplements == ASSUME JobInv, JobStep PROVE JobSpecStep
<1>1. running' = running
  BY DEF JobStep, executorVars
<1>2. ASSUME NEW j \in Job, start_job(j) PROVE JobSpecStep
  BY <1>1, <1>2, CreateImplements
<1>3. ASSUME NEW j \in Job, complete_job(j) PROVE JobSpecStep
  BY <1>1, <1>3, DeleteImplements DEF complete_job
<1>4. ASSUME NEW s \in Session, begin_close(s) \/ end_close(s) \/ abort_session(s) PROVE JobSpecStep
  BY <1>1, <1>4, SessionImplements, AbortImplements
<1>5. ASSUME NEW j \in Job, activate_gp_job(j) \/ activate_pp_job(j) \/ do_pp_job_queue(j) PROVE JobSpecStep
  <2>1. Unqueued(j) /\ UNCHANGED session_phase
    BY <1>5 DEF activate_gp_job, activate_pp_job, do_pp_job_queue, Unqueued
  <2>2. CASE fail_job(j)
    BY <1>1, <2>1, <2>2, DeleteImplements DEF fail_job
  <2>3. CASE \E p \in {"deferred", "queued"} :
               job_phase' = [job_phase EXCEPT ![j] = p] /\ UNCHANGED sub_jobs_started
    BY <1>1, <2>1, <2>3, QueueImplements
  <2>4. fail_job(j) \/ \E p \in {"deferred", "queued"} :
                         job_phase' = [job_phase EXCEPT ![j] = p] /\ UNCHANGED sub_jobs_started
    BY <1>5 DEF activate_gp_job, activate_pp_job, do_pp_job_queue, queue_gp_job, queue_pp_job
  <2> QED BY <2>2, <2>3, <2>4
<1> QED BY <1>2, <1>3, <1>4, <1>5 DEF JobStep

\* A step that starts a job, or none.
LEMMA AssignImplements ==
  ASSUME ExecInv, JobInv, AssignPhysical \/ AssignVirtual \/ AssignGp
  PROVE  JobSpecStep
<1>1. UNCHANGED <<job_phase, session_phase>>
  BY DEF AssignPhysical, AssignVirtual, AssignGp
<1>2. CASE UNCHANGED <<sub_jobs_started, running>>
  BY <1>1, <1>2, ToDoSame, Stutters DEF Closing
<1>3. ASSUME NEW j \in Job, Waits(j), NEW g \in Group, exec_state[g] = "idle",
             running' = [running EXCEPT ![g] = j],
             sub_jobs_started' = [sub_jobs_started EXCEPT ![j] = @ + 1]
      PROVE  JobSpecStep
  BY <1>1, <1>3, IdleFree, StartImplements
<1>4. ASSUME AssignPhysical PROVE JobSpecStep
  <2>1. PICK j : j = physical_peek
    OBVIOUS
  <2>2. j \in Job /\ Waits(j) /\ sub_jobs_started' = [sub_jobs_started EXCEPT ![j] = @ + 1]
    BY <1>4, <2>1, PhysicalPeek DEF AssignPhysical, pp_get
  <2>3. PICK c \in OnList("idle") : running' = [running EXCEPT ![c] = j]
    BY <1>4, <2>1 DEF AssignPhysical
  <2>4. c \in Group /\ exec_state[c] = "idle"
    BY Groups DEF OnList
  <2> QED BY <1>3, <2>2, <2>3, <2>4
<1>5. ASSUME VirtualIs("idle"), next_is_virtual, pp_get(virtual_peek),
             running' = [running EXCEPT ![Virtual] = virtual_peek]
      PROVE  JobSpecStep
  <2>1. PICK j : j = virtual_peek
    OBVIOUS
  <2>2. /\ j \in Job /\ Waits(j) /\ sub_jobs_started' = [sub_jobs_started EXCEPT ![j] = @ + 1]
        /\ running' = [running EXCEPT ![Virtual] = j]
    BY <1>5, <2>1, VirtualPeek DEF next_is_virtual, pp_get
  <2>3. Virtual \in Group /\ exec_state[Virtual] = "idle"
    BY <1>5, Groups DEF VirtualIs
  <2> QED BY <1>3, <2>2, <2>3
<1>6. ASSUME exec_state[Gp] = "idle", depth.gp > 0, gp_get(gp_peek),
             running' = [running EXCEPT ![Gp] = gp_peek]
      PROVE  JobSpecStep
  <2>1. PICK j : j = gp_peek
    OBVIOUS
  <2>2. /\ j \in Job /\ Waits(j) /\ sub_jobs_started' = [sub_jobs_started EXCEPT ![j] = @ + 1]
        /\ running' = [running EXCEPT ![Gp] = j]
    BY <1>6, <2>1, GpPeek DEF gp_get
  <2> QED BY <1>3, <1>6, <2>2, Groups
<1>7. AssignVirtual =>
        \/ UNCHANGED <<sub_jobs_started, running>>
        \/ /\ VirtualIs("idle") /\ next_is_virtual /\ pp_get(virtual_peek)
           /\ running' = [running EXCEPT ![Virtual] = virtual_peek]
  BY DEF AssignVirtual
<1>8. AssignGp =>
        \/ UNCHANGED <<sub_jobs_started, running>>
        \/ /\ exec_state[Gp] = "idle" /\ depth.gp > 0 /\ gp_get(gp_peek)
           /\ running' = [running EXCEPT ![Gp] = gp_peek]
  BY DEF AssignGp
<1> QED BY <1>2, <1>4, <1>5, <1>6, <1>7, <1>8

LEMMA JobSpecNext == ASSUME ExecInv, JobInv, Next PROVE JobSpecStep
<1>1. ASSUME UNCHANGED <<job_phase, sub_jobs_started, session_phase, running>> PROVE JobSpecStep
  BY <1>1, ToDoSame, Stutters DEF Closing
<1>2. CASE UNCHANGED <<schedulerVars, running>>
  BY <1>1, <1>2 DEF schedulerVars, jobVars
<1>3. CASE ScheduleStep
  BY <1>2, <1>3, JobsAside, AssignImplements DEF ScheduleStep
<1>4. CASE ScheduleFromMask
  BY <1>1, <1>4 DEF ScheduleFromMask, jobVars
<1>5. ASSUME NEW g \in Group, NEW rest, running[g] # NoJob, complete_group(g, rest), UNCHANGED session_phase
      PROVE  JobSpecStep
  <2>1. PICK j : j = running[g]
    OBVIOUS
  <2> QED BY <1>5, <2>1, FinishImplements
<1>6. ASSUME NEW s \in Session, AbortGroup(s) PROVE JobSpecStep
  <2>1. CASE \E g \in Group : RunsFor(g, s) /\ complete_group(g, exec) /\ UNCHANGED session_phase
    BY <1>5, <2>1 DEF RunsFor
  <2>2. CASE /\ session_phase[s] = "aborting" /\ session_phase' = [session_phase EXCEPT ![s] = "drain"]
             /\ UNCHANGED <<jobVars, running>>
    <3>1. Closing' = Closing
      BY <2>2 DEF Closing
    <3> QED BY <2>2, <3>1, ToDoSame, Stutters DEF jobVars
  <2> QED BY <1>6, <2>1, <2>2 DEF AbortGroup
<1>7. ASSUME NEW s \in Session, AbortExecutor(s) PROVE JobSpecStep
  BY <1>7, SessionImplements
<1>8. CASE JobStep
  BY <1>8, JobStepImplements
<1>9. ASSUME NEW g \in Group, CompleteGroup(g) PROVE JobSpecStep
  BY <1>5, <1>9 DEF CompleteGroup
<1> QED BY <1>2, <1>3, <1>4, <1>6, <1>7, <1>8, <1>9, JobsAside DEF Next

LEMMA JobSpecInits == ASSUME Init PROVE ImplementsJobs!JobSpecInit
<1>1. /\ job_phase = [j \in Job |-> "free"] /\ running = [g \in Group |-> NoJob]
      /\ session_phase = [s \in Session |-> "open"]
  BY DEF Init, SchedulerInit, ExecutorInit
<1> QED BY <1>1 DEF ImplementsJobs!JobSpecInit

\* The scheduler and the executor implement MaliJobSpec: a sub job runs at most once, a job
\* is given back only when nothing of it runs and all or nothing of it was started, and a
\* session that closes ends without jobs, with any number of jobs, sessions and groups.
THEOREM RefinesJobSpecCorrect == Spec => RefinesJobSpec
<1>1. Init => ImplementsJobs!JobSpecInit
  BY JobSpecInits
<1>2. JobsInv /\ [Next]_vars => [ImplementsJobs!JobSpecNext]_(ImplementsJobs!jobSpecVars)
  <2>1. ASSUME JobsInv, UNCHANGED vars PROVE JobSpecStep
    <3>1. UNCHANGED <<job_phase, sub_jobs_started, session_phase, running>>
      BY <2>1 DEF vars, schedulerVars, jobVars, executorVars
    <3> QED BY <3>1, ToDoSame, Stutters DEF Closing
  <2> QED BY <2>1, JobSpecNext DEF JobsInv, JobSpecStep
<1> QED BY <1>1, <1>2, JobsInvAlways, PTL DEF Spec, RefinesJobSpec, ImplementsJobs!JobSpec

------------------------------------------------------------------------------
(* The order of the queues.  Only the first job of a queue may have started; *)
(* without it, a queue is in the order in which its jobs were created.  A    *)
(* first job that has not started is in that order too.                      *)

Place(c, x) == LET I == {i \in 1..Len(c) : c[i] = x} IN IF I # {} THEN Min(I) ELSE 0

\* q is in the order of c behind a first job that f says has started.
InOrder(q, c, f) ==
  \A k, l \in 1..Len(q) : k < l => /\ ~(f[q[l]] > 0)
                                   /\ f[q[k]] > 0 \/ Place(c, q[k]) < Place(c, q[l])

QueuesOrdered ==
  \A p \in Priority : /\ InOrder(job_queue_gp[p], created, sub_jobs_started)
                      /\ InOrder(job_queue_pp[p], created, sub_jobs_started)

LEMMA CreatedPlaces == \A i, j : CreatedBefore(i, j) <=> Place(created, i) < Place(created, j)
BY DEF CreatedBefore, SelectInSeq, Place

LEMMA PlaceOf ==
  ASSUME NEW c, NEW S, IsList(c, S), NEW n \in 1..Len(c)
  PROVE  Place(c, c[n]) = n
<1> DEFINE I == {i \in 1..Len(c) : c[i] = c[n]}
<1>1. I = {n} /\ Len(c) \in Nat
  BY DEF IsList, Distinct
<1>2. I \in SUBSET Nat /\ I # {}
  BY <1>1
<1>3. Min(I) = n
  <2> HIDE DEF I
  <2> QED BY <1>1, <1>2, MinInSet
<1> QED BY <1>2, <1>3 DEF Place

LEMMA PlaceIn ==
  ASSUME NEW c, NEW S, IsList(c, S), NEW x \in S
  PROVE  Place(c, x) \in 1..Len(c) /\ c[Place(c, x)] = x
<1>1. PICK n \in 1..Len(c) : c[n] = x
  BY DEF IsList, Range
<1> QED BY <1>1, PlaceOf

\* A job that is created or deleted leaves the others in their order.
LEMMA PlaceAppend ==
  ASSUME NEW c, NEW S, IsList(c, S), NEW j \in Job \ S, NEW x \in S
  PROVE  Place(Append(c, j), x) = Place(c, x)
<1>1. IsList(Append(c, j), S \cup {j})
  BY ListAppend
<1>2. Place(c, x) \in 1..Len(c) /\ c[Place(c, x)] = x
  BY PlaceIn
<1> DEFINE n == Place(c, x)
<1> HIDE DEF n
<1>3. n \in 1..Len(c) /\ c[n] = x /\ c \in Seq(Job)
  BY <1>2 DEF n, IsList
<1>4. n \in 1..Len(Append(c, j)) /\ Append(c, j)[n] = x
  BY <1>3
<1>5. Place(Append(c, j), Append(c, j)[n]) = n
  BY <1>1, <1>4, PlaceOf
<1> QED BY <1>4, <1>5 DEF n

LEMMA PlaceWithout ==
  ASSUME NEW c, NEW S, IsList(c, S), NEW j, NEW x \in S \ {j}, NEW y \in S \ {j},
         Place(c, x) < Place(c, y)
  PROVE  Place(Without(c, j), x) < Place(Without(c, j), y)
<1> DEFINE r == Without(c, j)
<1>1. IsList(r, S \ {j})
  BY ListWithout
<1>2. c \in Seq(Job)
  BY DEF IsList
<1>3. r \in Seq(Job) /\ KeptOf(r, c, Len(c), Job \ {j})
  BY <1>2, KeptFacts DEF Without
<1> HIDE DEF r
<1>4. PICK h \in [1..Len(r) -> 1..Len(c)] :
        /\ \A i, k \in 1..Len(r) : i < k => h[i] < h[k]
        /\ \A i \in 1..Len(r) : r[i] = c[h[i]]
  BY <1>3 DEF KeptOf
<1>5. PICK a \in 1..Len(r) : r[a] = x
  BY <1>1 DEF IsList, Range
<1>6. PICK b \in 1..Len(r) : r[b] = y
  BY <1>1 DEF IsList, Range
<1>7. Place(r, x) = a /\ Place(r, y) = b
  BY <1>1, <1>5, <1>6, PlaceOf
<1>8. Place(c, x) = h[a] /\ Place(c, y) = h[b] /\ h[a] \in 1..Len(c) /\ h[b] \in 1..Len(c)
  BY <1>4, <1>5, <1>6, PlaceOf
<1>9. a \in Int /\ b \in Int /\ h[a] \in Int /\ h[b] \in Int
  BY <1>8
<1>10. ~(b < a) /\ a # b
  BY <1>4, <1>8, <1>9
<1> QED BY <1>7, <1>9, <1>10 DEF r

------------------------------------------------------------------------------
(* What keeps a queue in order                                               *)

LEMMA OrderKept ==
  ASSUME NEW q, NEW S, IsList(q, S), NEW c, NEW f, InOrder(q, c, f), NEW K
  PROVE  InOrder(Kept(q, K), c, f)
<1> DEFINE r == Kept(q, K)
<1>1. r \in Seq(Job) /\ KeptOf(r, q, Len(q), K)
  BY KeptFacts DEF IsList
<1> HIDE DEF r
<1>2. PICK h \in [1..Len(r) -> 1..Len(q)] :
        /\ \A i, k \in 1..Len(r) : i < k => h[i] < h[k]
        /\ \A i \in 1..Len(r) : r[i] = q[h[i]]
  BY <1>1 DEF KeptOf
<1> SUFFICES ASSUME NEW k \in 1..Len(r), NEW l \in 1..Len(r), k < l
             PROVE  ~(f[r[l]] > 0) /\ (f[r[k]] > 0 \/ Place(c, r[k]) < Place(c, r[l]))
  BY DEF InOrder, r
<1>3. h[k] \in 1..Len(q) /\ h[l] \in 1..Len(q) /\ h[k] < h[l] /\ r[k] = q[h[k]] /\ r[l] = q[h[l]]
  BY <1>2
<1> QED BY <1>3 DEF InOrder

\* Other places or counters, of the same jobs.
LEMMA OrderSame ==
  ASSUME NEW q, NEW S, IsList(q, S), NEW c, NEW f, InOrder(q, c, f), NEW d, NEW g,
         \A x \in S : f[x] = g[x],
         \A x, y \in S : Place(c, x) < Place(c, y) => Place(d, x) < Place(d, y)
  PROVE  InOrder(q, d, g)
<1> SUFFICES ASSUME NEW k \in 1..Len(q), NEW l \in 1..Len(q), k < l
             PROVE  ~(g[q[l]] > 0) /\ (g[q[k]] > 0 \/ Place(d, q[k]) < Place(d, q[l]))
  BY DEF InOrder
<1>1. q[k] \in S /\ q[l] \in S
  BY DEF IsList, Range
<1> QED BY <1>1 DEF InOrder

\* The first job starts.
LEMMA OrderStarted ==
  ASSUME NEW q, NEW S, IsList(q, S), NEW c, NEW f, InOrder(q, c, f), NEW j, q # <<>> => j = Head(q),
         NEW g, \A x \in S \ {j} : f[x] = g[x], g[j] > 0
  PROVE  InOrder(q, c, g)
<1> SUFFICES ASSUME NEW k \in 1..Len(q), NEW l \in 1..Len(q), k < l
             PROVE  ~(g[q[l]] > 0) /\ (g[q[k]] > 0 \/ Place(c, q[k]) < Place(c, q[l]))
  BY DEF InOrder
<1>1. q \in Seq(Job) /\ Len(q) \in Nat /\ Distinct(q) /\ q[k] \in S /\ q[l] \in S /\ DOMAIN q = 1..Len(q)
  BY DEF IsList, Range
<1>2. q # <<>> /\ Head(q) = q[1] /\ 1 \in 1..Len(q)
  BY <1>1
<1>3. q[l] # j
  BY <1>1, <1>2 DEF Distinct
<1>4. f[q[l]] = g[q[l]]
  BY <1>1, <1>3
<1>5. CASE q[k] = j
  BY <1>4, <1>5 DEF InOrder
<1>6. CASE q[k] # j
  BY <1>1, <1>4, <1>6 DEF InOrder
<1> QED BY <1>5, <1>6

LEMMA OrderAdded ==
  ASSUME NEW q, NEW S, IsList(q, S), InOrder(q, created, sub_jobs_started), NEW j \in Job \ S,
         ~HasStarted(j), NEW L, IsList(created, L), S \cup {j} \subseteq L
  PROVE  InOrder(list_add(j, q), created, sub_jobs_started)
<1> DEFINE before == {i \in DOMAIN q : HasStarted(q[i]) \/ CreatedBefore(q[i], j)}
           B == before \cup {0}
           m == Max(B)
           r == list_add(j, q)
<1>1. DOMAIN q = 1..Len(q) /\ Len(q) \in Nat /\ q \in Seq(Job) /\ Distinct(q) /\ j \notin Range(q)
  BY DEF IsList
<1>2. B \in SUBSET (0..Len(q)) /\ B # {}
  BY <1>1
<1>3. r = InsertAt(q, m + 1, j)
  BY DEF list_add
<1>4. before = {i \in 1..Len(q) : sub_jobs_started[q[i]] > 0 \/ Place(created, q[i]) < Place(created, j)}
  BY <1>1, CreatedPlaces DEF HasStarted
<1>5. m \in B /\ \A x \in B : x <= m
  <2> HIDE DEF before, B
  <2> QED BY <1>1, <1>2, MaxInSet
<1>6. m \in 0..Len(q) /\ (m = 0 \/ m \in before) /\ \A x \in before : x <= m
  BY <1>1, <1>5
<1> HIDE DEF before, B, m, r
<1>7. /\ Len(r) = Len(q) + 1
      /\ \A i \in 1..Len(q) + 1 : r[i] = IF i < m + 1 THEN q[i] ELSE IF i = m + 1 THEN j ELSE q[i - 1]
  <2>1. m + 1 \in 1..Len(q) + 1
    BY <1>1, <1>6
  <2> QED BY <1>1, <1>3, <2>1, InsertAtElements
<1>8. ASSUME NEW i \in 1..Len(q)
      PROVE  /\ q[i] \in S /\ q[i] # j
             /\ Place(created, q[i]) \in Int /\ Place(created, j) \in Int
             /\ Place(created, q[i]) # Place(created, j)
  <2>1. q[i] \in S /\ q[i] # j
    BY <1>1 DEF IsList, Range
  <2>2. /\ Place(created, q[i]) \in 1..Len(created) /\ created[Place(created, q[i])] = q[i]
        /\ Place(created, j) \in 1..Len(created) /\ created[Place(created, j)] = j
    BY <2>1, PlaceIn
  <2> QED BY <2>1, <2>2
<1> SUFFICES ASSUME NEW k \in 1..Len(r), NEW l \in 1..Len(r), k < l
             PROVE  /\ ~(sub_jobs_started[r[l]] > 0)
                    /\ sub_jobs_started[r[k]] > 0 \/ Place(created, r[k]) < Place(created, r[l])
  BY DEF InOrder, r
<1>9. k \in 1..Len(q) + 1 /\ l \in 1..Len(q) + 1 /\ k \in Int /\ l \in Int /\ m \in Int
  BY <1>1, <1>6, <1>7
<1>10. \A a, b \in 1..Len(q) : a < b =>
         /\ ~(sub_jobs_started[q[b]] > 0)
         /\ sub_jobs_started[q[a]] > 0 \/ Place(created, q[a]) < Place(created, q[b])
  BY DEF InOrder
<1>11. CASE k # m + 1 /\ l # m + 1
  <2> DEFINE a == IF k < m + 1 THEN k ELSE k - 1
             b == IF l < m + 1 THEN l ELSE l - 1
  <2>1. a \in 1..Len(q) /\ b \in 1..Len(q) /\ a < b
    BY <1>1, <1>6, <1>9, <1>11
  <2>2. r[k] = q[a] /\ r[l] = q[b]
    BY <1>7, <1>9, <1>11
  <2> HIDE DEF a, b
  <2> QED BY <1>10, <2>1, <2>2
<1>12. CASE l = m + 1
  <2>1. r[l] = j /\ r[k] = q[k] /\ k \in 1..Len(q) /\ m \in 1..Len(q) /\ k <= m
    BY <1>1, <1>6, <1>7, <1>9, <1>12
  <2>2. m \in before
    BY <1>6, <2>1
  <2>3. sub_jobs_started[q[m]] > 0 \/ Place(created, q[m]) < Place(created, j)
    BY <1>4, <2>2
  <2>4. CASE k = m
    BY <2>1, <2>3, <2>4 DEF HasStarted
  <2>5. CASE k < m
    <3>1. ~(sub_jobs_started[q[m]] > 0) /\ (sub_jobs_started[q[k]] > 0 \/ Place(created, q[k]) < Place(created, q[m]))
      BY <1>10, <2>1, <2>5
    <3> QED BY <1>8, <2>1, <2>3, <3>1 DEF HasStarted
  <2> QED BY <1>9, <2>1, <2>4, <2>5
<1>13. CASE k = m + 1
  <2>1. r[k] = j /\ r[l] = q[l - 1] /\ l - 1 \in 1..Len(q) /\ m < l - 1
    BY <1>1, <1>6, <1>7, <1>9, <1>13
  <2>2. l - 1 \notin before
    BY <1>6, <1>9, <2>1
  <2>3. ~(sub_jobs_started[q[l - 1]] > 0) /\ ~(Place(created, q[l - 1]) < Place(created, j))
    BY <1>4, <2>1, <2>2
  <2> QED BY <1>8, <2>1, <2>3
<1> QED BY <1>11, <1>12, <1>13

------------------------------------------------------------------------------
(* The queues stay in order                                                  *)

\* A queue and the jobs on it.
LEMMA QueueLists ==
  ASSUME JobInv, NEW p \in Priority
  PROVE  /\ IsList(job_queue_gp[p], GpWaiting(p)) /\ IsList(job_queue_pp[p], PpWaiting(p))
         /\ IsList(created, Live) /\ GpWaiting(p) \subseteq Live /\ PpWaiting(p) \subseteq Live
         /\ \A x \in GpWaiting(p) : x \in Job /\ JobKind[x] = "gp" /\ QueueOf(x) = p /\ Waits(x)
         /\ \A x \in PpWaiting(p) : x \in Job /\ JobKind[x] # "gp" /\ QueueOf(x) = p /\ Waits(x)
BY DEF JobInv, QueuesMatch, Live, GpWaiting, PpWaiting, Waits

LEMMA HeadsFirst ==
  ASSUME JobInv
  PROVE  /\ physical_peek # NoJob => /\ job_queue_pp[QueueOf(physical_peek)] # <<>>
                                     /\ physical_peek = Head(job_queue_pp[QueueOf(physical_peek)])
         /\ virtual_peek # NoJob => /\ job_queue_pp[QueueOf(virtual_peek)] # <<>>
                                    /\ virtual_peek = Head(job_queue_pp[QueueOf(virtual_peek)])
         /\ depth.gp > 0 => /\ job_queue_gp[QueueOf(gp_peek)] # <<>>
                            /\ gp_peek = Head(job_queue_gp[QueueOf(gp_peek)])
<1>1. ASSUME NEW p \in Priority, NEW j, j \in Range(job_queue_pp[p]), j = Head(job_queue_pp[p])
      PROVE  job_queue_pp[QueueOf(j)] # <<>> /\ j = Head(job_queue_pp[QueueOf(j)])
  <2>1. QueueOf(j) = p /\ job_queue_pp[p] # <<>>
    BY <1>1, Heads DEF Range
  <2> QED BY <1>1, <2>1
<1>2. ASSUME physical_peek # NoJob
      PROVE  \E p \in Priority : physical_peek \in Range(job_queue_pp[p]) /\ physical_peek = Head(job_queue_pp[p])
  <2> DEFINE normal == {j \in Range(job_queue_pp.normal) : j = Head(job_queue_pp.normal) /\ Physical(j)}
             high   == {j \in Range(job_queue_pp.high) : j = Head(job_queue_pp.high) /\ Physical(j)}
             best   == IF Partial = {} /\ high # {} THEN high ELSE normal
  <2>1. physical_peek = IF best = {} THEN NoJob ELSE CHOOSE j \in best : TRUE
    BY DEF physical_peek
  <2>2. \A j \in normal \cup high : \E p \in Priority : j \in Range(job_queue_pp[p]) /\ j = Head(job_queue_pp[p])
    BY DEF Priority
  <2>3. best \subseteq normal \cup high
    OBVIOUS
  <2> HIDE DEF best
  <2> QED BY <1>2, <2>1, <2>2, <2>3
<1>3. ASSUME virtual_peek # NoJob
      PROVE  \E p \in Priority : virtual_peek \in Range(job_queue_pp[p]) /\ virtual_peek = Head(job_queue_pp[p])
  <2> DEFINE heads(q) == {j \in Range(q) : j = Head(q) /\ Virtual_(j)}
             high     == heads(job_queue_pp.high)
             normal   == heads(job_queue_pp.normal)
             best     == IF high # {} THEN high ELSE normal
  <2>1. virtual_peek = IF best = {} THEN NoJob ELSE CHOOSE j \in best : TRUE
    BY DEF virtual_peek
  <2>2. \A j \in normal \cup high : \E p \in Priority : j \in Range(job_queue_pp[p]) /\ j = Head(job_queue_pp[p])
    BY DEF Priority
  <2>3. best \subseteq normal \cup high
    OBVIOUS
  <2> HIDE DEF best
  <2> QED BY <1>3, <2>1, <2>2, <2>3
<1>4. ASSUME depth.gp > 0
      PROVE  job_queue_gp[QueueOf(gp_peek)] # <<>> /\ gp_peek = Head(job_queue_gp[QueueOf(gp_peek)])
  <2>1. \E p \in Priority : job_queue_gp[p] # <<>> /\ gp_peek = Head(job_queue_gp[p])
    <3>1. job_queue_gp.high # <<>> \/ job_queue_gp.normal # <<>>
      <4>1. AllGp = GpWaiting("high") \cup GpWaiting("normal")
        BY DEF AllGp, GpWaiting, QueueOf
      <4>2. AllGp # {}
        BY <1>4, FS_EmptySet DEF JobInv, DepthMatch
      <4> QED BY <4>1, <4>2, QueueLists, ListEnds DEF Priority
    <3> QED BY <3>1 DEF gp_peek, Priority
  <2>2. PICK p \in Priority : job_queue_gp[p] # <<>> /\ gp_peek = Head(job_queue_gp[p])
    BY <2>1
  <2>3. gp_peek \in GpWaiting(p)
    BY <2>2, QueueLists, ListEnds
  <2> QED BY <2>2, <2>3, QueueLists
<1> QED BY <1>1, <1>2, <1>3, <1>4

LEMMA StartOrdered ==
  ASSUME JobInv, QueuesOrdered, NEW j \in Job, Waits(j),
         IF JobKind[j] = "gp" THEN gp_get(j) /\ (job_queue_gp[QueueOf(j)] # <<>> => j = Head(job_queue_gp[QueueOf(j)]))
                              ELSE pp_get(j) /\ (job_queue_pp[QueueOf(j)] # <<>> => j = Head(job_queue_pp[QueueOf(j)])),
         created' = created
  PROVE  QueuesOrdered'
<1>1. sub_jobs_started \in [Job -> Nat] /\ IsQueues(job_queue_gp) /\ IsQueues(job_queue_pp)
  BY DEF JobInv, JobTypes
<1>2. sub_jobs_started' = [sub_jobs_started EXCEPT ![j] = @ + 1]
  BY DEF gp_get, pp_get
<1>3. sub_jobs_started'[j] > 0 /\ \A x \in Job \ {j} : sub_jobs_started[x] = sub_jobs_started'[x]
  BY <1>1, <1>2
<1>4. ASSUME NEW p \in Priority
      PROVE  /\ job_queue_gp'[p] \in {job_queue_gp[p], Without(job_queue_gp[p], j)}
             /\ job_queue_pp'[p] \in {job_queue_pp[p], Without(job_queue_pp[p], j)}
  <2>1. /\ job_queue_gp' \in {job_queue_gp, [job_queue_gp EXCEPT ![QueueOf(j)] = Without(@, j)]}
        /\ job_queue_pp' \in {job_queue_pp, [job_queue_pp EXCEPT ![QueueOf(j)] = Without(@, j)]}
    BY DEF gp_get, pp_get
  <2>2. p \in DOMAIN job_queue_gp /\ p \in DOMAIN job_queue_pp
    BY <1>1 DEF IsQueues, Priority
  <2> QED BY <2>1, <2>2
<1>5. ASSUME NEW q, NEW S, IsList(q, S), NEW p, S \subseteq Job, \A x \in S : QueueOf(x) = p,
             InOrder(q, created, sub_jobs_started), j \in S => (q # <<>> => j = Head(q))
      PROVE  InOrder(q, created, sub_jobs_started') /\ InOrder(Without(q, j), created, sub_jobs_started')
  <2>1. InOrder(q, created, sub_jobs_started')
    <3>1. CASE j \in S
      BY <1>3, <1>5, <3>1, OrderStarted
    <3>2. CASE j \notin S
      <4>1. \A x \in S : sub_jobs_started[x] = sub_jobs_started'[x]
        BY <1>3, <1>5, <3>2
      <4> QED BY <1>5, <4>1, OrderSame
    <3> QED BY <3>1, <3>2
  <2> QED BY <1>5, <2>1, OrderKept DEF Without
<1>6. ASSUME NEW p \in Priority
      PROVE  /\ InOrder(job_queue_gp'[p], created, sub_jobs_started')
             /\ InOrder(job_queue_pp'[p], created, sub_jobs_started')
  <2>1. InOrder(job_queue_gp[p], created, sub_jobs_started) /\ InOrder(job_queue_pp[p], created, sub_jobs_started)
    BY DEF QueuesOrdered
  <2>2. j \in GpWaiting(p) => (job_queue_gp[p] # <<>> => j = Head(job_queue_gp[p]))
    BY QueueLists
  <2>3. j \in PpWaiting(p) => (job_queue_pp[p] # <<>> => j = Head(job_queue_pp[p]))
    BY QueueLists
  <2>4. /\ InOrder(job_queue_gp[p], created, sub_jobs_started')
        /\ InOrder(Without(job_queue_gp[p], j), created, sub_jobs_started')
    BY <1>5, <2>1, <2>2, QueueLists
  <2>5. /\ InOrder(job_queue_pp[p], created, sub_jobs_started')
        /\ InOrder(Without(job_queue_pp[p], j), created, sub_jobs_started')
    BY <1>5, <2>1, <2>3, QueueLists
  <2> QED BY <1>4, <2>4, <2>5
<1> QED BY <1>6 DEF QueuesOrdered

\* The queues are left alone, as are the counters and the order of the jobs on them.
LEMMA OtherOrdered ==
  ASSUME JobInv, QueuesOrdered, UNCHANGED <<job_queue_gp, job_queue_pp>>,
         \A x \in Job : Waits(x) => sub_jobs_started'[x] = sub_jobs_started[x],
         \A x, y \in Job : Waits(x) /\ Waits(y) /\ Place(created, x) < Place(created, y)
                             => Place(created', x) < Place(created', y)
  PROVE  QueuesOrdered'
<1> SUFFICES ASSUME NEW p \in Priority
             PROVE  /\ InOrder(job_queue_gp[p], created', sub_jobs_started')
                    /\ InOrder(job_queue_pp[p], created', sub_jobs_started')
  BY DEF QueuesOrdered
<1>1. InOrder(job_queue_gp[p], created, sub_jobs_started) /\ InOrder(job_queue_pp[p], created, sub_jobs_started)
  BY DEF QueuesOrdered
<1>2. ASSUME NEW q, NEW S, IsList(q, S), InOrder(q, created, sub_jobs_started), \A x \in S : x \in Job /\ Waits(x)
      PROVE  InOrder(q, created', sub_jobs_started')
  <2>1. /\ \A x \in S : sub_jobs_started[x] = sub_jobs_started'[x]
        /\ \A x, y \in S : Place(created, x) < Place(created, y) => Place(created', x) < Place(created', y)
    BY <1>2
  <2> QED BY <1>2, <2>1, OrderSame
<1> QED BY <1>1, <1>2, QueueLists

LEMMA CreateOrdered == ASSUME JobInv, QueuesOrdered, NEW j \in Job, start_job(j) PROVE QueuesOrdered'
<1>1. /\ created' = Append(created, j) /\ job_phase[j] = "free"
      /\ UNCHANGED <<job_queue_gp, job_queue_pp, sub_jobs_started>>
  BY DEF start_job, queueVars
<1>2. IsList(created, Live) /\ j \in Job \ Live /\ \A x \in Job : Waits(x) => x \in Live
  BY <1>1 DEF JobInv, QueuesMatch, Live, Waits
<1>3. \A x \in Live : Place(created', x) = Place(created, x)
  BY <1>1, <1>2, PlaceAppend
<1> QED BY <1>1, <1>2, <1>3, OtherOrdered

LEMMA DeleteOrdered ==
  ASSUME JobInv, QueuesOrdered, NEW j \in Job, ~(job_phase[j] = "queued"), delete_job(j), UNCHANGED queueVars
  PROVE  QueuesOrdered'
<1>1. /\ created' = Without(created, j) /\ sub_jobs_started' = [sub_jobs_started EXCEPT ![j] = 0]
      /\ UNCHANGED <<job_queue_gp, job_queue_pp>> /\ sub_jobs_started \in [Job -> Nat]
  BY DEF delete_job, queueVars, JobInv, JobTypes
<1>2. IsList(created, Live) /\ \A x \in Job : Waits(x) => x \in Live \ {j}
  BY <1>1 DEF JobInv, QueuesMatch, Live, Waits
<1>3. \A x, y \in Live \ {j} : Place(created, x) < Place(created, y) => Place(created', x) < Place(created', y)
  BY <1>1, <1>2, PlaceWithout
<1> QED BY <1>1, <1>2, <1>3, OtherOrdered

LEMMA QueueOrdered ==
  ASSUME JobInv, QueuesOrdered, NEW j \in Job, Unqueued(j),
         IF JobKind[j] = "gp" THEN queue_gp_job(j) ELSE queue_pp_job(j)
  PROVE  QueuesOrdered'
<1>1. UNCHANGED <<created, sub_jobs_started>>
  BY DEF queue_gp_job, queue_pp_job
<1>2. IsQueues(job_queue_gp) /\ IsQueues(job_queue_pp) /\ ~HasStarted(j) /\ j \in Live /\ ~Waits(j)
  BY DEF JobInv, JobTypes, CountersMatch, HasStarted, Live, Waits, Unqueued
<1> SUFFICES ASSUME NEW p \in Priority
             PROVE  /\ InOrder(job_queue_gp'[p], created, sub_jobs_started)
                    /\ InOrder(job_queue_pp'[p], created, sub_jobs_started)
  BY <1>1 DEF QueuesOrdered
<1>3. InOrder(job_queue_gp[p], created, sub_jobs_started) /\ InOrder(job_queue_pp[p], created, sub_jobs_started)
  BY DEF QueuesOrdered
<1>4. /\ job_queue_gp'[p] \in {job_queue_gp[p], list_add(j, job_queue_gp[p])}
      /\ job_queue_pp'[p] \in {job_queue_pp[p], list_add(j, job_queue_pp[p])}
  <2>1. /\ job_queue_gp' \in {job_queue_gp, [job_queue_gp EXCEPT ![QueueOf(j)] = list_add(j, @)]}
        /\ job_queue_pp' \in {job_queue_pp, [job_queue_pp EXCEPT ![QueueOf(j)] = list_add(j, @)]}
    BY DEF queue_gp_job, queue_pp_job
  <2>2. p \in DOMAIN job_queue_gp /\ p \in DOMAIN job_queue_pp
    BY <1>2 DEF IsQueues, Priority
  <2> QED BY <2>1, <2>2
<1>5. ASSUME NEW q, NEW S, IsList(q, S), InOrder(q, created, sub_jobs_started), S \subseteq Live, \A x \in S : Waits(x)
      PROVE  InOrder(list_add(j, q), created, sub_jobs_started)
  <2>1. IsList(created, Live) /\ j \in Job \ S /\ S \cup {j} \subseteq Live
    BY <1>2, <1>5 DEF JobInv, QueuesMatch
  <2> QED BY <1>2, <1>5, <2>1, OrderAdded
<1> QED BY <1>3, <1>4, <1>5, QueueLists

LEMMA AbortOrdered == ASSUME JobInv, QueuesOrdered, NEW s \in Session, abort_session(s) PROVE QueuesOrdered'
<1>0. PICK G, P, K : K = {j \in Job : SessionOf[j] # s} /\ P = {j \in AllPp : SessionOf[j] = s} /\ AbortedTo(s, G, P, K)
  BY Aborted
<1>1. /\ \A p \in Priority : /\ job_queue_gp'[p] = Kept(job_queue_gp[p], K)
                             /\ job_queue_pp'[p] = Kept(job_queue_pp[p], K)
      /\ sub_jobs_started' = [j \in Job |-> IF j \in P THEN SubJobs[j] ELSE sub_jobs_started[j]]
      /\ UNCHANGED created
  BY <1>0 DEF AbortedTo
<1>2. \A x \in K : sub_jobs_started'[x] = sub_jobs_started[x]
  BY <1>0, <1>1
<1>3. ASSUME NEW q, NEW S, IsList(q, S), InOrder(q, created, sub_jobs_started)
      PROVE  InOrder(Kept(q, K), created, sub_jobs_started')
  <2>1. InOrder(Kept(q, K), created, sub_jobs_started) /\ IsList(Kept(q, K), S \cap K)
    BY <1>3, OrderKept, ListKept
  <2> QED BY <1>2, <2>1, OrderSame
<1> SUFFICES ASSUME NEW p \in Priority
             PROVE  /\ InOrder(job_queue_gp'[p], created, sub_jobs_started')
                    /\ InOrder(job_queue_pp'[p], created, sub_jobs_started')
  BY <1>1 DEF QueuesOrdered
<1>4. InOrder(job_queue_gp[p], created, sub_jobs_started) /\ InOrder(job_queue_pp[p], created, sub_jobs_started)
  BY DEF QueuesOrdered
<1> QED BY <1>1, <1>3, <1>4, QueueLists

\* An assignment leaves the jobs alone, or starts the first job of a queue.
StartsHead(j, g) ==
  /\ j \in Job /\ Waits(j) /\ g \in Group /\ exec_state[g] = "idle"
  /\ running' = [running EXCEPT ![g] = j]
  /\ IF JobKind[j] = "gp" THEN gp_get(j) /\ (job_queue_gp[QueueOf(j)] # <<>> => j = Head(job_queue_gp[QueueOf(j)]))
                          ELSE pp_get(j) /\ (job_queue_pp[QueueOf(j)] # <<>> => j = Head(job_queue_pp[QueueOf(j)]))

LEMMA AssignStarts ==
  ASSUME JobInv, AssignPhysical \/ AssignVirtual \/ AssignGp
  PROVE  /\ UNCHANGED <<job_phase, created, sub_jobs_completed, session_phase, schedule_due>>
         /\ \/ UNCHANGED <<queueVars, sub_jobs_started, running>>
            \/ \E j, g : StartsHead(j, g)
<1>1. UNCHANGED <<job_phase, created, sub_jobs_completed, session_phase, schedule_due>>
  BY DEF AssignPhysical, AssignVirtual, AssignGp
<1>2. ASSUME AssignPhysical PROVE \E j, g : StartsHead(j, g)
  <2>1. PICK j : j = physical_peek
    OBVIOUS
  <2>2. j \in Job /\ JobKind[j] # "gp" /\ Waits(j) /\ pp_get(j) /\ j = Head(job_queue_pp[QueueOf(j)])
    BY <1>2, <2>1, PhysicalPeek, HeadsFirst DEF AssignPhysical
  <2>3. PICK c \in OnList("idle") : running' = [running EXCEPT ![c] = j]
    BY <1>2, <2>1 DEF AssignPhysical
  <2>4. c \in Group /\ exec_state[c] = "idle"
    BY Groups DEF OnList
  <2>5. StartsHead(j, c)
    BY <2>2, <2>3, <2>4 DEF StartsHead
  <2> QED BY <2>5
<1>3. ASSUME VirtualIs("idle"), next_is_virtual, pp_get(virtual_peek),
             running' = [running EXCEPT ![Virtual] = virtual_peek]
      PROVE  \E j, g : StartsHead(j, g)
  <2>1. PICK j : j = virtual_peek
    OBVIOUS
  <2>2. /\ j \in Job /\ JobKind[j] # "gp" /\ Waits(j) /\ pp_get(j) /\ j = Head(job_queue_pp[QueueOf(j)])
        /\ running' = [running EXCEPT ![Virtual] = j]
    BY <1>3, <2>1, VirtualPeek, HeadsFirst DEF next_is_virtual
  <2>3. Virtual \in Group /\ exec_state[Virtual] = "idle"
    BY <1>3, Groups DEF VirtualIs
  <2>4. StartsHead(j, Virtual)
    BY <2>2, <2>3 DEF StartsHead
  <2> QED BY <2>4
<1>4. ASSUME exec_state[Gp] = "idle", depth.gp > 0, gp_get(gp_peek), running' = [running EXCEPT ![Gp] = gp_peek]
      PROVE  \E j, g : StartsHead(j, g)
  <2>1. PICK j : j = gp_peek
    OBVIOUS
  <2>2. /\ j \in Job /\ JobKind[j] = "gp" /\ Waits(j) /\ gp_get(j) /\ j = Head(job_queue_gp[QueueOf(j)])
        /\ running' = [running EXCEPT ![Gp] = j]
    BY <1>4, <2>1, GpPeek, HeadsFirst
  <2>3. StartsHead(j, Gp)
    BY <1>4, <2>2, Groups DEF StartsHead
  <2> QED BY <2>3
<1>5. AssignVirtual =>
        \/ UNCHANGED <<queueVars, sub_jobs_started, running>>
        \/ /\ VirtualIs("idle") /\ next_is_virtual /\ pp_get(virtual_peek)
           /\ running' = [running EXCEPT ![Virtual] = virtual_peek]
  BY DEF AssignVirtual
<1>6. AssignGp =>
        \/ UNCHANGED <<queueVars, sub_jobs_started, running>>
        \/ /\ exec_state[Gp] = "idle" /\ depth.gp > 0 /\ gp_get(gp_peek)
           /\ running' = [running EXCEPT ![Gp] = gp_peek]
  BY DEF AssignGp
<1> QED BY <1>1, <1>2, <1>3, <1>4, <1>5, <1>6

LEMMA UntouchedOrdered ==
  ASSUME QueuesOrdered, UNCHANGED <<created, job_queue_gp, job_queue_pp, sub_jobs_started>>
  PROVE  QueuesOrdered'
BY DEF QueuesOrdered

LEMMA JobStepOrdered == ASSUME JobInv, DeferredPp, QueuesOrdered, JobStep PROVE QueuesOrdered'
<1>1. ASSUME NEW j \in Job, start_job(j) PROVE QueuesOrdered'
  BY <1>1, CreateOrdered
<1>2. ASSUME NEW j \in Job, complete_job(j) PROVE QueuesOrdered'
  BY <1>2, DeleteOrdered DEF complete_job
<1>3. ASSUME NEW s \in Session, begin_close(s) \/ end_close(s) PROVE QueuesOrdered'
  BY <1>3, UntouchedOrdered DEF begin_close, end_close, jobVars, queueVars
<1>4. ASSUME NEW s \in Session, abort_session(s) PROVE QueuesOrdered'
  BY <1>4, AbortOrdered
<1>5. ASSUME NEW j \in Job, activate_gp_job(j) \/ activate_pp_job(j) \/ do_pp_job_queue(j) PROVE QueuesOrdered'
  <2>1. Unqueued(j)
    BY <1>5 DEF activate_gp_job, activate_pp_job, do_pp_job_queue, Unqueued
  <2>2. CASE fail_job(j)
    BY <2>1, <2>2, DeleteOrdered DEF fail_job, Unqueued
  <2>3. CASE IF JobKind[j] = "gp" THEN queue_gp_job(j) ELSE queue_pp_job(j)
    BY <2>1, <2>3, QueueOrdered
  <2>4. CASE UNCHANGED <<created, queueVars, sub_jobs_started>>
    BY <2>4, UntouchedOrdered DEF queueVars
  <2>5. \/ fail_job(j)
        \/ IF JobKind[j] = "gp" THEN queue_gp_job(j) ELSE queue_pp_job(j)
        \/ UNCHANGED <<created, queueVars, sub_jobs_started>>
    <3>1. activate_gp_job(j) => fail_job(j) \/ (JobKind[j] = "gp" /\ queue_gp_job(j))
      BY DEF activate_gp_job
    <3>2. activate_pp_job(j) => \/ fail_job(j) \/ (JobKind[j] # "gp" /\ queue_pp_job(j))
                                \/ UNCHANGED <<created, queueVars, sub_jobs_started>>
      BY DEF activate_pp_job
    <3>3. do_pp_job_queue(j) => fail_job(j) \/ (JobKind[j] # "gp" /\ queue_pp_job(j))
      BY DEF do_pp_job_queue, DeferredPp
    <3> QED BY <1>5, <3>1, <3>2, <3>3
  <2> QED BY <2>2, <2>3, <2>4, <2>5
<1> QED BY <1>1, <1>2, <1>3, <1>4, <1>5 DEF JobStep

LEMMA QueuesOrderedNext == ASSUME JobsInv, QueuesOrdered, Next PROVE QueuesOrdered'
<1>1. CASE UNCHANGED <<schedulerVars, running>>
  BY <1>1, UntouchedOrdered DEF schedulerVars, jobVars, queueVars
<1>2. CASE AssignPhysical \/ AssignVirtual \/ AssignGp
  <2>1. created' = created
    BY <1>2, AssignStarts DEF JobsInv
  <2>2. CASE UNCHANGED <<queueVars, sub_jobs_started, running>>
    BY <2>1, <2>2, UntouchedOrdered DEF queueVars
  <2>3. ASSUME NEW j, NEW g, StartsHead(j, g) PROVE QueuesOrdered'
    BY <2>1, <2>3, StartOrdered DEF StartsHead, JobsInv
  <2> QED BY <1>2, <2>2, <2>3, AssignStarts DEF JobsInv
<1>3. CASE ScheduleStep
  BY <1>1, <1>2, <1>3, JobsAside DEF ScheduleStep
<1>4. CASE ScheduleFromMask
  BY <1>4, UntouchedOrdered DEF ScheduleFromMask, jobVars, queueVars
<1>5. ASSUME NEW g, NEW rest, complete_group(g, rest) PROVE QueuesOrdered'
  BY <1>5, UntouchedOrdered DEF complete_group, queueVars
<1>6. ASSUME NEW s \in Session, AbortExecutor(s) \/ AbortGroup(s) PROVE QueuesOrdered'
  BY <1>5, <1>6, UntouchedOrdered DEF AbortExecutor, AbortGroup, jobVars, queueVars
<1>7. ASSUME NEW g \in Group, CompleteGroup(g) PROVE QueuesOrdered'
  BY <1>5, <1>7 DEF CompleteGroup
<1>8. CASE JobStep
  BY <1>8, JobStepOrdered DEF JobsInv
<1> QED BY <1>1, <1>3, <1>4, <1>6, <1>7, <1>8, JobsAside DEF Next

LEMMA QueuesOrderedInit == ASSUME Init PROVE QueuesOrdered
<1>1. /\ job_queue_gp.high = <<>> /\ job_queue_gp.normal = <<>>
      /\ job_queue_pp.high = <<>> /\ job_queue_pp.normal = <<>>
  BY DEF Init, SchedulerInit
<1>2. InOrder(<<>>, created, sub_jobs_started)
  BY DEF InOrder
<1> QED BY <1>1, <1>2 DEF QueuesOrdered, Priority

LEMMA QueuesOrderedAlways == Spec => []QueuesOrdered
<1>1. Init => QueuesOrdered
  BY QueuesOrderedInit
<1>2. JobsInv /\ QueuesOrdered /\ [Next]_vars => QueuesOrdered'
  BY QueuesOrderedNext, UntouchedOrdered DEF vars, schedulerVars, jobVars, queueVars
<1> QED BY <1>1, <1>2, JobsInvAlways, PTL DEF Spec

\* A queue is in the order in which its jobs were created, behind a first job that may be in
\* progress, although jobs are activated in any order and leave from any place
\* (mali_pp_job_list_add and the lists of mali_scheduler.c), with any number of jobs.
THEOREM QueuesInOrderCorrect == Spec => []QueuesInOrder
<1>1. JobsInv /\ QueuesOrdered => QueuesInOrder
  <2> SUFFICES ASSUME JobsInv, QueuesOrdered,
                      NEW q \in {job_queue_gp.high, job_queue_gp.normal, job_queue_pp.high, job_queue_pp.normal},
                      NEW k \in 2..Len(q)
               PROVE  ~HasStarted(q[k]) /\ (HasStarted(q[k - 1]) \/ CreatedBefore(q[k - 1], q[k]))
    BY DEF QueuesInOrder
  <2>1. InOrder(q, created, sub_jobs_started) /\ Len(q) \in Nat
    BY DEF QueuesOrdered, Priority, JobsInv, JobInv, QueuesMatch, IsList
  <2>2. 1 \in 1..Len(q) /\ k \in 1..Len(q) /\ 1 < k
    BY <2>1
  <2>3. ~HasStarted(q[k])
    BY <2>1, <2>2 DEF InOrder, HasStarted
  <2>4. HasStarted(q[k - 1]) \/ CreatedBefore(q[k - 1], q[k])
    <3>1. k - 1 \in 1..Len(q) /\ k - 1 < k
      BY <2>1, <2>2
    <3>2. HasStarted(q[k - 1]) \/ Place(created, q[k - 1]) < Place(created, q[k])
      BY <2>1, <2>2, <3>1 DEF InOrder, HasStarted
    <3> QED BY <3>2, CreatedPlaces
  <2> QED BY <2>3, <2>4
<1> QED BY <1>1, JobsInvAlways, QueuesOrderedAlways, PTL

------------------------------------------------------------------------------
(* The physical jobs the executor counts before it finds groups for them.    *)
(* While it holds the lock of the queues, it has at most as many groups to   *)
(* give a job to as sub jobs at the front of the queues, although jobs are   *)
(* started and leave the queues meanwhile.                                   *)

\* physical jobs at the front of a queue
LeadOf(q) == {q[i] : i \in {k \in 1..Len(q) : \A l \in 1..k : JobKind[q[l]] = "physical"}}

\* what physical_peek goes through
PhysLead ==
  Partial \cup LeadOf(job_queue_pp.high)
    \cup (IF LeadOf(job_queue_pp.high) = Range(job_queue_pp.high) THEN LeadOf(job_queue_pp.normal) ELSE {})

EnoughJobs ==
  /\ local.needed \in Nat /\ local.process \in Nat
  /\ local.needed + local.process <= UnstartedOf(PhysLead)
  /\ local.process <= Cardinality(OnList("idle"))

\* the holder of the lock comes to the physical jobs once
PhysicalOnce == \A k \in 2..Len(exec) : exec[k] # "physical"

PhysInv == PhysicalOnce /\ (At("physical") => EnoughJobs)

LEMMA LeadHead ==
  ASSUME NEW q, NEW S, IsList(q, S)
  PROVE  /\ LeadOf(q) \subseteq S
         /\ LeadOf(q) # {} => q # <<>> /\ JobKind[Head(q)] = "physical"
         /\ q # <<>> /\ JobKind[Head(q)] = "physical" => Head(q) \in LeadOf(q)
<1>1. q \in Seq(Job) /\ Len(q) \in Nat /\ DOMAIN q = 1..Len(q) /\ Range(q) = S
  BY DEF IsList
<1>2. q # <<>> => Head(q) = q[1] /\ 1 \in 1..Len(q)
  BY <1>1
<1>3. LeadOf(q) \subseteq S
  BY <1>1 DEF LeadOf, Range
<1>4. ASSUME NEW x \in LeadOf(q) PROVE q # <<>> /\ JobKind[Head(q)] = "physical"
  <2>1. PICK k \in 1..Len(q) : \A l \in 1..k : JobKind[q[l]] = "physical"
    BY <1>4 DEF LeadOf
  <2>2. q # <<>> /\ 1 \in 1..k
    BY <1>1, <2>1
  <2> QED BY <1>2, <2>1, <2>2
<1>5. ASSUME q # <<>>, JobKind[Head(q)] = "physical" PROVE Head(q) \in LeadOf(q)
  <2>1. \A l \in 1..1 : JobKind[q[l]] = "physical"
    BY <1>2, <1>5
  <2> QED BY <1>2, <1>5, <2>1 DEF LeadOf
<1> QED BY <1>3, <1>4, <1>5

LEMMA LeadKept ==
  ASSUME NEW q, NEW S, IsList(q, S), NEW K
  PROVE  /\ LeadOf(q) \cap K \subseteq LeadOf(Kept(q, K))
         /\ LeadOf(q) = Range(q) => LeadOf(Kept(q, K)) = Range(Kept(q, K))
<1> DEFINE r == Kept(q, K)
<1>1. r \in Seq(Job) /\ KeptOf(r, q, Len(q), K) /\ IsList(r, S \cap K)
  BY KeptFacts, ListKept DEF IsList
<1> HIDE DEF r
<1>2. PICK h \in [1..Len(r) -> 1..Len(q)] :
        /\ \A i, k \in 1..Len(r) : i < k => h[i] < h[k]
        /\ \A i \in 1..Len(r) : r[i] = q[h[i]]
        /\ \A k \in 1..Len(q) : q[k] \in K <=> \E i \in 1..Len(r) : h[i] = k
  BY <1>1 DEF KeptOf
<1>3. Len(r) \in Nat /\ Len(q) \in Nat /\ Range(q) = S /\ Range(r) = S \cap K
  BY <1>1 DEF IsList
<1>4. ASSUME NEW x \in LeadOf(q) \cap K PROVE x \in LeadOf(r)
  <2>1. PICK k \in 1..Len(q) : q[k] = x /\ \A l \in 1..k : JobKind[q[l]] = "physical"
    BY <1>4 DEF LeadOf
  <2>2. PICK i \in 1..Len(r) : h[i] = k
    BY <1>2, <1>4, <2>1
  <2>3. ASSUME NEW l \in 1..i PROVE JobKind[r[l]] = "physical"
    <3>1. l \in 1..Len(r) /\ h[l] \in 1..Len(q) /\ r[l] = q[h[l]]
      BY <1>2, <1>3, <2>2, <2>3
    <3>2. l = i \/ h[l] < h[i]
      BY <1>2, <1>3, <2>3, <3>1
    <3>3. h[l] \in 1..k
      BY <2>2, <3>1, <3>2
    <3> QED BY <2>1, <3>1, <3>3
  <2> QED BY <1>2, <2>1, <2>2, <2>3 DEF LeadOf
<1>5. LeadOf(r) \subseteq S \cap K
  BY <1>1, LeadHead
<1>6. ASSUME LeadOf(q) = Range(q) PROVE LeadOf(r) = Range(r)
  BY <1>3, <1>4, <1>5, <1>6
<1> QED BY <1>4, <1>6 DEF r

\* A job on a queue that has started is physical.
LEMMA StartedPhysical ==
  ASSUME JobInv, NEW j \in Job, Waits(j), HasStarted(j)
  PROVE  JobKind[j] = "physical"
<1>1. SubJobs[j] \in Nat /\ sub_jobs_started[j] \in Nat /\ (JobKind[j] # "physical" => SubJobs[j] = 1)
  BY SchedulerAssumption DEF JobInv, JobTypes
<1> QED BY <1>1 DEF Waits, Unstarted, HasStarted

LEMMA PpQueues ==
  ASSUME JobInv
  PROVE  /\ IsList(job_queue_pp.high, PpWaiting("high")) /\ IsList(job_queue_pp.normal, PpWaiting("normal"))
         /\ Partial \subseteq PpWaiting("normal")
         /\ LeadOf(job_queue_pp.high) \subseteq PpWaiting("high")
         /\ LeadOf(job_queue_pp.normal) \subseteq PpWaiting("normal")
         /\ PhysLead \subseteq AllPp
<1>1. IsList(job_queue_pp.high, PpWaiting("high")) /\ IsList(job_queue_pp.normal, PpWaiting("normal"))
  BY QueueLists DEF Priority
<1>2. Partial \subseteq PpWaiting("normal")
  BY <1>1 DEF Partial, IsList
<1>3. PpWaiting("high") \cup PpWaiting("normal") \subseteq AllPp
  BY DEF PpWaiting, AllPp
<1>4. /\ LeadOf(job_queue_pp.high) \subseteq PpWaiting("high")
      /\ LeadOf(job_queue_pp.normal) \subseteq PpWaiting("normal")
  BY <1>1, LeadHead
<1> QED BY <1>1, <1>2, <1>3, <1>4 DEF PhysLead

LEMMA HeadsInLead == ASSUME JobInv PROVE physical_heads \subseteq PhysLead
<1> DEFINE high   == Leading(job_queue_pp.high, Physical)
           normal == Leading(job_queue_pp.normal, LAMBDA j : Physical(j) /\ ~HasStarted(j))
<1>1. high = LeadOf(job_queue_pp.high)
  <2>1. DOMAIN job_queue_pp.high = 1..Len(job_queue_pp.high)
    BY PpQueues DEF IsList
  <2> QED BY <2>1 DEF Leading, LeadOf, Physical
<1>2. normal \subseteq LeadOf(job_queue_pp.normal)
  <2>1. DOMAIN job_queue_pp.normal = 1..Len(job_queue_pp.normal)
    BY PpQueues DEF IsList
  <2> QED BY <2>1 DEF Leading, LeadOf, Physical
<1>3. physical_heads = Partial \cup high \cup (IF high = Range(job_queue_pp.high) THEN normal ELSE {})
  BY DEF physical_heads
<1> HIDE DEF high, normal
<1> QED BY <1>1, <1>2, <1>3 DEF PhysLead

\* While there are such jobs, the next one to start is one of them.
LEMMA PeekInLead == ASSUME JobInv, PhysLead # {} PROVE physical_peek # NoJob /\ physical_peek \in PhysLead
<1> DEFINE normal == {j \in Range(job_queue_pp.normal) : j = Head(job_queue_pp.normal) /\ Physical(j)}
           high   == {j \in Range(job_queue_pp.high) : j = Head(job_queue_pp.high) /\ Physical(j)}
           best   == IF Partial = {} /\ high # {} THEN high ELSE normal
<1>1. physical_peek = IF best = {} THEN NoJob ELSE CHOOSE j \in best : TRUE
  BY DEF physical_peek
<1>2. Partial # {} => normal = Partial
  <2>1. \A j \in Partial : Physical(j)
    BY PpQueues, StartedPhysical DEF Partial, PpWaiting, Physical
  <2> QED BY <2>1 DEF Partial
<1>3. high \subseteq LeadOf(job_queue_pp.high) /\ (LeadOf(job_queue_pp.high) # {} => high # {})
  <2>1. IsList(job_queue_pp.high, PpWaiting("high"))
    BY PpQueues
  <2>2. Range(job_queue_pp.high) = PpWaiting("high") /\ (job_queue_pp.high # <<>> => Head(job_queue_pp.high) \in PpWaiting("high"))
    BY <2>1, ListEnds DEF IsList
  <2>3. high # {} => job_queue_pp.high # <<>>
    BY <2>1, <2>2, ListEnds
  <2> QED BY <2>1, <2>2, <2>3, LeadHead DEF Physical
<1>4. normal \subseteq LeadOf(job_queue_pp.normal) /\ (LeadOf(job_queue_pp.normal) # {} => normal # {})
  <2>1. IsList(job_queue_pp.normal, PpWaiting("normal"))
    BY PpQueues
  <2>2. Range(job_queue_pp.normal) = PpWaiting("normal") /\ (job_queue_pp.normal # <<>> => Head(job_queue_pp.normal) \in PpWaiting("normal"))
    BY <2>1, ListEnds DEF IsList
  <2>3. normal # {} => job_queue_pp.normal # <<>>
    BY <2>1, <2>2, ListEnds
  <2> QED BY <2>1, <2>2, <2>3, LeadHead DEF Physical
<1> HIDE DEF normal, high
<1>5. best # {} /\ best \subseteq PhysLead
  BY <1>2, <1>3, <1>4 DEF PhysLead
<1>6. PhysLead \subseteq Job
  BY PpQueues DEF AllPp
<1> HIDE DEF best
<1> QED BY <1>1, <1>5, <1>6, SchedulerAssumption

LEMMA LeadSum ==
  ASSUME JobInv, NEW S \in SUBSET AllPp
  PROVE  /\ UnstartedOf(S) \in Nat
         /\ S = {} => UnstartedOf(S) = 0
         /\ \A T \in SUBSET S : UnstartedOf(T) <= UnstartedOf(S)
         /\ \A x \in S : UnstartedOf(S) = Unstarted(x) + UnstartedOf(S \ {x}) /\ Unstarted(x) \in Nat \ {0}
<1> DEFINE f == [j \in Job |-> Unstarted(j)]
<1>1. IsFiniteSet(AllPp) /\ \A x \in AllPp : f[x] = Unstarted(x) /\ f[x] \in Nat /\ f[x] \in Nat \ {0}
  BY AllPpFinite DEF JobInv, AllPp
<1>2. IsFiniteSet(S) /\ \A x \in S : f[x] = Unstarted(x) /\ f[x] \in Nat /\ f[x] \in Int /\ f[x] \in Nat \ {0}
  BY <1>1, FS_Subset
<1> HIDE DEF f
<1>3. SumFunctionOnSet(f, S) \in Nat
  BY <1>2, SumNat
<1>4. S = {} => SumFunctionOnSet(f, S) = 0
  BY <1>2, SumRecursion
<1>5. \A T \in SUBSET S : SumFunctionOnSet(f, T) <= SumFunctionOnSet(f, S)
  BY <1>2, SumPart
<1>6. \A x \in S : SumFunctionOnSet(f, S) = f[x] + SumFunctionOnSet(f, S \ {x})
  BY <1>2, SumPick
<1>7. \A T : UnstartedOf(T) = SumFunctionOnSet(f, T)
  BY DEF UnstartedOf, f
<1> QED BY <1>2, <1>3, <1>4, <1>5, <1>6, <1>7

\* The sub jobs of S, when those of one job become one less and the others stay.
LEMMA SumStarted ==
  ASSUME JobInv, NEW S \in SUBSET AllPp, NEW j \in S, NEW T \in SUBSET AllPp,
         S \ {j} \subseteq T, Unstarted(j)' = Unstarted(j) - 1, Unstarted(j) = 1 \/ j \in T,
         \A x \in Job \ {j} : Unstarted(x)' = Unstarted(x)
  PROVE  UnstartedOf(T)' >= UnstartedOf(S) - 1 /\ UnstartedOf(T)' \in Nat
<1> DEFINE f == [x \in Job |-> Unstarted(x)]
           g == [x \in Job |-> Unstarted(x)']
           R == S \ {j}
<1>1. /\ IsFiniteSet(AllPp) /\ \A x \in AllPp : x \in Job /\ f[x] = Unstarted(x) /\ f[x] \in Nat \ {0}
  BY AllPpFinite DEF JobInv, AllPp
<1>2. \A x \in AllPp : g[x] = (IF x = j THEN f[x] - 1 ELSE f[x]) /\ g[x] \in Nat /\ f[x] \in Nat
  BY <1>1
<1>3. Unstarted(j) = f[j] /\ j \in AllPp
  BY <1>1
<1>4. UnstartedOf(S) = SumFunctionOnSet(f, S) /\ UnstartedOf(T)' = SumFunctionOnSet(g, T)
  BY DEF UnstartedOf
<1> HIDE DEF f, g
<1>5. IsFiniteSet(S) /\ IsFiniteSet(T) /\ IsFiniteSet(R)
  BY <1>1, FS_Subset
<1>6. SumFunctionOnSet(f, S) = f[j] + SumFunctionOnSet(f, R)
  BY <1>2, <1>5, SumPick
<1>7. SumFunctionOnSet(f, R) = SumFunctionOnSet(g, R)
  BY <1>2, <1>5, SumSame
<1>8. SumFunctionOnSet(g, T) \in Nat /\ SumFunctionOnSet(g, R) \in Nat
  BY <1>2, <1>5, SumNat
<1>9. CASE j \in T
  <2>1. SumFunctionOnSet(g, R) <= SumFunctionOnSet(g, T \ {j})
    <3>1. IsFiniteSet(T \ {j}) /\ R \in SUBSET (T \ {j}) /\ \A x \in T \ {j} : g[x] \in Nat
      BY <1>2, <1>5, FS_Subset
    <3> QED BY <3>1, SumPart
  <2>2. SumFunctionOnSet(g, T) = g[j] + SumFunctionOnSet(g, T \ {j})
    BY <1>2, <1>5, <1>9, SumPick
  <2>3. SumFunctionOnSet(g, T \ {j}) \in Nat
    BY <1>2, <1>5, FS_Subset, SumNat
  <2>4. g[j] = f[j] - 1 /\ f[j] \in Nat
    BY <1>2, <1>3
  <2> QED BY <1>4, <1>6, <1>7, <1>8, <2>1, <2>2, <2>3, <2>4
<1>10. CASE j \notin T
  <2>1. R \in SUBSET T /\ f[j] = 1
    BY <1>3, <1>10
  <2>2. SumFunctionOnSet(g, R) <= SumFunctionOnSet(g, T)
    BY <1>2, <1>5, <2>1, SumPart
  <2> QED BY <1>4, <1>6, <1>7, <1>8, <2>1, <2>2
<1> QED BY <1>9, <1>10

\* A step that leaves the PP queues, their counters and the groups alone.
LEMMA EnoughSame ==
  ASSUME JobInv, EnoughJobs, UNCHANGED <<job_queue_pp, local, exec_state>>,
         \A x \in Job : Waits(x) => sub_jobs_started'[x] = sub_jobs_started[x]
  PROVE  EnoughJobs'
<1>1. \A x \in AllPp : sub_jobs_started'[x] = sub_jobs_started[x] /\ x \in Job
  BY DEF AllPp
<1>2. Partial' = Partial
  <2>1. \A x \in Range(job_queue_pp.normal) : x \in AllPp
    BY PpQueues DEF IsList, PpWaiting, AllPp
  <2> QED BY <1>1, <2>1 DEF Partial, HasStarted
<1>3. PhysLead' = PhysLead
  BY <1>2 DEF PhysLead
<1>4. UnstartedOf(PhysLead)' = UnstartedOf(PhysLead)
  <2> DEFINE f == [x \in Job |-> Unstarted(x)]
             g == [x \in Job |-> Unstarted(x)']
             S == PhysLead
  <2>1. IsFiniteSet(S) /\ \A x \in S : f[x] = g[x] /\ f[x] \in Int
    <3>1. IsFiniteSet(AllPp) /\ \A x \in AllPp : x \in Job /\ f[x] \in Int /\ f[x] = g[x]
      BY <1>1, AllPpFinite DEF JobInv, AllPp, Unstarted
    <3> QED BY <3>1, PpQueues, FS_Subset
  <2>2. UnstartedOf(PhysLead)' = SumFunctionOnSet(g, S) /\ UnstartedOf(PhysLead) = SumFunctionOnSet(f, S)
    BY <1>3 DEF UnstartedOf
  <2> HIDE DEF f, g, S
  <2> QED BY <2>1, <2>2, SumSame
<1>5. OnList("idle")' = OnList("idle")
  BY DEF OnList
<1> QED BY <1>4, <1>5 DEF EnoughJobs

\* The start of a physical job takes one sub job from those at the front.
LEMMA LeadStarted ==
  ASSUME JobInv, PhysLead # {}, pp_get(physical_peek)
  PROVE  UnstartedOf(PhysLead)' >= UnstartedOf(PhysLead) - 1 /\ UnstartedOf(PhysLead)' \in Nat
<1>1. PICK j : j = physical_peek
  OBVIOUS
<1>2. j \in Job /\ JobKind[j] = "physical" /\ Waits(j) /\ pp_get(j) /\ j \in PhysLead
  BY <1>1, PeekInLead, PhysicalPeek
<1>3. sub_jobs_started \in [Job -> Nat] /\ IsQueues(job_queue_pp) /\ SubJobs[j] \in Nat
  BY <1>2, SchedulerAssumption DEF JobInv, JobTypes
<1>4. sub_jobs_started' = [sub_jobs_started EXCEPT ![j] = @ + 1]
  BY <1>2 DEF pp_get
<1>5. Unstarted(j)' = Unstarted(j) - 1 /\ \A x \in Job \ {j} : Unstarted(x)' = Unstarted(x)
  BY <1>2, <1>3, <1>4 DEF Unstarted
<1>6. Unstarted(j) # 1 => job_queue_pp' = job_queue_pp
  BY <1>2 DEF pp_get, last_sub_job
<1>7. ASSUME NEW p \in Priority
      PROVE  job_queue_pp'[p] \in {job_queue_pp[p], Kept(job_queue_pp[p], Job \ {j})}
  <2>1. job_queue_pp' \in {job_queue_pp, [job_queue_pp EXCEPT ![QueueOf(j)] = Without(@, j)]}
    BY <1>2 DEF pp_get
  <2>2. p \in DOMAIN job_queue_pp
    BY <1>3 DEF IsQueues, Priority
  <2> QED BY <2>1, <2>2 DEF Without
<1>8. ASSUME NEW q, NEW S, IsList(q, S), NEW r \in {q, Kept(q, Job \ {j})}
      PROVE  /\ LeadOf(q) \ {j} \subseteq LeadOf(r) /\ LeadOf(r) \subseteq S
             /\ LeadOf(q) = Range(q) => LeadOf(r) = Range(r)
  <2>1. LeadOf(q) \subseteq S /\ S \subseteq Job
    BY <1>8, LeadHead DEF IsList, Range
  <2>2. IsList(Kept(q, Job \ {j}), S \cap (Job \ {j}))
    BY <1>8, ListKept
  <2>3. LeadOf(Kept(q, Job \ {j})) \subseteq S
    BY <2>2, LeadHead
  <2>4. LeadOf(q) \cap (Job \ {j}) \subseteq LeadOf(Kept(q, Job \ {j}))
    BY <1>8, LeadKept
  <2>5. LeadOf(q) = Range(q) => LeadOf(Kept(q, Job \ {j})) = Range(Kept(q, Job \ {j}))
    BY <1>8, LeadKept
  <2> QED BY <1>8, <2>1, <2>3, <2>4, <2>5
<1>9. /\ LeadOf(job_queue_pp.high) \ {j} \subseteq LeadOf(job_queue_pp'.high)
      /\ LeadOf(job_queue_pp.normal) \ {j} \subseteq LeadOf(job_queue_pp'.normal)
      /\ LeadOf(job_queue_pp'.high) \subseteq PpWaiting("high")
      /\ LeadOf(job_queue_pp'.normal) \subseteq PpWaiting("normal")
      /\ LeadOf(job_queue_pp.high) = Range(job_queue_pp.high)
           => LeadOf(job_queue_pp'.high) = Range(job_queue_pp'.high)
  BY <1>7, <1>8, PpQueues DEF Priority
<1>10. Partial \ {j} = {}
  <2>1. Partial # {} => physical_peek \in Partial
    <3> DEFINE normal == {i \in Range(job_queue_pp.normal) : i = Head(job_queue_pp.normal) /\ Physical(i)}
               high   == {i \in Range(job_queue_pp.high) : i = Head(job_queue_pp.high) /\ Physical(i)}
               best   == IF Partial = {} /\ high # {} THEN high ELSE normal
    <3>1. physical_peek = IF best = {} THEN NoJob ELSE CHOOSE i \in best : TRUE
      BY DEF physical_peek
    <3>2. Partial # {} => normal = Partial
      <4>1. \A i \in Partial : Physical(i)
        BY PpQueues, StartedPhysical DEF Partial, PpWaiting, Physical
      <4> QED BY <4>1 DEF Partial
    <3>3. Partial # {} => best = Partial
      BY <3>2
    <3> HIDE DEF best
    <3> QED BY <3>1, <3>3
  <2> QED BY <1>1, <2>1 DEF Partial
<1>11. Partial' \subseteq PpWaiting("normal")
  <2>1. Range(job_queue_pp'.normal) \subseteq PpWaiting("normal")
    <3>1. Range(Kept(job_queue_pp.normal, Job \ {j})) \subseteq PpWaiting("normal") /\ Range(job_queue_pp.normal) = PpWaiting("normal")
      BY PpQueues, ListKept DEF IsList
    <3> QED BY <1>7, <3>1 DEF Priority
  <2> QED BY <2>1 DEF Partial
<1>12. PhysLead' \subseteq AllPp
  BY <1>9, <1>11 DEF PhysLead, AllPp, PpWaiting
<1>13. PhysLead \ {j} \subseteq PhysLead'
  BY <1>9, <1>10 DEF PhysLead
<1>14. Unstarted(j) = 1 \/ j \in PhysLead'
  <2> SUFFICES ASSUME job_queue_pp' = job_queue_pp PROVE j \in PhysLead'
    BY <1>6
  <2>1. j \in Partial => j \in Partial'
    BY <1>2, <1>3, <1>4 DEF Partial, HasStarted
  <2> QED BY <1>2, <2>1 DEF PhysLead
<1>15. PICK T : T = PhysLead'
  OBVIOUS
<1>16. UnstartedOf(PhysLead)' = UnstartedOf(T)'
  BY <1>15 DEF UnstartedOf
<1>17. UnstartedOf(T)' >= UnstartedOf(PhysLead) - 1 /\ UnstartedOf(T)' \in Nat
  <2>1. PhysLead \in SUBSET AllPp /\ T \in SUBSET AllPp
    BY <1>12, <1>15, PpQueues
  <2> QED BY <1>2, <1>5, <1>13, <1>14, <1>15, <2>1, SumStarted
<1> QED BY <1>16, <1>17

NoPhysical(s) == \A k \in 1..Len(s) : s[k] # "physical"

LEMMA NotPhysical == ASSUME exec' \in Seq(Operation), NoPhysical(exec') PROVE PhysInv'
<1>1. ASSUME At("physical")' PROVE FALSE
  <2>1. 1 \in 1..Len(exec') /\ exec'[1] = "physical"
    BY <1>1 DEF At
  <2> QED BY <2>1 DEF NoPhysical
<1>2. PhysicalOnce'
  BY DEF PhysicalOnce, NoPhysical
<1> QED BY <1>1, <1>2 DEF PhysInv

LEMMA PhysicalPassed ==
  ASSUME ExecInv, PhysicalOnce, exec # <<>>
  PROVE  Tail(exec) \in Seq(Operation) /\ NoPhysical(Tail(exec))
<1>1. exec \in Seq(Operation)
  BY DEF ExecInv, LocalTypes
<1>2. Tail(exec) \in Seq(Operation) /\ \A k \in 1..Len(Tail(exec)) : Tail(exec)[k] = exec[k + 1] /\ k + 1 \in 2..Len(exec)
  BY <1>1
<1> QED BY <1>2 DEF PhysicalOnce, NoPhysical

\* A step that leaves the PP jobs alone and may find a group for one more of those needed.
LEMMA EnoughMoves ==
  ASSUME EnoughJobs, UNCHANGED <<job_queue_pp, sub_jobs_started>>, UnstartedOf(PhysLead) \in Nat,
         local'.needed \in Nat, local'.process \in Nat,
         local'.needed + local'.process <= local.needed + local.process,
         local'.process <= Cardinality(OnList("idle")')
  PROVE  EnoughJobs'
<1>1. UnstartedOf(PhysLead)' = UnstartedOf(PhysLead)
  BY DEF UnstartedOf, PhysLead, Partial, HasStarted, Unstarted
<1>2. Cardinality(OnList("idle"))' = Cardinality(OnList("idle")')
  OBVIOUS
<1> QED BY <1>1, <1>2 DEF EnoughJobs

LEMMA LeadNat == ASSUME JobInv PROVE UnstartedOf(PhysLead) \in Nat /\ (UnstartedOf(PhysLead) > 0 => PhysLead # {})
<1>1. PhysLead \in SUBSET AllPp
  BY PpQueues
<1> QED BY <1>1, LeadSum

LEMMA IdleGroups ==
  ASSUME ExecInv
  PROVE  /\ IsFiniteSet(OnList("idle")) /\ Cardinality(OnList("idle")) \in Nat
         /\ \A c : c \notin OnList("idle") => Cardinality(OnList("idle") \cup {c}) = Cardinality(OnList("idle")) + 1
         /\ \A c \in OnList("idle") : Cardinality(OnList("idle") \ {c}) = Cardinality(OnList("idle")) - 1
<1>1. IsFiniteSet(OnList("idle"))
  BY PowerAssumption, FS_Subset DEF OnList
<1> QED BY <1>1, FS_CardinalityType, FS_AddElement, FS_RemoveElement

LEMMA PhysicalConcat ==
  ASSUME NEW s \in Seq(Operation), NEW t \in Seq(Operation), NoPhysical(t),
         \A k \in 2..Len(s) : s[k] # "physical"
  PROVE  /\ \A k \in 2..Len(s \o t) : (s \o t)[k] # "physical"
         /\ s \o t \in Seq(Operation)
         /\ NoPhysical(s) => NoPhysical(s \o t)
<1>1. /\ s \o t \in Seq(Operation)
      /\ Len(s \o t) = Len(s) + Len(t)
      /\ \A k \in 1..Len(s) + Len(t) : (s \o t)[k] = IF k <= Len(s) THEN s[k] ELSE t[k - Len(s)]
  BY ConcatProperties
<1>2. Len(s) \in Nat /\ Len(t) \in Nat
  OBVIOUS
<1>3. ASSUME NEW k \in 1..Len(s) + Len(t)
      PROVE  \/ k \in 1..Len(s) /\ (s \o t)[k] = s[k]
             \/ k - Len(s) \in 1..Len(t) /\ (s \o t)[k] = t[k - Len(s)]
  BY <1>1, <1>2
<1> QED BY <1>1, <1>2, <1>3 DEF NoPhysical

LEMMA ScheduleEnough == ASSUME ExecInv, JobInv, PhysicalOnce, Schedule PROVE PhysInv'
<1>1. exec # <<>> /\ exec \in Seq(Operation)
  BY DEF Schedule, At, ExecInv, LocalTypes
<1>2. Tail(exec) \in Seq(Operation) /\ NoPhysical(Tail(exec))
  BY <1>1, PhysicalPassed
<1>3. CASE exec' = Tail(exec)
  BY <1>2, <1>3, NotPhysical
<1>4. ASSUME NEW count, NEW process, NEW wake,
             count = physical_head_count, process = Min({count, Cardinality(OnList("idle"))}),
             local' = [needed |-> count - process, process |-> process,
                           trigger |-> wake, todo |-> OnList("inactive")],
             exec' = Stages \o Tail(exec)
      PROVE  PhysInv'
  <2>1. PhysicalOnce'
    <3>1. Stages \in Seq(Operation) /\ \A k \in 2..Len(Stages) : Stages[k] # "physical"
      BY Programs DEF Stages
    <3>2. \A k \in 2..Len(Stages \o Tail(exec)) : (Stages \o Tail(exec))[k] # "physical"
      BY <1>2, <3>1, PhysicalConcat
    <3> QED BY <1>4, <3>2 DEF PhysicalOnce
  <2>2. UNCHANGED schedulerVars
    BY DEF Schedule
  <2>3. OnList("idle")' = OnList("idle")
    <3>1. \A c \in PpCore : exec_state'[c] = exec_state[c]
      <4>1. exec_state' = exec_state \/ exec_state' = [exec_state EXCEPT ![Gp] = "idle"]
        BY DEF Schedule
      <4> QED BY <4>1, Groups DEF ExecInv, ListTypes
    <3> QED BY <3>1 DEF OnList
  <2>4. UnstartedOf(PhysLead)' = UnstartedOf(PhysLead) /\ UnstartedOf(PhysLead) \in Nat
    BY <2>2, LeadNat DEF UnstartedOf, PhysLead, Partial, HasStarted, Unstarted, schedulerVars, queueVars, jobVars
  <2>5. count \in Nat /\ count <= UnstartedOf(PhysLead)
    <3>1. PhysLead \in SUBSET AllPp /\ physical_heads \in SUBSET PhysLead
      BY PpQueues, HeadsInLead
    <3>2. UnstartedOf(physical_heads) \in Nat /\ UnstartedOf(physical_heads) <= UnstartedOf(PhysLead)
      BY <3>1, LeadSum
    <3>3. {MaxPpGroups, UnstartedOf(physical_heads)} \in SUBSET Nat
      BY <3>2, SchedulerAssumption
    <3>4. count \in {MaxPpGroups, UnstartedOf(physical_heads)} /\ count <= UnstartedOf(physical_heads)
      BY <1>4, <3>3, MinInSet DEF physical_head_count
    <3> QED BY <2>4, <3>2, <3>3, <3>4
  <2>6. process \in Nat /\ process <= count /\ process <= Cardinality(OnList("idle"))
    <3>1. {count, Cardinality(OnList("idle"))} \in SUBSET Nat
      BY <2>5, IdleGroups
    <3> QED BY <1>4, <3>1, MinInSet
  <2>7. EnoughJobs'
    BY <1>4, <2>3, <2>4, <2>5, <2>6 DEF EnoughJobs
  <2> QED BY <2>1, <2>7 DEF PhysInv
<1>5. ASSUME exec' # Tail(exec)
      PROVE  \E count, process, wake :
               /\ count = physical_head_count /\ process = Min({count, Cardinality(OnList("idle"))})
               /\ local' = [needed |-> count - process, process |-> process,
                           trigger |-> wake, todo |-> OnList("inactive")]
               /\ exec' = Stages \o Tail(exec)
  <2> HIDE DEF Stages
  <2> QED BY <1>5, Zenon DEF Schedule, Finished, Continue
<1> QED BY <1>3, <1>4, <1>5

LEMMA ActivateEnough ==
  ASSUME ExecInv, JobInv, PhysInv, At("physical"), local.needed > 0,
         UNCHANGED <<job_queue_pp, sub_jobs_started, exec>>,
         NEW c \in PpCore, c \notin OnList("idle"), NEW on,
         local'.needed = local.needed - 1, local'.process = local.process + IF on THEN 1 ELSE 0,
         on => exec_state'[c] = "idle", ~on => exec_state'[c] # "idle",
         \A i \in PpCore \ {c} : exec_state'[i] = exec_state[i]
  PROVE  PhysInv'
<1>1. OnList("idle")' = IF on THEN OnList("idle") \cup {c} ELSE OnList("idle")
  BY DEF OnList
<1>2. EnoughJobs /\ local.needed \in Nat /\ local.process \in Nat /\ local.process <= Cardinality(OnList("idle"))
  BY DEF PhysInv, EnoughJobs
<1>3. local'.process <= Cardinality(OnList("idle")')
  <2>1. CASE on
    <3>1. Cardinality(OnList("idle")') = Cardinality(OnList("idle")) + 1 /\ Cardinality(OnList("idle")) \in Nat
      BY <1>1, <2>1, IdleGroups
    <3> QED BY <1>2, <2>1, <3>1
  <2>2. CASE ~on
    BY <1>1, <1>2, <2>2
  <2> QED BY <2>1, <2>2
<1>4. local'.needed \in Nat /\ local'.process \in Nat /\ local'.needed + local'.process <= local.needed + local.process
  BY <1>2
<1>5. EnoughJobs'
  BY <1>2, <1>3, <1>4, LeadNat, EnoughMoves
<1> QED BY <1>5 DEF PhysInv, PhysicalOnce

LEMMA ActivateInactiveEnough == ASSUME ExecInv, JobInv, PhysInv, ActivateInactive PROVE PhysInv'
<1>1. PICK c \in local.todo :
        /\ local' = [needed |-> local.needed - 1,
                    process |-> local.process + IF ActiveAfter(c, {c}) THEN 1 ELSE 0,
                    trigger |-> local.trigger \/ ~ActiveAfter(c, {c}),
                    todo |-> local.todo \ {c}]
        /\ exec_state' = IF ActiveAfter(c, {c}) THEN [exec_state EXCEPT ![c] = "idle"]
                        ELSE exec_state
  BY DEF ActivateInactive
<1>2. /\ At("physical") /\ local.needed > 0
      /\ UNCHANGED <<job_queue_pp, sub_jobs_started, exec>>
  BY DEF ActivateInactive, may_activate, schedulerVars, jobVars, queueVars
<1>3. c \in PpCore /\ exec_state[c] = "inactive" /\ c \notin OnList("idle")
  BY DEF ExecInv, LocalTypes, OnList
<1>4. PICK on : on = ActiveAfter(c, {c})
  OBVIOUS
<1>5. /\ local'.needed = local.needed - 1 /\ local'.process = local.process + IF on THEN 1 ELSE 0
      /\ exec_state' = IF on THEN [exec_state EXCEPT ![c] = "idle"] ELSE exec_state
  BY <1>1, <1>4
<1>6. /\ on => exec_state'[c] = "idle"
      /\ ~on => exec_state'[c] # "idle"
      /\ \A i \in PpCore \ {c} : exec_state'[i] = exec_state[i]
  BY <1>3, <1>5, Groups DEF ExecInv, ListTypes
<1> QED BY <1>2, <1>3, <1>5, <1>6, ActivateEnough

LEMMA StealEnough == ASSUME ExecInv, JobInv, PhysInv, Steal PROVE PhysInv'
<1>1. PICK c \in Children :
       /\ local' = [local EXCEPT !.needed = @ - 1,
                                 !.process = @ + IF ActiveAfter(c, {c}) THEN 1 ELSE 0,
                                 !.trigger = @ \/ ~ActiveAfter(c, {c})]
       /\ exec_state' = [exec_state EXCEPT
            ![c] = IF ActiveAfter(c, {c}) THEN "idle" ELSE "inactive",
            ![Virtual] = EmptyWithout({c})]
  BY DEF Steal
<1>2. /\ At("physical") /\ local.needed > 0
      /\ UNCHANGED <<job_queue_pp, sub_jobs_started, exec>>
  BY DEF Steal, may_steal, schedulerVars, jobVars, queueVars
<1>3. c \in PpCore /\ exec_state[c] = "virtual" /\ c \notin OnList("idle") /\ IsLocal(local)
  BY DEF ExecInv, LocalTypes, OnList, Children
<1>4. PICK on : on = ActiveAfter(c, {c})
  OBVIOUS
<1>5. /\ local'.needed = local.needed - 1 /\ local'.process = local.process + IF on THEN 1 ELSE 0
      /\ exec_state' = [exec_state EXCEPT ![c] = IF on THEN "idle" ELSE "inactive", ![Virtual] = EmptyWithout({c})]
  BY <1>1, <1>3, <1>4 DEF IsLocal
<1>6. /\ on => exec_state'[c] = "idle"
      /\ ~on => exec_state'[c] # "idle"
      /\ \A i \in PpCore \ {c} : exec_state'[i] = exec_state[i]
  BY <1>3, <1>5, Groups DEF ExecInv, ListTypes
<1> QED BY <1>2, <1>3, <1>5, <1>6, ActivateEnough

LEMMA AssignEnough == ASSUME ExecInv, JobInv, PhysInv, AssignPhysical PROVE PhysInv'
<1>1. /\ At("physical") /\ local.process > 0 /\ pp_get(physical_peek) /\ exec' = exec
      /\ local' = [local EXCEPT !.process = @ - 1] /\ IsLocal(local)
  BY DEF AssignPhysical, may_assign, ExecInv, LocalTypes
<1>2. local'.process = local.process - 1 /\ local'.needed = local.needed
  BY <1>1 DEF IsLocal
<1>3. EnoughJobs /\ local.needed \in Nat /\ local.process \in Nat
  BY <1>1 DEF PhysInv, EnoughJobs
<1>4. PICK c \in OnList("idle") : exec_state' = [exec_state EXCEPT ![c] = "working"]
  BY DEF AssignPhysical
<1>5. OnList("idle")' = OnList("idle") \ {c}
  BY <1>4, Groups DEF OnList, ExecInv, ListTypes
<1>6. Cardinality(OnList("idle"))' = Cardinality(OnList("idle")) - 1 /\ Cardinality(OnList("idle")) \in Nat
  BY <1>5, IdleGroups
<1>7. PhysLead # {} /\ UnstartedOf(PhysLead) \in Nat
  BY <1>1, <1>3, LeadNat DEF EnoughJobs
<1>8. UnstartedOf(PhysLead)' >= UnstartedOf(PhysLead) - 1 /\ UnstartedOf(PhysLead)' \in Nat
  BY <1>1, <1>7, LeadStarted
<1>9. EnoughJobs'
  BY <1>1, <1>2, <1>3, <1>6, <1>7, <1>8 DEF EnoughJobs
<1> QED BY <1>1, <1>9 DEF PhysInv, PhysicalOnce

\* The steps that end an operation of the lock holder.
LEMMA ContinueEnough ==
  ASSUME ExecInv, PhysInv,
         \/ RejoinIdle \/ ActivateVirtual \/ AssignVirtual \/ AssignGp \/ PowerUpReturn
         \/ SuspendIdle \/ SuspendGroup("suspend_gp", Gp) \/ SuspendGroup("suspend_virtual", Virtual)
         \/ SuspendInactive
  PROVE  PhysInv'
<1>1. exec # <<>> /\ exec' = Tail(exec)
  BY DEF RejoinIdle, ActivateVirtual, AssignVirtual, AssignGp, PowerUpReturn, SuspendIdle, SuspendGroup,
         SuspendInactive, Continue, Finished, At
<1> QED BY <1>1, PhysicalPassed, NotPhysical DEF PhysInv

LEMMA WithoutPhysical ==
  ASSUME NEW s \in {<<>>, <<"schedule">>, <<"abort">>, <<"schedule", "power_up">>,
                    <<"suspend_idle", "suspend_gp", "suspend_virtual", "suspend_inactive">>}
  PROVE  s \in Seq(Operation) /\ NoPhysical(s)
<1> USE DEF Operation, SuspendSteps, OtherStep, NoPhysical
<1>1. CASE s = <<>>
  BY <1>1
<1>2. CASE s = <<"schedule">>
  BY <1>2
<1>3. CASE s = <<"abort">>
  BY <1>3
<1>4. CASE s = <<"schedule", "power_up">>
  BY <1>4
<1>5. CASE s = <<"suspend_idle", "suspend_gp", "suspend_virtual", "suspend_inactive">>
  BY <1>5
<1> QED BY <1>1, <1>2, <1>3, <1>4, <1>5

\* The steps that take the free lock.
LEMMA TakeEnough ==
  ASSUME \/ ScheduleFromMask \/ (\E g \in Switchable : GroupEnable(g) \/ GroupDisable(g))
         \/ (\E s \in Session : AbortExecutor(s)) \/ GroupPowerUp \/ GroupPowerDown
         \/ Pause \/ ExecutorSuspend \/ ExecutorResume
  PROVE  PhysInv'
<1>1. exec' \in {<<>>, <<"schedule">>, <<"abort">>, <<"schedule", "power_up">>,
                 <<"suspend_idle", "suspend_gp", "suspend_virtual", "suspend_inactive">>}
  <2>1. (ScheduleFromMask \/ \E g \in Switchable : GroupEnable(g) \/ GroupDisable(g)) => exec' = <<"schedule">>
    BY DEF ScheduleFromMask, GroupEnable, GroupDisable
  <2>2. GroupPowerUp => exec' \in {<<>>, <<"schedule", "power_up">>}
    BY Zenon DEF GroupPowerUp, Free
  <2>3. (\E s \in Session : AbortExecutor(s)) => exec' = <<"abort">>
    BY DEF AbortExecutor
  <2>4. Pause \/ ExecutorResume \/ ExecutorSuspend \/ GroupPowerDown =>
          exec' \in {<<>>, <<"schedule">>, <<"suspend_idle", "suspend_gp", "suspend_virtual", "suspend_inactive">>}
    BY DEF Pause, ExecutorResume, ExecutorSuspend, GroupPowerDown, Free, executorVars
  <2> QED BY <2>1, <2>2, <2>3, <2>4
<1>2. exec' \in Seq(Operation) /\ NoPhysical(exec')
  BY <1>1, WithoutPhysical
<1> QED BY <1>2, NotPhysical

LEMMA CompleteEnough ==
  ASSUME NEW g, NEW rest \in Seq(Operation), NoPhysical(rest), complete_group(g, rest)
  PROVE  PhysInv'
<1>1. exec' = <<>> \o rest \/ exec' = <<"schedule">> \o rest
  BY DEF complete_group
<1>2. ASSUME NEW s \in {<<>>, <<"schedule">>} PROVE s \o rest \in Seq(Operation) /\ NoPhysical(s \o rest)
  <2>1. s \in Seq(Operation) /\ NoPhysical(s) /\ \A k \in 2..Len(s) : s[k] # "physical"
    <3>1. s \in Seq(Operation) /\ NoPhysical(s)
      BY WithoutPhysical
    <3> QED BY <3>1 DEF NoPhysical
  <2> QED BY <2>1, PhysicalConcat
<1> QED BY <1>1, <1>2, NotPhysical

LEMMA AbortEnough == ASSUME ExecInv, PhysInv, NEW s \in Session, AbortGroup(s) PROVE PhysInv'
<1>1. exec \in Seq(Operation) /\ exec # <<>> /\ Head(exec) = "abort"
  BY DEF AbortGroup, At, ExecInv, LocalTypes
<1>2. NoPhysical(exec)
  <2>1. \A k \in 1..Len(exec) : k = 1 \/ k \in 2..Len(exec)
    BY <1>1
  <2>2. exec[1] # "physical"
    BY <1>1
  <2> QED BY <2>1, <2>2 DEF NoPhysical, PhysInv, PhysicalOnce
<1>3. (\E g \in Group : complete_group(g, exec)) \/ exec' = Tail(exec)
  BY DEF AbortGroup, Finished, Continue
<1>4. CASE exec' = Tail(exec)
  BY <1>1, <1>4, PhysicalPassed, NotPhysical DEF PhysInv
<1>5. CASE \E g \in Group : complete_group(g, exec)
  BY <1>1, <1>2, <1>5, CompleteEnough
<1> QED BY <1>3, <1>4, <1>5

\* A step of others than the lock holder.
LEMMA OtherEnough ==
  ASSUME JobInv, PhysInv, JobStep \/ PowerStep \/ PmOsSuspend \/ PmOsResume \/ RuntimeSuspend
  PROVE  PhysInv'
<1>1. UNCHANGED <<exec, local, exec_state>>
  BY DEF JobStep, PowerStep, PmOsSuspend, PmOsResume, RuntimeSuspend, executorVars
<1>2. CASE ~At("physical")
  BY <1>1, <1>2 DEF PhysInv, PhysicalOnce, At
<1>3. CASE At("physical")
  <2>1. job_queue_pp' = job_queue_pp /\ \A x \in Job : Waits(x) => sub_jobs_started'[x] = sub_jobs_started[x]
    <3>1. PowerStep \/ PmOsSuspend \/ PmOsResume \/ RuntimeSuspend => UNCHANGED <<job_queue_pp, sub_jobs_started>>
      BY DEF PowerStep, PmOsSuspend, PmOsResume, RuntimeSuspend, schedulerVars, jobVars, queueVars
    <3>2. ASSUME JobStep PROVE \/ \E j \in Job : start_job(j) \/ complete_job(j)
                               \/ \E s \in Session : begin_close(s) \/ end_close(s)
      BY <1>3, <3>2 DEF JobStep, InQueues, At
    <3>3. ASSUME NEW j \in Job, start_job(j)
          PROVE  UNCHANGED <<job_queue_pp, sub_jobs_started>>
      BY <3>3 DEF start_job, queueVars
    <3>4. ASSUME NEW s \in Session, begin_close(s) \/ end_close(s)
          PROVE  UNCHANGED <<job_queue_pp, sub_jobs_started>>
      BY <3>4 DEF begin_close, end_close, jobVars, queueVars
    <3>5. ASSUME NEW j \in Job, complete_job(j)
          PROVE  /\ job_queue_pp' = job_queue_pp
                 /\ \A x \in Job : Waits(x) => sub_jobs_started'[x] = sub_jobs_started[x]
      <4>1. /\ job_phase[j] = "done" /\ sub_jobs_started' = [sub_jobs_started EXCEPT ![j] = 0]
            /\ sub_jobs_started \in [Job -> Nat] /\ job_queue_pp' = job_queue_pp
        BY <3>5 DEF complete_job, delete_job, queueVars, JobInv, JobTypes
      <4> QED BY <4>1 DEF Waits
    <3> QED BY <3>1, <3>2, <3>3, <3>4, <3>5
  <2>2. EnoughJobs'
    BY <1>1, <1>3, <2>1, EnoughSame DEF PhysInv
  <2> QED BY <1>1, <2>2 DEF PhysInv, PhysicalOnce
<1> QED BY <1>2, <1>3

LEMMA PhysInvNext == ASSUME JobsInv, PhysInv, Next PROVE PhysInv'
<1>1. CASE ScheduleStep
  BY <1>1, ScheduleEnough, ActivateInactiveEnough, StealEnough, AssignEnough, ContinueEnough
     DEF ScheduleStep, JobsInv, PhysInv
<1>2. ASSUME NEW g \in Group, CompleteGroup(g) PROVE PhysInv'
  BY <1>2, CompleteEnough, WithoutPhysical DEF CompleteGroup
<1>3. ASSUME NEW s \in Session, AbortGroup(s) PROVE PhysInv'
  BY <1>3, AbortEnough DEF JobsInv
<1> QED BY <1>1, <1>2, <1>3, ContinueEnough, TakeEnough, OtherEnough DEF Next, JobsInv

LEMMA PhysInvAlways == Spec => []PhysInv
<1>1. Init => PhysInv
  BY DEF Init, ExecutorInit, PhysInv, PhysicalOnce, At
<1>2. JobsInv /\ PhysInv /\ Next => PhysInv'
  BY PhysInvNext
<1>3. PhysInv /\ UNCHANGED vars => PhysInv'
  BY DEF vars, schedulerVars, jobVars, queueVars, executorVars, PhysInv, PhysicalOnce, At, EnoughJobs,
         UnstartedOf, PhysLead, Partial, HasStarted, Unstarted, OnList
<1> QED BY <1>1, <1>2, <1>3, JobsInvAlways, PTL DEF Spec

\* Whenever step 3.3 of mali_executor_schedule gives a group a job, there is a physical sub job at
\* the head of a queue and an idle group, as its assertions say, for any number of jobs and groups.
THEOREM AssignFindsJobCorrect == Spec => []AssignFindsJob
<1>1. JobsInv /\ PhysInv => AssignFindsJob
  <2> SUFFICES ASSUME JobsInv, PhysInv, At("physical"), may_assign
               PROVE  physical_peek # NoJob /\ OnList("idle") # {}
    BY DEF AssignFindsJob
  <2>1. local.process > 0 /\ EnoughJobs
    BY DEF may_assign, PhysInv
  <2>2. UnstartedOf(PhysLead) \in Nat /\ (UnstartedOf(PhysLead) > 0 => PhysLead # {})
    BY LeadNat DEF JobsInv
  <2>3. physical_peek # NoJob
    BY <2>1, <2>2, PeekInLead DEF EnoughJobs, JobsInv
  <2>4. Cardinality(OnList("idle")) # 0
    BY <2>1, IdleGroups DEF EnoughJobs, JobsInv
  <2> QED BY <2>3, <2>4, FS_EmptySet
<1> QED BY <1>1, JobsInvAlways, PhysInvAlways, PTL

------------------------------------------------------------------------------
(* The types                                                                 *)

OsTypes == pm_work \in BOOLEAN /\ os \in {"running", "pausing", "deactivated", "suspending", "resuming"}

LEMMA OsTypesNext == ASSUME OsTypes, Next PROVE OsTypes'
<1> USE DEF OsTypes
<1>1. CASE ScheduleStep
  <2>1. CASE Schedule
    BY <2>1 DEF Schedule
  <2>2. CASE ActivateInactive \/ Steal \/ AssignPhysical \/ RejoinIdle
    BY <2>2 DEF ActivateInactive, Steal, AssignPhysical, RejoinIdle, powerVars
  <2>3. CASE ActivateVirtual
    BY <2>3 DEF ActivateVirtual
  <2>4. CASE AssignVirtual
    BY <2>4 DEF AssignVirtual
  <2>5. CASE AssignGp
    BY <2>5 DEF AssignGp
  <2> QED BY <1>1, <2>1, <2>2, <2>3, <2>4, <2>5 DEF ScheduleStep
<1>2. CASE ScheduleFromMask \/ (\E g \in Switchable : GroupEnable(g) \/ GroupDisable(g))
  BY <1>2 DEF ScheduleFromMask, GroupEnable, GroupDisable, powerVars
<1>3. ASSUME NEW g, NEW rest, complete_group(g, rest) PROVE OsTypes'
  BY <1>3 DEF complete_group
<1>4. ASSUME NEW s \in Session, AbortExecutor(s) \/ AbortGroup(s) PROVE OsTypes'
  BY <1>3, <1>4 DEF AbortExecutor, AbortGroup, powerVars
<1>5. ASSUME NEW g \in Group, CompleteGroup(g) PROVE OsTypes'
  BY <1>3, <1>5 DEF CompleteGroup
<1>6. CASE GroupPowerUp \/ PowerUpReturn \/ GroupPowerDown
  BY <1>6 DEF GroupPowerUp, PowerUpReturn, GroupPowerDown, group_power_down, executorVars
<1>7. CASE \/ Pause \/ ExecutorSuspend \/ SuspendIdle \/ SuspendGroup("suspend_gp", Gp)
           \/ SuspendGroup("suspend_virtual", Virtual) \/ SuspendInactive \/ ExecutorResume
  BY <1>7 DEF Pause, ExecutorSuspend, SuspendIdle, SuspendGroup, SuspendInactive, ExecutorResume, powerVars
<1>8. CASE PmOsSuspend \/ PmOsResume \/ RuntimeSuspend \/ JobStep
  BY <1>8 DEF PmOsSuspend, PmOsResume, RuntimeSuspend, JobStep, os_suspend, os_resume, executorVars, powerVars
<1>9. CASE PowerStep
  BY <1>9 DEF PowerStep, executorVars, update_work, runtime_suspend, runtime_resume, os_resume_return,
       domain_power_up, domain_power_down, common_suspend
<1> QED BY <1>1, <1>2, <1>4, <1>5, <1>6, <1>7, <1>8, <1>9 DEF Next

LEMMA OsTypesAlways == Spec => []OsTypes
<1>1. Init => OsTypes
  BY DEF Init, PowerInit, ExecutorInit, OsTypes
<1>2. UNCHANGED vars /\ OsTypes => OsTypes'
  BY DEF vars, powerVars, executorVars, OsTypes
<1> QED BY <1>1, <1>2, OsTypesNext, PTL DEF Spec

\* The variables of the executor, the scheduler and the power management have their types: every
\* reference count is a natural number, every job in a queue is a job, and each group is in a state
\* that its kind can be in.
THEOREM ExecTypesCorrect == Spec => []ExecTypeOK
<1>1. JobsInv /\ OsTypes => ExecTypeOK
  <2> SUFFICES ASSUME JobsInv, OsTypes PROVE ExecTypeOK
    OBVIOUS
  <2> USE DEF JobsInv, JobInv, ExecInv
  <2>1. /\ job_phase \in [Job -> {"free", "timeline", "deferred", "queued", "done"}]
        /\ sub_jobs_started \in [Job -> Nat] /\ sub_jobs_completed \in [Job -> Nat]
        /\ session_phase \in [Session -> {"open", "scheduler", "executor", "aborting", "drain"}]
        /\ schedule_due \in BOOLEAN
        /\ running \in [Group -> Job \cup {NoJob}]
    BY DEF JobTypes
  <2>2. Range(created) = {j \in Job : job_phase[j] # "free"}
    BY DEF QueuesMatch, IsList, Live
  <2>3. \A queues \in {job_queue_gp, job_queue_pp} : DOMAIN queues = {"high", "normal"}
    BY DEF JobTypes, IsQueues
  <2>4. DOMAIN depth = {"gp", "pp"} /\ Range(depth) \subseteq Nat
    <3>1. depth.gp \in Nat /\ depth.pp \in Nat
      BY DepthInt, AllGpFinite DEF DepthMatch
    <3>2. depth = [gp |-> depth.gp, pp |-> depth.pp]
      BY DEF JobTypes
    <3>3. DOMAIN depth = {"gp", "pp"}
      BY <3>2
    <3>4. \A x \in Range(depth) : x = depth.gp \/ x = depth.pp
      BY <3>3 DEF Range
    <3> QED BY <3>1, <3>3, <3>4
  <2>5. use_count \in [Domain -> Nat]
    <3>1. \A d \in Domain : use_count[d] \in Nat
      BY RefsCount DEF RefsExact
    <3> QED BY <3>1 DEF PowerTypes
  <2>6. /\ group_state \in [Group -> {"inactive", "pending", "active"}]
        /\ powered \subseteq Group
        /\ \A mask \in {pd_mask_wanted, pd_mask_current, pmu_mask_current} : mask \subseteq Domain
        /\ runtime_active \in BOOLEAN
        /\ rpm \in {"suspended", "resuming", "active", "suspending"}
        /\ pm.groups \subseteq Group
    BY DEF PowerTypes, IsPm
  <2>7. \A g \in Group : exec_state[g] \in
       IF g = Virtual THEN {"empty", "inactive", "idle", "working"}
       ELSE IF g = Gp THEN {"disabled", "inactive", "idle", "working"}
       ELSE {"virtual", "disabled", "inactive", "idle", "working"}
    BY Groups, GroupDomains DEF ListTypes, Core
  <2>8. disable_requested \subseteq Group
    BY DEF RunTypes
  <2>9. pm_work \in BOOLEAN /\ os \in {"running", "pausing", "deactivated", "suspending", "resuming"}
    BY DEF OsTypes
  <2> HIDE DEF JobsInv, JobInv, ExecInv
  <2> QED BY <2>1, <2>2, <2>3, <2>4, <2>5, <2>6, <2>7, <2>8, <2>9, Zenon DEF ExecTypeOK
<1> QED BY <1>1, JobsInvAlways, OsTypesAlways, PTL
================================================================================
