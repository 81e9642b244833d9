---------------------------- MODULE MaliListLemmas ----------------------------
(***************************************************************************)
(* What the proofs about the lists of the driver need to know of RemoveAt, *)
(* InsertAt (unlinking and linking a list element), Min and Max, and sums. *)
(***************************************************************************)
EXTENDS SequencesExt, FiniteSetTheorems, SequenceTheorems, WellFoundedInduction, TLAPS

\* No element occurs twice in the list s.
Distinct(s) == \A i, j \in DOMAIN s : s[i] = s[j] => i = j

\* Unlinking element i of s shifts the elements behind it by one.
LEMMA RemoveAtElements ==
  ASSUME NEW S, NEW s \in Seq(S), NEW i \in 1 .. Len(s)
  PROVE  /\ RemoveAt(s, i) \in Seq(S)
         /\ Len(RemoveAt(s, i)) = Len(s) - 1
         /\ \A j \in 1 .. Len(s) - 1 :
              RemoveAt(s, i)[j] = IF j < i THEN s[j] ELSE s[j + 1]
<1> DEFINE front == SubSeq(s, 1, i - 1)
           back  == SubSeq(s, i + 1, Len(s))
<1> Len(s) \in Nat
  BY LenProperties
<1>1. /\ front \in Seq(S) /\ Len(front) = i - 1
      /\ \A j \in 1 .. i - 1 : front[j] = s[j]
  BY SubSeqProperties, ElementOfSeq
<1>2. /\ back \in Seq(S) /\ Len(back) = Len(s) - i
      /\ \A j \in 1 .. Len(s) - i : back[j] = s[i + j]
  <2>1. \A j \in i + 1 .. Len(s) : s[j] \in S
    BY ElementOfSeq
  <2>2. /\ back \in Seq(S)
        /\ Len(back) = IF i + 1 <= Len(s) THEN Len(s) - (i + 1) + 1 ELSE 0
        /\ \A j \in 1 .. Len(s) - (i + 1) + 1 : back[j] = s[(i + 1) + j - 1]
    BY <2>1, SubSeqProperties
  <2> QED BY <2>2
<1> HIDE DEF front, back
<1>3. /\ front \o back \in Seq(S)
      /\ Len(front \o back) = Len(s) - 1
      /\ \A j \in 1 .. Len(s) - 1 :
           (front \o back)[j] = IF j <= i - 1 THEN front[j] ELSE back[j - (i - 1)]
  <2>1. /\ front \o back \in Seq(S)
        /\ Len(front \o back) = Len(front) + Len(back)
        /\ \A j \in 1 .. Len(front) + Len(back) : (front \o back)[j] =
             IF j <= Len(front) THEN front[j] ELSE back[j - Len(front)]
    BY <1>1, <1>2, ConcatProperties, Zenon
  <2>2. Len(front) = i - 1 /\ Len(front) + Len(back) = Len(s) - 1
    BY <1>1, <1>2
  <2> QED BY <2>1, <2>2, Zenon
<1>4. ASSUME NEW j \in 1 .. Len(s) - 1
      PROVE  (front \o back)[j] = IF j < i THEN s[j] ELSE s[j + 1]
  <2>1. CASE j < i
    BY <1>1, <1>3, <2>1
  <2>2. CASE ~(j < i)
    <3>1. j - (i - 1) \in 1 .. Len(s) - i
      BY <2>2
    <3>2. back[j - (i - 1)] = s[i + (j - (i - 1))]
      BY <1>2, <3>1
    <3> QED BY <1>3, <2>2, <3>2
  <2> QED BY <2>1, <2>2
<1> QED BY <1>3, <1>4 DEF RemoveAt, front, back

\* Unlinking removes one element and keeps the list free of duplicates.
LEMMA RemoveAtRange ==
  ASSUME NEW S, NEW s \in Seq(S), NEW i \in 1 .. Len(s), Distinct(s)
  PROVE  /\ RemoveAt(s, i) \in Seq(S)
         /\ Distinct(RemoveAt(s, i))
         /\ Range(RemoveAt(s, i)) = Range(s) \ {s[i]}
<1> DEFINE r == RemoveAt(s, i)
<1>1. /\ r \in Seq(S) /\ Len(r) = Len(s) - 1
      /\ \A j \in 1 .. Len(s) - 1 : r[j] = IF j < i THEN s[j] ELSE s[j + 1]
  BY RemoveAtElements
<1>2. DOMAIN s = 1 .. Len(s) /\ DOMAIN r = 1 .. Len(s) - 1 /\ Len(s) \in Nat
  BY <1>1
<1> HIDE DEF r
<1> DEFINE old(j) == IF j < i THEN j ELSE j + 1
<1>a. /\ \A j \in 1 .. Len(s) - 1 : old(j) \in 1 .. Len(s) /\ old(j) # i /\ r[j] = s[old(j)]
      /\ \A j, k \in 1 .. Len(s) - 1 : old(j) = old(k) => j = k
  BY <1>1, <1>2
<1>b. \A j, k \in 1 .. Len(s) : s[j] = s[k] => j = k
  BY <1>2, Zenon DEF Distinct
<1> HIDE DEF old
<1>3. Distinct(r)
  <2> SUFFICES ASSUME NEW j \in 1 .. Len(s) - 1, NEW k \in 1 .. Len(s) - 1, r[j] = r[k]
               PROVE  j = k
    BY <1>2, Zenon DEF Distinct
  <2>1. old(j) = old(k)
    BY <1>a, <1>b, Zenon
  <2> QED BY <1>a, <2>1, Zenon
<1>4. \A x \in Range(r) : x \in Range(s) \ {s[i]}
  <2> SUFFICES ASSUME NEW j \in 1 .. Len(s) - 1
               PROVE  r[j] \in Range(s) \ {s[i]}
    BY <1>2 DEF Range
  <2>1. s[old(j)] # s[i]
    BY <1>a, <1>b, Zenon
  <2> QED BY <1>2, <1>a, <2>1, Zenon DEF Range
<1>5. \A x \in Range(s) \ {s[i]} : x \in Range(r)
  <2> SUFFICES ASSUME NEW j \in 1 .. Len(s), j # i
               PROVE  s[j] \in Range(r)
    BY <1>2 DEF Range
  <2>1. CASE j < i
    BY <1>1, <1>2, <2>1 DEF Range
  <2>2. CASE j > i
    <3>1. j - 1 \in 1 .. Len(s) - 1 /\ r[j - 1] = s[j]
      BY <1>1, <2>2
    <3> QED BY <1>2, <3>1 DEF Range
  <2> QED BY <2>1, <2>2
<1> QED BY <1>1, <1>3, <1>4, <1>5 DEF r

\* Linking e before element i shifts the elements from i on by one.
LEMMA InsertAtElements ==
  ASSUME NEW S, NEW s \in Seq(S), NEW i \in 1 .. Len(s) + 1, NEW e \in S
  PROVE  /\ InsertAt(s, i, e) \in Seq(S)
         /\ Len(InsertAt(s, i, e)) = Len(s) + 1
         /\ \A j \in 1 .. Len(s) + 1 :
              InsertAt(s, i, e)[j] =
                IF j < i THEN s[j] ELSE IF j = i THEN e ELSE s[j - 1]
<1> DEFINE front == SubSeq(s, 1, i - 1)
           mid   == front \o <<e>>
           back  == SubSeq(s, i, Len(s))
<1> Len(s) \in Nat
  BY LenProperties
<1>1. /\ front \in Seq(S) /\ Len(front) = i - 1
      /\ \A j \in 1 .. i - 1 : front[j] = s[j]
  BY SubSeqProperties, ElementOfSeq
<1>2. /\ back \in Seq(S) /\ Len(back) = Len(s) - i + 1
      /\ \A j \in 1 .. Len(s) - i + 1 : back[j] = s[i + j - 1]
  <2>1. \A j \in i .. Len(s) : s[j] \in S
    BY ElementOfSeq
  <2> QED BY <2>1, SubSeqProperties
<1> HIDE DEF front, back
<1>3. <<e>> \in Seq(S) /\ Len(<<e>>) = 1 /\ <<e>>[1] = e
  OBVIOUS
<1>4. /\ mid \in Seq(S) /\ Len(mid) = i
      /\ \A j \in 1 .. i : mid[j] = IF j <= i - 1 THEN front[j] ELSE <<e>>[j - (i - 1)]
  <2>1. /\ mid \in Seq(S)
        /\ Len(mid) = Len(front) + Len(<<e>>)
        /\ \A j \in 1 .. Len(front) + Len(<<e>>) : mid[j] =
             IF j <= Len(front) THEN front[j] ELSE <<e>>[j - Len(front)]
    BY <1>1, <1>3, ConcatProperties, Zenon
  <2>2. Len(front) = i - 1 /\ Len(front) + Len(<<e>>) = i
    BY <1>1, <1>3
  <2> QED BY <2>1, <2>2, Zenon
<1>5. \A j \in 1 .. i : mid[j] = IF j < i THEN s[j] ELSE e
  <2> SUFFICES ASSUME NEW j \in 1 .. i PROVE mid[j] = IF j < i THEN s[j] ELSE e
    OBVIOUS
  <2> HIDE DEF mid
  <2>1. CASE j < i
    BY <1>1, <1>4, <2>1
  <2>2. CASE j = i
    BY <1>3, <1>4, <2>2
  <2> QED BY <2>1, <2>2
<1> HIDE DEF mid
<1>6. /\ mid \o back \in Seq(S)
      /\ Len(mid \o back) = Len(s) + 1
      /\ \A j \in 1 .. Len(s) + 1 :
           (mid \o back)[j] = IF j <= i THEN mid[j] ELSE back[j - i]
  <2>1. /\ mid \o back \in Seq(S)
        /\ Len(mid \o back) = Len(mid) + Len(back)
        /\ \A j \in 1 .. Len(mid) + Len(back) : (mid \o back)[j] =
             IF j <= Len(mid) THEN mid[j] ELSE back[j - Len(mid)]
    BY <1>2, <1>4, ConcatProperties, Zenon
  <2>2. Len(mid) = i /\ Len(mid) + Len(back) = Len(s) + 1
    BY <1>2, <1>4
  <2> QED BY <2>1, <2>2, Zenon
<1>7. ASSUME NEW j \in 1 .. Len(s) + 1
      PROVE  (mid \o back)[j] =
               IF j < i THEN s[j] ELSE IF j = i THEN e ELSE s[j - 1]
  <2>1. CASE j <= i
    BY <1>5, <1>6, <2>1
  <2>2. CASE ~(j <= i)
    <3>1. j - i \in 1 .. Len(s) - i + 1
      BY <2>2
    <3>2. back[j - i] = s[i + (j - i) - 1]
      BY <1>2, <3>1
    <3> QED BY <1>6, <2>2, <3>2
  <2> QED BY <2>1, <2>2
<1> QED BY <1>6, <1>7 DEF InsertAt, mid, front, back

\* Linking a new element adds it and keeps the list free of duplicates.
LEMMA InsertAtRange ==
  ASSUME NEW S, NEW s \in Seq(S), NEW i \in 1 .. Len(s) + 1, NEW e \in S,
         Distinct(s), e \notin Range(s)
  PROVE  /\ InsertAt(s, i, e) \in Seq(S)
         /\ Distinct(InsertAt(s, i, e))
         /\ Range(InsertAt(s, i, e)) = Range(s) \cup {e}
<1> DEFINE r == InsertAt(s, i, e)
<1>1. /\ r \in Seq(S) /\ Len(r) = Len(s) + 1
      /\ \A j \in 1 .. Len(s) + 1 :
           r[j] = IF j < i THEN s[j] ELSE IF j = i THEN e ELSE s[j - 1]
  BY InsertAtElements, SMTT(30)
<1>2. DOMAIN s = 1 .. Len(s) /\ DOMAIN r = 1 .. Len(s) + 1 /\ Len(s) \in Nat
  BY <1>1
<1> HIDE DEF r
<1>3. \A j \in 1 .. Len(s) : s[j] # e
  BY <1>2 DEF Range
<1>4. Distinct(r)
  BY <1>1, <1>2, <1>3 DEF Distinct
<1>5. \A x \in Range(r) : x \in Range(s) \cup {e}
  <2> SUFFICES ASSUME NEW j \in 1 .. Len(s) + 1
               PROVE  r[j] \in Range(s) \cup {e}
    BY <1>2 DEF Range
  <2> QED BY <1>1, <1>2 DEF Range
<1>6. \A x \in Range(s) : x \in Range(r)
  <2> SUFFICES ASSUME NEW j \in 1 .. Len(s)
               PROVE  s[j] \in Range(r)
    BY <1>2 DEF Range
  <2>1. CASE j < i
    BY <1>1, <1>2, <2>1 DEF Range
  <2>2. CASE j >= i
    <3>1. j + 1 \in 1 .. Len(s) + 1 /\ r[j + 1] = s[j]
      BY <1>1, <2>2
    <3> QED BY <1>2, <3>1 DEF Range
  <2> QED BY <2>1, <2>2
<1>7. e \in Range(r)
  BY <1>1, <1>2 DEF Range
<1> QED BY <1>1, <1>4, <1>5, <1>6, <1>7 DEF r

\* Unlinking the first element.
LEMMA TailRange ==
  ASSUME NEW S, NEW s \in Seq(S), s # <<>>, Distinct(s)
  PROVE  /\ Head(s) \in S /\ Head(s) \in Range(s)
         /\ Tail(s) \in Seq(S)
         /\ Distinct(Tail(s))
         /\ Range(Tail(s)) = Range(s) \ {Head(s)}
<1>1. /\ Head(s) = s[1] /\ Head(s) \in S /\ Tail(s) \in Seq(S)
      /\ Len(Tail(s)) = Len(s) - 1
      /\ \A j \in 1 .. Len(s) - 1 : Tail(s)[j] = s[j + 1]
  BY HeadTailProperties
<1>2. /\ DOMAIN s = 1 .. Len(s) /\ DOMAIN Tail(s) = 1 .. Len(s) - 1
      /\ Len(s) \in Nat \ {0}
  BY <1>1, EmptySeq
<1>3. Distinct(Tail(s))
  BY <1>1, <1>2 DEF Distinct
<1>4. \A x \in Range(Tail(s)) : x \in Range(s) \ {Head(s)}
  BY <1>1, <1>2 DEF Range, Distinct
<1>5. \A x \in Range(s) \ {Head(s)} : x \in Range(Tail(s))
  <2> SUFFICES ASSUME NEW j \in 1 .. Len(s), j # 1
               PROVE  s[j] \in Range(Tail(s))
    BY <1>1, <1>2 DEF Range
  <2>1. j - 1 \in 1 .. Len(s) - 1 /\ Tail(s)[j - 1] = s[j]
    BY <1>1
  <2> QED BY <1>2, <2>1 DEF Range
<1>6. Head(s) \in Range(s)
  BY <1>1, <1>2 DEF Range
<1> QED BY <1>1, <1>3, <1>4, <1>5, <1>6, Zenon

\* Linking an element at the end.
LEMMA AppendRange ==
  ASSUME NEW S, NEW s \in Seq(S), NEW e \in S, Distinct(s), e \notin Range(s)
  PROVE  /\ Append(s, e) \in Seq(S)
         /\ Distinct(Append(s, e))
         /\ Range(Append(s, e)) = Range(s) \cup {e}
<1> DEFINE r == Append(s, e)
<1>1. /\ r \in Seq(S) /\ Len(r) = Len(s) + 1
      /\ \A j \in 1 .. Len(s) : r[j] = s[j]
      /\ r[Len(s) + 1] = e
  BY AppendProperties
<1>2. DOMAIN s = 1 .. Len(s) /\ DOMAIN r = 1 .. Len(s) + 1 /\ Len(s) \in Nat
  BY <1>1
<1> HIDE DEF r
<1>3. \A j \in 1 .. Len(s) : s[j] # e
  BY <1>2 DEF Range
<1>4. Distinct(r)
  BY <1>1, <1>2, <1>3 DEF Distinct
<1>5. Range(r) = Range(s) \cup {e}
  BY <1>1, <1>2 DEF Range
<1> QED BY <1>1, <1>4, <1>5 DEF r

\* The least element of a non-empty set of naturals.
LEMMA MinInSet ==
  ASSUME NEW S \in SUBSET Nat, S # {}
  PROVE  Min(S) \in S /\ \A x \in S : Min(S) <= x
<1> DEFINE R == OpToRel(<, Nat)
<1>1. \A x, y \in Nat : y < x => <<y, x>> \in R
  <2> SUFFICES ASSUME NEW x \in Nat, NEW y \in Nat, y < x PROVE <<y, x>> \in R
    OBVIOUS
  <2>1. <<y, x>> \in Nat \X Nat /\ <<y, x>>[1] < <<y, x>>[2]
    OBVIOUS
  <2> QED BY <2>1, Zenon DEF OpToRel
<1>2. PICK x \in S : \A y \in S : ~ (<<y, x>> \in R)
  BY WFMin, NatLessThanWellFounded, Zenon
<1> HIDE DEF R
<1>3. ASSUME NEW y \in S PROVE x <= y
  <2>1. ~ (y < x)
    BY <1>1, <1>2, Zenon
  <2> QED BY <2>1
<1> QED BY <1>2, <1>3 DEF Min

\* The greatest element of a non-empty bounded set of naturals.
LEMMA MaxInSet ==
  ASSUME NEW n \in Nat, NEW S \in SUBSET (0 .. n), S # {}
  PROVE  Max(S) \in S /\ \A x \in S : x <= Max(S)
<1> DEFINE D == {n - x : x \in S}
<1>1. D \in SUBSET Nat /\ D # {}
  <2>1. \A x \in S : n - x \in Nat
    OBVIOUS
  <2> QED BY <2>1
<1>2. Min(D) \in D /\ \A y \in D : Min(D) <= y
  <2> HIDE DEF D
  <2> QED BY <1>1, MinInSet
<1>3. PICK x \in S : Min(D) = n - x
  BY <1>2
<1>4. \A y \in S : y <= x
  BY <1>2, <1>3
<1> QED BY <1>3, <1>4 DEF Max

------------------------------------------------------------------------------
(* Sums over finite sets.  MapThenFoldSet takes the elements in the order of *)
(* a CHOOSE; that the order is of no account is shown by induction, which    *)
(* FromZero and FromEmpty put as a fact about sets.                          *)

\* Induction on the natural numbers, with the set of those that have the property.
LEMMA FromZero ==
  ASSUME NEW S, 0 \in S, \A n \in Nat : n \in S => n + 1 \in S
  PROVE  Nat \subseteq S
<1> DEFINE T == Nat \ S
<1> SUFFICES ASSUME T # {} PROVE FALSE
  OBVIOUS
<1>1. Min(T) \in T /\ \A x \in T : Min(T) <= x
  BY MinInSet
<1> HIDE DEF T
<1> DEFINE m == Min(T)
<1>2. m \in T /\ \A x \in T : m <= x
  BY <1>1
<1> HIDE DEF m
<1>3. m \in Nat /\ m # 0 /\ m \notin S
  BY <1>2 DEF T
<1>4. m - 1 \in Nat /\ m - 1 \notin T
  BY <1>2, <1>3
<1>5. m - 1 \in S
  BY <1>4 DEF T
<1> QED BY <1>3, <1>4, <1>5

\* Induction on the subsets of a finite set, with the set of those that have the property.
LEMMA FromEmpty ==
  ASSUME NEW S, IsFiniteSet(S), NEW C, {} \in C,
         \A A \in SUBSET S : \A x \in S \ A : A \in C => A \cup {x} \in C
  PROVE  S \in C
<1> DEFINE Good == {n \in Nat : \A A \in SUBSET S : Cardinality(A) = n => A \in C}
<1>1. 0 \in Good
  <2> SUFFICES ASSUME NEW A \in SUBSET S, Cardinality(A) = 0 PROVE A \in C
    OBVIOUS
  <2>1. IsFiniteSet(A)
    BY FS_Subset
  <2> QED BY <2>1, FS_EmptySet
<1>2. ASSUME NEW n \in Nat, n \in Good PROVE n + 1 \in Good
  <2> SUFFICES ASSUME NEW A \in SUBSET S, Cardinality(A) = n + 1 PROVE A \in C
    OBVIOUS
  <2>1. IsFiniteSet(A)
    BY FS_Subset
  <2>2. A # {}
    BY FS_EmptySet
  <2>3. PICK x \in A : TRUE
    BY <2>2
  <2>4. Cardinality(A \ {x}) = n
    <3>1. Cardinality(A \ {x}) = Cardinality(A) - 1
      BY <2>1, FS_RemoveElement
    <3> QED BY <3>1
  <2>5. A \ {x} \in C
    BY <1>2, <2>4
  <2>6. (A \ {x}) \cup {x} = A
    BY <2>3
  <2> QED BY <2>5, <2>6
<1>3. Nat \subseteq Good
  <2> HIDE DEF Good
  <2> QED BY <1>1, <1>2, FromZero
<1>4. Cardinality(S) \in Nat
  BY FS_CardinalityType
<1> QED BY <1>3, <1>4

Chosen(s) == CHOOSE x \in s : TRUE

IsSum(w, f, S) ==
  w = [s \in SUBSET S |-> IF s = {} THEN 0 ELSE f[Chosen(s)] + w[s \ {Chosen(s)}]]

LEMMA SumExpand ==
  ASSUME NEW f, NEW S
  PROVE  SumFunctionOnSet(f, S) = (CHOOSE w : IsSum(w, f, S))[S]
BY DEF SumFunctionOnSet, FoldFunctionOnSet, MapThenFoldSet, IsSum, Chosen

\* The recursion of a sum over a finite set has a solution.
LEMMA SumExists ==
  ASSUME NEW S, IsFiniteSet(S), NEW f \in [S -> Int]
  PROVE  \E w \in [SUBSET S -> Int] : IsSum(w, f, S)
<1> DEFINE Small(n) == {s \in SUBSET S : Cardinality(s) <= n}
           Upto(w, n) == \A s \in Small(n) :
             w[s] = IF s = {} THEN 0 ELSE f[Chosen(s)] + w[s \ {Chosen(s)}]
           Good == {n \in Nat : \E w \in [SUBSET S -> Int] : Upto(w, n)}
<1>0. ASSUME NEW s \in SUBSET S
      PROVE  /\ Cardinality(s) \in Nat /\ (Cardinality(s) = 0 <=> s = {})
             /\ s # {} => Chosen(s) \in s /\ Cardinality(s \ {Chosen(s)}) = Cardinality(s) - 1
  <2>1. IsFiniteSet(s)
    BY FS_Subset
  <2>2. s # {} => Chosen(s) \in s
    BY DEF Chosen
  <2> QED BY <2>1, <2>2, FS_EmptySet, FS_CardinalityType, FS_RemoveElement
<1>1. 0 \in Good
  <2> DEFINE w == [s \in SUBSET S |-> 0]
  <2>1. w \in [SUBSET S -> Int]
    OBVIOUS
  <2>2. Upto(w, 0)
    <3> SUFFICES ASSUME NEW s \in Small(0) PROVE s = {}
      OBVIOUS
    <3>1. s \in SUBSET S /\ Cardinality(s) <= 0
      OBVIOUS
    <3>2. Cardinality(s) \in Nat /\ (Cardinality(s) = 0 <=> s = {})
      BY <1>0, <3>1
    <3> QED BY <3>1, <3>2
  <2> QED BY <2>1, <2>2
<1>2. ASSUME NEW n \in Nat, n \in Good PROVE n + 1 \in Good
  <2>1. PICK w \in [SUBSET S -> Int] : Upto(w, n)
    BY <1>2
  <2> DEFINE v == [s \in SUBSET S |-> IF s = {} THEN 0 ELSE f[Chosen(s)] + w[s \ {Chosen(s)}]]
  <2>2. v \in [SUBSET S -> Int]
    <3> SUFFICES ASSUME NEW s \in SUBSET S, s # {} PROVE f[Chosen(s)] + w[s \ {Chosen(s)}] \in Int
      OBVIOUS
    <3>1. Chosen(s) \in S /\ s \ {Chosen(s)} \in SUBSET S
      BY <1>0
    <3> QED BY <3>1
  <2>3. ASSUME NEW s \in Small(n) PROVE v[s] = w[s]
    BY <2>1
  <2>4. ASSUME NEW s \in Small(n + 1), s # {} PROVE s \ {Chosen(s)} \in Small(n)
    <3>1. s \in SUBSET S /\ Cardinality(s) <= n + 1
      OBVIOUS
    <3>2. Cardinality(s \ {Chosen(s)}) = Cardinality(s) - 1 /\ Cardinality(s) \in Nat
      BY <1>0, <2>4, <3>1
    <3> QED BY <3>1, <3>2
  <2>5. Upto(v, n + 1)
    <3> SUFFICES ASSUME NEW s \in Small(n + 1)
                 PROVE  v[s] = IF s = {} THEN 0 ELSE f[Chosen(s)] + v[s \ {Chosen(s)}]
      OBVIOUS
    <3>1. CASE s = {}
      BY <3>1
    <3>2. CASE s # {}
      <4>1. v[s \ {Chosen(s)}] = w[s \ {Chosen(s)}]
        BY <2>3, <2>4, <3>2
      <4> QED BY <3>2, <4>1
    <3> QED BY <3>1, <3>2
  <2> HIDE DEF Upto, v
  <2> QED BY <2>2, <2>5
<1>3. Nat \subseteq Good
  <2> HIDE DEF Good
  <2> QED BY <1>1, <1>2, FromZero
<1>4. Cardinality(S) \in Nat
  BY FS_CardinalityType
<1>5. PICK w \in [SUBSET S -> Int] : Upto(w, Cardinality(S))
  BY <1>3, <1>4
<1>6. ASSUME NEW s \in SUBSET S PROVE s \in Small(Cardinality(S))
  BY FS_Subset
<1>7. IsSum(w, f, S)
  BY <1>5, <1>6 DEF IsSum
<1> QED BY <1>7

\* The solution depends only on the set and on the values in it.
LEMMA SumUnique ==
  ASSUME NEW T, IsFiniteSet(T), NEW S \in SUBSET T, NEW f, NEW g, \A x \in S : f[x] = g[x],
         NEW w, IsSum(w, f, S), NEW v, IsSum(v, g, T)
  PROVE  w[S] = v[S]
<1> DEFINE Good == {n \in Nat : \A s \in SUBSET S : Cardinality(s) = n => w[s] = v[s]}
<1>1. ASSUME NEW s \in SUBSET S
      PROVE  /\ w[s] = IF s = {} THEN 0 ELSE f[Chosen(s)] + w[s \ {Chosen(s)}]
             /\ v[s] = IF s = {} THEN 0 ELSE g[Chosen(s)] + v[s \ {Chosen(s)}]
             /\ IsFiniteSet(s)
  <2>1. w[s] = IF s = {} THEN 0 ELSE f[Chosen(s)] + w[s \ {Chosen(s)}]
    BY DEF IsSum
  <2>2. v[s] = IF s = {} THEN 0 ELSE g[Chosen(s)] + v[s \ {Chosen(s)}]
    BY DEF IsSum
  <2>3. IsFiniteSet(s)
    BY FS_Subset
  <2> QED BY <2>1, <2>2, <2>3
<1>2. 0 \in Good
  <2> SUFFICES ASSUME NEW s \in SUBSET S, Cardinality(s) = 0 PROVE w[s] = v[s]
    OBVIOUS
  <2>1. s = {}
    BY <1>1, FS_EmptySet
  <2> QED BY <1>1, <2>1
<1>3. ASSUME NEW n \in Nat, n \in Good PROVE n + 1 \in Good
  <2> SUFFICES ASSUME NEW s \in SUBSET S, Cardinality(s) = n + 1 PROVE w[s] = v[s]
    OBVIOUS
  <2>1. IsFiniteSet(s)
    BY <1>1
  <2>2. s # {}
    BY FS_EmptySet
  <2>3. Chosen(s) \in s
    BY <2>2 DEF Chosen
  <2>4. Cardinality(s \ {Chosen(s)}) = n
    <3>1. Cardinality(s \ {Chosen(s)}) = Cardinality(s) - 1
      BY <2>1, <2>3, FS_RemoveElement
    <3> QED BY <3>1
  <2>5. w[s \ {Chosen(s)}] = v[s \ {Chosen(s)}]
    BY <1>3, <2>4
  <2>6. f[Chosen(s)] = g[Chosen(s)]
    BY <2>3
  <2> QED BY <1>1, <2>2, <2>5, <2>6
<1>4. Nat \subseteq Good
  <2> HIDE DEF Good
  <2> QED BY <1>2, <1>3, FromZero
<1>5. Cardinality(S) \in Nat
  BY FS_Subset, FS_CardinalityType
<1> QED BY <1>4, <1>5

LEMMA SumSolved ==
  ASSUME NEW S, IsFiniteSet(S), NEW f, \A x \in S : f[x] \in Int
  PROVE  \E w \in [SUBSET S -> Int] : IsSum(w, f, S) /\ SumFunctionOnSet(f, S) = w[S]
<1> DEFINE g == [x \in S |-> f[x]]
<1>1. PICK v \in [SUBSET S -> Int] : IsSum(v, g, S)
  <2>1. g \in [S -> Int]
    OBVIOUS
  <2> HIDE DEF g
  <2> QED BY <2>1, SumExists
<1>2. IsSum(v, f, S)
  <2>1. ASSUME NEW s \in SUBSET S, s # {} PROVE g[Chosen(s)] = f[Chosen(s)]
    BY <2>1 DEF Chosen
  <2> HIDE DEF g
  <2>2. v = [s \in SUBSET S |-> IF s = {} THEN 0 ELSE g[Chosen(s)] + v[s \ {Chosen(s)}]]
    BY <1>1 DEF IsSum
  <2>3. [s \in SUBSET S |-> IF s = {} THEN 0 ELSE g[Chosen(s)] + v[s \ {Chosen(s)}]]
          = [s \in SUBSET S |-> IF s = {} THEN 0 ELSE f[Chosen(s)] + v[s \ {Chosen(s)}]]
    BY <2>1
  <2> QED BY <2>2, <2>3 DEF IsSum
<1> DEFINE w == CHOOSE u : IsSum(u, f, S)
<1>3. IsSum(w, f, S)
  BY <1>2
<1>4. SumFunctionOnSet(f, S) = w[S]
  BY SumExpand
<1> HIDE DEF w
<1>5. w[S] = v[S]
  BY <1>2, <1>3, SumUnique
<1> QED BY <1>2, <1>4, <1>5

LEMMA SumSame ==
  ASSUME NEW S, IsFiniteSet(S), NEW f, NEW g, \A x \in S : f[x] = g[x] /\ f[x] \in Int
  PROVE  SumFunctionOnSet(f, S) = SumFunctionOnSet(g, S)
<1>1. PICK w \in [SUBSET S -> Int] : IsSum(w, f, S) /\ SumFunctionOnSet(f, S) = w[S]
  BY SumSolved
<1>2. PICK v \in [SUBSET S -> Int] : IsSum(v, g, S) /\ SumFunctionOnSet(g, S) = v[S]
  BY SumSolved
<1> QED BY <1>1, <1>2, SumUnique

LEMMA SumRecursion ==
  ASSUME NEW S, IsFiniteSet(S), NEW f, \A x \in S : f[x] \in Int
  PROVE  /\ SumFunctionOnSet(f, S) \in Int
         /\ S = {} => SumFunctionOnSet(f, S) = 0
         /\ S # {} => SumFunctionOnSet(f, S)
                        = f[Chosen(S)] + SumFunctionOnSet(f, S \ {Chosen(S)})
<1>1. PICK w \in [SUBSET S -> Int] : IsSum(w, f, S) /\ SumFunctionOnSet(f, S) = w[S]
  BY SumSolved
<1>2. w[S] = IF S = {} THEN 0 ELSE f[Chosen(S)] + w[S \ {Chosen(S)}]
  BY <1>1 DEF IsSum
<1> DEFINE R == S \ {Chosen(S)}
<1>3. R \in SUBSET S /\ IsFiniteSet(R) /\ \A x \in R : f[x] \in Int
  BY FS_Subset
<1> HIDE DEF R
<1>4. PICK v \in [SUBSET R -> Int] : IsSum(v, f, R) /\ SumFunctionOnSet(f, R) = v[R]
  BY <1>3, SumSolved
<1>5. v[R] = w[R]
  BY <1>1, <1>3, <1>4, SumUnique
<1> QED BY <1>1, <1>2, <1>4, <1>5 DEF R

\* A sum can be taken from any element on.
LEMMA SumPick ==
  ASSUME NEW S, IsFiniteSet(S), NEW f, \A x \in S : f[x] \in Int
  PROVE  \A x \in S : SumFunctionOnSet(f, S) = f[x] + SumFunctionOnSet(f, S \ {x})
<1> DEFINE Picks(A) == \A x \in A : SumFunctionOnSet(f, A) = f[x] + SumFunctionOnSet(f, A \ {x})
           Good == {n \in Nat : \A A \in SUBSET S : Cardinality(A) = n => Picks(A)}
<1>1. ASSUME NEW A \in SUBSET S
      PROVE  /\ IsFiniteSet(A) /\ \A x \in A : f[x] \in Int
             /\ SumFunctionOnSet(f, A) \in Int
             /\ A # {} => /\ Chosen(A) \in A
                          /\ SumFunctionOnSet(f, A)
                               = f[Chosen(A)] + SumFunctionOnSet(f, A \ {Chosen(A)})
  <2>1. IsFiniteSet(A) /\ \A x \in A : f[x] \in Int
    BY FS_Subset
  <2>2. A # {} => Chosen(A) \in A
    BY DEF Chosen
  <2> QED BY <2>1, <2>2, SumRecursion
<1>2. 0 \in Good
  <2> SUFFICES ASSUME NEW A \in SUBSET S, Cardinality(A) = 0 PROVE A = {}
    OBVIOUS
  <2> QED BY <1>1, FS_EmptySet
<1>3. ASSUME NEW n \in Nat, n \in Good PROVE n + 1 \in Good
  <2> SUFFICES ASSUME NEW A \in SUBSET S, Cardinality(A) = n + 1, NEW x \in A
               PROVE  SumFunctionOnSet(f, A) = f[x] + SumFunctionOnSet(f, A \ {x})
    OBVIOUS
  <2> DEFINE c == Chosen(A)
  <2>1. ASSUME NEW y \in A
        PROVE  A \ {y} \in SUBSET S /\ Picks(A \ {y})
    <3>1. Cardinality(A \ {y}) = Cardinality(A) - 1
      BY <1>1, FS_RemoveElement
    <3>2. Cardinality(A \ {y}) = n
      BY <3>1
    <3> QED BY <1>3, <3>2
  <2>2. c \in A /\ SumFunctionOnSet(f, A) = f[c] + SumFunctionOnSet(f, A \ {c})
    BY <1>1
  <2> HIDE DEF c, Good
  <2>3. CASE x = c
    BY <2>2, <2>3
  <2>4. CASE x # c
    <3>1. x \in A \ {c} /\ c \in A \ {x}
      BY <2>2, <2>4
    <3>2. SumFunctionOnSet(f, A \ {c}) = f[x] + SumFunctionOnSet(f, (A \ {c}) \ {x})
      BY <2>1, <2>2, <3>1
    <3>3. SumFunctionOnSet(f, A \ {x}) = f[c] + SumFunctionOnSet(f, (A \ {x}) \ {c})
      BY <2>1, <3>1
    <3>4. (A \ {x}) \ {c} = (A \ {c}) \ {x}
      OBVIOUS
    <3> DEFINE rest == SumFunctionOnSet(f, (A \ {c}) \ {x})
    <3>5. rest \in Int /\ f[x] \in Int /\ f[c] \in Int
      BY <1>1, <2>2
    <3>6. SumFunctionOnSet(f, A \ {c}) = f[x] + rest /\ SumFunctionOnSet(f, A \ {x}) = f[c] + rest
      BY <3>2, <3>3, <3>4
    <3> HIDE DEF rest
    <3> QED BY <2>2, <3>5, <3>6
  <2> QED BY <2>3, <2>4
<1>4. Nat \subseteq Good
  <2> HIDE DEF Good
  <2> QED BY <1>2, <1>3, FromZero
<1>5. Cardinality(S) \in Nat
  BY FS_CardinalityType
<1> QED BY <1>4, <1>5

LEMMA SumAdd ==
  ASSUME NEW S, IsFiniteSet(S), NEW f, \A x \in S : f[x] \in Int, NEW x, x \notin S, f[x] \in Int
  PROVE  SumFunctionOnSet(f, S \cup {x}) = SumFunctionOnSet(f, S) + f[x]
<1> DEFINE T == S \cup {x}
<1>1. IsFiniteSet(T) /\ (\A y \in T : f[y] \in Int) /\ x \in T /\ T \ {x} = S
  BY FS_AddElement
<1> HIDE DEF T
<1>2. SumFunctionOnSet(f, T) = f[x] + SumFunctionOnSet(f, T \ {x})
  BY <1>1, SumPick
<1>3. SumFunctionOnSet(f, S) \in Int
  BY SumRecursion
<1>4. SumFunctionOnSet(f, T) = f[x] + SumFunctionOnSet(f, S)
  BY <1>1, <1>2
<1>5. f[x] + SumFunctionOnSet(f, S) = SumFunctionOnSet(f, S) + f[x]
  BY <1>3
<1> QED BY <1>4, <1>5 DEF T

\* The sum over a set is that over a part and that over the rest.
LEMMA SumSplit ==
  ASSUME NEW S, IsFiniteSet(S), NEW f, \A x \in S : f[x] \in Int, NEW T \in SUBSET S
  PROVE  SumFunctionOnSet(f, S) = SumFunctionOnSet(f, T) + SumFunctionOnSet(f, S \ T)
<1> DEFINE Good == {A \in SUBSET S :
             SumFunctionOnSet(f, S) = SumFunctionOnSet(f, A) + SumFunctionOnSet(f, S \ A)}
<1>1. ASSUME NEW A \in SUBSET S
      PROVE  /\ IsFiniteSet(A) /\ \A x \in A : f[x] \in Int
             /\ SumFunctionOnSet(f, A) \in Int
  <2>1. IsFiniteSet(A) /\ \A x \in A : f[x] \in Int
    BY FS_Subset
  <2> QED BY <2>1, SumRecursion
<1>2. {} \in Good
  <2>1. SumFunctionOnSet(f, {}) = 0 /\ SumFunctionOnSet(f, S) \in Int /\ S \ {} = S
    BY <1>1, FS_EmptySet, SumRecursion
  <2> QED BY <2>1
<1>3. ASSUME NEW A \in SUBSET T, NEW x \in T \ A, A \in Good PROVE A \cup {x} \in Good
  <2>1. A \in SUBSET S /\ x \in S /\ x \notin A /\ f[x] \in Int /\ S \ A \in SUBSET S /\ x \in S \ A
    OBVIOUS
  <2>2. SumFunctionOnSet(f, A \cup {x}) = SumFunctionOnSet(f, A) + f[x]
    BY <1>1, <2>1, SumAdd
  <2>3. SumFunctionOnSet(f, S \ A) = f[x] + SumFunctionOnSet(f, (S \ A) \ {x})
    BY <1>1, <2>1, SumPick
  <2>4. (S \ A) \ {x} = S \ (A \cup {x}) /\ A \cup {x} \in SUBSET S /\ S \ (A \cup {x}) \in SUBSET S
    BY <2>1
  <2> DEFINE a == SumFunctionOnSet(f, A)
             b == SumFunctionOnSet(f, S \ (A \cup {x}))
  <2>5. a \in Int /\ b \in Int
    BY <1>1, <2>1, <2>4
  <2>6. SumFunctionOnSet(f, S) = a + SumFunctionOnSet(f, S \ A)
    BY <1>3
  <2>7. SumFunctionOnSet(f, S \ A) = f[x] + b
    BY <2>3, <2>4
  <2>8. SumFunctionOnSet(f, A \cup {x}) = a + f[x]
    BY <2>2
  <2> HIDE DEF a, b
  <2>9. SumFunctionOnSet(f, S) = (a + f[x]) + b
    BY <2>1, <2>5, <2>6, <2>7
  <2>10. SumFunctionOnSet(f, S) = SumFunctionOnSet(f, A \cup {x}) + b
    BY <2>8, <2>9
  <2> QED BY <2>4, <2>10 DEF b
<1>4. IsFiniteSet(T)
  BY FS_Subset
<1>5. T \in Good
  <2> HIDE DEF Good
  <2> QED BY <1>2, <1>3, <1>4, FromEmpty
<1> QED BY <1>5

\* A sum of natural numbers is at least the sum of a part.
LEMMA SumNat ==
  ASSUME NEW S, IsFiniteSet(S), NEW f, \A x \in S : f[x] \in Nat
  PROVE  SumFunctionOnSet(f, S) \in Nat
<1> DEFINE Good == {A \in SUBSET S : SumFunctionOnSet(f, A) \in Nat}
<1>1. {} \in Good
  BY FS_EmptySet, SumRecursion
<1>2. ASSUME NEW A \in SUBSET S, NEW x \in S \ A, A \in Good PROVE A \cup {x} \in Good
  <2>1. IsFiniteSet(A) /\ \A y \in A : f[y] \in Int
    BY FS_Subset
  <2>2. SumFunctionOnSet(f, A \cup {x}) = SumFunctionOnSet(f, A) + f[x]
    BY <2>1, SumAdd
  <2> QED BY <1>2, <2>2
<1>3. S \in Good
  <2> HIDE DEF Good
  <2> QED BY <1>1, <1>2, FromEmpty
<1> QED BY <1>3

LEMMA SumPart ==
  ASSUME NEW S, IsFiniteSet(S), NEW f, \A x \in S : f[x] \in Nat, NEW T \in SUBSET S
  PROVE  SumFunctionOnSet(f, T) <= SumFunctionOnSet(f, S)
<1>1. IsFiniteSet(T) /\ IsFiniteSet(S \ T)
  BY FS_Subset
<1>2. SumFunctionOnSet(f, T) \in Nat /\ SumFunctionOnSet(f, S \ T) \in Nat
  BY <1>1, SumNat
<1>3. SumFunctionOnSet(f, S) = SumFunctionOnSet(f, T) + SumFunctionOnSet(f, S \ T)
  BY SumSplit
<1> QED BY <1>2, <1>3

\* The elements of a list are finitely many.
LEMMA ListFinite ==
  ASSUME NEW S, NEW s \in Seq(S)
  PROVE  IsFiniteSet(Range(s))
<1> DEFINE C == {A \in SUBSET (1..Len(s)) : IsFiniteSet({s[i] : i \in A})}
<1>1. {} \in C
  <2>1. {s[i] : i \in {}} = {}
    OBVIOUS
  <2> QED BY <2>1, FS_EmptySet
<1>2. ASSUME NEW A \in SUBSET (1..Len(s)), NEW x \in (1..Len(s)) \ A, A \in C PROVE A \cup {x} \in C
  <2>1. {s[i] : i \in A \cup {x}} = {s[i] : i \in A} \cup {s[x]}
    OBVIOUS
  <2>2. IsFiniteSet({s[i] : i \in A} \cup {s[x]})
    BY <1>2, FS_AddElement
  <2> QED BY <2>1, <2>2
<1>3. IsFiniteSet(1..Len(s))
  BY FS_Interval
<1>4. 1..Len(s) \in C
  <2> HIDE DEF C
  <2> QED BY <1>1, <1>2, <1>3, FromEmpty
<1>5. Range(s) = {s[i] : i \in 1..Len(s)}
  BY DEF Range
<1> QED BY <1>4, <1>5
==============================================================================
