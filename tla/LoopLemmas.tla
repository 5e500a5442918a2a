---------------------------- MODULE LoopLemmas -----------------------------
(***************************************************************************)
(* What proofs about loops need: induction over the natural numbers, the   *)
(* existence of functions defined by recursion over an interval, and what  *)
(* SumOf does when a sequence gains or loses an element.  A proof by       *)
(* induction names the set of the numbers it is about, and a recursive     *)
(* definition names the function that makes one step.                      *)
(***************************************************************************)
EXTENDS SeqSums, SequencesExt, SequenceTheorems, WellFoundedInduction,
        FiniteSetTheorems, TLAPS

-----------------------------------------------------------------------------
(* Induction.                                                              *)

\* A nonempty set of naturals has a least element.  The intervals 0..n of its
\* elements have a minimal one, strict inclusion of finite sets being well-founded.
LEMMA NatMin ==
  ASSUME NEW S, S \subseteq Nat, S # {}
  PROVE  \E x \in S : \A y \in S : x <= y
<1> DEFINE T == {0..n : n \in S}
<1>1. IsWellFoundedOn(StrictSubsetOrdering(Nat), FiniteSubsetsOf(Nat))
  BY FS_StrictSubsetOrderingWellFounded
<1>2. T \subseteq FiniteSubsetsOf(Nat)
  <2>1. \A n \in S : IsFiniteSet(0..n) /\ 0..n \in SUBSET Nat BY FS_Interval
  <2>2. QED BY <2>1 DEF FiniteSubsetsOf
<1>3. T # {}
  OBVIOUS
<1>4. \E x \in T : \A y \in T : ~ (<<y, x>> \in StrictSubsetOrdering(Nat))
  <2> HIDE DEF T
  <2> QED BY <1>1, <1>2, <1>3, WFMin
<1>5. PICK n \in S :
        \A m \in S : ~ (<<0..m, 0..n>> \in StrictSubsetOrdering(Nat))
  BY <1>4
<1>6. \A m \in S : n <= m
  <2> SUFFICES ASSUME NEW m \in S, ~(n <= m) PROVE FALSE
    OBVIOUS
  <2>1. 0..m \subseteq 0..n /\ n \in 0..n /\ n \notin 0..m
    OBVIOUS
  <2>2. <<0..m, 0..n>> \in StrictSubsetOrdering(Nat)
    BY <2>1 DEF StrictSubsetOrdering
  <2> QED BY <2>2, <1>5
<1>7. QED BY <1>6

\* Induction: a set that has 0 and, with a natural, its successor has them all.
LEMMA NatInd ==
  ASSUME NEW S, 0 \in S, \A n \in Nat : n \in S => n+1 \in S
  PROVE  Nat \subseteq S
<1>1. SUFFICES ASSUME Nat \ S # {} PROVE FALSE
  OBVIOUS
<1>2. PICK x \in Nat \ S : \A y \in Nat \ S : x <= y
  BY <1>1, NatMin
<1>3. x # 0
  BY <1>2
<1>4. x-1 \in Nat /\ ~(x <= x-1)
  BY <1>3
<1>5. x-1 \in S
  BY <1>2, <1>4
<1>6. QED BY <1>5, <1>4, <1>2

\* Induction up to a bound.
LEMMA IntervalInd ==
  ASSUME NEW n \in Nat, NEW S, 0 \in S,
         \A k \in 1..n : k-1 \in S => k \in S
  PROVE  0..n \subseteq S
<1> DEFINE T == {k \in Nat : k \in 0..n => k \in S}
<1>1. 0 \in T
  OBVIOUS
<1>2. \A k \in Nat : k \in T => k+1 \in T
  <2> SUFFICES ASSUME NEW k \in Nat, k \in T, k+1 \in 0..n PROVE k+1 \in S
    OBVIOUS
  <2>1. k \in S /\ k+1 \in 1..n /\ (k+1)-1 = k
    OBVIOUS
  <2> QED BY <2>1
<1>3. Nat \subseteq T
  <2> HIDE DEF T
  <2> QED BY <1>1, <1>2, NatInd
<1>4. QED BY <1>3

\* f records n steps in S from start.
Records(f, S, start, n, step) ==
  /\ f \in [0..n -> S]
  /\ f[0] = start
  /\ \A k \in 1..n : f[k] = step[<<f[k-1], k>>]

\* From a start in S and a step that stays in S there are n steps to record: the
\* loops of the code that go once through a sequence are of this form.
LEMMA RecursionExists ==
  ASSUME NEW S, NEW start \in S, NEW n \in Nat,
         NEW step \in [S \X (1..n) -> S]
  PROVE  \E f : Records(f, S, start, n, step)
<1> DEFINE Steps(f, m) ==
             f[0] = start /\ \A k \in 1..m : f[k] = step[<<f[k-1], k>>]
           T == {m \in 0..n : \E f \in [0..m -> S] : Steps(f, m)}
<1>1. 0 \in T
  <2> DEFINE f == [k \in 0..0 |-> start]
  <2>1. f \in [0..0 -> S] /\ Steps(f, 0)
    OBVIOUS
  <2>2. \E g \in [0..0 -> S] : Steps(g, 0)
    <3> HIDE DEF f, Steps
    <3> QED BY <2>1
  <2>3. 0 \in 0..n
    OBVIOUS
  <2> QED BY <2>2, <2>3
<1>2. \A m \in 1..n : m-1 \in T => m \in T
  <2> TAKE m \in 1..n
  <2> HAVE m-1 \in T
  <2>0. PICK f \in [0..(m-1) -> S] : Steps(f, m-1)
    OBVIOUS
  <2> SUFFICES \E g \in [0..m -> S] : Steps(g, m)
    OBVIOUS
  <2> DEFINE g == [k \in 0..m |-> IF k = m THEN step[<<f[m-1], m>>] ELSE f[k]]
  <2>1. m-1 \in 0..(m-1) /\ f[m-1] \in S
    OBVIOUS
  <2>2. step[<<f[m-1], m>>] \in S
    BY <2>1
  <2>3. g \in [0..m -> S]
    BY <2>2
  <2>4. g[0] = start
    BY <2>0
  <2>5. \A k \in 1..m : g[k] = step[<<g[k-1], k>>]
    <3> TAKE k \in 1..m
    <3>1. CASE k = m
      <4>1. m-1 \in 0..m /\ m-1 # m /\ m \in 0..m
        OBVIOUS
      <4>2. g[m-1] = f[m-1] /\ g[m] = step[<<f[m-1], m>>]
        BY <4>1
      <4>3. g[m] = step[<<g[m-1], m>>]
        <5> HIDE DEF g
        <5> QED BY <4>2
      <4> QED BY <3>1, <4>3
    <3>2. CASE k # m
      <4>1. k \in 1..(m-1) /\ k-1 \in 0..m /\ k-1 # m /\ k \in 0..m
        BY <3>2
      <4>2. g[k-1] = f[k-1] /\ g[k] = f[k]
        BY <4>1, <3>2
      <4> QED BY <2>0, <4>1, <4>2
    <3> QED BY <3>1, <3>2
  <2>6. QED BY <2>3, <2>4, <2>5
<1>3. 0..n \subseteq T
  <2> HIDE DEF T
  <2> QED BY <1>1, <1>2, IntervalInd
<1>4. n \in T
  <2> HIDE DEF T
  <2>1. n \in 0..n
    OBVIOUS
  <2> QED BY <1>3, <2>1
<1>5. QED BY <1>4 DEF Records

-----------------------------------------------------------------------------
(* Sums.                                                                   *)

\* SumTrace is the function its definition describes.
LEMMA SumTraceDef ==
  ASSUME NEW t \in Seq(Int)
  PROVE  /\ SumTrace(t) \in [0..Len(t) -> Int]
         /\ SumTrace(t)[0] = 0
         /\ \A k \in 1..Len(t) : SumTrace(t)[k] = SumTrace(t)[k-1] + t[k]
<1> DEFINE n == Len(t)
           step == [p \in Int \X (1..n) |-> p[1] + t[p[2]]]
           body(f) == [k \in 0..n |-> IF k = 0 THEN 0 ELSE f[k-1] + t[k]]
<1>0. n \in Nat /\ \A k \in 1..n : t[k] \in Int
  OBVIOUS
<1> HIDE DEF n
<1>1. step \in [Int \X (1..n) -> Int]
  BY <1>0
<1>2. PICK f : Records(f, Int, 0, n, step)
  <2> DEFINE S == Int
  <2>1. 0 \in S /\ step \in [S \X (1..n) -> S] /\ n \in Nat
    BY <1>0, <1>1
  <2>2. \E f : Records(f, S, 0, n, step)
    <3> HIDE DEF S, step
    <3> QED BY <2>1, RecursionExists, Zenon
  <2> QED BY <2>2
<1>3. \A k \in 1..n : f[k] = f[k-1] + t[k]
  <2> TAKE k \in 1..n
  <2>1. k-1 \in 0..n
    BY <1>0
  <2>2. <<f[k-1], k>> \in Int \X (1..n)
    BY <1>2, <2>1 DEF Records
  <2> QED BY <1>2, <2>2 DEF Records
<1>4. f = body(f)
  BY <1>0, <1>2, <1>3 DEF Records
<1>5. SumTrace(t) = body(SumTrace(t))
  BY <1>4 DEF SumTrace, n
<1> DEFINE g == SumTrace(t)
<1>6. g[0] = 0 /\ \A k \in 1..n : g[k] = g[k-1] + t[k]
  <2>1. g = [k \in 0..n |-> IF k = 0 THEN 0 ELSE g[k-1] + t[k]]
    BY <1>5
  <2> HIDE DEF g
  <2>2. \A k \in 1..n : k \in 0..n /\ k # 0
    BY <1>0
  <2> QED BY <1>0, <2>1, <2>2
<1>7. \A k \in 0..n : g[k] \in Int
  <2> DEFINE S == {k \in 0..n : g[k] \in Int}
  <2> HIDE DEF g
  <2>1. 0 \in S
    BY <1>0, <1>6
  <2>2. \A k \in 1..n : k-1 \in S => k \in S
    <3> TAKE k \in 1..n
    <3>1. k \in 0..n /\ g[k] = g[k-1] + t[k] /\ t[k] \in Int
      BY <1>0, <1>6
    <3> QED BY <3>1
  <2>3. 0..n \subseteq S
    <3> HIDE DEF S
    <3> QED BY <1>0, <2>1, <2>2, IntervalInd
  <2> QED BY <2>3
<1>8. g \in [0..n -> Int]
  <2>1. g = [k \in 0..n |-> IF k = 0 THEN 0 ELSE g[k-1] + t[k]]
    BY <1>5
  <2> HIDE DEF g
  <2> QED BY <1>7, <2>1
<1>9. QED BY <1>6, <1>8 DEF n

\* The sum of integers is an integer, that of none is zero.
LEMMA SumOfInt ==
  ASSUME NEW t \in Seq(Int)
  PROVE  SumOf(t) \in Int /\ (t = <<>> => SumOf(t) = 0)
<1>1. Len(t) \in 0..Len(t) /\ (t = <<>> => Len(t) = 0)
  OBVIOUS
<1>2. QED BY <1>1, SumTraceDef DEF SumOf

\* Sequences that agree up to n have the same partial sums up to n.
LEMMA SumTraceAgrees ==
  ASSUME NEW t \in Seq(Int), NEW u \in Seq(Int), NEW n \in Nat,
         n <= Len(t), n <= Len(u), \A k \in 1..n : t[k] = u[k]
  PROVE  \A k \in 0..n : SumTrace(t)[k] = SumTrace(u)[k]
<1> DEFINE f == SumTrace(t)
           g == SumTrace(u)
           S == {k \in 0..n : f[k] = g[k]}
<1>1. /\ f[0] = 0 /\ \A k \in 1..Len(t) : f[k] = f[k-1] + t[k]
      /\ g[0] = 0 /\ \A k \in 1..Len(u) : g[k] = g[k-1] + u[k]
  BY SumTraceDef
<1> HIDE DEF f, g
<1>2. 0 \in S
  BY <1>1
<1>3. \A k \in 1..n : k-1 \in S => k \in S
  <2> TAKE k \in 1..n
  <2>1. k \in 1..Len(t) /\ k \in 1..Len(u) /\ k \in 0..n
    OBVIOUS
  <2> QED BY <1>1, <2>1
<1>4. 0..n \subseteq S
  <2> HIDE DEF S
  <2> QED BY <1>2, <1>3, IntervalInd
<1>5. QED BY <1>4 DEF f, g

\* Appending an element adds it.
LEMMA SumOfAppend ==
  ASSUME NEW t \in Seq(Int), NEW x \in Int
  PROVE  SumOf(Append(t, x)) = SumOf(t) + x
<1> DEFINE u == Append(t, x)
           n == Len(t)
<1>1. /\ u \in Seq(Int) /\ n \in Nat /\ Len(u) = n + 1 /\ u[n+1] = x
      /\ \A k \in 1..n : t[k] = u[k]
  OBVIOUS
<1>2. n <= Len(t) /\ n <= Len(u)
  OBVIOUS
<1> HIDE DEF u, n
<1>3. \A k \in 0..n : SumTrace(t)[k] = SumTrace(u)[k]
  BY <1>1, <1>2, SumTraceAgrees
<1>4. SumTrace(u)[n+1] = SumTrace(u)[n] + x
  <2>1. n+1 \in 1..Len(u) /\ (n+1)-1 = n
    BY <1>1
  <2> QED BY <1>1, <2>1, SumTraceDef
<1>5. SumTrace(u)[n] = SumTrace(t)[n]
  BY <1>1, <1>3
<1>6. QED BY <1>1, <1>4, <1>5 DEF SumOf, u, n

\* RemoveAt, element by element.
LEMMA RemoveAtDef ==
  ASSUME NEW E, NEW s \in Seq(E), NEW i \in 1..Len(s)
  PROVE  /\ RemoveAt(s, i) \in Seq(E)
         /\ Len(RemoveAt(s, i)) = Len(s) - 1
         /\ \A k \in 1..Len(s)-1 :
              RemoveAt(s, i)[k] = IF k < i THEN s[k] ELSE s[k+1]
<1>1. /\ SubSeq(s, 1, i-1) \in Seq(E) /\ Len(SubSeq(s, 1, i-1)) = i-1
      /\ \A k \in 1..i-1 : SubSeq(s, 1, i-1)[k] = s[k]
  OBVIOUS
<1>2. /\ SubSeq(s, i+1, Len(s)) \in Seq(E)
      /\ Len(SubSeq(s, i+1, Len(s))) = Len(s)-i
      /\ \A k \in 1..Len(s)-i : SubSeq(s, i+1, Len(s))[k] = s[i+k]
  OBVIOUS
<1> DEFINE a == SubSeq(s, 1, i-1)
           b == SubSeq(s, i+1, Len(s))
<1>3. RemoveAt(s, i) = a \o b
  BY DEF RemoveAt
<1>4. Len(s) \in Nat /\ i \in 1..Len(s)
  OBVIOUS
<1> HIDE DEF a, b
<1>5. /\ a \in Seq(E) /\ Len(a) = i-1 /\ b \in Seq(E)
      /\ Len(b) = Len(s)-i
  BY <1>1, <1>2 DEF a, b
<1>6. /\ a \o b \in Seq(E)
      /\ Len(a \o b) = Len(a) + Len(b)
      /\ \A k \in 1..Len(a) + Len(b) :
           (a \o b)[k] = IF k <= Len(a) THEN a[k] ELSE b[k - Len(a)]
  BY <1>5, ConcatProperties
<1>7. Len(a) + Len(b) = Len(s) - 1
  BY <1>4, <1>5
<1>8. \A k \in 1..Len(s)-1 : (a \o b)[k] = IF k < i THEN s[k] ELSE s[k+1]
  <2> TAKE k \in 1..Len(s)-1
  <2>1. (a \o b)[k] = IF k <= Len(a) THEN a[k] ELSE b[k - Len(a)]
    BY <1>6, <1>7
  <2>2. CASE k < i
    <3>1. k <= Len(a) /\ a[k] = s[k]
      BY <1>1, <1>4, <2>2 DEF a
    <3> QED BY <2>1, <2>2, <3>1
  <2>3. CASE ~(k < i)
    <3>1. ~(k <= Len(a)) /\ k - Len(a) \in 1..Len(s)-i /\ i + (k - Len(a)) = k+1
      BY <1>1, <1>4, <2>3 DEF a
    <3>2. b[k - Len(a)] = s[i + (k - Len(a))]
      BY <1>2, <3>1 DEF b
    <3> QED BY <2>1, <2>3, <3>1, <3>2
  <2> QED BY <2>2, <2>3
<1>9. QED BY <1>3, <1>6, <1>7, <1>8

\* The same for sequences of integers.
LEMMA RemoveAtInt ==
  ASSUME NEW t \in Seq(Int), NEW i \in 1..Len(t)
  PROVE  /\ RemoveAt(t, i) \in Seq(Int)
         /\ Len(RemoveAt(t, i)) = Len(t) - 1
         /\ \A k \in 1..Len(t)-1 :
              RemoveAt(t, i)[k] = IF k < i THEN t[k] ELSE t[k+1]
<1> DEFINE E == Int
<1>1. t \in Seq(E)
  OBVIOUS
<1> HIDE DEF E
<1>2. /\ RemoveAt(t, i) \in Seq(E)
      /\ Len(RemoveAt(t, i)) = Len(t) - 1
      /\ \A k \in 1..Len(t)-1 :
           RemoveAt(t, i)[k] = IF k < i THEN t[k] ELSE t[k+1]
  BY <1>1, RemoveAtDef
<1>3. QED BY <1>2 DEF E

\* Removing an element subtracts it.
LEMMA SumOfRemoveAt ==
  ASSUME NEW t \in Seq(Int), NEW i \in 1..Len(t)
  PROVE  SumOf(RemoveAt(t, i)) = SumOf(t) - t[i]
<1> DEFINE u == RemoveAt(t, i)
           n == Len(t)
           f == SumTrace(t)
           g == SumTrace(u)
           S == {k \in 0..n-1 : g[k] = IF k < i THEN f[k] ELSE f[k+1] - t[i]}
<1>1. /\ u \in Seq(Int) /\ n \in Nat /\ Len(u) = n-1
      /\ \A k \in 1..n-1 : u[k] = IF k < i THEN t[k] ELSE t[k+1]
  <2>1. /\ u \in Seq(Int) /\ Len(u) = Len(t) - 1
        /\ \A k \in 1..Len(t)-1 : u[k] = IF k < i THEN t[k] ELSE t[k+1]
    <3> HIDE DEF f, g, S
    <3> QED BY ONLY RemoveAtInt, t \in Seq(Int), i \in 1..Len(t) DEF u
  <2> QED BY <2>1
<1>2. i \in 1..n /\ \A k \in 1..n : t[k] \in Int
  OBVIOUS
<1> HIDE DEF u, n
<1>3. /\ f \in [0..n -> Int] /\ f[0] = 0
      /\ \A k \in 1..n : f[k] = f[k-1] + t[k]
  BY SumTraceDef DEF n
<1>4. /\ g \in [0..n-1 -> Int] /\ g[0] = 0
      /\ \A k \in 1..n-1 : g[k] = g[k-1] + u[k]
  BY <1>1, SumTraceDef
<1> HIDE DEF f, g
<1>5. 0 \in S
  BY <1>1, <1>2, <1>3, <1>4
<1>6. \A k \in 1..n-1 : k-1 \in S => k \in S
  <2> TAKE k \in 1..n-1
  <2> HAVE k-1 \in S
  <2>1. /\ k \in 0..n-1 /\ k \in 1..n /\ k+1 \in 1..n /\ k-1 \in 0..n
        /\ k+1 \in 0..n /\ k \in 0..n
        /\ (k+1)-1 = k /\ (k-1)+1 = k /\ n \in Int /\ i \in Int
    BY <1>1, <1>2
  <2>2. /\ f[k-1] \in Int /\ f[k] \in Int /\ f[k+1] \in Int
        /\ t[i] \in Int /\ t[k] \in Int /\ t[k+1] \in Int
    BY <1>2, <1>3, <2>1
  <2>3. f[k] = f[k-1] + t[k] /\ f[k+1] = f[k] + t[k+1] /\ g[k] = g[k-1] + u[k]
    BY <1>3, <1>4, <2>1
  <2>4. g[k-1] = IF k-1 < i THEN f[k-1] ELSE f[k] - t[i]
    BY <2>1
  <2>5. u[k] = IF k < i THEN t[k] ELSE t[k+1]
    BY <1>1
  <2>6. CASE k < i
    <3>1. g[k] = f[k]
      BY <2>1, <2>2, <2>3, <2>4, <2>5, <2>6
    <3> QED BY <2>1, <2>6, <3>1
  <2>7. CASE k = i
    <3>1. g[k-1] = f[k-1] /\ u[k] = t[k+1] /\ t[k] = t[i]
      BY <2>1, <2>4, <2>5, <2>7
    <3>2. g[k] = f[k+1] - t[i]
      <4> DEFINE a == f[k-1]
                 x == t[k+1]
                 y == t[i]
                 b == g[k]
                 c == f[k+1]
      <4>1. b = a + x /\ c = (a + y) + x /\ a \in Int /\ x \in Int /\ y \in Int
        BY <2>2, <2>3, <3>1
      <4> HIDE DEF S, a, x, y, b, c
      <4>2. b = c - y
        BY <4>1
      <4> QED BY <4>2 DEF b, c, y
    <3> QED BY <2>1, <2>7, <3>2
  <2>8. CASE k > i
    <3>1. g[k-1] = f[k] - t[i] /\ u[k] = t[k+1]
      BY <2>1, <2>4, <2>5, <2>8
    <3>2. g[k] = f[k+1] - t[i]
      <4> DEFINE a == f[k]
                 x == t[k+1]
                 y == t[i]
                 b == g[k]
                 c == f[k+1]
      <4>1. b = (a - y) + x /\ c = a + x /\ a \in Int /\ x \in Int /\ y \in Int
        BY <2>2, <2>3, <3>1
      <4> HIDE DEF S, a, x, y, b, c
      <4>2. b = c - y
        BY <4>1
      <4> QED BY <4>2 DEF b, c, y
    <3> QED BY <2>1, <2>8, <3>2
  <2> QED BY <2>1, <2>6, <2>7, <2>8
<1>7. 0..n-1 \subseteq S
  <2>1. n-1 \in Nat
    BY <1>1, <1>2
  <2> HIDE DEF S
  <2> QED BY <1>5, <1>6, <2>1, IntervalInd
<1>8. g[n-1] = f[n] - t[i]
  <2>1. n-1 \in S /\ (n-1)+1 = n
    BY <1>1, <1>2, <1>7
  <2>2. CASE n-1 < i
    <3>1. n = i /\ n \in 1..n
      BY <1>1, <1>2, <2>2
    <3>2. f[n] = f[n-1] + t[i] /\ f[n-1] \in Int /\ t[i] \in Int
      BY <1>1, <1>2, <1>3, <3>1
    <3> QED BY <2>1, <2>2, <3>2
  <2>3. CASE ~(n-1 < i)
    BY <2>1, <2>3
  <2> QED BY <2>2, <2>3
<1>9. QED BY <1>1, <1>8 DEF SumOf, f, g, u, n

\* A sum of naturals is a natural.
LEMMA SumOfNat ==
  ASSUME NEW t \in Seq(Int), \A k \in 1..Len(t) : t[k] >= 0
  PROVE  SumOf(t) \in Nat
<1> DEFINE n == Len(t)
           f == SumTrace(t)
           S == {k \in 0..n : f[k] \in Nat}
<1>1. n \in Nat /\ \A k \in 1..n : t[k] \in Nat
  OBVIOUS
<1>2. f[0] = 0 /\ \A k \in 1..n : f[k] = f[k-1] + t[k]
  BY SumTraceDef
<1> HIDE DEF f, n
<1>3. 0 \in S
  BY <1>1, <1>2
<1>4. \A k \in 1..n : k-1 \in S => k \in S
  <2> TAKE k \in 1..n
  <2>1. k \in 0..n /\ f[k] = f[k-1] + t[k] /\ t[k] \in Nat
    BY <1>1, <1>2
  <2> QED BY <2>1
<1>5. 0..n \subseteq S
  <2> HIDE DEF S
  <2> QED BY <1>1, <1>3, <1>4, IntervalInd
<1>6. QED BY <1>1, <1>5 DEF SumOf, f, n

\* No element of a sequence of naturals exceeds the sum.
LEMMA ElementAtMostSum ==
  ASSUME NEW t \in Seq(Int), \A k \in 1..Len(t) : t[k] >= 0,
         NEW i \in 1..Len(t)
  PROVE  t[i] <= SumOf(t)
<1> DEFINE u == RemoveAt(t, i)
<1>1. /\ u \in Seq(Int) /\ Len(u) = Len(t) - 1
      /\ \A k \in 1..Len(t)-1 : u[k] = IF k < i THEN t[k] ELSE t[k+1]
  BY RemoveAtInt
<1>2. SumOf(u) = SumOf(t) - t[i]
  BY SumOfRemoveAt
<1> HIDE DEF u
<1>3. \A k \in 1..Len(u) : u[k] >= 0
  <2> TAKE k \in 1..Len(u)
  <2>1. k \in 1..Len(t)-1 /\ k \in 1..Len(t) /\ k+1 \in 1..Len(t)
    BY <1>1
  <2>2. u[k] = t[k] \/ u[k] = t[k+1]
    BY <1>1, <2>1
  <2> QED BY <2>1, <2>2
<1>4. SumOf(u) \in Nat
  BY <1>1, <1>3, SumOfNat
<1>5. QED BY <1>2, <1>4, SumOfInt

\* A sequence whose elements are all zero but the i-th sums to the i-th.
LEMMA SumOfZeros ==
  ASSUME NEW t \in Seq(Int), \A k \in 1..Len(t) : t[k] = 0
  PROVE  SumOf(t) = 0
<1> DEFINE n == Len(t)
           f == SumTrace(t)
           S == {k \in 0..n : f[k] = 0}
<1>1. n \in Nat /\ \A k \in 1..n : t[k] = 0
  OBVIOUS
<1>2. f[0] = 0 /\ \A k \in 1..n : f[k] = f[k-1] + t[k]
  BY SumTraceDef
<1> HIDE DEF f, n
<1>3. 0 \in S
  BY <1>1, <1>2
<1>4. \A k \in 1..n : k-1 \in S => k \in S
  <2> TAKE k \in 1..n
  <2> HAVE k-1 \in S
  <2>1. k \in 0..n /\ f[k] = f[k-1] + t[k] /\ t[k] = 0 /\ f[k-1] = 0
    BY <1>1, <1>2
  <2>2. f[k] = 0
    BY <2>1
  <2> QED BY <2>1, <2>2
<1>5. 0..n \subseteq S
  <2> HIDE DEF S
  <2> QED BY <1>1, <1>3, <1>4, IntervalInd
<1>6. QED BY <1>1, <1>5 DEF SumOf, f, n

\* A sequence with one element that is not zero sums to that element.
LEMMA SumOfSingle ==
  ASSUME NEW t \in Seq(Int), NEW i \in 1..Len(t),
         \A k \in 1..Len(t) : k # i => t[k] = 0
  PROVE  SumOf(t) = t[i]
<1> DEFINE u == RemoveAt(t, i)
<1>1. /\ u \in Seq(Int) /\ Len(u) = Len(t) - 1
      /\ \A k \in 1..Len(t)-1 : u[k] = IF k < i THEN t[k] ELSE t[k+1]
  BY RemoveAtInt
<1>2. SumOf(u) = SumOf(t) - t[i]
  BY SumOfRemoveAt
<1> HIDE DEF u
<1>3. \A k \in 1..Len(u) : u[k] = 0
  <2> TAKE k \in 1..Len(u)
  <2>1. /\ k \in 1..Len(t)-1 /\ k \in 1..Len(t) /\ k+1 \in 1..Len(t)
        /\ (k < i => k # i) /\ (~(k < i) => k+1 # i)
    BY <1>1
  <2>2. u[k] = IF k < i THEN t[k] ELSE t[k+1]
    BY <1>1, <2>1
  <2> QED BY <2>1, <2>2
<1>4. SumOf(u) = 0
  BY <1>1, <1>3, SumOfZeros
<1>5. QED BY <1>2, <1>4, SumOfInt

=============================================================================
