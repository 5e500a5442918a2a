---------------------------- MODULE ServerProofs ---------------------------
(***************************************************************************)
(* What the two threads may do to the container of connections, for any    *)
(* number of connections and messages.                                     *)
(***************************************************************************)
EXTENDS Server, LoopLemmas

-----------------------------------------------------------------------------
(* The pointers of a sequence that are not null.                           *)

Elements == Conns \cup {None}

\* NonNullTrace is the function its definition describes.
LEMMA NonNullTraceDef ==
  ASSUME NEW s \in Seq(Elements)
  PROVE  /\ NonNullTrace(s) \in [0..Len(s) -> Seq(Conns)]
         /\ NonNullTrace(s)[0] = <<>>
         /\ \A k1 \in 1..Len(s) :
              NonNullTrace(s)[k1] = IF s[k1] = None THEN NonNullTrace(s)[k1-1]
                                    ELSE Append(NonNullTrace(s)[k1-1], s[k1])
<1> DEFINE n == Len(s)
           one(q, i) == IF s[i] = None THEN q ELSE Append(q, s[i])
           step == [p \in Seq(Conns) \X (1..n) |-> one(p[1], p[2])]
           body(f) == [i \in 0..n |-> IF i = 0 THEN <<>> ELSE one(f[i-1], i)]
<1>0. n \in Nat /\ \A i \in 1..n : s[i] = None \/ s[i] \in Conns
  <2>1. \A i \in 1..n : s[i] \in Elements
    BY ElementOfSeq
  <2> QED BY <2>1, LenProperties DEF Elements
<1>s. \A q \in Seq(Conns), i \in 1..n : one(q, i) \in Seq(Conns)
  BY <1>0, AppendProperties
<1> HIDE DEF n
<1>1. step \in [Seq(Conns) \X (1..n) -> Seq(Conns)]
  <2>1. \A p \in Seq(Conns) \X (1..n) : one(p[1], p[2]) \in Seq(Conns)
    <3> HIDE DEF one
    <3> QED BY <1>s
  <2> HIDE DEF one
  <2> QED BY <2>1
<1>2. PICK f : Records(f, Seq(Conns), <<>>, n, step)
  <2> DEFINE S == Seq(Conns)
             start == <<>>
  <2>1. start \in S /\ step \in [S \X (1..n) -> S] /\ n \in Nat
    BY <1>0, <1>1
  <2>2. \E f : Records(f, S, start, n, step)
    <3> HIDE DEF S, step, start
    <3> QED BY <2>1, RecursionExists, Zenon
  <2> QED BY <2>2
<1>3. \A i \in 1..n : f[i] = one(f[i-1], i)
  <2> TAKE i \in 1..n
  <2>1. i-1 \in 0..n
    BY <1>0
  <2>2. <<f[i-1], i>> \in Seq(Conns) \X (1..n)
    BY <1>2, <2>1 DEF Records
  <2>3. step[<<f[i-1], i>>] = one(f[i-1], i)
    <3> HIDE DEF one
    <3> QED BY <2>2
  <2> QED BY <1>2, <2>3 DEF Records
<1>4. f = body(f)
  <2>1. f \in [0..n -> Seq(Conns)] /\ f[0] = <<>>
    BY <1>2 DEF Records
  <2> HIDE DEF one
  <2> QED BY <1>0, <1>3, <2>1
<1>5. NonNullTrace(s) = body(NonNullTrace(s))
  BY <1>4 DEF NonNullTrace, n
<1> DEFINE g == NonNullTrace(s)
<1>6. g[0] = <<>> /\ \A i \in 1..n : g[i] = one(g[i-1], i)
  <2>1. g = body(g)
    BY <1>5
  <2> HIDE DEF g, one
  <2>2. \A i \in 1..n : i \in 0..n /\ i # 0
    BY <1>0
  <2> QED BY <1>0, <2>1, <2>2
<1>7. \A i \in 0..n : g[i] \in Seq(Conns)
  <2> DEFINE S == {i \in 0..n : g[i] \in Seq(Conns)}
  <2> HIDE DEF g
  <2>1. 0 \in S
    <3>1. <<>> \in Seq(Conns) /\ 0 \in 0..n
      BY <1>0, EmptySeq
    <3>2. g[0] = <<>>
      BY <1>6
    <3> QED BY <3>1, <3>2
  <2>2. \A i \in 1..n : i-1 \in S => i \in S
    <3> TAKE i \in 1..n
    <3>1. i \in 0..n /\ g[i] = one(g[i-1], i)
      BY <1>0, <1>6
    <3>2. g[i-1] \in Seq(Conns) => one(g[i-1], i) \in Seq(Conns)
      BY <1>s
    <3> HIDE DEF one
    <3> QED BY <3>1, <3>2
  <2>3. 0..n \subseteq S
    <3> HIDE DEF S
    <3> QED BY <1>0, <2>1, <2>2, IntervalInd
  <2> QED BY <2>3
<1>8. g \in [0..n -> Seq(Conns)]
  <2>1. g = body(g)
    BY <1>5
  <2> HIDE DEF g, one
  <2> QED BY <1>7, <2>1
<1>9. QED BY <1>6, <1>8 DEF n

\* The elements of a sequence, of one that is longer by one, and of two.
LEMMA ToSetFacts ==
  ASSUME NEW S, NEW s \in Seq(S)
  PROVE  /\ ToSet(s) = {s[i] : i \in 1..Len(s)} /\ ToSet(s) \subseteq S
         /\ \A c \in S : ToSet(Append(s, c)) = ToSet(s) \cup {c}
<1>1. ToSet(s) = {s[i] : i \in 1..Len(s)}
  BY LenProperties DEF ToSet
<1>2. ToSet(s) \subseteq S
  BY <1>1, ElementOfSeq
<1>3. ASSUME NEW c \in S PROVE ToSet(Append(s, c)) = ToSet(s) \cup {c}
  <2> DEFINE t == Append(s, c)
  <2>1. /\ t \in Seq(S) /\ Len(t) = Len(s) + 1 /\ Len(s) \in Nat
        /\ \A i \in 1..Len(s) : t[i] = s[i]
        /\ t[Len(s) + 1] = c
    BY LenProperties, AppendProperties
  <2>2. ToSet(t) = {t[i] : i \in 1..Len(t)}
    BY <2>1, LenProperties DEF ToSet
  <2> HIDE DEF t
  <2>3. 1..Len(t) = (1..Len(s)) \cup {Len(s) + 1}
    BY <2>1
  <2>4. {t[i] : i \in 1..Len(t)} = {s[i] : i \in 1..Len(s)} \cup {c}
    BY <2>1, <2>3
  <2> QED BY <1>1, <2>2, <2>4 DEF t
<1> QED BY <1>1, <1>2, <1>3

\* NonNull drops the null pointers and nothing else.
LEMMA NonNullFacts ==
  ASSUME NEW s \in Seq(Elements)
  PROVE  /\ NonNull(s) \in Seq(Conns) /\ Len(NonNull(s)) <= Len(s)
         /\ ToSet(NonNull(s)) = Pointers(s)
<1> DEFINE n == Len(s)
           g == NonNullTrace(s)
           good(i) == /\ Len(g[i]) <= i
                      /\ ToSet(g[i]) = {s[j] : j \in 1..i} \ {None}
           S == {i \in 0..n : good(i)}
<1>0. n \in Nat /\ \A i \in 1..n : s[i] = None \/ s[i] \in Conns
  <2>1. \A i \in 1..n : s[i] \in Elements
    BY ElementOfSeq
  <2> QED BY <2>1, LenProperties DEF Elements
<1>1. /\ g \in [0..n -> Seq(Conns)] /\ g[0] = <<>>
      /\ \A i \in 1..n : g[i] = IF s[i] = None THEN g[i-1] ELSE Append(g[i-1], s[i])
  BY NonNullTraceDef
<1>p. Pointers(s) = {s[j] : j \in 1..n} \ {None}
  BY ToSetFacts DEF Pointers
<1> HIDE DEF n, g
<1>2. 0 \in S
  <2>1. Len(g[0]) = 0 /\ ToSet(g[0]) = {}
    BY <1>1 DEF ToSet
  <2> QED BY <1>0, <2>1
<1>3. \A i \in 1..n : i-1 \in S => i \in S
  <2> TAKE i \in 1..n
  <2> HAVE i-1 \in S
  <2>1. i-1 \in 0..n /\ g[i-1] \in Seq(Conns) /\ good(i-1) /\ Len(g[i-1]) \in Nat
    BY <1>0, <1>1, LenProperties
  <2>2. {s[j] : j \in 1..i} = {s[j] : j \in 1..(i-1)} \cup {s[i]}
    BY <1>0
  <2>3. CASE s[i] = None
    <3>1. g[i] = g[i-1]
      BY <1>1, <2>3
    <3> QED BY <2>1, <2>2, <2>3, <3>1
  <2>4. CASE s[i] # None
    <3>1. g[i] = Append(g[i-1], s[i]) /\ s[i] \in Conns
      BY <1>0, <1>1, <2>4
    <3>2. Len(g[i]) = Len(g[i-1]) + 1 /\ ToSet(g[i]) = ToSet(g[i-1]) \cup {s[i]}
      BY <2>1, <3>1, ToSetFacts, AppendProperties
    <3> QED BY <2>1, <2>2, <2>4, <3>2
  <2> QED BY <2>3, <2>4
<1>4. 0..n \subseteq S
  <2> HIDE DEF S
  <2> QED BY <1>0, <1>2, <1>3, IntervalInd
<1>5. good(n) /\ g[n] \in Seq(Conns)
  <2>1. n \in 0..n
    BY <1>0
  <2>2. n \in S
    BY <1>4, <2>1
  <2>3. good(n)
    BY <2>2
  <2> QED BY <1>1, <2>1, <2>3
<1>6. NonNull(s) = g[n]
  BY DEF NonNull, g, n
<1> QED BY <1>5, <1>6, <1>p DEF n

\* The elements of a part of a sequence, and of two sequences together.
LEMMA SubSeqElements ==
  ASSUME NEW s \in Seq(Elements), NEW a \in Nat \ {0}, NEW b \in Nat, b <= Len(s)
  PROVE  SubSeq(s, a, b) \in Seq(Elements) /\ ToSet(SubSeq(s, a, b)) = {s[i] : i \in a..b}
<1> DEFINE t == SubSeq(s, a, b)
<1>1. Len(s) \in Nat /\ \A i \in a..b : s[i] \in Elements
  <2>1. \A i \in 1..Len(s) : s[i] \in Elements
    BY ElementOfSeq
  <2>2. Len(s) \in Nat /\ a..b \subseteq 1..Len(s)
    BY LenProperties
  <2> QED BY <2>1, <2>2
<1>2. /\ t \in Seq(Elements)
      /\ Len(t) = IF a <= b THEN b - a + 1 ELSE 0
      /\ \A i \in 1..(b - a + 1) : t[i] = s[a + i - 1]
  BY <1>1, SubSeqProperties
<1> HIDE DEF t
<1>3. ToSet(t) = {t[i] : i \in 1..Len(t)}
  BY <1>2, ToSetFacts
<1>4. ASSUME NEW c \in ToSet(t) PROVE c \in {s[i] : i \in a..b}
  <2>1. PICK i \in 1..Len(t) : t[i] = c
    BY <1>3
  <2>2. i \in 1..(b - a + 1) /\ a + i - 1 \in a..b
    BY <1>2, <2>1
  <2> QED BY <1>2, <2>1, <2>2
<1>5. ASSUME NEW i \in a..b PROVE s[i] \in ToSet(t)
  <2>1. i - a + 1 \in 1..(b - a + 1) /\ a <= b /\ a + (i - a + 1) - 1 = i
    OBVIOUS
  <2>2. i - a + 1 \in 1..Len(t) /\ t[i - a + 1] = s[i]
    BY <1>2, <2>1
  <2> QED BY <1>3, <2>2
<1> QED BY <1>2, <1>4, <1>5 DEF t

LEMMA ConcatElements ==
  ASSUME NEW s \in Seq(Elements), NEW t \in Seq(Elements)
  PROVE  s \o t \in Seq(Elements) /\ ToSet(s \o t) = ToSet(s) \cup ToSet(t)
<1> DEFINE u == s \o t
           n == Len(s)
           m == Len(t)
<1>1. n \in Nat /\ m \in Nat
  BY LenProperties
<1>2. /\ u \in Seq(Elements) /\ Len(u) = n + m
      /\ \A i \in 1..(n + m) : u[i] = IF i <= n THEN s[i] ELSE t[i - n]
  BY ConcatProperties
<1>3. /\ ToSet(u) = {u[i] : i \in 1..(n + m)}
      /\ ToSet(s) = {s[i] : i \in 1..n} /\ ToSet(t) = {t[i] : i \in 1..m}
  BY <1>2, ToSetFacts, Zenon
<1> HIDE DEF u, n, m
<1>4. ASSUME NEW c \in ToSet(u) PROVE c \in ToSet(s) \cup ToSet(t)
  <2>1. PICK i \in 1..(n + m) : u[i] = c
    BY <1>3
  <2>2. \/ i \in 1..n
        \/ ~(i <= n) /\ i - n \in 1..m
    BY <1>1
  <2> QED BY <1>2, <1>3, <2>1, <2>2
<1>5. ASSUME NEW i \in 1..n PROVE s[i] \in ToSet(u)
  <2>1. i \in 1..(n + m) /\ i <= n
    BY <1>1
  <2> QED BY <1>2, <1>3, <2>1
<1>6. ASSUME NEW i \in 1..m PROVE t[i] \in ToSet(u)
  <2>1. i + n \in 1..(n + m) /\ ~(i + n <= n) /\ (i + n) - n = i
    BY <1>1
  <2> QED BY <1>2, <1>3, <2>1
<1>7. ToSet(s) \cup ToSet(t) \subseteq ToSet(u)
  BY <1>3, <1>5, <1>6
<1>8. ToSet(u) = ToSet(s) \cup ToSet(t)
  BY <1>4, <1>7
<1> QED BY <1>2, <1>8 DEF u

LEMMA NullsFacts ==
  ASSUME NEW n \in Nat
  PROVE  /\ Nulls(n) \in Seq(Elements) /\ Len(Nulls(n)) = n
         /\ ToSet(Nulls(n)) \subseteq {None}
<1>1. /\ Nulls(n) \in Seq(Elements) /\ Len(Nulls(n)) = n
      /\ \A i \in 1..n : Nulls(n)[i] = None
  BY DEF Nulls, Elements
<1>2. ToSet(Nulls(n)) = {Nulls(n)[i] : i \in 1..n}
  BY <1>1, ToSetFacts
<1> QED BY <1>1, <1>2

\* std::remove: the same pointers, and as many places; the null pointers are
\* behind the others.
LEMMA RemovedFacts ==
  ASSUME NEW s \in Seq(Elements),
         NEW t, t = NonNull(s) \o Nulls(Len(s) - Len(NonNull(s)))
  PROVE  /\ t \in Seq(Elements) /\ Len(t) = Len(s) /\ Pointers(t) = Pointers(s)
         /\ Len(NonNull(s)) \in Nat /\ Len(NonNull(s)) <= Len(t)
         /\ \A i \in 1..Len(NonNull(s)) : t[i] # None
         /\ \A i \in (Len(NonNull(s)) + 1)..Len(t) : t[i] = None
<1> DEFINE kept == NonNull(s)
           m == Len(s) - Len(kept)
           nulls == Nulls(m)
<1>1. /\ kept \in Seq(Conns) /\ Len(kept) \in Nat /\ m \in Nat /\ Len(s) \in Nat
      /\ ToSet(kept) = Pointers(s) /\ Len(kept) + m = Len(s)
  <2>1. Len(s) \in Nat
    BY LenProperties
  <2> QED BY <2>1, NonNullFacts, LenProperties
<1>2. \A i \in 1..Len(kept) : kept[i] # None
  BY <1>1, ElementOfSeq, ServerAssumption
<1> HIDE DEF kept, m
<1>3. kept \in Seq(Elements)
  BY <1>1 DEF Elements
<1>4. /\ nulls \in Seq(Elements) /\ Len(nulls) = m /\ ToSet(nulls) \subseteq {None}
      /\ \A i \in 1..m : nulls[i] = None
  BY <1>1, NullsFacts DEF Nulls
<1> HIDE DEF nulls
<1>5. t = kept \o nulls
  BY DEF kept, m, nulls
<1>6. /\ t \in Seq(Elements) /\ Len(t) = Len(kept) + m
      /\ \A i \in 1..(Len(kept) + m) :
           t[i] = IF i <= Len(kept) THEN kept[i] ELSE nulls[i - Len(kept)]
  <2>1. /\ kept \o nulls \in Seq(Elements) /\ Len(kept \o nulls) = Len(kept) + Len(nulls)
        /\ \A i \in 1..(Len(kept) + Len(nulls)) : (kept \o nulls)[i] =
             IF i <= Len(kept) THEN kept[i] ELSE nulls[i - Len(kept)]
    BY <1>3, <1>4, ConcatProperties, Zenon
  <2> QED BY <1>4, <1>5, <2>1, Zenon
<1>7. \A i \in 1..Len(kept) : t[i] # None
  <2>1. \A i \in 1..Len(kept) : i \in 1..(Len(kept) + m) /\ i <= Len(kept)
    BY <1>1
  <2> QED BY <1>2, <1>6, <2>1
<1>8. \A i \in (Len(kept) + 1)..(Len(kept) + m) : t[i] = None
  <2>1. \A i \in (Len(kept) + 1)..(Len(kept) + m) :
          i \in 1..(Len(kept) + m) /\ ~(i <= Len(kept)) /\ i - Len(kept) \in 1..m
    BY <1>1
  <2> QED BY <1>4, <1>6, <2>1
<1>9. ToSet(t) = ToSet(kept) \cup ToSet(nulls)
  <2>1. ToSet(kept \o nulls) = ToSet(kept) \cup ToSet(nulls)
    BY <1>3, <1>4, ConcatElements, Zenon
  <2> QED BY <1>5, <2>1, Zenon
<1>10. Pointers(t) = Pointers(s)
  BY <1>1, <1>4, <1>9 DEF Pointers
<1>11. Len(kept) <= Len(t) /\ Len(t) = Len(s)
  BY <1>1, <1>6
<1> QED BY <1>1, <1>6, <1>7, <1>8, <1>10, <1>11 DEF kept

\* The pointers of a sequence, and those of one with another at its end.
LEMMA PointersFacts ==
  ASSUME NEW s \in Seq(Elements)
  PROVE  /\ Pointers(s) = {s[i] : i \in 1..Len(s)} \ {None}
         /\ Pointers(s) \subseteq Conns
         /\ \A c \in Conns : Pointers(Append(s, c)) = Pointers(s) \cup {c}
<1>1. ToSet(s) = {s[i] : i \in 1..Len(s)} /\ ToSet(s) \subseteq Elements
  BY ToSetFacts
<1>2. ASSUME NEW c \in Conns PROVE ToSet(Append(s, c)) = ToSet(s) \cup {c} /\ c # None
  <2>1. c \in Elements
    BY DEF Elements
  <2> QED BY <2>1, ToSetFacts, ServerAssumption
<1> QED BY <1>1, <1>2 DEF Pointers, Elements

\* What erase does, wherever the end of the container comes to be: what is in
\* front of the cut stays.
LEMMA EraseEffect ==
  ASSUME conns \in Seq(Elements), cut \in Nat, cut <= Len(conns), outer \in Nat,
         Erase \/ EraseRaces
  PROVE  /\ conns' \in Seq(Elements)
         /\ Pointers(conns') \subseteq Pointers(conns)
         /\ \A i \in 1..cut : conns[i] \in ToSet(conns')
         /\ leaked \subseteq leaked' /\ leaked' \subseteq leaked \cup Pointers(conns)
<1> DEFINE kept == SubSeq(conns, 1, cut)
           behind(i, j) == SubSeq(conns, i + 1, j)
<1>1. /\ Len(conns) \in Nat /\ Len(conns) <= Len(conns)
      /\ ToSet(conns) = {conns[i] : i \in 1..Len(conns)}
  BY LenProperties, ToSetFacts
<1>2. /\ kept \in Seq(Elements) /\ ToSet(kept) = {conns[i] : i \in 1..cut}
      /\ ToSet(kept) \subseteq ToSet(conns)
  <2>1. kept \in Seq(Elements) /\ ToSet(kept) = {conns[i] : i \in 1..cut}
    <3>1. 1 \in Nat \ {0} /\ cut \in Nat /\ cut <= Len(conns) /\ conns \in Seq(Elements)
      OBVIOUS
    <3> QED BY <3>1, SubSeqElements, Zenon
  <2>2. 1..cut \subseteq 1..Len(conns)
    BY <1>1
  <2> HIDE DEF kept
  <2> QED BY <1>1, <2>1, <2>2
<1>3. \A i \in Nat, j \in Nat :
        j <= Len(conns) => /\ behind(i, j) \in Seq(Elements)
                           /\ ToSet(behind(i, j)) \subseteq ToSet(conns)
  <2> SUFFICES ASSUME NEW i \in Nat, NEW j \in Nat, j <= Len(conns)
               PROVE  /\ behind(i, j) \in Seq(Elements)
                      /\ ToSet(behind(i, j)) \subseteq ToSet(conns)
    OBVIOUS
  <2>1. i + 1 \in Nat \ {0} /\ (i+1)..j \subseteq 1..Len(conns)
    BY <1>1
  <2>2. behind(i, j) \in Seq(Elements) /\ ToSet(behind(i, j)) = {conns[x] : x \in (i+1)..j}
    BY <2>1, SubSeqElements
  <2> HIDE DEF behind
  <2> QED BY <1>1, <2>1, <2>2
<1> HIDE DEF kept, behind
<1>4. CASE Erase
  <2>1. conns' = kept \o behind(outer, Len(conns)) /\ leaked' = leaked
    BY <1>4 DEF Erase, kept, behind, lost
  <2>2. /\ behind(outer, Len(conns)) \in Seq(Elements)
        /\ ToSet(behind(outer, Len(conns))) \subseteq ToSet(conns)
    BY <1>1, <1>3
  <2>3. /\ conns' \in Seq(Elements)
        /\ ToSet(conns') = ToSet(kept) \cup ToSet(behind(outer, Len(conns)))
    BY <1>2, <2>1, <2>2, ConcatElements
  <2>4. ToSet(conns') \subseteq ToSet(conns)
    BY <1>2, <2>2, <2>3
  <2> QED BY <1>2, <2>1, <2>3, <2>4 DEF Pointers
<1>5. CASE EraseRaces
  <2>1. cut < outer
    BY <1>5 DEF EraseRaces
  <2>2. PICK i \in outer..(Len(conns) - 1) :
          LET front == kept \o behind(outer, i)
              rest == Nulls(outer - cut) \o behind(i, Len(conns))
          IN \E m \in 0..Len(rest) :
               /\ conns' = front \o SubSeq(rest, 1, m)
               /\ \E over \in SUBSET (Pointers(conns) \ Pointers(conns')) :
                    leaked' = leaked \cup over
    BY <1>5 DEF EraseRaces, kept, behind
  <2> DEFINE front == kept \o behind(outer, i)
             rest == Nulls(outer - cut) \o behind(i, Len(conns))
  <2>3. i \in Nat /\ i <= Len(conns) /\ outer - cut \in Nat
    BY <1>1, <2>1
  <2>4. front \in Seq(Elements) /\ ToSet(front) = ToSet(kept) \cup ToSet(behind(outer, i))
    <3>1. behind(outer, i) \in Seq(Elements)
      BY <1>3, <2>3
    <3> QED BY <1>2, <3>1, ConcatElements, Zenon
  <2>5. /\ rest \in Seq(Elements)
        /\ ToSet(rest) = ToSet(Nulls(outer - cut)) \cup ToSet(behind(i, Len(conns)))
    <3>1. behind(i, Len(conns)) \in Seq(Elements)
      BY <1>1, <1>3, <2>3
    <3>2. Nulls(outer - cut) \in Seq(Elements)
      BY <2>3, NullsFacts
    <3> QED BY <3>1, <3>2, ConcatElements
  <2>6. /\ ToSet(front) \subseteq ToSet(conns) /\ ToSet(kept) \subseteq ToSet(front)
        /\ ToSet(rest) \subseteq ToSet(conns) \cup {None}
    <3>1. /\ ToSet(behind(outer, i)) \subseteq ToSet(conns)
          /\ ToSet(behind(i, Len(conns))) \subseteq ToSet(conns)
      BY <1>1, <1>3, <2>3
    <3>2. ToSet(Nulls(outer - cut)) \subseteq {None}
      BY <2>3, NullsFacts
    <3> QED BY <1>2, <2>4, <2>5, <3>1, <3>2
  <2> HIDE DEF front, rest
  <2>7. PICK m \in 0..Len(rest) :
          /\ conns' = front \o SubSeq(rest, 1, m)
          /\ leaked \subseteq leaked' /\ leaked' \subseteq leaked \cup Pointers(conns)
    BY <2>2 DEF front, rest
  <2> DEFINE part == SubSeq(rest, 1, m)
  <2>8. part \in Seq(Elements) /\ ToSet(part) \subseteq ToSet(rest)
    <3>1. Len(rest) \in Nat /\ m \in Nat /\ m <= Len(rest) /\ 1 \in Nat \ {0}
      BY <2>5, LenProperties
    <3>2. part \in Seq(Elements) /\ ToSet(part) = {rest[x] : x \in 1..m}
      BY <2>5, <3>1, SubSeqElements
    <3>3. ToSet(rest) = {rest[x] : x \in 1..Len(rest)} /\ 1..m \subseteq 1..Len(rest)
      BY <2>5, <3>1, ToSetFacts
    <3> HIDE DEF part
    <3> QED BY <3>2, <3>3
  <2>c. conns' = front \o part
    BY <2>7
  <2> HIDE DEF part
  <2>9. conns' \in Seq(Elements) /\ ToSet(conns') = ToSet(front) \cup ToSet(part)
    BY <2>4, <2>c, <2>8, ConcatElements
  <2> QED BY <1>2, <2>6, <2>7, <2>8, <2>9 DEF Pointers
<1> QED BY <1>4, <1>5

-----------------------------------------------------------------------------
(* Types.                                                                  *)

\* TypeOK in parts: sequences, sockets, Booleans, and the rest; and that the
\* range-for and std::remove stay within the container, which only grows meanwhile.
SeqTypes ==
  /\ conns \in Seq(Elements) /\ queue \in Seq(Message)
  /\ mpc = "visit" => last <= Len(conns)
  /\ mpc \in {"end", "erase"} => cut <= Len(conns)

SocketTypes ==
  /\ open \in [Conns -> BOOLEAN] /\ reads \in [Conns -> SUBSET Reads]
  /\ writes \in [Conns -> Nat]

PlainTypes ==
  /\ made \subseteq Conns /\ leaked \subseteq Conns /\ late \subseteq Conns
  /\ apc \in {"idle", "listen", "report"} /\ fresh \in Conns \cup {None}
  /\ arrived \in 0..MaxMessages
  /\ mpc \in {"idle", "handle", "visit", "remove", "end", "erase"}
  /\ cur \in Message \cup {NoMessage}
  /\ k \in Nat \ {0} /\ last \in Nat /\ cut \in Nat /\ outer \in Nat
  /\ walk \in [members : SUBSET Conns, gone : SUBSET Conns, reached : SUBSET Conns]

BoolTypes == found \in BOOLEAN /\ alive \in BOOLEAN

Types == SeqTypes /\ SocketTypes /\ BoolTypes /\ PlainTypes

LEMMA TypeParts == Types => TypeOK
BY Zenon DEF TypeOK, Types, SeqTypes, SocketTypes, BoolTypes, PlainTypes, Elements

LEMMA TypeInit == Init => Types
<1> SUFFICES ASSUME Init PROVE Types
  OBVIOUS
<1>1. SeqTypes
  BY EmptySeq DEF Init, SeqTypes
<1>2. SocketTypes
  BY DEF Init, SocketTypes
<1>3. PlainTypes
  <2>1. /\ cur = NoMessage /\ mpc = "idle" /\ k = 1 /\ last = 0 /\ cut = 0 /\ outer = 0
        /\ made = {} /\ leaked = {} /\ late = {} /\ apc = "idle" /\ fresh = None
        /\ arrived = 0
    BY DEF Init
  <2>2. walk \in [members : SUBSET Conns, gone : SUBSET Conns, reached : SUBSET Conns]
    BY DEF Init, NoWalk
  <2> QED BY <2>1, <2>2, ServerAssumption DEF PlainTypes
<1>4. BoolTypes
  BY DEF Init, BoolTypes
<1> QED BY <1>1, <1>2, <1>3, <1>4 DEF Types

\* The end of the process.
LEMMA TypeDies == Dies => Types'
<1> SUFFICES ASSUME Dies PROVE Types'
  OBVIOUS
<1>1. SeqTypes'
  BY EmptySeq DEF Dies, SeqTypes
<1>2. SocketTypes'
  BY DEF Dies, SocketTypes
<1>3. PlainTypes'
  <2>1. /\ cur' = NoMessage /\ mpc' = "idle" /\ k' = 1 /\ last' = 0 /\ cut' = 0 /\ outer' = 0
        /\ made' = {} /\ leaked' = {} /\ late' = {} /\ apc' = "idle" /\ fresh' = None
        /\ arrived' = 0
    BY DEF Dies
  <2>2. walk' \in [members : SUBSET Conns, gone : SUBSET Conns, reached : SUBSET Conns]
    BY DEF Dies, NoWalk
  <2> QED BY <2>1, <2>2, ServerAssumption DEF PlainTypes
<1>4. BoolTypes'
  BY DEF Dies, BoolTypes
<1> QED BY <1>1, <1>2, <1>3, <1>4 DEF Types

LEMMA TypeNext == Types /\ [Next]_vars => Types'
<1> SUFFICES ASSUME SeqTypes, SocketTypes, BoolTypes, PlainTypes, [Next]_vars PROVE Types'
  BY DEF Types
<1> USE DEF Types, accepting, lost, erasing
<1>1. ASSUME NEW c \in Conns, Accept(c) PROVE Types'
  <2>1. SeqTypes'
    <3>1. conns' \in Seq(Elements) /\ Len(conns') = Len(conns) + 1 /\ Len(conns) \in Nat
      <4>1. c \in Elements /\ conns' = Append(conns, c)
        BY <1>1 DEF Accept, Elements
      <4> QED BY <4>1, AppendProperties, LenProperties DEF SeqTypes
    <3>2. UNCHANGED <<queue, mpc, last, cut>>
      BY <1>1 DEF Accept, loop
    <3> QED BY <3>1, <3>2 DEF SeqTypes, PlainTypes
  <2>2. SocketTypes'
    BY <1>1 DEF Accept, Elements, loop, SocketTypes
  <2>3. PlainTypes'
    BY <1>1 DEF Accept, Elements, loop, PlainTypes
  <2>4. BoolTypes'
    BY <1>1 DEF Accept, Elements, loop, BoolTypes
  <2> QED BY <2>1, <2>2, <2>3, <2>4
<1>2. CASE AcceptThrows
  BY <1>2, TypeDies DEF AcceptThrows
<1>3. CASE ListenToBack
  <2>1. SeqTypes'
    BY <1>3 DEF ListenToBack, Reads, loop, SeqTypes
  <2>2. SocketTypes'
    BY <1>3 DEF ListenToBack, Reads, loop, SocketTypes
  <2>3. PlainTypes'
    BY <1>3 DEF ListenToBack, Reads, loop, PlainTypes
  <2>4. BoolTypes'
    BY <1>3 DEF ListenToBack, Reads, loop, BoolTypes
  <2> QED BY <2>1, <2>2, <2>3, <2>4
<1>4. CASE ReportBack
  <2>1. SeqTypes'
    BY <1>4 DEF ReportBack, loop, SeqTypes
  <2>2. SocketTypes'
    BY <1>4 DEF ReportBack, sockets, SocketTypes
  <2>3. PlainTypes'
    BY <1>4 DEF ReportBack, loop, PlainTypes
  <2>4. BoolTypes'
    BY <1>4 DEF ReportBack, loop, BoolTypes
  <2> QED BY <2>1, <2>2, <2>3, <2>4
<1>5. ASSUME NEW c \in Conns, Written(c) PROVE Types'
  <2>1. SeqTypes'
    BY <1>5 DEF Written, loop, SeqTypes
  <2>2. SocketTypes'
    BY <1>5 DEF Written, loop, SocketTypes
  <2>3. PlainTypes'
    BY <1>5 DEF Written, loop, PlainTypes
  <2>4. BoolTypes'
    BY <1>5 DEF Written, loop, BoolTypes
  <2> QED BY <2>1, <2>2, <2>3, <2>4
<1>6. ASSUME NEW c \in Conns, WriteFail(c) PROVE Types'
  <2>1. SeqTypes'
    BY <1>6 DEF WriteFail, loop, SeqTypes
  <2>2. SocketTypes'
    BY <1>6 DEF WriteFail, loop, SocketTypes
  <2>3. PlainTypes'
    BY <1>6 DEF WriteFail, loop, PlainTypes
  <2>4. BoolTypes'
    BY <1>6 DEF WriteFail, loop, BoolTypes
  <2> QED BY <2>1, <2>2, <2>3, <2>4
<1>7. ASSUME NEW c \in Conns, Validated(c) PROVE Types'
  <2>1. SeqTypes'
    BY <1>7 DEF Validated, Reads, loop, SeqTypes
  <2>2. SocketTypes'
    BY <1>7 DEF Validated, Reads, loop, SocketTypes
  <2>3. PlainTypes'
    BY <1>7 DEF Validated, Reads, loop, PlainTypes
  <2>4. BoolTypes'
    BY <1>7 DEF Validated, Reads, loop, BoolTypes
  <2> QED BY <2>1, <2>2, <2>3, <2>4
<1>8. ASSUME NEW c \in Conns, NEW kind \in Kinds, Receive(c, kind) PROVE Types'
  <2>1. SeqTypes'
    BY <1>8, AppendProperties DEF Receive, Message, sockets, loop, SeqTypes
  <2>2. SocketTypes'
    BY <1>8 DEF Receive, Message, sockets, loop, SocketTypes
  <2>3. PlainTypes'
    BY <1>8, ServerAssumption DEF Receive, Message, sockets, loop, PlainTypes
  <2>4. BoolTypes'
    BY <1>8 DEF Receive, Message, sockets, loop, BoolTypes
  <2> QED BY <2>1, <2>2, <2>3, <2>4
<1>9. ASSUME NEW c \in Conns, NEW what \in Reads, ReadFail(c, what) PROVE Types'
  <2>1. SeqTypes'
    BY <1>9 DEF ReadFail, loop, SeqTypes
  <2>2. SocketTypes'
    BY <1>9 DEF ReadFail, loop, SocketTypes
  <2>3. PlainTypes'
    BY <1>9 DEF ReadFail, loop, PlainTypes
  <2>4. BoolTypes'
    BY <1>9 DEF ReadFail, loop, BoolTypes
  <2> QED BY <2>1, <2>2, <2>3, <2>4
<1>10. ASSUME NEW c \in Conns, Dangling(c) PROVE Types'
  <2>1. SeqTypes'
    BY <1>10 DEF Dangling, loop, SeqTypes
  <2>2. SocketTypes'
    BY <1>10 DEF Dangling, loop, SocketTypes
  <2>3. PlainTypes'
    BY <1>10 DEF Dangling, loop, PlainTypes
  <2>4. BoolTypes'
    BY <1>10 DEF Dangling, loop, BoolTypes
  <2> QED BY <2>1, <2>2, <2>3, <2>4
<1>11. ASSUME NEW c \in Conns, DanglingDies(c) PROVE Types'
  BY <1>11, TypeDies DEF DanglingDies
<1>12. CASE TakeMessage
  <2>1. SeqTypes'
    BY <1>12, HeadTailProperties DEF TakeMessage, NoWalk, sockets, SeqTypes
  <2>2. SocketTypes'
    BY <1>12 DEF TakeMessage, NoWalk, sockets, SeqTypes, SocketTypes
  <2>3. PlainTypes'
    BY <1>12, HeadTailProperties DEF TakeMessage, NoWalk, sockets, SeqTypes, PlainTypes
  <2>4. BoolTypes'
    BY <1>12 DEF TakeMessage, NoWalk, sockets, SeqTypes, BoolTypes
  <2> QED BY <2>1, <2>2, <2>3, <2>4
<1>13. CASE Reply
  <2>1. SeqTypes'
    BY <1>13 DEF Reply, SeqTypes
  <2>2. SocketTypes'
    <3>1. /\ open' = open /\ reads' = reads
          /\ writes' = [c \in Conns |-> IF c = cur.remote THEN writes[c] + 1 ELSE writes[c]]
      BY <1>13 DEF Reply, SocketTypes
    <3> QED BY <3>1 DEF SocketTypes
  <2>3. PlainTypes'
    BY <1>13 DEF Reply, PlainTypes
  <2>4. BoolTypes'
    BY <1>13 DEF Reply, BoolTypes
  <2> QED BY <2>1, <2>2, <2>3, <2>4
<1>14. CASE StartWalk
  <2>1. SeqTypes'
    BY <1>14 DEF StartWalk, sockets, Pointers, Elements, SeqTypes
  <2>2. SocketTypes'
    BY <1>14 DEF StartWalk, sockets, SeqTypes, Pointers, Elements, SocketTypes
  <2>3. PlainTypes'
    <3>1. Pointers(conns) \subseteq Conns /\ Len(conns) \in Nat
      BY LenProperties, PointersFacts DEF SeqTypes
    <3>2. walk' \in [members : SUBSET Conns, gone : SUBSET Conns, reached : SUBSET Conns]
      BY <1>14, <3>1 DEF StartWalk
    <3>3. /\ last' = Len(conns) /\ mpc' = "visit"
          /\ UNCHANGED <<made, apc, fresh, leaked, late, arrived, cur, k, cut, outer>>
      BY <1>14 DEF StartWalk
    <3> QED BY <3>1, <3>2, <3>3 DEF PlainTypes
  <2>4. BoolTypes'
    BY <1>14 DEF StartWalk, sockets, SeqTypes, Pointers, Elements, BoolTypes
  <2> QED BY <2>1, <2>2, <2>3, <2>4
<1>15. CASE Visit
  <2>1. SeqTypes'
    BY <1>15 DEF Visit, Elements, SeqTypes
  <2>2. SocketTypes'
    <3> DEFINE sent == [c \in Conns |-> IF c = conns[k] THEN writes[c] + 1 ELSE writes[c]]
    <3>1. UNCHANGED <<open, reads>> /\ (writes' = writes \/ writes' = sent)
      BY <1>15 DEF Visit, SocketTypes
    <3>2. sent \in [Conns -> Nat]
      BY DEF SocketTypes
    <3> HIDE DEF sent
    <3> QED BY <3>1, <3>2 DEF SocketTypes
  <2>3. PlainTypes'
    <3> DEFINE c == conns[k]
    <3>1. k \in 1..Len(conns) /\ c # None
      BY <1>15, LenProperties DEF Visit, SeqTypes, PlainTypes
    <3>2. c \in Conns
      BY <3>1, ElementOfSeq DEF SeqTypes, Elements
    <3>3. /\ walk' = walk \/ walk' = [walk EXCEPT !.reached = @ \cup ({c} \ {cur.remote})]
          /\ k' = k + 1
          /\ UNCHANGED <<made, apc, fresh, leaked, late, arrived, mpc, cur, last, cut, outer>>
      BY <1>15 DEF Visit
    <3> HIDE DEF c
    <3> QED BY <3>2, <3>3 DEF PlainTypes
  <2>4. BoolTypes'
    BY <1>15 DEF Visit, SeqTypes, Elements, BoolTypes
  <2> QED BY <2>1, <2>2, <2>3, <2>4
<1>16. CASE BackIsNull \/ VisitNull \/ VisitAstray \/ EraseAstray
  BY <1>16, TypeDies DEF BackIsNull, VisitNull, VisitAstray, EraseAstray
<1>17. CASE RemoveNulls
  <2>0. /\ conns' \in Seq(Elements) /\ cut' \in Nat /\ cut' <= Len(conns')
        /\ mpc' \in {"end", "erase"}
    BY <1>17, RemovedFacts DEF RemoveNulls, SeqTypes
  <2>1. SeqTypes'
    <3>1. queue' = queue
      BY <1>17 DEF RemoveNulls
    <3> QED BY <2>0, <3>1 DEF SeqTypes
  <2>2. SocketTypes'
    BY <1>17 DEF RemoveNulls, sockets, SocketTypes
  <2>3. PlainTypes'
    <3>1. UNCHANGED <<made, apc, fresh, leaked, late, arrived, cur, k, last, outer, walk>>
      BY <1>17 DEF RemoveNulls
    <3> QED BY <2>0, <3>1 DEF PlainTypes
  <2>4. BoolTypes'
    BY <1>17 DEF RemoveNulls, sockets, BoolTypes
  <2> QED BY <2>1, <2>2, <2>3, <2>4
<1>18. CASE NothingToRemove
  <2>1. SeqTypes'
    BY <1>18 DEF NothingToRemove, Done, sockets, SeqTypes
  <2>2. SocketTypes'
    BY <1>18 DEF NothingToRemove, Done, sockets, SocketTypes
  <2>3. PlainTypes'
    BY <1>18 DEF NothingToRemove, Done, NoWalk, sockets, PlainTypes
  <2>4. BoolTypes'
    BY <1>18 DEF NothingToRemove, Done, sockets, BoolTypes
  <2> QED BY <2>1, <2>2, <2>3, <2>4
<1>19. CASE Erase \/ EraseRaces
  <2>0. conns' \in Seq(Elements) /\ leaked' \subseteq Conns
    <3>1. mpc = "erase" /\ conns \in Seq(Elements) /\ cut \in Nat /\ outer \in Nat
      BY <1>19 DEF Erase, EraseRaces, SeqTypes, PlainTypes
    <3>2. cut <= Len(conns) /\ leaked \subseteq Conns /\ Pointers(conns) \subseteq Conns
      BY <3>1, PointersFacts DEF SeqTypes, PlainTypes
    <3> QED BY <1>19, <3>1, <3>2, EraseEffect
  <2>1. SeqTypes'
    <3>1. mpc' = "idle" /\ queue' = queue
      BY <1>19 DEF Erase, EraseRaces, Done
    <3> QED BY <2>0, <3>1 DEF SeqTypes
  <2>2. SocketTypes'
    BY <1>19 DEF Erase, EraseRaces, sockets, SocketTypes
  <2>3. PlainTypes'
    <3>1. /\ mpc' = "idle" /\ cur' = NoMessage /\ k' = 1 /\ last' = 0
          /\ cut' = 0 /\ outer' = 0 /\ walk' = NoWalk
          /\ UNCHANGED <<made, late, apc, fresh, arrived>>
      BY <1>19 DEF Erase, EraseRaces, Done
    <3> QED BY <2>0, <3>1 DEF PlainTypes, NoWalk
  <2>4. BoolTypes'
    BY <1>19 DEF Erase, EraseRaces, Done, BoolTypes
  <2> QED BY <2>1, <2>2, <2>3, <2>4
<1>20. CASE UNCHANGED vars
  <2>1. SeqTypes'
    BY <1>20 DEF vars, sockets, loop, SeqTypes
  <2>2. SocketTypes'
    BY <1>20 DEF vars, sockets, loop, SocketTypes
  <2>3. PlainTypes'
    BY <1>20 DEF vars, sockets, loop, PlainTypes
  <2>4. BoolTypes'
    BY <1>20 DEF vars, sockets, loop, BoolTypes
  <2> QED BY <2>1, <2>2, <2>3, <2>4
<1>21. CASE EndFirst \/ EndLast
  <2>0. Len(conns) \in Nat
    BY LenProperties DEF SeqTypes
  <2>1. SeqTypes'
    BY <1>21 DEF EndFirst, EndLast, SeqTypes
  <2>2. SocketTypes'
    BY <1>21 DEF EndFirst, EndLast, sockets, SocketTypes
  <2>3. PlainTypes'
    BY <1>21, <2>0 DEF EndFirst, EndLast, PlainTypes
  <2>4. BoolTypes'
    BY <1>21 DEF EndFirst, EndLast, BoolTypes
  <2> QED BY <2>1, <2>2, <2>3, <2>4
<1> QED
  BY <1>1, <1>2, <1>3, <1>4, <1>5, <1>6, <1>7, <1>8, <1>9, <1>10, <1>11, <1>12, <1>13,
     <1>14, <1>15, <1>16, <1>17, <1>18, <1>19, <1>20, <1>21
  DEF Next, AcceptHandler, Handler, Update, MessageAllClients

\* Types of the server's container, its connections and its two threads, for any
\* number of connections and messages (net_server.h).
THEOREM ServerTypes == Spec => []TypeOK
<1>1. Init => Types
  BY TypeInit
<1>2. Types /\ [Next]_vars => Types'
  BY TypeNext
<1>3. Types => TypeOK
  BY TypeParts
<1> QED BY <1>1, <1>2, <1>3, PTL DEF Spec

-----------------------------------------------------------------------------
(* Where std::remove has ended.                                            *)

\* In front of the cut no pointer is null; behind it are null pointers and what
\* has been pushed since.  As long as nothing was, the end is the end.
CutFront == mpc \in {"end", "erase"} => \A i \in 1..cut : conns[i] # None
CutBack ==
  mpc \in {"end", "erase"} =>
    \A i \in (cut + 1)..Len(conns) : conns[i] = None \/ conns[i] \in late
OuterIsEnd == late = {} /\ mpc \in {"remove", "erase"} => outer = Len(conns)

CutInv == CutFront /\ CutBack /\ OuterIsEnd

LEMMA CutNext == Types /\ CutInv /\ [Next]_vars => CutInv'
<1> SUFFICES ASSUME Types, CutInv, [Next]_vars PROVE CutInv'
  OBVIOUS
<1> USE DEF CutInv, CutFront, CutBack, OuterIsEnd
<1>0. /\ conns \in Seq(Elements) /\ Len(conns) \in Nat /\ cut \in Nat /\ outer \in Nat
      /\ mpc \in {"end", "erase"} => cut <= Len(conns)
  BY LenProperties DEF Types, SeqTypes, PlainTypes
<1>1. ASSUME NEW c \in Conns, Accept(c) PROVE CutInv'
  <2>1. /\ conns' = Append(conns, c) /\ UNCHANGED <<mpc, cut, outer>>
        /\ late' = IF mpc \in {"remove", "end", "erase"} THEN late \cup {c} ELSE late
    BY <1>1 DEF Accept, loop, erasing
  <2>2. /\ Len(conns') = Len(conns) + 1 /\ conns'[Len(conns) + 1] = c
        /\ \A i \in 1..Len(conns) : conns'[i] = conns[i]
    <3>1. c \in Elements
      BY DEF Elements
    <3> QED BY <1>0, <2>1, <3>1, AppendProperties
  <2>3. CutFront'
    <3> SUFFICES ASSUME mpc \in {"end", "erase"}, NEW i \in 1..cut PROVE conns'[i] # None
      BY <2>1
    <3>1. i \in 1..Len(conns)
      BY <1>0
    <3> QED BY <2>2, <3>1
  <2>4. CutBack'
    <3> SUFFICES ASSUME mpc \in {"end", "erase"}, NEW i \in (cut + 1)..(Len(conns) + 1)
                 PROVE  conns'[i] = None \/ conns'[i] \in late'
      BY <2>1, <2>2
    <3>1. \/ i \in (cut + 1)..Len(conns) /\ i \in 1..Len(conns)
          \/ i = Len(conns) + 1
      BY <1>0
    <3> QED BY <2>1, <2>2, <3>1
  <2>5. OuterIsEnd'
    BY <2>1
  <2> QED BY <2>3, <2>4, <2>5
<1>2. CASE UNCHANGED <<conns, late, mpc, cut, outer>>
  BY <1>2
<1>3. CASE mpc' \notin {"remove", "end", "erase"}
  BY <1>3
<1>4. CASE EndFirst
  BY <1>4 DEF EndFirst
<1>5. CASE RemoveNulls
  <2>1. /\ conns' = NonNull(conns) \o Nulls(Len(conns) - Len(NonNull(conns)))
        /\ cut' = Len(NonNull(conns)) /\ UNCHANGED <<late, outer>>
        /\ \/ mpc' = "end"
           \/ mpc = "remove" /\ mpc' = "erase"
    BY <1>5 DEF RemoveNulls, lost
  <2> DEFINE n == Len(NonNull(conns))
             t == NonNull(conns) \o Nulls(Len(conns) - n)
  <2>2. /\ Len(t) = Len(conns) /\ \A i \in 1..n : t[i] # None
        /\ \A i \in (n + 1)..Len(t) : t[i] = None
    BY <1>0, RemovedFacts, Zenon
  <2>3. conns' = t /\ cut' = n
    BY <2>1
  <2> HIDE DEF t, n
  <2> QED BY <2>1, <2>2, <2>3
<1>6. CASE EndLast
  BY <1>6 DEF EndLast, lost
<1>7. CASE ListenToBack \/ ReportBack \/ UNCHANGED vars
  <2>1. UNCHANGED <<conns, late, mpc, cut, outer>>
    BY <1>7 DEF ListenToBack, ReportBack, vars, loop, lost, erasing
  <2> QED BY <1>2, <2>1
<1>8. CASE \/ AcceptThrows \/ BackIsNull \/ VisitNull \/ VisitAstray \/ EraseAstray
           \/ \E c \in Conns : DanglingDies(c)
  <2>1. mpc' = "idle"
    BY <1>8 DEF AcceptThrows, BackIsNull, VisitNull, VisitAstray, EraseAstray,
                DanglingDies, Dies
  <2> QED BY <1>3, <2>1
<1>9. CASE \/ TakeMessage \/ Reply \/ StartWalk \/ NothingToRemove \/ Visit
           \/ Erase \/ EraseRaces
  <2>1. mpc' \in {"idle", "handle", "visit"}
    BY <1>9 DEF TakeMessage, Reply, StartWalk, NothingToRemove, Erase, EraseRaces, Visit,
                Done
  <2> QED BY <1>3, <2>1
<1>10. ASSUME NEW c \in Conns,
              \/ Written(c) \/ WriteFail(c) \/ Validated(c) \/ Dangling(c)
              \/ \E kind \in Kinds : Receive(c, kind)
              \/ \E what \in Reads : ReadFail(c, what)
       PROVE  CutInv'
  <2>1. UNCHANGED <<conns, late, mpc, cut, outer>>
    BY <1>10 DEF Written, WriteFail, Validated, Dangling, Receive, ReadFail,
                 loop, lost, erasing
  <2> QED BY <1>2, <2>1
<1> HIDE DEF CutInv, CutFront, CutBack, OuterIsEnd
<1> QED
  BY <1>1, <1>4, <1>5, <1>6, <1>7, <1>8, <1>9, <1>10
  DEF Next, AcceptHandler, Handler, Update, MessageAllClients

-----------------------------------------------------------------------------
(* Nobody else is cut off.                                                 *)

\* A connection with an open socket has its pointer in the container, or one
\* that will never be released; or it was pushed during a remove and erase.
Tracked == \A c \in made : open[c] => c \in Pointers(conns) \cup leaked \cup late

\* One turn of the loop resets at most the pointer it has come to.
LEMMA VisitEffect ==
  ASSUME Types, Visit
  PROVE  /\ k \in 1..Len(conns) /\ k \in Nat /\ last \in Nat /\ k <= last
         /\ conns[k] \in Conns
         /\ \/ open[conns[k]] /\ conns' = conns
            \/ ~open[conns[k]] /\ conns' = [conns EXCEPT ![k] = None]
         /\ conns' \in Seq(Elements) /\ Len(conns') = Len(conns)
         /\ \A i \in 1..Len(conns) : i # k => conns'[i] = conns[i]
         /\ Pointers(conns') \subseteq Pointers(conns)
         /\ \A c \in Pointers(conns) : c \in Pointers(conns') \/ ~open[c]
<1>1. /\ conns \in Seq(Elements) /\ Len(conns) \in Nat
      /\ k \in Nat \ {0} /\ last \in Nat /\ k <= last /\ last <= Len(conns)
      /\ conns[k] # None
  BY LenProperties DEF Visit, Types, SeqTypes, PlainTypes
<1>2. k \in 1..Len(conns) /\ conns[k] \in Conns
  <2>1. k \in 1..Len(conns)
    BY <1>1
  <2> QED BY <1>1, <2>1, ElementOfSeq DEF Elements
<1>3. \/ open[conns[k]] /\ conns' = conns
      \/ ~open[conns[k]] /\ conns' = [conns EXCEPT ![k] = None]
  BY DEF Visit
<1>4. CASE open[conns[k]] /\ conns' = conns
  BY <1>1, <1>2, <1>4
<1>5. CASE ~open[conns[k]] /\ conns' = [conns EXCEPT ![k] = None]
  <2>1. /\ conns' \in Seq(Elements) /\ Len(conns') = Len(conns)
        /\ \A i \in 1..Len(conns) : conns'[i] = IF i = k THEN None ELSE conns[i]
    BY <1>1, <1>2, <1>5 DEF Elements
  <2>2. /\ Pointers(conns) = {conns[i] : i \in 1..Len(conns)} \ {None}
        /\ Pointers(conns') = {conns'[i] : i \in 1..Len(conns)} \ {None}
    BY <1>1, <2>1, PointersFacts
  <2>3. Pointers(conns') \subseteq Pointers(conns)
    BY <2>1, <2>2
  <2>4. ASSUME NEW c \in Pointers(conns), c # conns[k] PROVE c \in Pointers(conns')
    <3>1. PICK i \in 1..Len(conns) : conns[i] = c /\ c # None
      BY <2>2
    <3> QED BY <2>1, <2>2, <2>4, <3>1
  <2> QED BY <1>1, <1>2, <1>5, <2>1, <2>3, <2>4
<1> QED BY <1>3, <1>4, <1>5

\* Steps that keep the pointers and open no socket.
LEMMA TrackedKept ==
  ASSUME Tracked, UNCHANGED <<conns, made, leaked, late>>, \A c \in made : open'[c] => open[c]
  PROVE  Tracked'
BY DEF Tracked, Pointers

LEMMA TrackedDies == Dies => Tracked'
BY DEF Dies, Tracked

LEMMA TrackedNext == Types /\ CutInv /\ Tracked /\ [Next]_vars => Tracked'
<1> SUFFICES ASSUME Types, CutInv, Tracked, [Next]_vars PROVE Tracked'
  OBVIOUS
<1>0. conns \in Seq(Elements) /\ made \subseteq Conns /\ open \in [Conns -> BOOLEAN]
  BY DEF Types, SeqTypes, SocketTypes, PlainTypes
<1>1. ASSUME NEW c \in Conns, Accept(c) PROVE Tracked'
  <2>1. /\ made' = made \cup {c} /\ UNCHANGED leaked /\ late \subseteq late'
        /\ conns' = Append(conns, c) /\ c \notin made
        /\ \A d \in Conns : d # c => open'[d] = open[d]
    BY <1>0, <1>1 DEF Accept
  <2>2. Pointers(conns') = Pointers(conns) \cup {c}
    BY <1>0, <2>1, PointersFacts
  <2> QED BY <1>0, <2>1, <2>2 DEF Tracked
<1>2. CASE ListenToBack \/ ReportBack
  BY <1>2, TrackedKept DEF ListenToBack, ReportBack, sockets, lost
<1>3. ASSUME NEW c \in Conns, Written(c) \/ Validated(c) \/ Dangling(c) PROVE Tracked'
  BY <1>3, TrackedKept DEF Written, Validated, Dangling, lost
<1>4. ASSUME NEW c \in Conns, NEW kind \in Kinds, Receive(c, kind) PROVE Tracked'
  BY <1>4, TrackedKept DEF Receive, sockets, lost
<1>5. ASSUME NEW c \in Conns, WriteFail(c) \/ \E what \in Reads : ReadFail(c, what)
      PROVE  Tracked'
  <2>1. UNCHANGED <<conns, made, leaked, late>> /\ open' = [open EXCEPT ![c] = FALSE]
    BY <1>5 DEF WriteFail, ReadFail, lost
  <2> QED BY <1>0, <2>1, TrackedKept
<1>6. CASE TakeMessage \/ Reply \/ StartWalk \/ NothingToRemove \/ EndFirst \/ EndLast
  <2>1. UNCHANGED <<conns, made, leaked, late, open>>
    BY <1>6 DEF TakeMessage, Reply, StartWalk, NothingToRemove, EndFirst, EndLast,
                sockets, lost
  <2> QED BY <2>1, TrackedKept
<1>7. CASE Visit
  <2>1. UNCHANGED <<made, leaked, late, open>>
    BY <1>7 DEF Visit, lost
  <2> QED BY <1>7, <2>1, VisitEffect DEF Tracked
<1>8. CASE RemoveNulls
  <2>1. UNCHANGED <<made, leaked, late, open>>
    BY <1>8 DEF RemoveNulls, sockets, lost
  <2>2. Pointers(conns') = Pointers(conns)
    BY <1>0, <1>8, RemovedFacts DEF RemoveNulls
  <2> QED BY <2>1, <2>2 DEF Tracked
<1>9. CASE Erase \/ EraseRaces
  <2>1. UNCHANGED <<made, open, late>> /\ mpc = "erase"
    BY <1>9 DEF Erase, EraseRaces, sockets, lost
  <2>2. Len(conns) \in Nat /\ cut \in Nat /\ cut <= Len(conns) /\ outer \in Nat
    BY <2>1, LenProperties DEF Types, SeqTypes, PlainTypes
  <2>3. /\ leaked \subseteq leaked'
        /\ \A i \in 1..cut : conns[i] \in ToSet(conns')
    BY <1>0, <1>9, <2>2, EraseEffect
  <2>4. ASSUME NEW c \in Pointers(conns) PROVE c \in Pointers(conns') \cup late
    <3>1. PICK i \in 1..Len(conns) : conns[i] = c /\ c # None
      BY <1>0, PointersFacts
    <3>2. CASE i \in 1..cut
      BY <2>3, <3>1, <3>2 DEF Pointers
    <3>3. CASE i \in (cut + 1)..Len(conns)
      BY <2>1, <3>1, <3>3 DEF CutInv, CutBack
    <3> QED BY <2>2, <3>2, <3>3
  <2> QED BY <2>1, <2>3, <2>4 DEF Tracked
<1>10. CASE \/ AcceptThrows \/ BackIsNull \/ VisitNull \/ VisitAstray \/ EraseAstray
            \/ \E c \in Conns : DanglingDies(c)
  BY <1>10, TrackedDies
  DEF AcceptThrows, BackIsNull, VisitNull, VisitAstray, EraseAstray, DanglingDies
<1>11. CASE UNCHANGED vars
  BY <1>11, TrackedKept DEF vars, sockets, lost
<1> QED
  BY <1>1, <1>2, <1>3, <1>4, <1>5, <1>6, <1>7, <1>8, <1>9, <1>10, <1>11
  DEF Next, AcceptHandler, Handler, Update, MessageAllClients

\* Only a connection pushed during a remove and erase can lose its last pointer,
\* which closes its socket, while the socket is open: for any number of
\* connections, wherever the threads interleave (net_server.h:126-175, 203-234).
THEOREM ServerCutsNobodyElseOff == Spec => []NobodyElseCutOff
<1>1. Init => Types /\ CutInv /\ Tracked
  BY TypeInit DEF Init, CutInv, CutFront, CutBack, OuterIsEnd, Tracked
<1>2. Types /\ CutInv /\ Tracked /\ [Next]_vars => Types' /\ CutInv' /\ Tracked'
  BY TypeNext, CutNext, TrackedNext
<1>3. Tracked => NobodyElseCutOff
  BY DEF Tracked, NobodyElseCutOff, Exists
<1> QED BY <1>1, <1>2, <1>3, PTL DEF Spec

-----------------------------------------------------------------------------
(* The walk.                                                               *)

\* Connections of the latest walk were made before any that comes now, and those
\* it found closed stay so.
Older ==
  /\ walk.gone \subseteq walk.members
  /\ walk.members \subseteq made /\ Pointers(conns) \subseteq made
GoneClosed == \A c \in walk.gone : ~open[c]

\* Null pointers are only where a walk has come past, which then knows of them,
\* unless a connection has been pushed during a remove and erase.
Clean ==
  mpc \in {"idle", "handle"} =>
    /\ k = 1 /\ found = FALSE
    /\ late = {} => \A i \in 1..Len(conns) : conns[i] # None
Marked ==
  mpc = "visit" =>
    /\ k <= last + 1
    /\ late = {} => \A i \in 1..Len(conns) : conns[i] = None => i < k /\ found = TRUE

\* Whom a walk has met; what was pushed meanwhile it does not know.
Behind ==
  mpc = "visit" =>
    \A i \in 1..(k - 1) : \/ conns[i] = None
                         \/ /\ conns[i] \notin walk.gone
                            /\ conns[i] \in walk.reached \cup {cur.remote}
Ahead == mpc = "visit" => \A i \in (last + 1)..Len(conns) : conns[i] \notin walk.members
NotReached == mpc = "visit" => walk.reached \cap (walk.gone \cup {cur.remote}) = {}

\* After the walk none of those found closed is left.
GoneLeft == mpc # "visit" => walk.gone \cap Pointers(conns) = {}

WalkInv ==
  /\ Older /\ GoneClosed /\ Clean /\ Marked
  /\ Behind /\ Ahead /\ NotReached /\ GoneLeft

\* At its end the walk has met everybody.
LEMMA WalkMetAll ==
  ASSUME Types, WalkInv, mpc = "visit", k > last
  PROVE  walk.gone \cap Pointers(conns) = {}
<1> SUFFICES ASSUME NEW c \in walk.gone, c \in Pointers(conns) PROVE FALSE
  OBVIOUS
<1>1. /\ conns \in Seq(Elements) /\ Len(conns) \in Nat
      /\ k \in Nat \ {0} /\ last \in Nat
  BY LenProperties DEF Types, SeqTypes, PlainTypes
<1>2. PICK i \in 1..Len(conns) : conns[i] = c /\ c # None
  BY <1>1, PointersFacts
<1>3. CASE i < k
  <2>1. i \in 1..(k - 1)
    BY <1>1, <1>3
  <2> QED BY <1>2, <2>1 DEF WalkInv, Behind
<1>4. CASE ~(i < k)
  <2>1. i \in (last + 1)..Len(conns)
    BY <1>1, <1>4
  <2> QED BY <1>2, <2>1 DEF WalkInv, Ahead, Older
<1> QED BY <1>3, <1>4

\* What the properties say follows.
LEMMA WalkInvImplies == Types /\ WalkInv => NoNullVisited /\ WalkComplete
<1> SUFFICES ASSUME Types, WalkInv PROVE NoNullVisited /\ WalkComplete
  OBVIOUS
<1>0. /\ Len(conns) \in Nat /\ k \in Nat \ {0} /\ last \in Nat
      /\ conns \in Seq(Elements)
      /\ mpc = "visit" => last <= Len(conns)
  BY LenProperties DEF Types, SeqTypes, PlainTypes
<1>1. NoNullVisited
  BY <1>0 DEF NoNullVisited, WalkInv, Marked
<1>2. ASSUME mpc = "visit", k > last, NEW c \in walk.members \ {cur.remote},
             c \notin walk.reached, c \in Pointers(conns)
      PROVE  FALSE
  <2>1. PICK i \in 1..Len(conns) : conns[i] = c /\ c # None
    BY <1>0, <1>2, PointersFacts
  <2>2. CASE i < k
    <3>1. i \in 1..(k - 1)
      BY <1>0, <2>2
    <3> QED BY <1>2, <2>1, <3>1 DEF WalkInv, Behind
  <2>3. CASE ~(i < k)
    <3>1. i \in (last + 1)..Len(conns)
      BY <1>0, <1>2, <2>3
    <3> QED BY <1>2, <2>1, <3>1 DEF WalkInv, Ahead
  <2> QED BY <2>2, <2>3
<1>3. mpc = "visit" => walk.reached \cap (walk.gone \cup {cur.remote}) = {}
  BY DEF WalkInv, NotReached
<1>4. mpc # "visit" \/ k > last => walk.gone \cap Pointers(conns) = {}
  BY WalkMetAll DEF WalkInv, GoneLeft
<1>5. WalkComplete
  BY <1>2, <1>3, <1>4 DEF WalkComplete
<1> QED BY <1>1, <1>5

LEMMA WalkInit == Init => WalkInv
<1> SUFFICES ASSUME Init PROVE WalkInv
  OBVIOUS
<1>1. /\ conns = <<>> /\ Len(conns) = 0 /\ Pointers(conns) = {}
  BY DEF Init, Pointers, ToSet
<1>2. walk.members = {} /\ walk.gone = {} /\ mpc = "idle" /\ k = 1 /\ found = FALSE
  BY DEF Init, NoWalk
<1> QED BY <1>1, <1>2 DEF WalkInv, Older, GoneClosed, Clean, Marked, Behind, Ahead,
                         NotReached, GoneLeft

LEMMA WalkDies == Dies => WalkInv'
<1> SUFFICES ASSUME Dies PROVE WalkInv'
  OBVIOUS
<1>1. /\ conns' = <<>> /\ Len(conns') = 0 /\ Pointers(conns') = {}
  BY DEF Dies, Pointers, ToSet
<1>2. walk'.members = {} /\ walk'.gone = {} /\ mpc' = "idle" /\ k' = 1 /\ found' = FALSE
  BY DEF Dies, NoWalk
<1> QED BY <1>1, <1>2 DEF WalkInv, Older, GoneClosed, Clean, Marked, Behind, Ahead,
                         NotReached, GoneLeft

\* Steps that leave the container and the main thread alone, and open no socket.
LEMMA WalkKept ==
  ASSUME WalkInv, UNCHANGED <<conns, made, late, loop>>, \A c \in made : open'[c] => open[c]
  PROVE  WalkInv'
<1>1. UNCHANGED <<conns, made, mpc, cur, k, last, found, walk>>
  BY DEF loop
<1>2. Pointers(conns') = Pointers(conns) /\ Len(conns') = Len(conns)
  BY <1>1
<1>3. GoneClosed'
  BY <1>1 DEF WalkInv, Older, GoneClosed
<1> QED BY <1>1, <1>2, <1>3 DEF WalkInv, Older, Clean, Marked, Behind, Ahead,
                               NotReached, GoneLeft

LEMMA WalkAccept == \A c \in Conns : Types /\ WalkInv /\ Accept(c) => WalkInv'
<1> SUFFICES ASSUME NEW c \in Conns, Types, WalkInv, Accept(c) PROVE WalkInv'
  OBVIOUS
<1>0. /\ conns \in Seq(Elements) /\ Len(conns) \in Nat
      /\ k \in Nat \ {0} /\ last \in Nat
      /\ mpc = "visit" => last <= Len(conns)
      /\ c \in Elements /\ c # None /\ open \in [Conns -> BOOLEAN] /\ made \subseteq Conns
  BY LenProperties, ServerAssumption
  DEF Types, SeqTypes, SocketTypes, PlainTypes, Elements
<1>1. /\ c \notin made /\ made' = made \cup {c} /\ conns' = Append(conns, c)
      /\ open' = [open EXCEPT ![c] = TRUE]
      /\ UNCHANGED <<mpc, cur, k, last, found, walk>>
      /\ late' = {} => late = {}
  BY DEF Accept, loop
<1>2. /\ Len(conns') = Len(conns) + 1 /\ conns'[Len(conns) + 1] = c
      /\ \A i \in 1..Len(conns) : conns'[i] = conns[i]
      /\ Pointers(conns') = Pointers(conns) \cup {c}
  BY <1>0, <1>1, AppendProperties, PointersFacts
<1>3. c \notin walk.members /\ c \notin walk.gone
  BY <1>1 DEF WalkInv, Older
<1>4. Older'
  BY <1>1, <1>2 DEF WalkInv, Older
<1>5. GoneClosed'
  BY <1>0, <1>1, <1>3 DEF WalkInv, Older, GoneClosed
<1>6. \A i \in 1..(Len(conns) + 1) : i \in 1..Len(conns) \/ i = Len(conns) + 1
  BY <1>0
<1>7. Clean'
  BY <1>0, <1>1, <1>2, <1>6 DEF WalkInv, Clean
<1>8. Marked'
  BY <1>0, <1>1, <1>2, <1>6 DEF WalkInv, Marked
<1>9. Behind'
  <2> SUFFICES ASSUME mpc = "visit", NEW i \in 1..(k - 1)
               PROVE  \/ conns'[i] = None
                      \/ /\ conns'[i] \notin walk.gone
                         /\ conns'[i] \in walk.reached \cup {cur.remote}
    BY <1>1 DEF Behind
  <2>1. i \in 1..Len(conns)
    BY <1>0 DEF WalkInv, Marked
  <2> QED BY <1>2, <2>1 DEF WalkInv, Behind
<1>10. Ahead'
  <2> SUFFICES ASSUME mpc = "visit", NEW i \in (last + 1)..(Len(conns) + 1)
               PROVE  conns'[i] \notin walk.members
    BY <1>1, <1>2 DEF Ahead
  <2>1. CASE i = Len(conns) + 1
    BY <1>2, <1>3, <2>1
  <2>2. CASE i # Len(conns) + 1
    <3>1. i \in (last + 1)..Len(conns) /\ i \in 1..Len(conns)
      BY <1>0, <2>2
    <3> QED BY <1>2, <3>1 DEF WalkInv, Ahead
  <2> QED BY <2>1, <2>2
<1>11. NotReached' /\ GoneLeft'
  BY <1>1, <1>2, <1>3 DEF WalkInv, NotReached, GoneLeft
<1> QED BY <1>4, <1>5, <1>7, <1>8, <1>9, <1>10, <1>11 DEF WalkInv

LEMMA WalkTake == Types /\ WalkInv /\ (TakeMessage \/ Reply) => WalkInv'
<1> SUFFICES ASSUME Types, WalkInv, TakeMessage \/ Reply PROVE WalkInv'
  OBVIOUS
<1>1. /\ UNCHANGED <<conns, made, open, k, last, found, walk, late>>
      /\ mpc \in {"idle", "handle"} /\ mpc' \in {"idle", "handle"}
  BY DEF TakeMessage, Reply, sockets, lost
<1>2. Pointers(conns') = Pointers(conns) /\ Len(conns') = Len(conns)
  BY <1>1
<1> QED BY <1>1, <1>2 DEF WalkInv, Older, GoneClosed, Clean, Marked, Behind, Ahead,
                               NotReached, GoneLeft

LEMMA WalkStart == Types /\ WalkInv /\ StartWalk => WalkInv'
<1> SUFFICES ASSUME Types, WalkInv, StartWalk PROVE WalkInv'
  OBVIOUS
<1>1. /\ UNCHANGED <<conns, made, open, cur, k, found, late>> /\ mpc = "handle"
      /\ mpc' = "visit" /\ last' = Len(conns)
      /\ walk' = [members |-> Pointers(conns),
                  gone |-> {c \in Pointers(conns) : ~open[c]}, reached |-> {}]
  BY DEF StartWalk, sockets, lost
<1>2. /\ walk'.members = Pointers(conns) /\ walk'.reached = {}
      /\ walk'.gone = {c \in Pointers(conns) : ~open[c]}
  BY <1>1
<1>3. Pointers(conns') = Pointers(conns) /\ Len(conns') = Len(conns)
  BY <1>1
<1>4. Len(conns) \in Nat
  BY LenProperties DEF Types, SeqTypes
<1>5. /\ k = 1 /\ found = FALSE
      /\ late = {} => \A i \in 1..Len(conns) : conns[i] # None
  BY <1>1 DEF WalkInv, Clean
<1>6. Older' /\ GoneClosed' /\ NotReached' /\ GoneLeft' /\ Clean'
  BY <1>1, <1>2, <1>3 DEF WalkInv, Older, GoneClosed, NotReached, GoneLeft, Clean
<1>7. Marked' /\ Behind' /\ Ahead'
  BY <1>1, <1>3, <1>4, <1>5 DEF Marked, Behind, Ahead
<1> QED BY <1>6, <1>7 DEF WalkInv

LEMMA WalkVisit == Types /\ WalkInv /\ Visit => WalkInv'
<1> SUFFICES ASSUME Types, WalkInv, Visit PROVE WalkInv'
  OBVIOUS
<1> DEFINE c == conns[k]
<1>1. /\ UNCHANGED <<made, open, mpc, cur, last, late>> /\ k' = k + 1 /\ mpc = "visit"
  BY DEF Visit, lost
<1>2. /\ k \in 1..Len(conns) /\ k \in Nat /\ last \in Nat /\ k <= last
      /\ Len(conns') = Len(conns) /\ Len(conns) \in Nat
      /\ \A i \in 1..Len(conns) : i # k => conns'[i] = conns[i]
      /\ Pointers(conns') \subseteq Pointers(conns)
      /\ c # None /\ last <= Len(conns)
  BY VisitEffect, LenProperties DEF Visit, Types, SeqTypes
<1>3. \/ /\ open[c] /\ conns' = conns /\ found' = found
         /\ walk' = [walk EXCEPT !.reached = @ \cup ({c} \ {cur.remote})]
      \/ /\ ~open[c] /\ conns'[k] = None /\ found' = TRUE /\ walk' = walk
  <2>1. CASE open[c]
    BY <2>1 DEF Visit
  <2>2. CASE ~open[c]
    <3>1. conns' = [conns EXCEPT ![k] = None] /\ found' = TRUE /\ walk' = walk
      BY <2>2 DEF Visit
    <3>2. conns'[k] = None
      BY <1>2, <3>1 DEF Types, SeqTypes
    <3> QED BY <2>2, <3>1, <3>2
  <2> QED BY <2>1, <2>2
<1>4. /\ walk'.gone = walk.gone /\ walk'.members = walk.members
      /\ \/ open[c] /\ walk'.reached = walk.reached \cup ({c} \ {cur.remote})
         \/ ~open[c] /\ walk'.reached = walk.reached
  BY <1>3 DEF Types, PlainTypes
<1>5. Older' /\ GoneClosed' /\ Clean' /\ GoneLeft'
  BY <1>1, <1>2, <1>4 DEF WalkInv, Older, GoneClosed, Clean, GoneLeft
<1>6. Marked'
  BY <1>1, <1>2, <1>3 DEF WalkInv, Marked
<1>7. Behind'
  <2> SUFFICES ASSUME NEW i \in 1..k
               PROVE  \/ conns'[i] = None
                      \/ /\ conns'[i] \notin walk.gone
                         /\ conns'[i] \in walk'.reached \cup {cur.remote}
    BY <1>1, <1>2, <1>4 DEF Behind
  <2>1. CASE i = k
    BY <1>3, <1>4, <2>1 DEF WalkInv, GoneClosed
  <2>2. CASE i # k
    <3>1. i \in 1..(k - 1) /\ conns'[i] = conns[i]
      BY <1>2, <2>2
    <3> QED BY <1>1, <1>4, <3>1 DEF WalkInv, Behind
  <2> QED BY <2>1, <2>2
<1>8. Ahead'
  <2> SUFFICES ASSUME NEW i \in (last + 1)..Len(conns) PROVE conns'[i] \notin walk.members
    BY <1>1, <1>2, <1>4 DEF Ahead
  <2>1. i \in 1..Len(conns) /\ i # k
    BY <1>2
  <2> QED BY <1>1, <1>2, <2>1 DEF WalkInv, Ahead
<1>9. NotReached'
  BY <1>1, <1>3, <1>4 DEF WalkInv, NotReached, GoneClosed
<1> QED BY <1>5, <1>6, <1>7, <1>8, <1>9 DEF WalkInv

\* Between the loop and the return: the pointers stay the same.
LEMMA WalkRemoves ==
  Types /\ WalkInv /\ (EndFirst \/ RemoveNulls \/ EndLast) => WalkInv'
<1> SUFFICES ASSUME Types, WalkInv, EndFirst \/ RemoveNulls \/ EndLast PROVE WalkInv'
  OBVIOUS
<1>1. /\ UNCHANGED <<made, open, walk>> /\ mpc' \in {"remove", "end", "erase"}
      /\ mpc # "visit" \/ k > last
  BY DEF EndFirst, RemoveNulls, EndLast, sockets
<1>2. walk.gone \cap Pointers(conns) = {}
  BY <1>1, WalkMetAll DEF WalkInv, GoneLeft
<1>3. Pointers(conns') = Pointers(conns)
  <2>1. CASE RemoveNulls
    BY <2>1, RemovedFacts DEF RemoveNulls, Types, SeqTypes
  <2>2. CASE EndFirst \/ EndLast
    BY <2>2 DEF EndFirst, EndLast
  <2> QED BY <2>1, <2>2
<1>4. Older' /\ GoneClosed' /\ GoneLeft'
  BY <1>1, <1>2, <1>3 DEF WalkInv, Older, GoneClosed, GoneLeft
<1>5. Clean' /\ Marked' /\ Behind' /\ Ahead' /\ NotReached'
  BY <1>1 DEF Clean, Marked, Behind, Ahead, NotReached
<1> QED BY <1>4, <1>5 DEF WalkInv

\* The return: no null pointer is left, unless one was pushed meanwhile.
LEMMA WalkReturns ==
  Types /\ CutInv /\ WalkInv /\ (NothingToRemove \/ Erase \/ EraseRaces) => WalkInv'
<1> SUFFICES ASSUME Types, CutInv, WalkInv, NothingToRemove \/ Erase \/ EraseRaces
             PROVE  WalkInv'
  OBVIOUS
<1>0. /\ conns \in Seq(Elements) /\ Len(conns) \in Nat /\ cut \in Nat /\ outer \in Nat
      /\ mpc = "erase" => cut <= Len(conns)
  BY LenProperties DEF Types, SeqTypes, PlainTypes
<1>1. /\ UNCHANGED <<made, open, late>> /\ mpc' = "idle" /\ k' = 1 /\ found' = FALSE
      /\ walk'.members = {} /\ walk'.gone = {}
  BY DEF NothingToRemove, Erase, EraseRaces, Done, NoWalk, sockets, lost
<1>2. Pointers(conns') \subseteq Pointers(conns)
  <2>1. CASE NothingToRemove
    BY <2>1 DEF NothingToRemove
  <2>2. CASE Erase \/ EraseRaces
    <3>1. mpc = "erase"
      BY <2>2 DEF Erase, EraseRaces
    <3> QED BY <1>0, <2>2, <3>1, EraseEffect
  <2> QED BY <2>1, <2>2
<1>3. ASSUME late = {} PROVE \A i \in 1..Len(conns') : conns'[i] # None
  <2>1. CASE NothingToRemove
    <3>1. conns' = conns /\ mpc = "visit" /\ ~found
      BY <2>1 DEF NothingToRemove
    <3> QED BY <1>3, <3>1 DEF WalkInv, Marked
  <2>2. CASE Erase
    <3>1. mpc = "erase" /\ outer = Len(conns)
      BY <1>3, <2>2 DEF Erase, CutInv, OuterIsEnd
    <3> DEFINE kept == SubSeq(conns, 1, cut)
               rest == SubSeq(conns, outer + 1, Len(conns))
    <3>2. kept \in Seq(Elements) /\ ToSet(kept) = {conns[i] : i \in 1..cut}
      <4>1. 1 \in Nat \ {0} /\ cut <= Len(conns)
        BY <1>0, <3>1
      <4> QED BY <1>0, <4>1, SubSeqElements
    <3>3. rest \in Seq(Elements) /\ ToSet(rest) = {}
      <4>1. outer + 1 \in Nat \ {0} /\ (outer + 1)..Len(conns) = {}
        BY <1>0, <3>1
      <4>2. ToSet(rest) = {conns[i] : i \in (outer + 1)..Len(conns)} /\ rest \in Seq(Elements)
        BY <1>0, <4>1, SubSeqElements
      <4> HIDE DEF rest
      <4> QED BY <4>1, <4>2
    <3>c. conns' = kept \o rest
      BY <2>2 DEF Erase
    <3> HIDE DEF kept, rest
    <3>4. conns' \in Seq(Elements) /\ ToSet(conns') = {conns[i] : i \in 1..cut}
      <4>1. conns' \in Seq(Elements) /\ ToSet(conns') = ToSet(kept) \cup ToSet(rest)
        BY <3>2, <3>3, <3>c, ConcatElements
      <4> QED BY <3>2, <3>3, <4>1
    <3>5. None \notin ToSet(conns')
      BY <3>1, <3>4 DEF CutInv, CutFront
    <3>6. ToSet(conns') = {conns'[i] : i \in 1..Len(conns')}
      BY <3>4, ToSetFacts, Zenon
    <3> QED BY <3>5, <3>6
  <2>3. CASE EraseRaces
    <3>1. mpc = "erase" /\ \E i \in outer..(Len(conns) - 1) : TRUE
      BY <2>3 DEF EraseRaces
    <3>2. outer = Len(conns)
      BY <1>3, <3>1 DEF CutInv, OuterIsEnd
    <3> QED BY <1>0, <3>1, <3>2
  <2> QED BY <2>1, <2>2, <2>3
<1>4. Older' /\ GoneClosed' /\ GoneLeft' /\ Clean'
  BY <1>1, <1>2, <1>3 DEF WalkInv, Older, GoneClosed, GoneLeft, Clean
<1>5. Marked' /\ Behind' /\ Ahead' /\ NotReached'
  BY <1>1 DEF Marked, Behind, Ahead, NotReached
<1> QED BY <1>4, <1>5 DEF WalkInv

LEMMA WalkNext == Types /\ CutInv /\ WalkInv /\ [Next]_vars => WalkInv'
<1> SUFFICES ASSUME Types, CutInv, WalkInv, [Next]_vars PROVE WalkInv'
  OBVIOUS
<1>1. CASE ListenToBack \/ ReportBack
  BY <1>1, WalkKept DEF ListenToBack, ReportBack, sockets, lost
<1>2. ASSUME NEW c \in Conns, Written(c) \/ Validated(c) \/ Dangling(c) PROVE WalkInv'
  BY <1>2, WalkKept DEF Written, Validated, Dangling, lost
<1>3. ASSUME NEW c \in Conns, NEW kind \in Kinds, Receive(c, kind) PROVE WalkInv'
  BY <1>3, WalkKept DEF Receive, sockets, lost
<1>4. ASSUME NEW c \in Conns, WriteFail(c) \/ \E what \in Reads : ReadFail(c, what)
      PROVE  WalkInv'
  <2>1. UNCHANGED <<conns, made, late, loop>> /\ open' = [open EXCEPT ![c] = FALSE]
    BY <1>4 DEF WriteFail, ReadFail, lost
  <2>2. made \subseteq Conns /\ open \in [Conns -> BOOLEAN]
    BY DEF Types, SocketTypes, PlainTypes
  <2> QED BY <2>1, <2>2, WalkKept
<1>5. CASE UNCHANGED vars
  BY <1>5, WalkKept DEF vars, sockets, lost
<1>6. CASE \/ AcceptThrows \/ BackIsNull \/ VisitNull \/ VisitAstray \/ EraseAstray
            \/ \E c \in Conns : DanglingDies(c)
  BY <1>6, WalkDies
  DEF AcceptThrows, BackIsNull, VisitNull, VisitAstray, EraseAstray, DanglingDies
<1> QED
  BY <1>1, <1>2, <1>3, <1>4, <1>5, <1>6,
     WalkAccept, WalkTake, WalkStart, WalkVisit, WalkRemoves, WalkReturns
  DEF Next, AcceptHandler, Handler, Update, MessageAllClients

\* Until a connection has been pushed during a remove and erase, MessageAllClients
\* never comes to a null pointer that an earlier one has left, for any number of
\* connections (net_server.h:208-233).
THEOREM WalkMeetsNoNull == Spec => []NoNullVisited
<1>1. Init => Types /\ CutInv /\ WalkInv
  BY TypeInit, WalkInit DEF Init, CutInv, CutFront, CutBack, OuterIsEnd
<1>2. Types /\ CutInv /\ WalkInv /\ [Next]_vars => Types' /\ CutInv' /\ WalkInv'
  BY TypeNext, CutNext, WalkNext
<1>3. Types /\ WalkInv => NoNullVisited
  BY WalkInvImplies
<1> QED BY <1>1, <1>2, <1>3, PTL DEF Spec

\* Whom a message to all reaches, and what it leaves in the container, for any
\* number of connections made and lost meanwhile (net_server.h:203-234).
THEOREM WalkReachesAll == Spec => []WalkComplete
<1>1. Init => Types /\ CutInv /\ WalkInv
  BY TypeInit, WalkInit DEF Init, CutInv, CutFront, CutBack, OuterIsEnd
<1>2. Types /\ CutInv /\ WalkInv /\ [Next]_vars => Types' /\ CutInv' /\ WalkInv'
  BY TypeNext, CutNext, WalkNext
<1>3. Types /\ WalkInv => WalkComplete
  BY WalkInvImplies
<1> QED BY <1>1, <1>2, <1>3, PTL DEF Spec
=============================================================================
