------------------------ MODULE ChannelIntakeInvariant -----------------------
(***************************************************************************)
(* The inductive invariant of ChannelIntake: where every CHUNK stream is, how  *)
(* the inbox leads from the channel's members to the engine's, and what wakes  *)
(* the read queue.  The facts about the model's operators and about the steps  *)
(* that several handlers share are proved here.                                *)
(***************************************************************************)
EXTENDS ChannelIntake, FiniteSetTheorems, TLAPS

-----------------------------------------------------------------------------
(* Sequences without repetition. *)

LEMMA Elements ==
    ASSUME NEW R, NEW q \in Seq(R)
    PROVE  /\ Len(q) \in Nat /\ DOMAIN q = 1..Len(q)
           /\ Range(q) \subseteq R /\ \A i \in 1..Len(q) : q[i] \in R /\ q[i] \in Range(q)
           /\ \A x \in Range(q) : \E i \in 1..Len(q) : q[i] = x
           /\ q = <<>> <=> Len(q) = 0
<1>1. /\ Len(q) \in Nat /\ DOMAIN q = 1..Len(q) /\ \A i \in 1..Len(q) : q[i] \in R
      /\ q = <<>> <=> Len(q) = 0
  OBVIOUS
<1> QED
  BY Zenon, <1>1 DEF Range

LEMMA NoElements == Range(<<>>) = {} /\ IsInjective(<<>>)
<1>1. DOMAIN <<>> = {}
  OBVIOUS
<1> QED
  BY <1>1 DEF Range, IsInjective

LEMMA OneElement ==
    ASSUME NEW R, NEW x \in R
    PROVE  <<x>> \in Seq(R) /\ Range(<<x>>) = {x} /\ IsInjective(<<x>>)
<1>1. <<x>> \in Seq(R) /\ Len(<<x>>) = 1 /\ <<x>>[1] = x /\ DOMAIN <<x>> = 1..1
  OBVIOUS
<1>2. 1..1 = {1}
  OBVIOUS
<1> QED
  BY <1>1, <1>2 DEF Range, IsInjective

\* A sequence cut in two.
LEMMA CutSeq ==
    ASSUME NEW q \in Seq(Streams), NEW n \in 0..Len(q)
    PROVE  LET a == SubSeq(q, 1, n)
               b == SubSeq(q, n + 1, Len(q))
           IN  /\ a \in Seq(Streams) /\ Len(a) = n /\ \A i \in 1..n : a[i] = q[i]
               /\ b \in Seq(Streams) /\ Len(b) = Len(q) - n
               /\ Range(a) \union Range(b) = Range(q)
               /\ IsInjective(q) => /\ IsInjective(a) /\ IsInjective(b)
                                 /\ Range(a) \cap Range(b) = {}
<1> DEFINE a == SubSeq(q, 1, n)
           b == SubSeq(q, n + 1, Len(q))
           m == Len(q)
<1>1. m \in Nat /\ n \in 0..m /\ \A i \in 1..m : q[i] \in Streams
  BY Elements
<1>2. a \in Seq(Streams) /\ Len(a) = n /\ \A i \in 1..n : a[i] = q[i]
  OBVIOUS
<1>3. b \in Seq(Streams) /\ Len(b) = m - n /\ \A i \in 1..(m - n) : b[i] = q[n + i]
  OBVIOUS
<1> HIDE DEF a, b
<1>4. DOMAIN a = 1..n /\ DOMAIN b = 1..(m - n) /\ DOMAIN q = 1..m
  BY <1>2, <1>3, Elements
<1>5. \A i \in 1..n : i \in 1..m
  BY <1>1
<1>6. \A i \in 1..(m - n) : n + i \in 1..m /\ n + i \notin 1..n
  BY <1>1
<1>7. \A i \in 1..m : i \notin 1..n => i - n \in 1..(m - n) /\ n + (i - n) = i
  BY <1>1
<1>8. Range(a) \union Range(b) = Range(q)
  <2>1. \A i \in 1..m : q[i] \in Range(a) \union Range(b)
    <3> TAKE i \in 1..m
    <3>1. CASE i \in 1..n
      BY Zenon, <1>2, <1>4, <3>1 DEF Range
    <3>2. CASE i \notin 1..n
      <4>1. i - n \in 1..(m - n) /\ b[i - n] = q[i]
        BY <1>3, <1>7, <3>2
      <4> QED
        BY Zenon, <1>4, <4>1 DEF Range
    <3> QED
      BY <3>1, <3>2
  <2>2. \A i \in 1..n : a[i] \in Range(q)
    BY Zenon, <1>2, <1>4, <1>5 DEF Range
  <2>3. \A i \in 1..(m - n) : b[i] \in Range(q)
    BY Zenon, <1>3, <1>4, <1>6 DEF Range
  <2> QED
    BY Zenon, <1>4, <2>1, <2>2, <2>3 DEF Range
<1>9. ASSUME IsInjective(q)
      PROVE  IsInjective(a) /\ IsInjective(b) /\ Range(a) \cap Range(b) = {}
  <2>1. IsInjective(a)
    BY Zenon, <1>2, <1>4, <1>5, <1>9 DEF IsInjective
  <2>2. \A i, j \in 1..(m - n) : n + i = n + j => i = j
    BY <1>1
  <2>3. IsInjective(b)
    BY Zenon, <1>3, <1>4, <1>6, <1>9, <2>2 DEF IsInjective
  <2>4. \A i \in 1..n, j \in 1..(m - n) : a[i] # b[j]
    <3> TAKE i \in 1..n, j \in 1..(m - n)
    <3>1. i \in DOMAIN q /\ n + j \in DOMAIN q /\ i # n + j
      BY Zenon, <1>4, <1>5, <1>6
    <3>2. q[i] # q[n + j]
      BY Zenon, <1>9, <3>1 DEF IsInjective
    <3> QED
      BY Zenon, <1>2, <1>3, <3>2
  <2> QED
    BY Zenon, <1>4, <2>1, <2>3, <2>4 DEF Range
<1> QED
  BY Zenon, <1>2, <1>3, <1>8, <1>9 DEF a, b

\* Two sequences joined.
LEMMA JoinSeq ==
    ASSUME NEW a \in Seq(Streams), NEW b \in Seq(Streams)
    PROVE  /\ a \o b \in Seq(Streams) /\ Len(a \o b) = Len(a) + Len(b)
           /\ Range(a \o b) = Range(a) \union Range(b)
           /\ IsInjective(a) /\ IsInjective(b) /\ Range(a) \cap Range(b) = {} => IsInjective(a \o b)
<1> DEFINE c == a \o b
           n == Len(a)
           m == Len(b)
<1>1. /\ n \in Nat /\ m \in Nat /\ DOMAIN a = 1..n /\ DOMAIN b = 1..m
      /\ c \in Seq(Streams) /\ Len(c) = n + m
      /\ \A i \in 1..(n + m) : c[i] = IF i <= n THEN a[i] ELSE b[i - n]
  OBVIOUS
<1>2. DOMAIN c = 1..(n + m)
  BY <1>1, Elements
<1> HIDE DEF c
<1>3. \A i \in 1..n : i \in 1..(n + m) /\ c[i] = a[i]
  BY <1>1
<1>4. \A i \in 1..m : n + i \in 1..(n + m) /\ c[n + i] = b[i]
  <2> TAKE i \in 1..m
  <2>1. n + i \in 1..(n + m) /\ ~(n + i <= n) /\ (n + i) - n = i
    BY <1>1
  <2> QED
    BY <1>1, <2>1
<1>5. \A i \in 1..(n + m) : i \notin 1..n => i - n \in 1..m /\ c[i] = b[i - n]
  BY <1>1
<1>6. Range(c) = Range(a) \union Range(b)
  <2>1. \A i \in 1..(n + m) : c[i] \in Range(a) \union Range(b)
    BY Zenon, <1>1, <1>3, <1>5 DEF Range
  <2>2. \A i \in 1..n : a[i] \in Range(c)
    BY Zenon, <1>2, <1>3 DEF Range
  <2>3. \A i \in 1..m : b[i] \in Range(c)
    BY Zenon, <1>2, <1>4 DEF Range
  <2> QED
    BY Zenon, <1>1, <1>2, <2>1, <2>2, <2>3 DEF Range
<1>7. ASSUME IsInjective(a), IsInjective(b), Range(a) \cap Range(b) = {}
      PROVE  IsInjective(c)
  <2>1. \A i \in 1..n, j \in 1..m : a[i] # b[j]
    BY Zenon, <1>1, <1>7 DEF Range
  <2>2. \A i, j \in 1..(n + m) : i - n = j - n => i = j
    BY <1>1
  <2>3. ASSUME NEW i \in 1..(n + m), NEW j \in 1..(n + m), c[i] = c[j]
        PROVE  i = j
    <3>1. CASE i \in 1..n /\ j \in 1..n
      BY Zenon, <1>1, <1>3, <1>7, <2>3, <3>1 DEF IsInjective
    <3>2. CASE i \in 1..n /\ j \notin 1..n
      BY Zenon, <1>3, <1>5, <2>1, <2>3, <3>2
    <3>3. CASE i \notin 1..n /\ j \in 1..n
      BY Zenon, <1>3, <1>5, <2>1, <2>3, <3>3
    <3>4. CASE i \notin 1..n /\ j \notin 1..n
      <4>1. i - n \in DOMAIN b /\ j - n \in DOMAIN b /\ b[i - n] = b[j - n]
        BY Zenon, <1>1, <1>5, <2>3, <3>4
      <4>2. i - n = j - n
        BY Zenon, <1>7, <4>1 DEF IsInjective
      <4> QED
        BY Zenon, <2>2, <4>2
    <3> QED
      BY Zenon, <3>1, <3>2, <3>3, <3>4
  <2> QED
    BY Zenon, <1>2, <2>3 DEF IsInjective
<1> QED
  BY Zenon, <1>1, <1>6, <1>7 DEF c

LEMMA CountSeq ==
    ASSUME NEW q \in Seq(Streams), IsInjective(q)
    PROVE  IsFiniteSet(Range(q)) /\ Cardinality(Range(q)) = Len(q)
<1> DEFINE n == Len(q)
<1>1. n \in Nat /\ DOMAIN q = 1..n /\ q \in [1..n -> Range(q)]
  BY Elements
<1>2. q \in Surjection(1..n, Range(q))
  BY Zenon, <1>1 DEF Surjection, Range
<1>3. q \in Injection(1..n, Range(q))
  BY Zenon, <1>1 DEF Injection, IsInjective
<1>4. IsFiniteSet(1..n) /\ Cardinality(1..n) = n
  BY ONLY <1>1, FS_Interval
<1> QED
  BY Zenon, <1>2, <1>3, <1>4, FS_Surjection

-----------------------------------------------------------------------------
(* Keep. *)

\* Keep gives the elements that are in S, each as often as q has it.
LEMMA KeepFacts ==
    ASSUME NEW q \in Seq(Streams), NEW S
    PROVE  /\ Keep(q, S) \in Seq(Streams) /\ Len(Keep(q, S)) = Cardinality(Kept(q, S))
           /\ Range(Keep(q, S)) = Range(q) \cap S
           /\ IsInjective(q) => IsInjective(Keep(q, S))
           /\ Len(Keep(q, S)) <= Len(q)
<1> DEFINE I == Kept(q, S)
           n == Cardinality(I)
           f == [i \in I |-> Rank(I, i)]
           at(k) == CHOOSE i \in I : Rank(I, i) = k
           upTo(i) == {j \in I : j <= i}
<1>1. DOMAIN q = 1..Len(q) /\ Len(q) \in Nat /\ I \subseteq 1..Len(q)
  BY Elements DEF Kept
<1>2. IsFiniteSet(I) /\ n \in Nat /\ n <= Len(q)
  <2>1. IsFiniteSet(1..Len(q)) /\ Cardinality(1..Len(q)) = Len(q)
    <3>1. \A m \in Nat : IsFiniteSet(1..m) /\ Cardinality(1..m) = m
      BY FS_Interval
    <3> QED
      BY Zenon, <1>1, <3>1
  <2> QED
    BY <1>1, <2>1, FS_Subset, FS_CardinalityType
<1>3. \A i \in I : q[i] \in Streams /\ q[i] \in S /\ i \in DOMAIN q
  BY <1>1, Elements DEF Kept
<1>4. \A i \in DOMAIN q : q[i] \in S => i \in I
  BY DEF Kept
<1> HIDE DEF I
<1>5. ASSUME NEW i \in I
      PROVE  /\ upTo(i) \in SUBSET I /\ IsFiniteSet(upTo(i))
             /\ Rank(I, i) = Cardinality(upTo(i)) /\ Rank(I, i) \in 1..n
  <2>1. i \in upTo(i) /\ upTo(i) \in SUBSET I
    BY <1>1
  <2>2. /\ IsFiniteSet(upTo(i)) /\ Cardinality(upTo(i)) <= n
        /\ Cardinality(upTo(i)) \in Nat
    BY <1>2, <2>1, FS_Subset, FS_CardinalityType
  <2>3. Cardinality(upTo(i)) # 0
    BY Zenon, <2>1, <2>2, FS_EmptySet
  <2>4. Cardinality(upTo(i)) \in 1..n
    BY <1>2, <2>2, <2>3
  <2> QED
    BY Zenon, <2>1, <2>2, <2>4 DEF Rank
<1>6. ASSUME NEW i \in I, NEW j \in I, i < j
      PROVE  Rank(I, i) # Rank(I, j)
  <2>1. i \in Nat /\ j \in Nat
    BY <1>1
  <2>2. ~(j <= i) /\ j <= j /\ \A x \in 1..Len(q) : x <= i => x <= j
    BY <1>6, <2>1
  <2>3. upTo(i) \in SUBSET upTo(j) /\ j \in upTo(j) /\ j \notin upTo(i)
    BY Zenon, <1>1, <2>2
  <2> QED
    BY Zenon, <1>5, <2>3, FS_Subset
<1>7. \A i, j \in I : Rank(I, i) = Rank(I, j) => i = j
  <2> SUFFICES ASSUME NEW i \in I, NEW j \in I, i # j
               PROVE  Rank(I, i) # Rank(I, j)
    OBVIOUS
  <2>1. i < j \/ j < i
    BY <1>1
  <2> QED
    BY <2>1, <1>6
<1>8. \A k \in 1..n : \E i \in I : Rank(I, i) = k
  <2>1. f \in Injection(I, 1..n)
    BY Zenon, <1>5, <1>7 DEF Injection, IsInjective
  <2>2. IsFiniteSet(1..n) /\ Cardinality(1..n) = n
    BY <1>2, FS_Interval
  <2>3. f \in Surjection(I, 1..n)
    BY Zenon, <2>1, <2>2, FS_Injection
  <2> QED
    BY Zenon, <2>3 DEF Surjection
<1>9. \A k \in 1..n : at(k) \in I /\ Rank(I, at(k)) = k
  BY Zenon, <1>8
<1>10. \A i \in I : Rank(I, i) \in 1..n /\ at(Rank(I, i)) = i
  BY Zenon, <1>5, <1>7, <1>9
<1>11. Keep(q, S) = [k \in 1..n |-> q[at(k)]]
  BY Zenon DEF Keep, I
<1> HIDE DEF at, n
<1>12. \A k \in 1..n : q[at(k)] \in Streams
  BY Zenon, <1>3, <1>9
<1>13. Keep(q, S) \in Seq(Streams) /\ Len(Keep(q, S)) = n /\ DOMAIN Keep(q, S) = 1..n
  BY <1>2, <1>11, <1>12
<1>16. \A k \in 1..n : Keep(q, S)[k] = q[at(k)]
  BY Zenon, <1>11
<1>14. Range(Keep(q, S)) = Range(q) \cap S
  <2>1. \A k \in 1..n : q[at(k)] \in Range(q) \cap S
    BY Zenon, <1>3, <1>9 DEF Range
  <2>2. \A x \in Range(q) \cap S : \E k \in 1..n : q[at(k)] = x
    BY Zenon, <1>4, <1>10 DEF Range
  <2>3. Range(Keep(q, S)) = {Keep(q, S)[k] : k \in 1..n}
    BY Zenon, <1>13 DEF Range
  <2>4. Range(Keep(q, S)) = {q[at(k)] : k \in 1..n}
    BY Zenon, <1>16, <2>3
  <2> QED
    BY Zenon, <2>1, <2>2, <2>4
<1>15. ASSUME IsInjective(q)
       PROVE  IsInjective(Keep(q, S))
  <2>1. ASSUME NEW k \in 1..n, NEW l \in 1..n, Keep(q, S)[k] = Keep(q, S)[l]
        PROVE  k = l
    <3>1. at(k) \in DOMAIN q /\ at(l) \in DOMAIN q /\ q[at(k)] = q[at(l)]
      BY Zenon, <1>3, <1>9, <1>16, <2>1
    <3>2. at(k) = at(l)
      BY Zenon, <1>15, <3>1 DEF IsInjective
    <3> QED
      BY Zenon, <1>9, <3>2
  <2> QED
    BY Zenon, <1>13, <2>1 DEF IsInjective
<1> QED
  BY Zenon, <1>2, <1>13, <1>14, <1>15 DEF n, I

-----------------------------------------------------------------------------
(* Feed. *)

\* drainReads stops at the first queued stream for which no slot is left.
LEMMA DrainStops ==
    ASSUME NEW X, X.queue \in Seq(Streams), Free \in Nat
    PROVE  /\ Drainable(X) \in 0..Len(X.queue)
           /\ Drainable(X) < Len(X.queue) =>
                 Free <= Cardinality({j \in 1..Drainable(X) : Wanted(X, X.queue[j])})
<1> DEFINE q == X.queue
           m == Len(q)
           upTo(i) == {j \in 1..i : Wanted(X, q[j])}
           D == {i \in DOMAIN q : Cardinality(upTo(i - 1)) < Free}
           n == Cardinality(D)
<1>1. m \in Nat /\ DOMAIN q = 1..m
  BY Elements
<1>2. D \in SUBSET (1..m) /\ \A i \in 1..m : i \in D <=> Cardinality(upTo(i - 1)) < Free
  BY Zenon, <1>1
<1>3. Drainable(X) = n
  BY Zenon DEF Drainable
<1>4. ASSUME NEW i \in Nat
      PROVE  IsFiniteSet(upTo(i)) /\ Cardinality(upTo(i)) \in Nat
  <2>1. IsFiniteSet(1..i)
    BY FS_Interval
  <2>2. upTo(i) \in SUBSET (1..i)
    BY Zenon
  <2> QED
    BY Zenon, <2>1, <2>2, FS_Subset, FS_CardinalityType
<1>5. ASSUME NEW i \in Nat, NEW j \in Nat, i <= j
      PROVE  Cardinality(upTo(i)) <= Cardinality(upTo(j))
  <2>1. \A x \in 1..i : x \in 1..j
    BY <1>5
  <2>2. upTo(i) \in SUBSET upTo(j)
    BY Zenon, <2>1
  <2> QED
    BY Zenon, <1>4, <2>2, FS_Subset
<1> HIDE DEF upTo, D
<1>6. IsFiniteSet(D) /\ n \in Nat /\ n <= m
  <2>1. IsFiniteSet(1..m) /\ Cardinality(1..m) = m
    BY <1>1, FS_Interval
  <2>2. IsFiniteSet(D) /\ n <= m
    BY ZenonT(40), <1>2, <2>1, FS_Subset
  <2> QED
    BY Zenon, <2>2, FS_CardinalityType
<1> HIDE DEF n, m
<1>7. ASSUME NEW i \in 1..m, NEW j \in 1..m, i <= j, j \in D
      PROVE  i \in D
  <2>1. i - 1 \in Nat /\ j - 1 \in Nat /\ i - 1 <= j - 1
    BY <1>1, <1>7
  <2>2. Cardinality(upTo(i - 1)) <= Cardinality(upTo(j - 1))
    BY Zenon, <1>5, <2>1
  <2>3. Cardinality(upTo(j - 1)) < Free
    BY Zenon, <1>2, <1>7
  <2>4. Cardinality(upTo(i - 1)) \in Nat /\ Cardinality(upTo(j - 1)) \in Nat
    BY Zenon, <1>4, <2>1
  <2>5. Cardinality(upTo(i - 1)) < Free
    BY <2>2, <2>3, <2>4
  <2> QED
    BY Zenon, <1>2, <2>5
<1>8. ASSUME n < m
      PROVE  Free <= Cardinality(upTo(n))
  <2>1. n + 1 \in 1..m /\ (n + 1) - 1 = n
    BY <1>1, <1>6, <1>8
  <2>2. ASSUME n + 1 \in D PROVE FALSE
    <3>1. \A i \in 1..(n + 1) : i \in 1..m /\ i <= n + 1
      BY <1>1, <1>6, <2>1
    <3>2. 1..(n + 1) \in SUBSET D
      BY Zenon, <1>7, <2>1, <2>2, <3>1
    <3>3. Cardinality(1..(n + 1)) = n + 1
      BY <1>6, FS_Interval
    <3>4. Cardinality(1..(n + 1)) <= Cardinality(D)
      BY Zenon, <1>6, <3>2, FS_Subset
    <3>5. n + 1 <= n
      BY Zenon, <3>3, <3>4 DEF n
    <3> QED
      BY <1>6, <3>5
  <2>3. ~(Cardinality(upTo(n)) < Free)
    BY Zenon, <1>2, <2>1, <2>2
  <2>4. Cardinality(upTo(n)) \in Nat
    BY Zenon, <1>4, <1>6
  <2> QED
    BY <2>3, <2>4
<1>9. n \in 0..m
  BY <1>1, <1>6
<1> QED
  BY Zenon, <1>3, <1>8, <1>9 DEF m, upTo

\* What Feed does with the streams queued and the new ones: each is started, queued
\* or refused, and while one is queued every slot is taken.
FeedResult(X, new, Q, go) ==
    LET f == Feed(X, new)
    IN  /\ f.sess = [X EXCEPT !.queue = Q]
        /\ f.reader = [s \in Streams |-> IF s \in go THEN "read" ELSE reader[s]]
        /\ IsInjective(Q) /\ go \cap Range(Q) = {}
        /\ go \union Range(Q) \union f.refused = Range(X.queue) \union Range(new)
        /\ Cardinality(Reading \union go) <= MaxReads
        /\ Q # <<>> => Cardinality(Reading \union go) = MaxReads

LEMMA FeedFacts ==
    ASSUME NEW X, X.queue \in Seq(Streams), IsInjective(X.queue),
           NEW new \in Seq(Streams), IsInjective(new), Range(new) \cap Range(X.queue) = {},
           Reading \cap (Range(new) \union Range(X.queue)) = {},
           Cardinality(Reading) <= MaxReads
    PROVE  \E Q \in Seq(Streams), go \in SUBSET Streams : FeedResult(X, new, Q, go)
<1> DEFINE q == X.queue
           W == {s \in Streams : Wanted(X, s)}
           n == Drainable(X)
           taken == SubSeq(q, 1, n)
           rest == SubSeq(q, n + 1, Len(q))
           a == Keep(taken, W)
           b == Keep(new, W)
           ready == a \o b
           k == IF Len(ready) < Free THEN Len(ready) ELSE Free
           started == SubSeq(ready, 1, k)
           left == SubSeq(ready, k + 1, Len(ready))
           Q == rest \o left
           go == Range(started)
           refused == {s \in Range(taken) \cup Range(new) : ~Wanted(X, s)}
<1>1. IsFiniteSet(Reading) /\ Cardinality(Reading) \in Nat /\ Reading \subseteq Streams
  BY IntakeAssumption, FS_Subset, FS_CardinalityType DEF Reading
<1>2. Free \in Nat /\ Free = MaxReads - Cardinality(Reading) /\ MaxReads \in Nat
  BY <1>1, IntakeAssumption DEF Free
<1>3. /\ Feed(X, new).sess = [X EXCEPT !.queue = Q]
      /\ Feed(X, new).reader = [s \in Streams |-> IF s \in go THEN "read" ELSE reader[s]]
      /\ Feed(X, new).refused = refused
  BY DEF Feed
<1>4. n \in 0..Len(q)
  BY Zenon, <1>2, DrainStops
<1>5. /\ taken \in Seq(Streams) /\ Len(taken) = n /\ \A i \in 1..n : taken[i] = q[i]
      /\ rest \in Seq(Streams) /\ Len(rest) = Len(q) - n
      /\ Range(taken) \union Range(rest) = Range(q)
      /\ IsInjective(taken) /\ IsInjective(rest) /\ Range(taken) \cap Range(rest) = {}
  BY ONLY <1>4, CutSeq, X.queue \in Seq(Streams), IsInjective(X.queue)
<1> HIDE DEF n, taken, rest, W
<1>6. /\ a \in Seq(Streams) /\ Len(a) = Cardinality(Kept(taken, W))
      /\ Range(a) = Range(taken) \cap W /\ IsInjective(a)
  BY Zenon, <1>5, KeepFacts
<1>7. b \in Seq(Streams) /\ Range(b) = Range(new) \cap W /\ IsInjective(b)
  BY Zenon, KeepFacts
<1> HIDE DEF a, b
<1>8. Range(a) \cap Range(b) = {}
  BY Zenon, <1>5, <1>6, <1>7
<1>9. /\ ready \in Seq(Streams) /\ Len(ready) = Len(a) + Len(b)
      /\ Range(ready) = Range(a) \union Range(b) /\ IsInjective(ready)
  BY Zenon, <1>6, <1>7, <1>8, JoinSeq
<1>10. Len(a) \in Nat /\ Len(b) \in Nat /\ Len(ready) \in Nat
  BY <1>6, <1>7, <1>9, Elements
<1> HIDE DEF ready
<1>11. k \in 0..Len(ready) /\ k <= Free /\ (k < Len(ready) => k = Free)
  BY <1>2, <1>10
<1> HIDE DEF k
<1>12. /\ started \in Seq(Streams) /\ Len(started) = k
       /\ left \in Seq(Streams) /\ Len(left) = Len(ready) - k
       /\ Range(started) \union Range(left) = Range(ready)
       /\ IsInjective(started) /\ IsInjective(left) /\ Range(started) \cap Range(left) = {}
  BY ZenonT(40), <1>9, <1>11, CutSeq
<1> HIDE DEF started, left
<1>13. Range(rest) \cap Range(ready) = {}
  BY Zenon, <1>5, <1>6, <1>7, <1>9
<1>14. /\ Q \in Seq(Streams) /\ Len(Q) = Len(rest) + Len(left)
       /\ Range(Q) = Range(rest) \union Range(left) /\ IsInjective(Q)
  BY Zenon, <1>5, <1>12, <1>13, JoinSeq
<1> HIDE DEF Q
<1>15. go \in SUBSET Streams /\ IsFiniteSet(go) /\ Cardinality(go) = k
  BY Zenon, <1>12, Elements, CountSeq
<1>16. go \cap Range(Q) = {}
  BY Zenon, <1>12, <1>13, <1>14
<1>17. \A s \in Streams : s \in W <=> Wanted(X, s)
  BY Zenon DEF W
<1>18. Range(taken) \subseteq Streams /\ Range(new) \subseteq Streams
  BY Zenon, <1>5, Elements
<1>19. go \union Range(Q) \union refused = Range(q) \union Range(new)
  BY Zenon, <1>5, <1>6, <1>7, <1>9, <1>12, <1>14, <1>17, <1>18
<1>20. Cardinality(Reading \union go) = Cardinality(Reading) + k
  <2>1. Reading \cap go = {}
    BY Zenon, <1>5, <1>6, <1>7, <1>9, <1>12
  <2>2. Cardinality({}) = 0
    BY FS_EmptySet
  <2>3. Cardinality(Reading \union go)
            = Cardinality(Reading) + Cardinality(go) - Cardinality(Reading \cap go)
    BY Zenon, <1>1, <1>15, FS_Union
  <2>4. Cardinality(Reading \cap go) = 0
    BY Zenon, <2>1, <2>2
  <2> HIDE DEF go
  <2> QED
    BY <1>1, <1>11, <1>15, <2>3, <2>4
<1>21. Cardinality(Reading \union go) <= MaxReads
  BY <1>1, <1>2, <1>10, <1>11, <1>20
<1>22. ASSUME Q # <<>>
       PROVE  k = Free
  <2>1. Len(Q) # 0
    BY <1>14, <1>22, Elements
  <2>2. CASE Len(left) # 0
    BY <1>10, <1>11, <1>12, <2>2
  <2>3. CASE Len(left) = 0
    <3>0. Len(rest) \in Nat /\ Len(q) \in Nat
      BY <1>5, Elements
    <3>1. n < Len(q)
      BY <1>4, <1>5, <1>14, <2>1, <2>3, <3>0
    <3>2. Free <= Cardinality({j \in 1..n : Wanted(X, q[j])})
      BY Zenon, <1>2, <3>1, DrainStops DEF n
    <3>3. Kept(taken, W) = {j \in 1..n : Wanted(X, q[j])}
      <4>1. DOMAIN taken = 1..n /\ \A j \in 1..n : taken[j] \in Streams
        BY <1>4, <1>5, Elements
      <4> QED
        BY Zenon, <1>5, <1>17, <4>1 DEF Kept
    <3>4. Free <= Len(ready)
      BY <1>2, <1>6, <1>9, <1>10, <3>2, <3>3
    <3> QED
      BY <1>2, <1>10, <1>11, <3>4
  <2> QED
    BY Zenon, <2>2, <2>3
<1>23. Q # <<>> => Cardinality(Reading \union go) = MaxReads
  BY <1>1, <1>2, <1>20, <1>22
<1>24. FeedResult(X, new, Q, go)
  BY Zenon, <1>3, <1>14, <1>16, <1>19, <1>21, <1>23 DEF FeedResult
<1> HIDE DEF go
<1> QED
  BY Zenon, <1>14, <1>15, <1>24

-----------------------------------------------------------------------------
(* The inductive invariant. *)

PeerEvents == [kind : {"Bound", "Unbound", "Open", "Reconstructed", "Ended"},
               of : Peers, conn : 0..MaxConn]
StreamEvents == [kind : {"Stream", "Data"}, of : Streams, conn : {0}]
OtherEvents == [kind : {"ReadDone", "Decoded", "Expiry", "Publish"},
                of : {"", "ok", "failed"}, conn : {0}]
Events == PeerEvents \union StreamEvents \union OtherEvents

TypedInbox(q) == q \in Seq(Events) /\ Len(q) <= InboxCap

TypedChannel ==
    /\ ctx \in BOOLEAN
    /\ actor \in {"run", "closing", "publish", "stopping", "done"}
    /\ member \in [Peers -> 0..MaxConn]
    /\ sess \in SessionType
    /\ parked \in Seq(Streams) /\ Len(parked) <= MaxParked /\ parkedDue \in BOOLEAN
    /\ reader \in [Streams -> {"none", "read", "post", "done"}]
    /\ status \in [Streams -> {"idle", "open", "read", "cancelled"}]

TypedEngine ==
    /\ bound \in [Peers -> 0..MaxConn] /\ latest \in [Peers -> 0..MaxConn]
    /\ sessIn \in [Peers -> SUBSET (Nat \X (0..MaxConn))] /\ opens \in Nat

\* An actor that waits or has stopped has no session and no parked group.
Stopped ==
    /\ actor # "run" => ~sess.on /\ parked = <<>>
    /\ actor \in {"stopping", "done"} => ~ctx

\* What a session X of a channel with members m looks like between events.
Fits(X, m) ==
    /\ X.on => \A p \in Peers : X.peers[p] = IF p \in X.left THEN 0 ELSE m[p]
    /\ X.completed \subseteq Attached(X)
    /\ ~X.on => X.queue = <<>> /\ ~X.ever
    /\ ~Idle(X)

Owned == (decoder /\ actor = "run") => (sess.on /\ sess.stage \in {"Decoding", "Reconstructed"})

\* The connection of a member p before and after the actor handles e: a peer that is
\* enrolled was not a member, one that is withdrawn was.
Turn(e, p, before, after) ==
    IF e.kind = "Bound" /\ e.of = p THEN before = 0 /\ after = e.conn /\ after # 0
    ELSE IF e.kind = "Unbound" /\ e.of = p THEN before # 0 /\ after = 0
    ELSE after = before

\* The events of the inbox q lead from what the channel says of p to what the engine says.
Leads(q, p, in, out) == \E w \in [0..Len(q) -> 0..MaxConn] :
    /\ w[0] = in /\ w[Len(q)] = out
    /\ \A i \in 1..Len(q) : Turn(q[i], p, w[i - 1], w[i])

Enrolled == actor # "done" => \A p \in Peers : Leads(inbox, p, member[p], bound[p])

\* The streams that wait in an inbox q, each once.
Waiting(q) == {s \in Streams : \E i \in DOMAIN q : q[i].kind = "Stream" /\ q[i].of = s}
SentOnce(q) == \A i, j \in DOMAIN q :
    q[i].kind = "Stream" /\ q[j].kind = "Stream" /\ q[i].of = q[j].of => i = j
Rousing(q) == \E i \in DOMAIN q : q[i].kind = "ReadDone"

\* A stream is in one place: the inbox, W, the parked group, P, the queue, Q, or
\* with a reader.  One that was never handed over is in none.
Apart(W, P, Q, r, st) == \A s \in Streams :
    /\ s \in W => s \notin P /\ s \notin Q /\ r[s] = "none"
    /\ s \in P => s \notin Q /\ r[s] = "none"
    /\ s \in Q => r[s] = "none"
    /\ st[s] = "idle" => s \notin W /\ s \notin P /\ s \notin Q /\ r[s] = "none"

\* An open stream is in one of them, or its producer, in c, has yet to look at the
\* context of the actor, at a, that has ended.
Held(W, P, Q, r, st, c, a) == \A s \in Streams : st[s] = "open" =>
    \/ s \in W /\ a # "done"
    \/ s \in P \/ s \in Q \/ r[s] = "read"
    \/ s \in c /\ a = "done"

Placed ==
    /\ SentOnce(inbox) /\ IsInjective(parked) /\ IsInjective(sess.queue)
    /\ Apart(Waiting(inbox), Range(parked), Range(sess.queue), reader, status)
    /\ Held(Waiting(inbox), Range(parked), Range(sess.queue), reader, status, chk, actor)

\* The slots: a queued stream that finds one free will be looked at.
Slots ==
    /\ Cardinality(Reading) <= MaxReads
    /\ ctx /\ sess.queue # <<>> /\ Cardinality(Reading) < MaxReads =>
          Rousing(inbox) \/ \E s \in Streams : reader[s] = "done"

IntakeInv ==
    /\ TypedInbox(inbox) /\ TypedChannel /\ TypedEngine
    /\ Stopped /\ Fits(sess, member) /\ Owned /\ Enrolled /\ Placed /\ Slots

-----------------------------------------------------------------------------
(* The inbox. *)

\* What is left of a path of connections after its first event.
LEMMA LeadsTail ==
    ASSUME NEW q \in Seq(Events), q # <<>>, NEW p, NEW in, NEW out, Leads(q, p, in, out)
    PROVE  \E mid \in 0..MaxConn : Turn(Head(q), p, in, mid) /\ Leads(Tail(q), p, mid, out)
<1> DEFINE m == Len(q)
           t == Tail(q)
<1>1. /\ m \in Nat /\ m >= 1 /\ Len(t) = m - 1 /\ Head(q) = q[1]
      /\ \A i \in 1..(m - 1) : t[i] = q[i + 1]
  OBVIOUS
<1>2. PICK w \in [0..m -> 0..MaxConn] :
          w[0] = in /\ w[m] = out /\ \A i \in 1..m : Turn(q[i], p, w[i - 1], w[i])
  BY Zenon DEF Leads
<1> DEFINE v == [i \in 0..(m - 1) |-> w[i + 1]]
<1> HIDE DEF m, t
<1>3. \A i \in 0..(m - 1) : i + 1 \in 0..m
  BY <1>1
<1>4. v \in [0..(m - 1) -> 0..MaxConn]
  BY Zenon, <1>3
<1>5. /\ 0 \in 0..(m - 1) /\ m - 1 \in 0..(m - 1) /\ 0 + 1 = 1 /\ (m - 1) + 1 = m
      /\ 1 \in 1..m /\ 1 - 1 = 0 /\ 1 \in 0..m
  BY <1>1
<1>6. v[0] = w[1] /\ v[m - 1] = out
  BY Zenon, <1>2, <1>5
<1>7. ASSUME NEW i \in 1..(m - 1)
      PROVE  Turn(t[i], p, v[i - 1], v[i])
  <2>1. /\ i + 1 \in 1..m /\ (i + 1) - 1 = i /\ i - 1 \in 0..(m - 1) /\ i \in 0..(m - 1)
        /\ (i - 1) + 1 = i
    BY <1>1
  <2>2. v[i - 1] = w[i] /\ v[i] = w[i + 1]
    BY Zenon, <2>1
  <2>3. Turn(q[i + 1], p, w[i], w[i + 1])
    BY Zenon, <1>2, <2>1
  <2> QED
    BY Zenon, <1>1, <2>2, <2>3
<1>8. Turn(Head(q), p, in, w[1])
  BY Zenon, <1>1, <1>2, <1>5
<1> HIDE DEF v
<1>9. Leads(t, p, w[1], out)
  BY Zenon, <1>1, <1>4, <1>6, <1>7 DEF Leads
<1>10. w[1] \in 0..MaxConn
  BY Zenon, <1>5
<1> QED
  BY Zenon, <1>8, <1>9, <1>10 DEF t

\* One more event at the end of a path.
LEMMA LeadsAppend ==
    ASSUME NEW q \in Seq(Events), NEW e \in Events, NEW p, NEW in, NEW out,
           NEW after \in 0..MaxConn, Leads(q, p, in, out), Turn(e, p, out, after)
    PROVE  Leads(Append(q, e), p, in, after)
<1> DEFINE m == Len(q)
           t == Append(q, e)
<1>1. m \in Nat /\ Len(t) = m + 1 /\ t[m + 1] = e /\ \A i \in 1..m : t[i] = q[i]
  OBVIOUS
<1>2. PICK w \in [0..m -> 0..MaxConn] :
          w[0] = in /\ w[m] = out /\ \A i \in 1..m : Turn(q[i], p, w[i - 1], w[i])
  BY Zenon DEF Leads
<1> DEFINE v == [i \in 0..(m + 1) |-> IF i = m + 1 THEN after ELSE w[i]]
<1> HIDE DEF m, t
<1>3. \A i \in 0..(m + 1) : i = m + 1 \/ i \in 0..m
  BY <1>1
<1>4. v \in [0..(m + 1) -> 0..MaxConn]
  BY Zenon, <1>3
<1>5. 0 \in 0..(m + 1) /\ m + 1 \in 0..(m + 1) /\ 0 # m + 1
  BY <1>1
<1>6. v[0] = in /\ v[m + 1] = after
  BY Zenon, <1>2, <1>5
<1>7. ASSUME NEW i \in 1..(m + 1)
      PROVE  Turn(t[i], p, v[i - 1], v[i])
  <2>1. CASE i = m + 1
    <3>1. i - 1 = m /\ m \in 0..(m + 1) /\ m # m + 1
      BY <1>1, <2>1
    <3>2. v[i - 1] = out
      BY Zenon, <1>2, <3>1
    <3> QED
      BY Zenon, <1>1, <1>6, <2>1, <3>2
  <2>2. CASE i # m + 1
    <3>1. /\ i \in 1..m /\ i \in 0..(m + 1) /\ i - 1 \in 0..(m + 1) /\ i - 1 # m + 1
      BY <1>1, <2>2
    <3>2. v[i - 1] = w[i - 1] /\ v[i] = w[i]
      BY Zenon, <2>2, <3>1
    <3> QED
      BY Zenon, <1>1, <1>2, <3>1, <3>2
  <2> QED
    BY Zenon, <2>1, <2>2
<1> HIDE DEF v
<1> QED
  BY Zenon, <1>1, <1>4, <1>6, <1>7 DEF Leads, t

\* What an event posted at the end of the inbox q adds.
LEMMA PostedFacts ==
    ASSUME NEW q \in Seq(Events), Len(q) < InboxCap, SentOnce(q), NEW e \in Events,
           e.kind = "Stream" => e.of \notin Waiting(q)
    PROVE  LET t == Append(q, e)
           IN  /\ TypedInbox(t) /\ SentOnce(t)
               /\ \A s \in Streams : s \in Waiting(t) <=>
                     s \in Waiting(q) \/ (e.kind = "Stream" /\ e.of = s)
               /\ Rousing(t) <=> Rousing(q) \/ e.kind = "ReadDone"
<1> DEFINE m == Len(q)
           t == Append(q, e)
<1>1. /\ m \in Nat /\ t \in Seq(Events) /\ Len(t) = m + 1 /\ t[m + 1] = e
      /\ DOMAIN q = 1..m /\ DOMAIN t = 1..(m + 1) /\ \A i \in 1..m : t[i] = q[i]
  OBVIOUS
<1>2. m + 1 <= InboxCap
  BY <1>1, IntakeAssumption
<1> HIDE DEF m, t
<1>3. \A i : i \in 1..(m + 1) <=> i \in 1..m \/ i = m + 1
  BY <1>1
<1>4. \A i \in 1..m : t[i] = q[i] /\ i \in DOMAIN q /\ i \in DOMAIN t
  BY Zenon, <1>1, <1>3
<1>5. \A i \in DOMAIN t : i \in 1..m \/ i = m + 1
  BY Zenon, <1>1, <1>3
<1>6. m + 1 \in DOMAIN t
  BY Zenon, <1>1, <1>3
<1>7. \A s \in Streams : s \in Waiting(t) <=>
          s \in Waiting(q) \/ (e.kind = "Stream" /\ e.of = s)
  <2> SUFFICES ASSUME NEW s \in Streams
               PROVE  s \in Waiting(t) <=> s \in Waiting(q) \/ (e.kind = "Stream" /\ e.of = s)
    OBVIOUS
  <2>1. ASSUME s \in Waiting(t)
        PROVE  s \in Waiting(q) \/ (e.kind = "Stream" /\ e.of = s)
    <3>1. PICK i \in DOMAIN t : t[i].kind = "Stream" /\ t[i].of = s
      BY Zenon, <2>1 DEF Waiting
    <3>2. CASE i = m + 1
      BY Zenon, <1>1, <3>1, <3>2
    <3>3. CASE i \in 1..m
      <4>1. i \in DOMAIN q /\ q[i].kind = "Stream" /\ q[i].of = s
        BY Zenon, <1>4, <3>1, <3>3
      <4>2. s \in Waiting(q)
        BY <4>1 DEF Waiting
      <4> QED
        BY Zenon, <4>2
    <3> QED
      BY Zenon, <1>5, <3>2, <3>3
  <2>2. ASSUME s \in Waiting(q)
        PROVE  s \in Waiting(t)
    BY Zenon, <1>1, <1>4, <2>2 DEF Waiting
  <2>3. ASSUME e.kind = "Stream", e.of = s
        PROVE  s \in Waiting(t)
    BY Zenon, <1>1, <1>6, <2>3 DEF Waiting
  <2> QED
    BY Zenon, <2>1, <2>2, <2>3
<1>8. Rousing(t) <=> Rousing(q) \/ e.kind = "ReadDone"
  <2>1. ASSUME Rousing(t) PROVE Rousing(q) \/ e.kind = "ReadDone"
    BY Zenon, <1>1, <1>4, <1>5, <2>1 DEF Rousing
  <2>2. ASSUME Rousing(q) PROVE Rousing(t)
    BY Zenon, <1>1, <1>4, <2>2 DEF Rousing
  <2>3. ASSUME e.kind = "ReadDone" PROVE Rousing(t)
    BY Zenon, <1>1, <1>6, <2>3 DEF Rousing
  <2> QED
    BY Zenon, <2>1, <2>2, <2>3
<1>9. SentOnce(t)
  <2> SUFFICES ASSUME NEW i \in DOMAIN t, NEW j \in DOMAIN t,
                      t[i].kind = "Stream", t[j].kind = "Stream", t[i].of = t[j].of
               PROVE  i = j
    BY Zenon DEF SentOnce
  <2>1. \A k \in 1..m : t[k].kind = "Stream" => q[k].of \in Streams
    <3>1. \A k \in 1..m : q[k] \in Events
      BY <1>1
    <3> QED
      BY Zenon, <1>4, <3>1 DEF Events, PeerEvents, StreamEvents, OtherEvents
  <2>2. \A k \in 1..m : t[k].kind = "Stream" => t[k].of \in Waiting(q)
    BY Zenon, <1>4, <2>1 DEF Waiting
  <2>3. CASE i \in 1..m /\ j \in 1..m
    BY Zenon, <1>4, <2>3 DEF SentOnce
  <2>4. CASE i = m + 1 /\ j \in 1..m
    BY Zenon, <1>1, <2>2, <2>4
  <2>5. CASE i \in 1..m /\ j = m + 1
    BY Zenon, <1>1, <2>2, <2>5
  <2> QED
    BY Zenon, <1>5, <2>3, <2>4, <2>5
<1>10. TypedInbox(t)
  BY Zenon, <1>1, <1>2 DEF TypedInbox
<1> QED
  BY Zenon, <1>7, <1>8, <1>9, <1>10 DEF t

\* What the event taken from the head of the inbox q leaves.
LEMMA TakenFacts ==
    ASSUME NEW q, TypedInbox(q), q # <<>>, SentOnce(q)
    PROVE  LET t == Tail(q)
               e == Head(q)
           IN  /\ e \in Events /\ TypedInbox(t) /\ SentOnce(t)
               /\ \A s \in Streams : s \in Waiting(t) <=>
                     s \in Waiting(q) /\ ~(e.kind = "Stream" /\ e.of = s)
               /\ e.kind = "Stream" => e.of \in Waiting(q)
               /\ Rousing(q) => Rousing(t) \/ e.kind = "ReadDone"
<1> DEFINE m == Len(q)
           t == Tail(q)
           e == Head(q)
<1>1. q \in Seq(Events) /\ m <= InboxCap
  BY Zenon DEF TypedInbox
<1>2. /\ m \in Nat /\ m >= 1 /\ t \in Seq(Events) /\ Len(t) = m - 1 /\ e = q[1] /\ e \in Events
      /\ DOMAIN q = 1..m /\ DOMAIN t = 1..(m - 1) /\ \A i \in 1..(m - 1) : t[i] = q[i + 1]
  BY <1>1
<1>3. m - 1 <= InboxCap
  BY <1>1, <1>2, IntakeAssumption
<1> HIDE DEF m, t, e
<1>4. \A i \in 1..m : i = 1 \/ (i - 1 \in 1..(m - 1) /\ (i - 1) + 1 = i)
  BY <1>2
<1>5. \A i \in 1..(m - 1) : i + 1 \in 1..m /\ i + 1 # 1
  BY <1>2
<1>6. \A i \in DOMAIN t : i + 1 \in DOMAIN q /\ t[i] = q[i + 1] /\ i + 1 # 1
  BY Zenon, <1>2, <1>5
<1>7. ASSUME NEW i \in DOMAIN q, i # 1
      PROVE  i - 1 \in DOMAIN t /\ t[i - 1] = q[i]
  <2>1. i - 1 \in 1..(m - 1) /\ (i - 1) + 1 = i
    BY Zenon, <1>2, <1>4, <1>7
  <2>2. t[i - 1] = q[(i - 1) + 1]
    BY Zenon, <1>2, <2>1
  <2> QED
    BY Zenon, <1>2, <2>1, <2>2
<1>8. 1 \in DOMAIN q /\ q[1] = e
  BY <1>2
<1>9. e.kind = "Stream" => e.of \in Streams
  BY Zenon, <1>2 DEF Events, PeerEvents, StreamEvents, OtherEvents
<1>10. e.kind = "Stream" => e.of \in Waiting(q)
  BY Zenon, <1>8, <1>9 DEF Waiting
<1>11. Rousing(q) => Rousing(t) \/ e.kind = "ReadDone"
  BY Zenon, <1>7, <1>8 DEF Rousing
<1>12. SentOnce(t)
  <2> SUFFICES ASSUME NEW i \in DOMAIN t, NEW j \in DOMAIN t,
                      t[i].kind = "Stream", t[j].kind = "Stream", t[i].of = t[j].of
               PROVE  i = j
    BY Zenon DEF SentOnce
  <2>1. i + 1 = j + 1
    BY Zenon, <1>6 DEF SentOnce
  <2> QED
    BY <1>2, <2>1
<1>13. ASSUME NEW s \in Streams, s \in Waiting(t)
       PROVE  s \in Waiting(q) /\ ~(e.kind = "Stream" /\ e.of = s)
  <2>1. PICK i \in DOMAIN t : t[i].kind = "Stream" /\ t[i].of = s
    BY Zenon, <1>13 DEF Waiting
  <2>2. i + 1 \in DOMAIN q /\ q[i + 1].kind = "Stream" /\ q[i + 1].of = s /\ i + 1 # 1
    BY Zenon, <1>6, <2>1
  <2>3. s \in Waiting(q)
    BY Zenon, <2>2 DEF Waiting
  <2>4. ASSUME e.kind = "Stream", e.of = s PROVE FALSE
    BY Zenon, <1>8, <2>2, <2>4 DEF SentOnce
  <2> QED
    BY Zenon, <2>3, <2>4
<1>14. ASSUME NEW s \in Streams, s \in Waiting(q), ~(e.kind = "Stream" /\ e.of = s)
       PROVE  s \in Waiting(t)
  <2>1. PICK i \in DOMAIN q : q[i].kind = "Stream" /\ q[i].of = s
    BY Zenon, <1>14 DEF Waiting
  <2>2. i # 1
    BY Zenon, <1>8, <1>14, <2>1
  <2>3. i - 1 \in DOMAIN t /\ t[i - 1].kind = "Stream" /\ t[i - 1].of = s
    BY Zenon, <1>7, <2>1, <2>2
  <2> QED
    BY Zenon, <2>3 DEF Waiting
<1>15. TypedInbox(t)
  BY Zenon, <1>2, <1>3 DEF TypedInbox
<1> QED
  BY Zenon, <1>2, <1>10, <1>11, <1>12, <1>13, <1>14, <1>15 DEF t, e

-----------------------------------------------------------------------------
(* The places of the streams. *)

\* The actor takes streams from the inbox, the parked group and the queue; each goes
\* on towards a reader, the ones in go, or is cancelled, the ones in S.
Moved(W, P, Q, W2, P2, Q2, go, S) == \A s \in Streams :
    /\ s \in W2 => s \in W /\ s \notin P2 /\ s \notin Q2 /\ s \notin go
    /\ s \in P2 => (s \in W \/ s \in P) /\ s \notin Q2 /\ s \notin go
    /\ s \in Q2 => (s \in W \/ s \in P \/ s \in Q) /\ s \notin go
    /\ s \in go => s \in W \/ s \in P \/ s \in Q
    /\ s \in W \/ s \in P \/ s \in Q =>
          s \in W2 \/ s \in P2 \/ s \in Q2 \/ s \in go \/ s \in S

Starts(r, r2, go) == \A s \in Streams : r2[s] = IF s \in go THEN "read" ELSE r[s]
Cancels(st, st2, S) == \A s \in Streams : st2[s] = IF s \in S THEN "cancelled" ELSE st[s]

\* While it has not stopped, the streams stay apart and none is lost.
LEMMA Moves ==
    ASSUME NEW W, NEW P, NEW Q, NEW r, NEW st, NEW c, NEW a, a # "done",
           Apart(W, P, Q, r, st), Held(W, P, Q, r, st, c, a),
           NEW W2, NEW P2, NEW Q2, NEW r2, NEW st2, NEW a2, a2 # "done", NEW go, NEW S,
           Starts(r, r2, go), Cancels(st, st2, S),
           Moved(W, P, Q, W2, P2, Q2, go, S)
    PROVE  Apart(W2, P2, Q2, r2, st2) /\ Held(W2, P2, Q2, r2, st2, c, a2)
<1>1. ASSUME NEW s \in Streams, s \in W \/ s \in P \/ s \in Q
      PROVE  r[s] = "none" /\ st[s] # "idle"
  BY Zenon, <1>1 DEF Apart
<1>2. ASSUME NEW s \in Streams
      PROVE  /\ s \in W2 => r2[s] = "none"
             /\ s \in P2 => r2[s] = "none"
             /\ s \in Q2 => r2[s] = "none"
  BY Zenon, <1>1, <1>2 DEF Moved, Starts
<1>3. ASSUME NEW s \in Streams, st2[s] = "idle"
      PROVE  s \notin W2 /\ s \notin P2 /\ s \notin Q2 /\ r2[s] = "none"
  <2>1. st[s] = "idle"
    BY <1>3 DEF Cancels
  <2>2. s \notin W /\ s \notin P /\ s \notin Q /\ r[s] = "none"
    BY Zenon, <2>1 DEF Apart
  <2> QED
    BY Zenon, <2>2 DEF Moved, Starts
<1>4. Apart(W2, P2, Q2, r2, st2)
  BY Zenon, <1>2, <1>3 DEF Apart, Moved
<1>5. ASSUME NEW s \in Streams, st2[s] = "open"
      PROVE  s \in W2 \/ s \in P2 \/ s \in Q2 \/ r2[s] = "read"
  <2>1. s \notin S /\ st[s] = "open"
    BY <1>5 DEF Cancels
  <2>2. s \in W \/ s \in P \/ s \in Q \/ r[s] = "read"
    BY Zenon, <2>1 DEF Held
  <2> QED
    BY Zenon, <2>1, <2>2 DEF Moved, Starts
<1> QED
  BY Zenon, <1>4, <1>5 DEF Held

-----------------------------------------------------------------------------
(* The session. *)

LEMMA NoSessionFits ==
    /\ NoSession \in SessionType /\ ~NoSession.on /\ NoSession.queue = <<>>
    /\ \A m : Fits(NoSession, m)
<1>1. /\ NoSession \in SessionType /\ ~NoSession.on /\ NoSession.queue = <<>>
      /\ ~NoSession.ever /\ NoSession.completed = {}
  BY IntakeAssumption DEF NoSession, SessionType
<1> QED
  BY Zenon, <1>1 DEF Fits, Idle

\* A session with another queue.
LEMMA WithQueue ==
    ASSUME NEW X \in SessionType, NEW Q \in Seq(Streams)
    PROVE  LET Y == [X EXCEPT !.queue = Q]
           IN  /\ Y \in SessionType /\ Y.queue = Q
               /\ Y.on = X.on /\ Y.stage = X.stage /\ Y.peers = X.peers
               /\ Y.completed = X.completed /\ Y.left = X.left /\ Y.ever = X.ever
<1> DEFINE Y == [X EXCEPT !.queue = Q]
<1>1. Y.queue = Q /\ Y.on = X.on /\ Y.stage = X.stage /\ Y.peers = X.peers
  BY DEF SessionType
<1>2. Y.completed = X.completed /\ Y.left = X.left /\ Y.ever = X.ever
  BY DEF SessionType
<1>3. Y \in SessionType
  BY Zenon DEF SessionType
<1> QED
  BY Zenon, <1>1, <1>2, <1>3

\* What Fits depends on.
LEMMA FitsSame ==
    ASSUME NEW X, NEW Y, NEW m, Fits(X, m), Y.on <=> X.on, Y.ever <=> X.ever,
           Y.peers = X.peers, Y.left = X.left, Y.completed = X.completed,
           Y.stage = X.stage \/ Y.stage = "Decoding", Y.on \/ Y.queue = <<>>
    PROVE  Fits(Y, m)
<1>1. Attached(Y) = Attached(X)
  BY Zenon DEF Attached
<1>2. Y.stage \in {"Reconstructed", "Origin"} => X.stage \in {"Reconstructed", "Origin"}
  OBVIOUS
<1>3. ~Idle(Y)
  BY Zenon, <1>1, <1>2 DEF Fits, Idle
<1>4. Y.on => \A p \in Peers : Y.peers[p] = IF p \in Y.left THEN 0 ELSE m[p]
  BY Zenon DEF Fits
<1>5. Y.completed \subseteq Attached(Y)
  BY Zenon, <1>1 DEF Fits
<1>6. ~Y.on => Y.queue = <<>> /\ ~Y.ever
  BY Zenon DEF Fits
<1> QED
  BY Zenon, <1>3, <1>4, <1>5, <1>6 DEF Fits

\* The session a channel creates is attached to the channel's members.
LEMMA NewSessionFits ==
    ASSUME member \in [Peers -> 0..MaxConn],
           NEW stage \in {"Consuming", "Origin"}, NEW have \in SUBSET Chunks
    PROVE  LET X == NewSession(stage, have)
           IN  /\ X \in SessionType /\ X.on /\ X.stage = stage /\ X.queue = <<>>
               /\ Fits(X, member)
<1> DEFINE X == NewSession(stage, have)
           some == \E p \in Peers : member[p] # 0
           R == [on |-> TRUE, stage |-> stage, peers |-> member, completed |-> {},
                 left |-> {}, ever |-> some, have |-> have, queue |-> <<>>, due |-> FALSE]
<1>0. some \in BOOLEAN
  BY Zenon
<1> HIDE DEF some
<1>a. X = R
  <2>1. X = [NoSession EXCEPT !.on = TRUE, !.stage = stage, !.have = have,
                              !.peers = member, !.ever = some]
    BY Zenon DEF NewSession, some
  <2> QED
    BY Zenon, <2>1 DEF NoSession
<1>b. R.on = TRUE /\ R.stage = stage /\ R.queue = <<>> /\ R.peers = member
  OBVIOUS
<1>c. R.left = {} /\ R.completed = {} /\ R.ever = some
  OBVIOUS
<1>d. R \in SessionType
  <2>1. <<>> \in Seq(Streams)
    OBVIOUS
  <2> QED
    BY Zenon, <1>0, <2>1 DEF SessionType
<1> HIDE DEF X, R
<1>1. /\ X.on = TRUE /\ X.stage = stage /\ X.queue = <<>> /\ X.peers = member
      /\ X.left = {} /\ X.completed = {} /\ X.ever = (\E p \in Peers : member[p] # 0)
  BY Zenon, <1>a, <1>b, <1>c DEF some
<1>2. X \in SessionType
  BY Zenon, <1>a, <1>d
<1>3. Attached(X) = {p \in Peers : member[p] # 0}
  BY Zenon, <1>1 DEF Attached
<1>4. X.ever => Attached(X) # {}
  BY Zenon, <1>1, <1>3
<1>5. ~Idle(X)
  BY Zenon, <1>1, <1>4 DEF Idle
<1>6. Fits(X, member)
  BY Zenon, <1>1, <1>5 DEF Fits
<1> QED
  BY Zenon, <1>1, <1>2, <1>6 DEF X

\* handlePeerDropped: the peer is gone from the session, and its streams from the queue.
IsDropped(X, p, left, Y) == Y = [Dropped(X, p) EXCEPT !.left = left]

DropResult(X, p, left, Y) ==
    /\ Y \in SessionType /\ Y.on = X.on /\ Y.stage = X.stage /\ Y.ever = X.ever
    /\ Y.left = left /\ Y.completed = X.completed \ {p}
    /\ \A q \in Peers : Y.peers[q] = IF q = p THEN 0 ELSE X.peers[q]
    /\ IsInjective(Y.queue)
    /\ Range(Y.queue) = Range(X.queue) \ From(p, X.queue)
    /\ X.queue = <<>> => Y.queue = <<>>

LEMMA DroppedFacts ==
    ASSUME NEW X \in SessionType, NEW p \in Peers, NEW left \in SUBSET Peers,
           IsInjective(X.queue), NEW Y, IsDropped(X, p, left, Y)
    PROVE  DropResult(X, p, left, Y)
<1> DEFINE K == Keep(X.queue, Others(p))
<1>1. X.queue \in Seq(Streams)
  BY DEF SessionType
<1>2. K \in Seq(Streams) /\ IsInjective(K) /\ Range(K) = Range(X.queue) \cap Others(p)
  BY Zenon, <1>1, KeepFacts
<1>3. Range(X.queue) \subseteq Streams
  BY Zenon, <1>1, Elements
<1>4. Range(K) = Range(X.queue) \ From(p, X.queue)
  BY Zenon, <1>2, <1>3 DEF Others, From
<1>5. X.queue = <<>> => K = <<>>
  <2> SUFFICES ASSUME X.queue = <<>> PROVE K = <<>>
    OBVIOUS
  <2>1. Range(K) = {}
    BY Zenon, <1>2, NoElements
  <2>2. DOMAIN K = 1..Len(K) /\ Len(K) \in Nat
    BY <1>2, Elements
  <2>3. Len(K) = 0
    <3>1. ASSUME Len(K) # 0 PROVE FALSE
      <4>1. 1 \in DOMAIN K
        BY <2>2, <3>1
      <4> QED
        BY Zenon, <2>1, <4>1 DEF Range
    <3> QED
      BY Zenon, <3>1
  <2> QED
    BY <1>2, <2>3
<1> HIDE DEF K
<1>6. Y = [X EXCEPT !.peers[p] = 0, !.completed = @ \ {p}, !.queue = K, !.left = left]
  BY Zenon DEF IsDropped, Dropped, K
<1>7. /\ Y \in SessionType /\ Y.on = X.on /\ Y.stage = X.stage /\ Y.ever = X.ever
      /\ Y.left = left /\ Y.completed = X.completed \ {p} /\ Y.queue = K
      /\ Y.peers = [X.peers EXCEPT ![p] = 0] /\ X.peers \in [Peers -> 0..MaxConn]
  <2>1. X.peers \in [Peers -> 0..MaxConn] /\ X.completed \in SUBSET Peers
    BY DEF SessionType
  <2> DEFINE f == [X.peers EXCEPT ![p] = 0]
             c == X.completed \ {p}
  <2>2. f \in [Peers -> 0..MaxConn] /\ c \in SUBSET Peers
    BY <2>1, IntakeAssumption
  <2>3. Y = [X EXCEPT !.peers = f, !.completed = c, !.queue = K, !.left = left]
    BY <1>6 DEF SessionType
  <2> HIDE DEF f, c
  <2>4. Y.on = X.on /\ Y.stage = X.stage /\ Y.ever = X.ever
    BY <2>3 DEF SessionType
  <2>5. Y.left = left /\ Y.completed = c /\ Y.queue = K /\ Y.peers = f
    BY <2>3 DEF SessionType
  <2>6. Y \in SessionType
    BY Zenon, <1>2, <2>2, <2>3 DEF SessionType
  <2> QED
    BY Zenon, <2>1, <2>4, <2>5, <2>6 DEF f, c
<1>8. \A q \in Peers : Y.peers[q] = IF q = p THEN 0 ELSE X.peers[q]
  BY ONLY Zenon, <1>7
<1> QED
  BY Zenon, <1>2, <1>4, <1>5, <1>7, <1>8 DEF DropResult

-----------------------------------------------------------------------------
(* Steps of the same shape. *)

LEMMA EventTypes ==
    ASSUME NEW e \in Events
    PROVE  /\ e.kind \in {"Bound", "Unbound", "Open", "Reconstructed", "Ended"} =>
                 e.of \in Peers /\ e.conn \in 0..MaxConn
           /\ e.kind \in {"Stream", "Data"} => e.of \in Streams /\ e = Event(e.kind, e.of, 0)
BY Zenon DEF Events, PeerEvents, StreamEvents, OtherEvents, Event

\* An event that is about no stream's place and no peer's membership.
Plain(e) == e \in Events /\ e.kind \notin {"Stream", "Bound", "Unbound"}

LEMMA NewEvents ==
    /\ \A s \in Streams : Plain(Event("Data", s, 0))
    /\ \A p \in Peers, n \in 0..MaxConn : Plain(Event("Ended", p, n))
    /\ \A p \in Peers : Plain(Event("Open", p, 0)) /\ Plain(Event("Reconstructed", p, 0))
    /\ Plain(Event("ReadDone", "", 0)) /\ Event("ReadDone", "", 0).kind = "ReadDone"
    /\ \A o \in {"ok", "failed"} : Plain(Event("Decoded", o, 0))
    /\ Plain(Event("Expiry", "", 0)) /\ Plain(Event("Publish", "", 0))
<1>1. 0 \in 0..MaxConn
  BY IntakeAssumption
<1>2. \A s \in Streams : Plain(Event("Data", s, 0))
  BY DEF Plain, Events, StreamEvents, Event
<1>3. \A p \in Peers, n \in 0..MaxConn, k \in {"Ended", "Open", "Reconstructed"} :
          Plain(Event(k, p, n))
  BY DEF Plain, Events, PeerEvents, Event
<1>4. /\ Plain(Event("ReadDone", "", 0)) /\ Event("ReadDone", "", 0).kind = "ReadDone"
      /\ \A o \in {"ok", "failed"} : Plain(Event("Decoded", o, 0))
      /\ Plain(Event("Expiry", "", 0)) /\ Plain(Event("Publish", "", 0))
  BY DEF Plain, Events, OtherEvents, Event
<1> QED
  BY Zenon, <1>1, <1>2, <1>3, <1>4

\* A step that leaves the streams in the inbox alone, and a ReadDone that is needed.
InboxKept ==
    /\ TypedInbox(inbox') /\ SentOnce(inbox') /\ Waiting(inbox') = Waiting(inbox)
    /\ Rousing(inbox) => Rousing(inbox') \/ sess'.queue = <<>>

LEMMA Posted ==
    ASSUME IntakeInv, NEW e \in Events, e.kind \notin {"Stream", "Bound", "Unbound"},
           Post(e), UNCHANGED <<actor, member, bound>>
    PROVE  InboxKept /\ Enrolled' /\ (e.kind = "ReadDone" => Rousing(inbox'))
<1>1. inbox \in Seq(Events) /\ Len(inbox) < InboxCap /\ inbox' = Append(inbox, e)
  BY Zenon DEF IntakeInv, TypedInbox, Post
<1>2. SentOnce(inbox) /\ e.kind # "Stream"
  BY Zenon DEF IntakeInv, Placed
<1>3. /\ TypedInbox(inbox') /\ SentOnce(inbox')
      /\ \A s \in Streams : s \in Waiting(inbox') <=> s \in Waiting(inbox)
      /\ Rousing(inbox') <=> (Rousing(inbox) \/ e.kind = "ReadDone")
  BY Zenon, <1>1, <1>2, PostedFacts
<1>4. Waiting(inbox') = Waiting(inbox)
  BY Zenon, <1>3 DEF Waiting
<1>5. ASSUME actor # "done", NEW p \in Peers
      PROVE  Leads(inbox', p, member[p], bound[p])
  <2>1. Leads(inbox, p, member[p], bound[p])
    BY Zenon, <1>5 DEF IntakeInv, Enrolled
  <2>2. Turn(e, p, bound[p], bound[p])
    BY Zenon DEF Turn
  <2>3. bound[p] \in 0..MaxConn
    BY Zenon DEF IntakeInv, TypedEngine
  <2> QED
    BY Zenon, <1>1, <2>1, <2>2, <2>3, LeadsAppend
<1>6. Enrolled'
  BY Zenon, <1>5 DEF Enrolled
<1> QED
  BY Zenon, <1>3, <1>4, <1>6 DEF InboxKept

LEMMA Taken ==
    ASSUME IntakeInv, NEW k, Takes(k)
    PROVE  /\ actor = "run" /\ Head(inbox) \in Events /\ Head(inbox).kind = k
           /\ k # "Stream" /\ (k = "ReadDone" => sess'.queue = <<>>) => InboxKept
           /\ TypedInbox(inbox') /\ SentOnce(inbox')
           /\ \A s \in Streams : s \in Waiting(inbox') <=>
                 s \in Waiting(inbox) /\ ~(k = "Stream" /\ Of = s)
           /\ k = "Stream" => Of \in Waiting(inbox)
           /\ \A p \in Peers : \E mid \in 0..MaxConn :
                 Turn(Head(inbox), p, member[p], mid) /\ Leads(inbox', p, mid, bound[p])
           /\ k \notin {"Bound", "Unbound"} =>
                 \A p \in Peers : Leads(inbox', p, member[p], bound[p])
<1>1. /\ actor = "run" /\ inbox # <<>> /\ Head(inbox).kind = k /\ inbox' = Tail(inbox)
      /\ TypedInbox(inbox) /\ SentOnce(inbox)
  BY Zenon DEF IntakeInv, Takes, Placed
<1>2. /\ Head(inbox) \in Events /\ TypedInbox(inbox') /\ SentOnce(inbox')
      /\ \A s \in Streams : s \in Waiting(inbox') <=>
            s \in Waiting(inbox) /\ ~(k = "Stream" /\ Of = s)
      /\ k = "Stream" => Of \in Waiting(inbox)
      /\ Rousing(inbox) => (Rousing(inbox') \/ k = "ReadDone")
  BY Zenon, <1>1, TakenFacts DEF Of
<1>3. k # "Stream" => Waiting(inbox') = Waiting(inbox)
  BY Zenon, <1>2 DEF Waiting
<1>4. k # "Stream" /\ (k = "ReadDone" => sess'.queue = <<>>) => InboxKept
  BY Zenon, <1>2, <1>3 DEF InboxKept
<1>5. ASSUME NEW p \in Peers
      PROVE  \E mid \in 0..MaxConn :
                Turn(Head(inbox), p, member[p], mid) /\ Leads(inbox', p, mid, bound[p])
  <2>1. Leads(inbox, p, member[p], bound[p])
    BY Zenon, <1>1 DEF IntakeInv, Enrolled
  <2>2. inbox \in Seq(Events)
    BY Zenon, <1>1 DEF TypedInbox
  <2> QED
    BY Zenon, <1>1, <2>1, <2>2, LeadsTail
<1>6. ASSUME k \notin {"Bound", "Unbound"}, NEW p \in Peers
      PROVE  Leads(inbox', p, member[p], bound[p])
  BY Zenon, <1>1, <1>5, <1>6 DEF Turn
<1> QED
  BY Zenon, <1>1, <1>2, <1>4, <1>5, <1>6

\* A step that changes nothing of the channel but what comes into its inbox.
LEMMA QuietStep ==
    ASSUME IntakeInv, UNCHANGED <<channel, reader, status, chk>>, decoder' => decoder,
           InboxKept, Enrolled', TypedEngine'
    PROVE  IntakeInv'
<1>1. /\ ctx' = ctx /\ actor' = actor /\ member' = member /\ sess' = sess /\ parked' = parked
      /\ parkedDue' = parkedDue /\ reader' = reader /\ status' = status /\ chk' = chk
  BY DEF channel
<1>2. TypedChannel' /\ Stopped' /\ Fits(sess, member)' /\ Owned'
  BY Zenon, <1>1 DEF IntakeInv, TypedChannel, Stopped, Owned
<1>3. Reading' = Reading
  BY Zenon, <1>1 DEF Reading
<1>4. Slots'
  <2>1. ASSUME ctx', sess'.queue # <<>>, Cardinality(Reading') < MaxReads
        PROVE  Rousing(inbox') \/ \E s \in Streams : reader'[s] = "done"
    <3>1. ctx /\ sess.queue # <<>> /\ Cardinality(Reading) < MaxReads
      BY <1>1, <1>3, <2>1
    <3> QED
      BY Zenon, <1>1, <2>1, <3>1 DEF IntakeInv, Slots, InboxKept
  <2> QED
    BY Zenon, <1>3, <2>1 DEF IntakeInv, Slots
<1>5. Placed'
  BY Zenon, <1>1 DEF IntakeInv, Placed, InboxKept
<1> QED
  BY Zenon, <1>2, <1>4, <1>5 DEF IntakeInv, InboxKept

\* A sequence without elements is empty.
LEMMA NoneLeft ==
    ASSUME NEW q \in Seq(Streams)
    PROVE  Range(q) = {} <=> q = <<>>
<1>1. DOMAIN q = 1..Len(q) /\ Len(q) \in Nat
  BY Elements
<1>2. ASSUME q # <<>> PROVE Range(q) # {}
  <2>1. 1 \in DOMAIN q
    BY <1>1, <1>2
  <2> QED
    BY Zenon, <2>1 DEF Range
<1> QED
  BY Zenon, <1>2, NoElements

\* A step of the actor that cancels the streams in S, among them those it takes from
\* the parked group and the queue, and starts no reader.
LEMMA ActorStep ==
    ASSUME IntakeInv, actor # "done", InboxKept, Enrolled', TypedChannel', Stopped',
           Fits(sess, member)', Owned', UNCHANGED <<ctx, reader, producers>>,
           IsInjective(sess'.queue), IsInjective(parked'), actor' # "done",
           NEW S, status' = Cancelled(S),
           Range(parked') \subseteq Range(parked),
           Range(sess'.queue) \subseteq Range(sess.queue),
           Range(parked) \subseteq Range(parked') \union S,
           Range(sess.queue) \subseteq Range(sess'.queue) \union S
    PROVE  IntakeInv'
<1>1. /\ ctx' = ctx /\ reader' = reader /\ chk' = chk /\ bound' = bound /\ latest' = latest
      /\ sessIn' = sessIn /\ opens' = opens
  BY DEF producers
<1>2. TypedEngine'
  BY Zenon, <1>1 DEF IntakeInv, TypedEngine
<1>3. Reading' = Reading
  BY Zenon, <1>1 DEF Reading
<1>4. sess.queue \in Seq(Streams) /\ sess'.queue \in Seq(Streams)
  <2>1. sess \in SessionType /\ sess' \in SessionType
    BY Zenon DEF IntakeInv, TypedChannel
  <2> QED
    BY <2>1 DEF SessionType
<1>5. sess'.queue # <<>> => sess.queue # <<>>
  BY Zenon, <1>4, NoneLeft
<1>6. Slots'
  <2>1. ASSUME ctx', sess'.queue # <<>>, Cardinality(Reading') < MaxReads
        PROVE  Rousing(inbox') \/ \E s \in Streams : reader'[s] = "done"
    <3>1. ctx /\ sess.queue # <<>> /\ Cardinality(Reading) < MaxReads
      BY <1>1, <1>3, <1>5, <2>1
    <3> QED
      BY Zenon, <1>1, <2>1, <3>1 DEF IntakeInv, Slots, InboxKept
  <2> QED
    BY Zenon, <1>3, <2>1 DEF IntakeInv, Slots
<1>7. Cancels(status, status', S)
  BY Zenon DEF Cancelled, Cancels
<1>8. /\ Apart(Waiting(inbox), Range(parked), Range(sess.queue), reader, status)
      /\ Held(Waiting(inbox), Range(parked), Range(sess.queue), reader, status, chk, actor)
  BY Zenon DEF IntakeInv, Placed
<1> DEFINE go == {}
<1>9. Starts(reader, reader', go) /\ \A s \in Streams : s \notin go
  BY Zenon, <1>1 DEF Starts
<1>10. Waiting(inbox') = Waiting(inbox)
  BY Zenon DEF InboxKept
<1>11. ASSUME NEW s \in Streams
       PROVE  /\ s \in Waiting(inbox) => s \notin Range(parked) /\ s \notin Range(sess.queue)
              /\ s \in Range(parked) => s \notin Range(sess.queue)
  BY Zenon, <1>8 DEF Apart
<1>12. Moved(Waiting(inbox), Range(parked), Range(sess.queue),
             Waiting(inbox'), Range(parked'), Range(sess'.queue), go, S)
  BY Zenon, <1>9, <1>10, <1>11 DEF Moved
<1> HIDE DEF go
<1>13. /\ Apart(Waiting(inbox'), Range(parked'), Range(sess'.queue), reader', status')
       /\ Held(Waiting(inbox'), Range(parked'), Range(sess'.queue), reader', status', chk, actor')
  BY Zenon, <1>7, <1>8, <1>9, <1>12, Moves
<1>14. Placed'
  BY Zenon, <1>1, <1>13 DEF Placed, InboxKept
<1> QED
  BY Zenon, <1>2, <1>6, <1>14 DEF IntakeInv, InboxKept

LEMMA CancelledType ==
    ASSUME TypedChannel, NEW S
    PROVE  Cancelled(S) \in [Streams -> {"idle", "open", "read", "cancelled"}]
BY DEF TypedChannel, Cancelled

\* disposeSession, at the end of a handler or of the actor.
LEMMA DisposeStep ==
    ASSUME IntakeInv, actor = "run", InboxKept, Enrolled', member' \in [Peers -> 0..MaxConn],
           NEW next \in {"closing", "publish", "stopping"}, next = "stopping" => ~ctx,
           Dispose(next), UNCHANGED <<ctx, reader, producers>>
    PROVE  IntakeInv'
<1> DEFINE S == Range(sess.queue) \union Range(parked)
<1>1. /\ sess' = NoSession /\ status' = Cancelled(S) /\ parked' = <<>> /\ parkedDue' = FALSE
      /\ actor' = next
  BY Zenon DEF Dispose
<1> HIDE DEF S
<1>2. next # "run" /\ next # "done"
  OBVIOUS
<1>3. TypedChannel
  BY Zenon DEF IntakeInv
<1>4. TypedChannel'
  <2>1. ctx' \in BOOLEAN /\ reader' \in [Streams -> {"none", "read", "post", "done"}]
    BY Zenon, <1>3 DEF TypedChannel
  <2>2. sess' \in SessionType
    BY Zenon, <1>1, NoSessionFits
  <2>3. parked' \in Seq(Streams) /\ Len(parked') <= MaxParked /\ parkedDue' \in BOOLEAN
    <3>1. <<>> \in Seq(Streams) /\ Len(<<>>) = 0
      OBVIOUS
    <3>2. 0 <= MaxParked
      BY IntakeAssumption
    <3> QED
      BY Zenon, <1>1, <3>1, <3>2
  <2>4. actor' \in {"run", "closing", "publish", "stopping", "done"}
    BY <1>1
  <2>5. status' \in [Streams -> {"idle", "open", "read", "cancelled"}]
    BY Zenon, <1>1, <1>3, CancelledType
  <2> QED
    BY Zenon, <2>1, <2>2, <2>3, <2>4, <2>5 DEF TypedChannel
<1>5. Stopped'
  BY Zenon, <1>1, <1>2, NoSessionFits DEF Stopped
<1>6. Fits(sess, member)'
  BY Zenon, <1>1, NoSessionFits
<1>7. Owned'
  BY Zenon, <1>1, <1>2 DEF Owned
<1>8. sess'.queue = <<>>
  BY Zenon, <1>1, NoSessionFits
<1>9. /\ IsInjective(sess'.queue) /\ IsInjective(parked')
      /\ Range(parked') = {} /\ Range(sess'.queue) = {}
  BY Zenon, <1>1, <1>8, NoElements
<1>10. /\ Range(parked') \subseteq Range(parked)
       /\ Range(sess'.queue) \subseteq Range(sess.queue)
       /\ Range(parked) \subseteq Range(parked') \union S
       /\ Range(sess.queue) \subseteq Range(sess'.queue) \union S
  BY Zenon, <1>9 DEF S
<1>11. actor # "done" /\ actor' # "done"
  BY Zenon, <1>1, <1>2
<1> QED
  BY ZenonT(40), <1>1, <1>4, <1>5, <1>6, <1>7, <1>9, <1>10, <1>11, ActorStep

\* A handler that feeds the session X with the streams in new, which come from the
\* inbox or from the parked group.
LEMMA FedStep ==
    ASSUME IntakeInv, actor = "run", TypedInbox(inbox'), SentOnce(inbox'), Enrolled',
           NEW X \in SessionType, X.on, Fits(X, member), X.queue = sess.queue,
           decoder => X.stage \in {"Decoding", "Reconstructed"},
           NEW new \in Seq(Streams), IsInjective(new),
           \A s \in Range(new) : s \in Waiting(inbox) \/ s \in Range(parked),
           \A s \in Streams :
              /\ s \in Waiting(inbox') <=> s \in Waiting(inbox) /\ s \notin Range(new)
              /\ s \in Range(parked') <=> s \in Range(parked) /\ s \notin Range(new),
           parked' \in Seq(Streams), Len(parked') <= MaxParked, IsInjective(parked'),
           parkedDue' \in BOOLEAN,
           sess' = Feed(X, new).sess, reader' = Feed(X, new).reader,
           status' = Cancelled(Feed(X, new).refused),
           UNCHANGED <<ctx, actor, member, decoder, producers>>
    PROVE  IntakeInv'
<1> DEFINE S == Feed(X, new).refused
<1>1. /\ ctx' = ctx /\ actor' = "run" /\ member' = member /\ decoder' = decoder /\ chk' = chk
      /\ bound' = bound /\ latest' = latest /\ sessIn' = sessIn /\ opens' = opens
  BY DEF producers
<1>2. TypedChannel /\ Placed /\ Cardinality(Reading) <= MaxReads
  BY Zenon DEF IntakeInv, Slots
<1>3. X.queue \in Seq(Streams) /\ IsInjective(X.queue)
  <2>1. X.queue \in Seq(Streams)
    BY DEF SessionType
  <2> QED
    BY Zenon, <1>2, <2>1 DEF Placed
<1>4. /\ Apart(Waiting(inbox), Range(parked), Range(X.queue), reader, status)
      /\ Held(Waiting(inbox), Range(parked), Range(X.queue), reader, status, chk, actor)
  BY Zenon, <1>2 DEF Placed
<1>5. Range(new) \subseteq Streams /\ Range(X.queue) \subseteq Streams
  BY Zenon, <1>3, Elements
<1>6. Range(new) \cap Range(X.queue) = {}
  BY Zenon, <1>4, <1>5 DEF Apart
<1>7. Reading \cap (Range(new) \union Range(X.queue)) = {}
  <2>1. \A s \in Range(new) \union Range(X.queue) : reader[s] = "none"
    BY ZenonT(40), <1>4, <1>5 DEF Apart
  <2>2. \A s \in Reading : reader[s] # "none"
    BY Zenon DEF Reading
  <2> QED
    BY Zenon, <2>1, <2>2
<1>8. PICK Q \in Seq(Streams), go \in SUBSET Streams : FeedResult(X, new, Q, go)
  BY Zenon, <1>2, <1>3, <1>6, <1>7, FeedFacts
<1>9. /\ sess' = [X EXCEPT !.queue = Q]
      /\ reader' = [s \in Streams |-> IF s \in go THEN "read" ELSE reader[s]]
      /\ IsInjective(Q) /\ go \cap Range(Q) = {}
      /\ go \union Range(Q) \union S = Range(X.queue) \union Range(new)
      /\ Cardinality(Reading \union go) <= MaxReads
      /\ Q # <<>> => Cardinality(Reading \union go) = MaxReads
  BY ZenonT(40), <1>8 DEF FeedResult
<1>10. status' = Cancelled(S)
  OBVIOUS
<1> HIDE DEF S
<1>11. /\ sess' \in SessionType /\ sess'.queue = Q /\ sess'.on = X.on /\ sess'.stage = X.stage
       /\ sess'.peers = X.peers /\ sess'.completed = X.completed /\ sess'.left = X.left
       /\ sess'.ever = X.ever
  BY ONLY <1>8, <1>9, X \in SessionType, Q \in Seq(Streams), WithQueue
<1>12. sess'.on
  BY Zenon, <1>11
<1>13. Fits(sess, member)'
  <2>1. (sess'.on <=> X.on) /\ (sess'.ever <=> X.ever)
    BY Zenon, <1>11
  <2>2. Fits(sess', member)
    BY Zenon, <1>11, <1>12, <2>1, FitsSame
  <2> QED
    BY Zenon, <1>1, <2>2
<1>14. TypedChannel'
  <2>1. /\ ctx' \in BOOLEAN /\ member' \in [Peers -> 0..MaxConn]
        /\ reader \in [Streams -> {"none", "read", "post", "done"}]
    BY Zenon, <1>1, <1>2 DEF TypedChannel
  <2>2. actor' \in {"run", "closing", "publish", "stopping", "done"}
    BY <1>1
  <2>3. reader' \in [Streams -> {"none", "read", "post", "done"}]
    BY <1>9, <2>1
  <2>4. status' \in [Streams -> {"idle", "open", "read", "cancelled"}]
    BY Zenon, <1>2, <1>10, CancelledType
  <2> QED
    BY Zenon, <1>11, <2>1, <2>2, <2>3, <2>4 DEF TypedChannel
<1>15. TypedEngine'
  BY Zenon, <1>1 DEF IntakeInv, TypedEngine
<1>16. Stopped' /\ Owned'
  <2>1. actor' \notin {"stopping", "done"} /\ actor' = "run"
    BY Zenon, <1>1
  <2>2. decoder' => sess'.stage \in {"Decoding", "Reconstructed"}
    BY <1>1, <1>11
  <2> QED
    BY Zenon, <1>12, <2>1, <2>2 DEF Stopped, Owned
<1>17. Starts(reader, reader', go) /\ Cancels(status, status', S)
  <2>1. Starts(reader, reader', go)
    BY ONLY Zenon, <1>9 DEF Starts
  <2>2. Cancels(status, status', S)
    BY ONLY Zenon, <1>10 DEF Cancelled, Cancels
  <2> QED
    BY Zenon, <2>1, <2>2
<1>18. Moved(Waiting(inbox), Range(parked), Range(X.queue),
             Waiting(inbox'), Range(parked'), Range(Q), go, S)
  <2> SUFFICES ASSUME NEW s \in Streams
               PROVE  Moved(Waiting(inbox), Range(parked), Range(X.queue),
                            Waiting(inbox'), Range(parked'), Range(Q), go, S)!(s)
    BY Zenon DEF Moved
  <2> QED
    BY Zenon, <1>4, <1>9 DEF Apart
<1>19. actor # "done" /\ actor' # "done"
  BY Zenon, <1>1
<1>20. /\ Apart(Waiting(inbox'), Range(parked'), Range(Q), reader', status')
       /\ Held(Waiting(inbox'), Range(parked'), Range(Q), reader', status', chk, actor')
  BY ONLY Zenon, <1>4, <1>17, <1>18, <1>19, Moves
<1>21. Placed'
  BY Zenon, <1>1, <1>9, <1>11, <1>20 DEF Placed
<1>22. Reading' = Reading \union go
  BY <1>9 DEF Reading
<1>23. Slots'
  <2>1. Cardinality(Reading') <= MaxReads
    BY ZenonT(40), <1>9, <1>22
  <2>2. ASSUME sess'.queue # <<>> PROVE ~(Cardinality(Reading') < MaxReads)
    <3>1. Cardinality(Reading') = MaxReads
      BY Zenon, <1>9, <1>11, <1>22, <2>2
    <3> QED
      BY <3>1, IntakeAssumption
  <2> QED
    BY Zenon, <2>1, <2>2 DEF Slots
<1> QED
  BY ZenonT(40), <1>13, <1>14, <1>15, <1>16, <1>21, <1>23 DEF IntakeInv

LEMMA CancelledNone ==
    ASSUME TypedChannel
    PROVE  Cancelled({}) = status
BY DEF TypedChannel, Cancelled

\* A step that leaves the streams where they are.
LEMMA StillStep ==
    ASSUME IntakeInv, actor # "done", InboxKept, Enrolled',
           member' \in [Peers -> 0..MaxConn], sess' \in SessionType, sess'.queue = sess.queue,
           Fits(sess, member)', Stopped', Owned', parkedDue' \in BOOLEAN,
           actor' \in {"run", "closing", "publish", "stopping"},
           UNCHANGED <<ctx, parked, reader, status, producers>>
    PROVE  IntakeInv'
<1>1. TypedChannel
  BY Zenon DEF IntakeInv
<1>2. TypedChannel'
  <2>1. actor' \in {"run", "closing", "publish", "stopping", "done"}
    OBVIOUS
  <2> QED
    BY Zenon, <1>1, <2>1 DEF TypedChannel
<1>3. status' = Cancelled({})
  BY Zenon, <1>1, CancelledNone
<1>4. IsInjective(sess'.queue) /\ IsInjective(parked')
  BY Zenon DEF IntakeInv, Placed
<1>5. /\ Range(parked') \subseteq Range(parked)
      /\ Range(sess'.queue) \subseteq Range(sess.queue)
      /\ Range(parked) \subseteq Range(parked') \union {}
      /\ Range(sess.queue) \subseteq Range(sess'.queue) \union {}
  BY Zenon
<1>6. actor' # "done" /\ UNCHANGED <<ctx, reader, producers>>
  OBVIOUS
<1> QED
  BY <1>2, <1>3, <1>4, <1>5, <1>6, ActorStep

\* The end of a handler: the session becomes X, unless that is idle.
LEMMA SettleStep ==
    ASSUME IntakeInv, actor = "run", InboxKept, Enrolled', NEW X \in SessionType, X.on,
           NEW S, Settle(X, S), IsInjective(X.queue),
           Range(X.queue) \subseteq Range(sess.queue),
           Range(sess.queue) \subseteq Range(X.queue) \union S,
           ~Idle(X) => Fits(X, member),
           decoder => X.stage \in {"Decoding", "Reconstructed"},
           UNCHANGED <<ctx, member, reader, decoder, producers>>
    PROVE  IntakeInv'
<1>1. TypedChannel
  BY Zenon DEF IntakeInv
<1>2. UNCHANGED <<ctx, reader, producers>> /\ member' = member /\ decoder' = decoder
  OBVIOUS
<1>3. CASE Idle(X)
  <2>1. Dispose("closing")
    BY Zenon, <1>3 DEF Settle
  <2>2. member' \in [Peers -> 0..MaxConn]
    BY Zenon, <1>1, <1>2 DEF TypedChannel
  <2>3. "closing" \in {"closing", "publish", "stopping"} /\ "closing" # "stopping"
    OBVIOUS
  <2> QED
    BY Zenon, <1>2, <2>1, <2>2, <2>3, DisposeStep
<1>4. CASE ~Idle(X)
  <2>1. /\ sess' = X /\ status' = Cancelled(S) /\ parked' = parked
        /\ parkedDue' = parkedDue /\ actor' = actor
    BY Zenon, <1>4 DEF Settle
  <2>2. status' \in [Streams -> {"idle", "open", "read", "cancelled"}]
    BY Zenon, <1>1, <2>1, CancelledType
  <2>3. TypedChannel'
    BY Zenon, <1>1, <1>2, <2>1, <2>2 DEF TypedChannel
  <2>4. Fits(sess, member)'
    BY Zenon, <1>2, <1>4, <2>1
  <2>5. actor' \notin {"stopping", "done"} /\ actor' = "run"
    BY <2>1
  <2>6. decoder' => sess'.stage \in {"Decoding", "Reconstructed"}
    BY <1>2, <2>1
  <2>7. Stopped' /\ Owned'
    BY Zenon, <2>1, <2>5, <2>6 DEF Stopped, Owned
  <2>8. IsInjective(sess'.queue) /\ IsInjective(parked')
    BY Zenon, <2>1 DEF IntakeInv, Placed
  <2>9. /\ Range(parked') \subseteq Range(parked)
        /\ Range(sess'.queue) \subseteq Range(sess.queue)
        /\ Range(parked) \subseteq Range(parked') \union S
        /\ Range(sess.queue) \subseteq Range(sess'.queue) \union S
    BY Zenon, <2>1
  <2>10. actor # "done" /\ actor' # "done"
    BY Zenon, <2>5
  <2> QED
    BY Zenon, <1>2, <2>1, <2>3, <2>4, <2>7, <2>8, <2>9, <2>10, ActorStep
<1> QED
  BY Zenon, <1>3, <1>4

=============================================================================
