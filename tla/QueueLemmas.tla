---------------------------- MODULE QueueLemmas ----------------------------
(* Facts about queues, that is, sequences that grow at the end and shrink at *)
(* the beginning, the sets of their elements, and sums.                      *)
EXTENDS SequencesExt, FiniteSetTheorems, TLAPS

LEMMA QueueElements ==
    ASSUME NEW S, NEW q \in Seq(S)
    PROVE  /\ ToSet(q) \subseteq S
           /\ DOMAIN q = 1..Len(q) /\ Len(q) \in Nat
           /\ \A i \in 1..Len(q) : q[i] \in ToSet(q) /\ q[i] \in S
           /\ \A x \in ToSet(q) : \E i \in 1..Len(q) : q[i] = x
<1>1. DOMAIN q = 1..Len(q) /\ Len(q) \in Nat /\ \A i \in 1..Len(q) : q[i] \in S
  OBVIOUS
<1> QED  BY <1>1 DEF ToSet

LEMMA EmptyQueue ==
    /\ \A S : <<>> \in Seq(S)
    /\ ToSet(<<>>) = {} /\ IsInjective(<<>>)
<1>1. \A S : <<>> \in Seq(S)
  OBVIOUS
<1>2. DOMAIN <<>> = {}
  OBVIOUS
<1> QED  BY <1>1, <1>2 DEF ToSet, IsInjective

LEMMA SingleQueue ==
    ASSUME NEW S, NEW x \in S
    PROVE  <<x>> \in Seq(S) /\ ToSet(<<x>>) = {x}
<1>1. DOMAIN <<x>> = {1} /\ <<x>>[1] = x
  OBVIOUS
<1> QED  BY <1>1 DEF ToSet

LEMMA QueueEnds ==
    ASSUME NEW S, NEW q \in Seq(S), NEW x \in S
    PROVE  /\ Append(q, x) \in Seq(S) /\ Append(q, x) # <<>>
           /\ Len(Append(q, x)) = Len(q) + 1
           /\ \A i \in 1..Len(q) : Append(q, x)[i] = q[i]
           /\ Append(q, x)[Len(q) + 1] = x
           /\ \A i \in 1..Len(Append(q, x)) : i \in 1..Len(q) \/ i = Len(q) + 1
           /\ ToSet(Append(q, x)) = ToSet(q) \cup {x}
<1> DEFINE r == Append(q, x)
<1>1. /\ r \in Seq(S) /\ r # <<>> /\ Len(r) = Len(q) + 1
      /\ r[Len(q) + 1] = x /\ Len(q) \in Nat
      /\ \A i \in 1..Len(q) : r[i] = q[i]
  OBVIOUS
<1>2. \A i \in 1..Len(r) : i \in 1..Len(q) \/ i = Len(q) + 1
  BY <1>1
<1>3. ToSet(r) = ToSet(q) \cup {x}
  BY <1>1, <1>2 DEF ToSet
<1> QED  BY <1>1, <1>2, <1>3

LEMMA QueueBegins ==
    ASSUME NEW S, NEW q \in Seq(S), q # <<>>
    PROVE  /\ Head(q) \in S /\ Tail(q) \in Seq(S) /\ Head(q) = q[1]
           /\ Len(q) \in Nat \ {0} /\ Len(Tail(q)) = Len(q) - 1
           /\ \A i \in 1..Len(Tail(q)) : /\ Tail(q)[i] = q[i + 1]
                                         /\ i + 1 \in 1..Len(q)
           /\ \A i \in 1..Len(q) : \/ i = 1
                                   \/ /\ i - 1 \in 1..Len(Tail(q))
                                      /\ q[i] = Tail(q)[i - 1]
           /\ ToSet(q) = ToSet(Tail(q)) \cup {Head(q)}
<1> DEFINE t == Tail(q)
<1>1. /\ Head(q) = q[1] /\ t \in Seq(S) /\ q[1] \in S
      /\ Len(q) \in Nat \ {0} /\ Len(t) = Len(q) - 1
      /\ \A i \in 1..Len(t) : t[i] = q[i + 1]
  OBVIOUS
<1>2. \A i \in 1..Len(q) : i = 1 \/ (i - 1 \in 1..Len(t) /\ q[i] = t[i - 1])
  BY <1>1
<1>3. \A i \in 1..Len(t) : i + 1 \in 1..Len(q)
  BY <1>1
<1>4. ToSet(q) = ToSet(t) \cup {Head(q)}
  <2>1. ASSUME NEW y \in ToSet(q)  PROVE y \in ToSet(t) \cup {Head(q)}
    <3>1. PICK i \in 1..Len(q) : y = q[i]
      BY QueueElements
    <3> QED  BY <1>1, <1>2, <3>1, QueueElements
  <2>2. ASSUME NEW y \in ToSet(t) \cup {Head(q)}  PROVE y \in ToSet(q)
    <3>1. CASE y = Head(q)
      BY <1>1, <3>1, QueueElements
    <3>2. CASE y \in ToSet(t)
      <4>1. PICK i \in 1..Len(t) : y = t[i]
        <5>1. t \in Seq(S)
          BY <1>1
        <5> HIDE DEF t
        <5> QED  BY <3>2, <5>1, QueueElements
      <4> QED  BY <1>1, <1>3, <4>1, QueueElements
    <3> QED  BY <3>1, <3>2
  <2> QED  BY <2>1, <2>2
<1> QED  BY <1>1, <1>2, <1>3, <1>4

(* Queues without duplicates *)

LEMMA InjectiveQueueEnds ==
    ASSUME NEW S, NEW q \in Seq(S), NEW x \in S, IsInjective(q), x \notin ToSet(q)
    PROVE  IsInjective(Append(q, x))
<1>1. DOMAIN Append(q, x) = 1..Len(Append(q, x)) /\ DOMAIN q = 1..Len(q)
  BY QueueElements, QueueEnds
<1>2. \A i \in 1..Len(q) : q[i] # x
  BY QueueElements
<1> QED  BY <1>1, <1>2, QueueEnds DEF IsInjective

LEMMA InjectiveQueueBegins ==
    ASSUME NEW S, NEW q \in Seq(S), q # <<>>, IsInjective(q)
    PROVE  IsInjective(Tail(q)) /\ Head(q) \notin ToSet(Tail(q))
<1>1. DOMAIN Tail(q) = 1..Len(Tail(q)) /\ DOMAIN q = 1..Len(q)
  BY QueueElements, QueueBegins
<1>2. IsInjective(Tail(q))
  BY <1>1, QueueBegins DEF IsInjective
<1>3. ASSUME Head(q) \in ToSet(Tail(q))  PROVE FALSE
  <2> DEFINE t == Tail(q)
  <2>0. t \in Seq(S)
    BY QueueBegins
  <2>1. PICK i \in 1..Len(t) : t[i] = Head(q)
    <3> HIDE DEF t
    <3> QED  BY <1>3, <2>0, QueueElements DEF t
  <2> QED  BY <1>1, <2>1, QueueBegins DEF IsInjective
<1> QED  BY <1>2, <1>3

LEMMA ConcatPlaces ==
    ASSUME NEW S, NEW p \in Seq(S), NEW q \in Seq(S)
    PROVE  /\ p \o q \in Seq(S) /\ Len(p \o q) = Len(p) + Len(q)
           /\ \A i \in 1..Len(p) : (p \o q)[i] = p[i]
           /\ \A i \in 1..Len(q) : (p \o q)[i + Len(p)] = q[i]
  OBVIOUS

LEMMA ConcatElements ==
    ASSUME NEW S, NEW p \in Seq(S), NEW q \in Seq(S)
    PROVE  ToSet(p \o q) = ToSet(p) \cup ToSet(q)
<1> DEFINE r == p \o q
<1>1. /\ r \in Seq(S) /\ Len(r) = Len(p) + Len(q)
      /\ Len(p) \in Nat /\ Len(q) \in Nat
      /\ \A i \in 1..Len(p) : r[i] = p[i] /\ i \in 1..Len(r)
      /\ \A i \in 1..Len(q) : r[i + Len(p)] = q[i] /\ i + Len(p) \in 1..Len(r)
  OBVIOUS
<1>2. \A i \in 1..Len(r) : \/ i \in 1..Len(p)
                           \/ /\ i - Len(p) \in 1..Len(q)
                              /\ r[i] = q[i - Len(p)]
  BY <1>1
<1> HIDE DEF r
<1>3. ASSUME NEW x \in ToSet(r)  PROVE x \in ToSet(p) \cup ToSet(q)
  <2>1. PICK i \in 1..Len(r) : r[i] = x
    BY <1>1, QueueElements
  <2>2. CASE i \in 1..Len(p)
    BY <1>1, <2>1, <2>2, QueueElements
  <2>3. CASE i - Len(p) \in 1..Len(q) /\ r[i] = q[i - Len(p)]
    BY <2>1, <2>3, QueueElements
  <2> QED  BY <1>2, <2>2, <2>3
<1>4. ASSUME NEW x \in ToSet(p) \cup ToSet(q)  PROVE x \in ToSet(r)
  <2>1. CASE x \in ToSet(p)
    <3>1. PICK i \in 1..Len(p) : p[i] = x
      BY <2>1, QueueElements
    <3> QED  BY <1>1, <3>1, QueueElements
  <2>2. CASE x \in ToSet(q)
    <3>1. PICK i \in 1..Len(q) : q[i] = x
      BY <2>2, QueueElements
    <3> QED  BY <1>1, <3>1, QueueElements
  <2> QED  BY <2>1, <2>2
<1> QED  BY <1>3, <1>4 DEF r
(* What is removed from a queue without duplicates has left it. *)
LEMMA RemoveFirstElements ==
    ASSUME NEW S, NEW q \in Seq(S), IsInjective(q), NEW x
    PROVE  /\ RemoveFirst(q, x) \in Seq(S) /\ IsInjective(RemoveFirst(q, x))
           /\ ToSet(RemoveFirst(q, x)) = ToSet(q) \ {x}
<1>1. CASE x \notin ToSet(q)
  <2>1. RemoveFirst(q, x) = q
    BY <1>1, QueueElements DEF RemoveFirst
  <2> QED  BY <1>1, <2>1
<1>2. CASE x \in ToSet(q)
  <2>1. PICK n \in 1..Len(q) : q[n] = x
    BY <1>2, QueueElements
  <2>2. \A i \in 1..Len(q) : q[i] = x => i = n
    BY <2>1, QueueElements DEF IsInjective
  <2>3. SelectInSeq(q, LAMBDA v : v = x) = n
    <3>1. {i \in 1..Len(q) : q[i] = x} = {n}
      BY <2>1, <2>2
    <3>2. Min({n}) = n
      BY <2>1 DEF Min
    <3> QED  BY <3>1, <3>2 DEF SelectInSeq
  <2> DEFINE r == SubSeq(q, 1, n - 1) \o SubSeq(q, n + 1, Len(q))
  <2>4. RemoveFirst(q, x) = r
    BY <2>1, <2>3 DEF RemoveFirst, RemoveAt
  <2>5. /\ Len(q) \in Nat /\ n \in Nat
        /\ r \in Seq(S) /\ Len(r) = Len(q) - 1
        /\ \A i \in 1 .. Len(q) - 1 : r[i] = IF i < n THEN q[i] ELSE q[i + 1]
    <3>1. Len(q) \in Nat /\ n \in Nat /\ n <= Len(q) /\ n >= 1
      OBVIOUS
    <3> DEFINE front == SubSeq(q, 1, n - 1)
               back == SubSeq(q, n + 1, Len(q))
    <3>2. /\ front \in Seq(S) /\ Len(front) = n - 1
          /\ \A i \in 1 .. n - 1 : front[i] = q[i]
      BY <3>1
    <3>3. /\ back \in Seq(S) /\ Len(back) = Len(q) - n
          /\ \A i \in 1 .. Len(q) - n : back[i] = q[i + n]
      BY <3>1
    <3> HIDE DEF front, back
    <3>4. /\ front \o back \in Seq(S)
          /\ Len(front \o back) = Len(front) + Len(back)
          /\ \A i \in 1..Len(front) : (front \o back)[i] = front[i]
          /\ \A i \in 1..Len(back) : (front \o back)[i + Len(front)] = back[i]
      <4>1. front \in Seq(S) /\ back \in Seq(S)
        BY <3>2, <3>3
      <4>2. \A u, v \in Seq(S) :
               /\ u \o v \in Seq(S) /\ Len(u \o v) = Len(u) + Len(v)
               /\ \A i \in 1..Len(u) : (u \o v)[i] = u[i]
               /\ \A i \in 1..Len(v) : (u \o v)[i + Len(u)] = v[i]
        BY ConcatPlaces
      <4> QED  BY <4>1, <4>2, Zenon
    <3>5. /\ front \o back \in Seq(S) /\ Len(front \o back) = Len(q) - 1
          /\ \A i \in 1 .. n - 1 : (front \o back)[i] = q[i]
          /\ \A i \in 1 .. Len(q) - n : (front \o back)[i + n - 1] = q[i + n]
      <4>1. /\ \A i \in 1 .. n - 1 : i \in 1..Len(front)
            /\ \A i \in 1 .. Len(q) - n :
                  i \in 1..Len(back) /\ i + n - 1 = i + Len(front)
        BY <3>1, <3>2, <3>3
      <4>2. Len(front) + Len(back) = Len(q) - 1
        BY <3>1, <3>2, <3>3
      <4>3. \A i \in 1 .. n - 1 : (front \o back)[i] = q[i]
        BY <3>2, <3>4, <4>1
      <4>4. \A i \in 1 .. Len(q) - n : (front \o back)[i + n - 1] = q[i + n]
        BY <3>3, <3>4, <4>1
      <4> QED  BY <3>4, <4>2, <4>3, <4>4
    <3>6. \A i \in 1 .. Len(q) - 1 :
             \/ i \in 1 .. n - 1 /\ i < n
             \/ /\ ~(i < n) /\ i - n + 1 \in 1 .. Len(q) - n
                /\ (i - n + 1) + n - 1 = i /\ (i - n + 1) + n = i + 1
      BY <3>1
    <3>7. \A i \in 1 .. Len(q) - 1 :
             (front \o back)[i] = IF i < n THEN q[i] ELSE q[i + 1]
      BY <3>5, <3>6
    <3> QED  BY <3>1, <3>5, <3>7 DEF front, back
  <2> HIDE DEF r
  <2>6. IsInjective(r)
    <3>1. DOMAIN r = 1 .. Len(q) - 1
      BY <2>5
    <3>2. ASSUME NEW i \in 1 .. Len(q) - 1, NEW j \in 1 .. Len(q) - 1, r[i] = r[j]
          PROVE  i = j
      <4> DEFINE Place(k) == IF k < n THEN k ELSE k + 1
      <4>1. /\ Place(i) \in 1..Len(q) /\ Place(j) \in 1..Len(q)
            /\ q[Place(i)] = r[i] /\ q[Place(j)] = r[j]
        BY <2>5
      <4>2. Place(i) = Place(j)
        <5>1. DOMAIN q = 1..Len(q)
          BY QueueElements
        <5> HIDE DEF Place
        <5> QED  BY <3>2, <4>1, <5>1 DEF IsInjective
      <4> QED  BY <2>5, <4>2
    <3> QED  BY <3>1, <3>2 DEF IsInjective
  <2>7. ASSUME NEW y \in ToSet(r)  PROVE y \in ToSet(q) \ {x}
    <3>1. PICK i \in 1 .. Len(q) - 1 : y = r[i]
      <4>1. PICK i \in 1..Len(r) : y = r[i]
        BY <2>5, <2>7, QueueElements
      <4>2. i \in 1 .. Len(q) - 1
        BY <2>5
      <4> QED  BY <4>1, <4>2
    <3>2. PICK j \in 1 .. Len(q) : y = q[j] /\ j # n
      BY <2>5, <3>1
    <3> QED  BY <2>2, <3>2, QueueElements
  <2>8. ASSUME NEW y \in ToSet(q) \ {x}  PROVE y \in ToSet(r)
    <3>1. PICK j \in 1 .. Len(q) : y = q[j] /\ j # n
      BY <2>1, <2>8, QueueElements
    <3>2. PICK i \in 1 .. Len(q) - 1 : y = r[i]
      <4>1. CASE j < n
        <5>1. j \in 1 .. Len(q) - 1 /\ r[j] = q[j]
          BY <2>5, <4>1
        <5> QED  BY <3>1, <5>1
      <4>2. CASE j > n
        <5>1. /\ j - 1 \in 1 .. Len(q) - 1 /\ ~(j - 1 < n)
              /\ j - 1 + 1 = j
          BY <2>5, <4>2
        <5>2. r[j - 1] = q[j]
          BY <2>5, <5>1
        <5> QED  BY <3>1, <5>1, <5>2
      <4> QED  BY <2>5, <3>1, <4>1, <4>2
    <3> QED  BY <2>5, <3>2, QueueElements
  <2> QED  BY <2>4, <2>5, <2>6, <2>7, <2>8
<1> QED  BY <1>1, <1>2

LEMMA InjectiveQueueLength ==
    ASSUME NEW S, NEW q \in Seq(S), IsInjective(q)
    PROVE  IsFiniteSet(ToSet(q)) /\ Cardinality(ToSet(q)) = Len(q)
<1>1. DOMAIN q = 1..Len(q) /\ Len(q) \in Nat
  BY QueueElements
<1>2. q \in Bijection(1..Len(q), ToSet(q))
  <2>1. q \in [1..Len(q) -> ToSet(q)]
    <3>1. q = [i \in 1..Len(q) |-> q[i]]
      OBVIOUS
    <3> QED  BY <3>1, QueueElements
  <2>2. \A y \in ToSet(q) : \E i \in 1..Len(q) : q[i] = y
    BY QueueElements
  <2> QED  BY <1>1, <2>1, <2>2 DEF Bijection, Injection, Surjection, IsInjective
<1>3. ExistsBijection(1..Len(q), ToSet(q))
  BY <1>2 DEF ExistsBijection
<1> QED  BY <1>1, <1>3, FS_NatBijection, FS_CountingElements

(* Counting the elements of a queue that belong to a set. *)

CountIn(q, M) == Cardinality({k \in DOMAIN q : q[k] \in M})

LEMMA CountZero ==
    ASSUME NEW S, NEW q \in Seq(S), NEW M
    PROVE  /\ CountIn(q, M) \in Nat
           /\ IsFiniteSet({k \in DOMAIN q : q[k] \in M})
           /\ CountIn(q, M) = 0 <=> ToSet(q) \cap M = {}
<1> DEFINE P == {k \in DOMAIN q : q[k] \in M}
<1>1. DOMAIN q = 1..Len(q) /\ Len(q) \in Nat
  BY QueueElements
<1>2. IsFiniteSet(1..Len(q)) /\ P \in SUBSET (1..Len(q))
  <2>1. 1 \in Int /\ Len(q) \in Int
    BY <1>1
  <2> QED  BY <1>1, <2>1, FS_Interval
<1>3. P = {} <=> ToSet(q) \cap M = {}
  BY DEF ToSet
<1> HIDE DEF P
<1>4. IsFiniteSet(P) /\ Cardinality(P) \in Nat
  BY <1>2, FS_Subset, FS_CardinalityType
<1>5. Cardinality(P) = 0 <=> P = {}
  BY <1>4, FS_EmptySet
<1> QED  BY <1>3, <1>4, <1>5 DEF P, CountIn

LEMMA CountEmpty == \A M : CountIn(<<>>, M) = 0
<1>1. ASSUME NEW M  PROVE {k \in DOMAIN <<>> : <<>>[k] \in M} = {}
  OBVIOUS
<1> QED  BY <1>1, FS_EmptySet DEF CountIn

LEMMA CountEnds ==
    ASSUME NEW S, NEW q \in Seq(S), NEW x \in S, NEW M
    PROVE  CountIn(Append(q, x), M) = CountIn(q, M) + IF x \in M THEN 1 ELSE 0
<1> DEFINE r == Append(q, x)
           P == {k \in DOMAIN q : q[k] \in M}
           R == {k \in DOMAIN r : r[k] \in M}
<1>1. /\ DOMAIN q = 1..Len(q) /\ DOMAIN r = 1 .. Len(q) + 1 /\ Len(q) \in Nat
      /\ r[Len(q) + 1] = x /\ \A k \in 1..Len(q) : r[k] = q[k]
  OBVIOUS
<1>2. R = IF x \in M THEN P \cup {Len(q) + 1} ELSE P
  <2> HIDE DEF r
  <2> QED  BY <1>1
<1>3. Len(q) + 1 \notin P
  BY <1>1
<1>4. IsFiniteSet(P) /\ Cardinality(P) \in Nat
  BY CountZero DEF CountIn
<1> HIDE DEF P, R
<1>5. Cardinality(P \cup {Len(q) + 1}) = Cardinality(P) + 1
  BY <1>3, <1>4, FS_AddElement
<1>6. Cardinality(R) = Cardinality(P) + IF x \in M THEN 1 ELSE 0
  BY <1>2, <1>4, <1>5
<1> QED  BY <1>6 DEF P, R, CountIn

LEMMA CountBegins ==
    ASSUME NEW S, NEW q \in Seq(S), q # <<>>, NEW M
    PROVE  CountIn(q, M) = CountIn(Tail(q), M) + IF Head(q) \in M THEN 1 ELSE 0
<1> DEFINE t == Tail(q)
           P == {k \in DOMAIN q : q[k] \in M}
           R == {k \in DOMAIN t : t[k] \in M}
           up == [k \in R |-> k + 1]
<1>1. /\ DOMAIN q = 1..Len(q) /\ DOMAIN t = 1 .. Len(q) - 1 /\ Len(q) \in Nat \ {0}
      /\ q[1] = Head(q) /\ \A k \in 1 .. Len(q) - 1 : t[k] = q[k + 1]
      /\ t \in Seq(S)
  OBVIOUS
<1>2. IsFiniteSet(P) /\ Cardinality(P) \in Nat /\ IsFiniteSet(R) /\ Cardinality(R) \in Nat
  <2>1. ASSUME NEW s \in Seq(S)
        PROVE  /\ IsFiniteSet({k \in DOMAIN s : s[k] \in M})
               /\ Cardinality({k \in DOMAIN s : s[k] \in M}) \in Nat
    BY CountZero DEF CountIn
  <2> HIDE DEF t
  <2> QED  BY <1>1, <2>1
<1>3. up \in Bijection(R, P \ {1})
  <2> HIDE DEF t
  <2>1. ASSUME NEW k \in R  PROVE k + 1 \in P \ {1} /\ up[k] = k + 1
    BY <1>1
  <2>2. ASSUME NEW k \in P \ {1}  PROVE k - 1 \in R /\ up[k - 1] = k
    <3>1. k - 1 \in 1 .. Len(q) - 1 /\ k - 1 + 1 = k
      BY <1>1
    <3>2. k - 1 \in R
      BY <1>1, <3>1
    <3> QED  BY <3>1, <3>2
  <2>3. up \in [R -> P \ {1}]
    BY <2>1
  <2>4. \A k, l \in R : k + 1 = l + 1 => k = l
    BY <1>1
  <2>5. up \in Injection(R, P \ {1})
    BY <2>1, <2>3, <2>4 DEF Injection, IsInjective
  <2> QED  BY <2>2, <2>3, <2>5 DEF Bijection, Surjection
<1> HIDE DEF P, R, up
<1>4. Cardinality(P \ {1}) = Cardinality(R)
  BY <1>2, <1>3, FS_Bijection DEF ExistsBijection
<1>5. Cardinality(P) = Cardinality(P \ {1}) + IF 1 \in P THEN 1 ELSE 0
  <2>1. Cardinality(P \ {1}) = IF 1 \in P THEN Cardinality(P) - 1 ELSE Cardinality(P)
    BY <1>2, FS_RemoveElement
  <2> QED  BY <1>2, <2>1
<1>6. 1 \in P <=> Head(q) \in M
  BY <1>1 DEF P
<1> QED  BY <1>4, <1>5, <1>6 DEF P, R, CountIn

LEMMA CountConcat ==
    ASSUME NEW S, NEW p \in Seq(S), NEW q \in Seq(S), NEW M
    PROVE  CountIn(p \o q, M) = CountIn(p, M) + CountIn(q, M)
<1> DEFINE r == p \o q
           P == {k \in DOMAIN p : p[k] \in M}
           Q == {k \in DOMAIN q : q[k] \in M}
           R == {k \in DOMAIN r : r[k] \in M}
           up == [k \in Q |-> k + Len(p)]
           U == R \ P
<1>1. /\ DOMAIN p = 1..Len(p) /\ DOMAIN q = 1..Len(q)
      /\ DOMAIN r = 1 .. Len(p) + Len(q) /\ Len(p) \in Nat /\ Len(q) \in Nat
      /\ r \in Seq(S)
      /\ \A k \in 1..Len(p) : r[k] = p[k]
      /\ \A k \in 1..Len(q) : r[k + Len(p)] = q[k]
  OBVIOUS
<1>2. ASSUME NEW s \in Seq(S)
      PROVE  /\ IsFiniteSet({k \in DOMAIN s : s[k] \in M})
             /\ Cardinality({k \in DOMAIN s : s[k] \in M}) \in Nat
  BY CountZero DEF CountIn
<1> HIDE DEF r
<1>3. /\ IsFiniteSet(P) /\ Cardinality(P) \in Nat
      /\ IsFiniteSet(Q) /\ Cardinality(Q) \in Nat
      /\ IsFiniteSet(R) /\ Cardinality(R) \in Nat
  BY <1>1, <1>2
<1>4. P \subseteq R
  BY <1>1
<1>5. up \in Bijection(Q, U)
  <2>1. ASSUME NEW k \in Q  PROVE k + Len(p) \in U /\ up[k] = k + Len(p)
    <3>1. /\ k + Len(p) \in 1 .. Len(p) + Len(q)
          /\ k + Len(p) \notin 1..Len(p)
      BY <1>1
    <3> QED  BY <1>1, <3>1
  <2>2. ASSUME NEW k \in U  PROVE k - Len(p) \in Q /\ up[k - Len(p)] = k
    <3>1. k \in 1 .. Len(p) + Len(q) /\ k \notin 1..Len(p)
      BY <1>1
    <3>2. k - Len(p) \in 1..Len(q) /\ k - Len(p) + Len(p) = k
      BY <1>1, <3>1
    <3>3. k - Len(p) \in Q
      BY <1>1, <3>2
    <3> QED  BY <3>2, <3>3
  <2>3. up \in [Q -> U]
    BY <2>1
  <2>4. \A k, l \in Q : k + Len(p) = l + Len(p) => k = l
    BY <1>1
  <2>5. up \in Injection(Q, U)
    BY <2>1, <2>3, <2>4 DEF Injection, IsInjective
  <2> HIDE DEF P, Q, R, U, up
  <2> QED  BY <2>2, <2>3, <2>5 DEF Bijection, Surjection
<1>6. P \cap U = {} /\ P \cup U = R
  BY <1>4
<1> HIDE DEF P, Q, R, U, up
<1>7. IsFiniteSet(U) /\ Cardinality(U) = Cardinality(Q)
  BY <1>3, <1>5, FS_Bijection DEF ExistsBijection
<1>8. Cardinality(P \cup U) = Cardinality(P) + Cardinality(U) - Cardinality(P \cap U)
  BY <1>3, <1>7, FS_Union
<1>9. Cardinality(R) = Cardinality(P) + Cardinality(Q)
  <2>1. Cardinality(P \cap U) = 0
    BY <1>6, FS_EmptySet
  <2>2. Cardinality(P \cup U) = Cardinality(P) + Cardinality(Q)
    BY <1>3, <1>7, <1>8, <2>1
  <2> QED  BY <1>6, <2>2, Zenon
<1> QED  BY <1>9 DEF P, Q, R, CountIn, r

(* In a queue, whatever is in R comes before whatever is in T. *)
Before(q, R, T) == \A j, k \in DOMAIN q : q[j] \in R /\ q[k] \in T => j < k

LEMMA BeforeEnds ==
    ASSUME NEW S, NEW q \in Seq(S), NEW x \in S, NEW R, NEW T, Before(q, R, T),
           x \in R => x \notin T /\ ToSet(q) \cap T = {}
    PROVE  Before(Append(q, x), R, T)
<1> DEFINE r == Append(q, x)
<1>1. /\ DOMAIN q = 1..Len(q) /\ DOMAIN r = 1 .. Len(q) + 1 /\ Len(q) \in Nat
      /\ r[Len(q) + 1] = x /\ \A k \in 1..Len(q) : r[k] = q[k]
  OBVIOUS
<1>2. \A k \in 1 .. Len(q) + 1 : k \in 1..Len(q) \/ k = Len(q) + 1
  BY <1>1
<1>3. \A k \in 1..Len(q) : q[k] \in ToSet(q) /\ k < Len(q) + 1
  BY <1>1, QueueElements
<1> HIDE DEF r
<1>4. ASSUME NEW j \in DOMAIN r, NEW k \in DOMAIN r, r[j] \in R, r[k] \in T
      PROVE  j < k
  <2>1. CASE j \in 1..Len(q) /\ k \in 1..Len(q)
    BY <1>1, <1>4, <2>1 DEF Before
  <2>2. CASE j = Len(q) + 1
    BY <1>1, <1>2, <1>3, <1>4, <2>2
  <2>3. CASE j \in 1..Len(q) /\ k = Len(q) + 1
    BY <1>3, <2>3
  <2> QED  BY <1>1, <1>2, <2>1, <2>2, <2>3
<1> QED  BY <1>4 DEF Before, r

LEMMA BeforeBegins ==
    ASSUME NEW S, NEW q \in Seq(S), q # <<>>, NEW R, NEW T, Before(q, R, T)
    PROVE  /\ Before(Tail(q), R, T)
           /\ Head(q) \in T => ToSet(q) \cap R = {}
<1> DEFINE t == Tail(q)
<1>1. /\ DOMAIN q = 1..Len(q) /\ DOMAIN t = 1 .. Len(q) - 1 /\ Len(q) \in Nat \ {0}
      /\ q[1] = Head(q) /\ \A k \in 1 .. Len(q) - 1 : t[k] = q[k + 1]
  OBVIOUS
<1> HIDE DEF t
<1>2. \A k \in 1 .. Len(q) - 1 : k + 1 \in 1..Len(q)
  BY <1>1
<1>3. ASSUME NEW j \in DOMAIN t, NEW k \in DOMAIN t, t[j] \in R, t[k] \in T
      PROVE  j < k
  <2>1. j + 1 < k + 1
    BY <1>1, <1>2, <1>3 DEF Before
  <2> QED  BY <1>1, <2>1
<1>4. ASSUME Head(q) \in T, NEW x \in ToSet(q) \cap R  PROVE FALSE
  <2>1. PICK j \in 1..Len(q) : q[j] = x
    BY <1>4, QueueElements
  <2>2. 1 \in 1..Len(q) /\ ~(j < 1)
    BY <1>1
  <2> QED  BY <1>1, <1>4, <2>1, <2>2 DEF Before
<1> QED  BY <1>3, <1>4 DEF Before, t

-----------------------------------------------------------------------------
(* Induction, and functions defined by recursion, over the natural numbers.  *)
(* A property is a set here, and a step of the recursion a function.         *)

LEMMA SmallestElement ==
    ASSUME NEW T \in SUBSET Nat, T # {}
    PROVE  \E x \in T : \A y \in T : x <= y
<1> DEFINE R == OpToRel(<, Nat)
<1>1. IsWellFoundedOn(R, Nat)
  BY NatLessThanWellFounded
<1>2. \A x, y \in Nat : x < y => <<x, y>> \in R
  BY DEF OpToRel
<1> HIDE DEF R
<1>3. PICK x \in T : \A y \in T : <<y, x>> \notin R
  BY <1>1, WFMin
<1>4. \A y \in T : ~ (y < x)
  BY <1>2, <1>3
<1> QED  BY <1>4

LEMMA InductionUpTo ==
    ASSUME NEW n \in Nat, NEW T, 0 \in T, \A i \in 1..n : i - 1 \in T => i \in T
    PROVE  0..n \subseteq T
<1> SUFFICES ASSUME (0..n) \ T # {}  PROVE FALSE
  OBVIOUS
<1>1. PICK x \in (0..n) \ T : \A y \in (0..n) \ T : x <= y
  <2> DEFINE U == (0..n) \ T
  <2>1. U \in SUBSET Nat /\ U # {}
    OBVIOUS
  <2> HIDE DEF U
  <2>2. \E x \in U : \A y \in U : x <= y
    BY <2>1, SmallestElement
  <2> QED  BY <2>2 DEF U
<1>2. x \in 1..n
  BY <1>1
<1>3. x - 1 \in 0..n /\ ~(x <= x - 1)
  BY <1>2
<1>4. x - 1 \in T
  BY <1>1, <1>3
<1> QED  BY <1>1, <1>2, <1>4

Iterates(f, X, base, n, step) ==
    /\ f \in [0..n -> X]
    /\ f[0] = base
    /\ \A i \in 1..n : f[i] = step[i][f[i - 1]]

LEMMA RecursionExists ==
    ASSUME NEW X, NEW base \in X, NEW n \in Nat, NEW step \in [1..n -> [X -> X]]
    PROVE  \E f : Iterates(f, X, base, n, step)
<1> DEFINE Starts(f, m) == f[0] = base /\ \A i \in 1..m : f[i] = step[i][f[i - 1]]
           T == {m \in 0..n : \E f \in [0..m -> X] : Starts(f, m)}
<1>1. 0 \in T
  <2> DEFINE f == [i \in 0..0 |-> base]
  <2>1. f \in [0..0 -> X] /\ f[0] = base
    OBVIOUS
  <2>2. \A i \in 1..0 : FALSE
    OBVIOUS
  <2>3. Starts(f, 0) /\ 0 \in 0..n
    BY <2>1, <2>2
  <2> HIDE DEF f, Starts
  <2> QED  BY <2>1, <2>3
<1>2. ASSUME NEW m \in 1..n, m - 1 \in T  PROVE m \in T
  <2>1. PICK f \in [0 .. m - 1 -> X] : Starts(f, m - 1)
    BY <1>2
  <2> DEFINE g == [i \in 0..m |-> IF i = m THEN step[m][f[m - 1]] ELSE f[i]]
  <2>2. /\ m - 1 \in 0 .. m - 1 /\ f[m - 1] \in X
        /\ \A i \in (0..m) \ {m} : i \in 0 .. m - 1
    OBVIOUS
  <2>3. g \in [0..m -> X]
    BY <2>2
  <2>4. Starts(g, m)
    <3>1. g[0] = base
      BY <2>1
    <3>2. ASSUME NEW i \in 1..m  PROVE g[i] = step[i][g[i - 1]]
      <4>1. i \in 0..m /\ i - 1 \in 0..m /\ i - 1 # m
        OBVIOUS
      <4>2. g[i - 1] = f[i - 1]
        BY <4>1
      <4>3. CASE i = m
        <5>1. g[i] = step[i][f[i - 1]]
          BY <4>1, <4>3
        <5> QED  BY <4>2, <5>1
      <4>4. CASE i # m
        <5>1. i \in 1 .. m - 1 /\ g[i] = f[i]
          BY <4>1, <4>4
        <5>2. f[i] = step[i][f[i - 1]]
          BY <2>1, <5>1
        <5> QED  BY <4>2, <5>1, <5>2
      <4> QED  BY <4>3, <4>4
    <3> QED  BY <3>1, <3>2
  <2>5. m \in 0..n
    OBVIOUS
  <2> HIDE DEF g, Starts
  <2> QED  BY <2>3, <2>4, <2>5
<1>3. n \in T
  <2> HIDE DEF T
  <2>1. 0..n \subseteq T
    BY <1>1, <1>2, InductionUpTo
  <2> QED  BY <2>1
<1> QED  BY <1>3 DEF Iterates

LEMMA FlattenQueues ==
    ASSUME NEW S, NEW n \in Nat \ {0}, NEW qs \in [1..n -> Seq(S)]
    PROVE  FlattenSeq(qs) \in Seq(S)
<1> DEFINE Flattens(f) ==
               f = [i \in 1..n |-> IF i = 1 THEN qs[i] ELSE f[i - 1] \o qs[i]]
           flat == CHOOSE f : Flattens(f)
<1>1. Len(qs) = n
  OBVIOUS
<1>2. FlattenSeq(qs) = flat[n]
  BY <1>1 DEF FlattenSeq
<1>3. \E f : Flattens(f)
  <2> DEFINE step == [i \in 1..n |-> [s \in Seq(S) |-> s \o qs[i]]]
  <2>1. step \in [1..n -> [Seq(S) -> Seq(S)]]
    OBVIOUS
  <2>2. <<>> \in Seq(S)
    OBVIOUS
  <2>3. \A i \in 1..n, s \in Seq(S) : step[i][s] = s \o qs[i]
    OBVIOUS
  <2> HIDE DEF step
  <2>4. PICK f : Iterates(f, Seq(S), <<>>, n, step)
    BY <2>1, <2>2, RecursionExists
  <2>5. ASSUME NEW i \in 1..n
        PROVE  /\ f[i] = f[i - 1] \o qs[i]
               /\ i = 1 => f[i] = qs[i]
               /\ i # 1 => i - 1 \in 1..n
    <3>1. i - 1 \in 0..n /\ (i # 1 => i - 1 \in 1..n)
      OBVIOUS
    <3>2. f[i - 1] \in Seq(S) /\ qs[i] \in Seq(S)
      BY <2>4, <3>1 DEF Iterates
    <3>3. f[i] = f[i - 1] \o qs[i]
      BY <2>3, <2>4, <3>2 DEF Iterates
    <3>4. <<>> \o qs[i] = qs[i]
      BY <3>2
    <3>5. i = 1 => f[i] = qs[i]
      <4>1. i = 1 => i - 1 = 0
        OBVIOUS
      <4>2. i = 1 => f[i - 1] = <<>>
        BY <2>4, <4>1 DEF Iterates
      <4> QED  BY <3>3, <3>4, <4>2
    <3> QED  BY <3>1, <3>3, <3>5
  <2> DEFINE g == [i \in 1..n |-> f[i]]
  <2>6. \A i \in 1..n : g[i] = IF i = 1 THEN qs[i] ELSE g[i - 1] \o qs[i]
    BY <2>5
  <2>7. Flattens(g)
    BY <2>6
  <2> QED  BY <2>7
<1>4. Flattens(flat)
  BY <1>3
<1>5. /\ flat[1] = qs[1]
      /\ \A i \in 2..n : flat[i] = flat[i - 1] \o qs[i]
  <2> HIDE DEF flat
  <2>1. flat = [i \in 1..n |-> IF i = 1 THEN qs[i] ELSE flat[i - 1] \o qs[i]]
    BY <1>4
  <2>2. \A i \in 1..n : flat[i] = IF i = 1 THEN qs[i] ELSE flat[i - 1] \o qs[i]
    BY <2>1
  <2>3. 1 \in 1..n /\ \A i \in 2..n : i \in 1..n /\ i # 1
    OBVIOUS
  <2> QED  BY <2>2, <2>3
<1> HIDE DEF flat
<1>6. flat[n] \in Seq(S)
  <2> DEFINE T == {i \in 0..n : i = 0 \/ flat[i] \in Seq(S)}
  <2>1. ASSUME NEW i \in 1..n, i - 1 \in T  PROVE i \in T
    <3>1. i \in 0..n /\ qs[i] \in Seq(S) /\ (i # 1 => i \in 2..n /\ i - 1 # 0)
      OBVIOUS
    <3>2. CASE i = 1
      BY <1>5, <3>1, <3>2
    <3>3. CASE i # 1
      <4>1. flat[i - 1] \in Seq(S)
        BY <2>1, <3>1, <3>3
      <4>2. flat[i - 1] \o qs[i] \in Seq(S)
        BY <3>1, <4>1
      <4> QED  BY <1>5, <3>1, <3>3, <4>2
    <3> QED  BY <3>2, <3>3
  <2>2. 0 \in T
    OBVIOUS
  <2> HIDE DEF T
  <2>3. n \in Nat /\ n \in 0..n
    OBVIOUS
  <2>4. 0..n \subseteq T
    BY <2>1, <2>2, <2>3, InductionUpTo
  <2> QED  BY <2>3, <2>4 DEF T
<1> QED  BY <1>2, <1>6

LEMMA RestrictedQueue ==
    ASSUME NEW S, NEW q \in Seq(S), NEW T, ToSet(q) \subseteq T
    PROVE  q \in Seq(T)
<1>1. \A i \in 1..Len(q) : q[i] \in T
  BY QueueElements
<1>2. q = [i \in 1..Len(q) |-> q[i]] /\ Len(q) \in Nat
  OBVIOUS
<1> QED  BY <1>1, <1>2

-----------------------------------------------------------------------------
(* Sums over a finite set, by the recursion of the folds.                    *)

(* The sums of f over the subsets of S, as a fold takes them. *)
Chosen(s) == CHOOSE x \in s : TRUE
Sums(iter, f, S) ==
    iter = [s \in SUBSET S |->
               IF s = {} THEN 0 ELSE f[Chosen(s)] + iter[s \ {Chosen(s)}]]

LEMMA ChosenElement ==
    ASSUME NEW S, IsFiniteSet(S), NEW s \in SUBSET S, s # {}
    PROVE  /\ Chosen(s) \in s /\ s \ {Chosen(s)} \in SUBSET S
           /\ Cardinality(s) \in Nat /\ Cardinality(s) > 0
           /\ Cardinality(s \ {Chosen(s)}) = Cardinality(s) - 1
<1>1. IsFiniteSet(s)
  BY FS_Subset
<1>2. Chosen(s) \in s
  BY DEF Chosen
<1>3. Cardinality(s) \in Nat /\ Cardinality(s) # 0
  BY <1>1, FS_CardinalityType, FS_EmptySet
<1>4. Cardinality(s \ {Chosen(s)}) = Cardinality(s) - 1
  BY <1>1, <1>2, FS_RemoveElement
<1> QED  BY <1>2, <1>3, <1>4

LEMMA SumsExist ==
    ASSUME NEW S, IsFiniteSet(S), NEW f \in [S -> Int]
    PROVE  \E iter : Sums(iter, f, S)
<1> DEFINE Next(h, s) == IF s = {} THEN 0 ELSE f[Chosen(s)] + h[s \ {Chosen(s)}]
           UpTo(h, n) == \A s \in SUBSET S : Cardinality(s) <= n => h[s] = Next(h, s)
           T == {n \in Nat : ~ \E h \in [SUBSET S -> Int] : UpTo(h, n)}
<1>1. \A s \in SUBSET S : IsFiniteSet(s) /\ Cardinality(s) \in Nat
  BY FS_Subset, FS_CardinalityType
<1>2. ASSUME T # {}  PROVE FALSE
  <2>1. PICK n \in T : \A k \in T : n <= k
    BY <1>2, SmallestElement
  <2>2. n \in Nat /\ ~ \E h \in [SUBSET S -> Int] : UpTo(h, n)
    BY <2>1
  <2>3. PICK h \in [SUBSET S -> Int] : n = 0 \/ UpTo(h, n - 1)
    <3>1. CASE n = 0
      <4>1. [s \in SUBSET S |-> 0] \in [SUBSET S -> Int]
        OBVIOUS
      <4> QED  BY <3>1, <4>1
    <3>2. CASE n # 0
      <4>1. n - 1 \in Nat /\ ~(n <= n - 1)
        BY <2>2, <3>2
      <4>2. n - 1 \notin T
        BY <2>1, <4>1
      <4> QED  BY <4>1, <4>2
    <3> QED  BY <3>1, <3>2
  <2> DEFINE g == [s \in SUBSET S |->
                      IF Cardinality(s) <= n THEN Next(h, s) ELSE 0]
  <2>4. ASSUME NEW s \in SUBSET S  PROVE Next(h, s) \in Int
    <3>1. s # {} => f[Chosen(s)] \in Int /\ h[s \ {Chosen(s)}] \in Int
      BY ChosenElement
    <3> QED  BY <3>1
  <2>5. g \in [SUBSET S -> Int]
    BY <2>4
  <2>6. ASSUME NEW s \in SUBSET S, Cardinality(s) <= n
        PROVE  g[s] = Next(g, s)
    <3>1. CASE s = {}
      BY <2>6, <3>1
    <3>2. CASE s # {}
      <4> DEFINE t == s \ {Chosen(s)}
      <4>1. /\ t \in SUBSET S /\ Cardinality(t) = Cardinality(s) - 1
            /\ Cardinality(s) \in Nat /\ Cardinality(s) > 0
        BY <3>2, ChosenElement
      <4>2. n # 0 /\ Cardinality(t) <= n - 1 /\ Cardinality(t) <= n
        BY <4>1, <2>6, <2>2
      <4>3. h[t] = Next(h, t)
        BY <4>1, <4>2, <2>3
      <4>4. g[t] = Next(h, t)
        BY <4>1, <4>2
      <4>5. g[s] = f[Chosen(s)] + h[t]
        BY <2>6, <3>2
      <4> QED  BY <4>3, <4>4, <4>5, <3>2
    <3> QED  BY <3>1, <3>2
  <2> HIDE DEF g
  <2>7. UpTo(g, n)
    BY <2>6
  <2> QED  BY <2>2, <2>5, <2>7
<1>3. Cardinality(S) \in Nat /\ S \in SUBSET S
  BY <1>1
<1>4. PICK h \in [SUBSET S -> Int] : UpTo(h, Cardinality(S))
  BY <1>2, <1>3
<1>5. \A s \in SUBSET S : Cardinality(s) <= Cardinality(S)
  BY FS_Subset
<1>6. h = [s \in SUBSET S |-> Next(h, s)]
  BY <1>4, <1>5
<1>7. Sums(h, f, S)
  BY <1>6 DEF Sums
<1> QED  BY <1>7

LEMMA SumsTyped ==
    ASSUME NEW S, IsFiniteSet(S), NEW f \in [S -> Int], NEW iter, Sums(iter, f, S)
    PROVE  \A s \in SUBSET S : iter[s] \in Int
<1> DEFINE T == {n \in Nat : \E s \in SUBSET S : Cardinality(s) = n /\ iter[s] \notin Int}
<1>1. ASSUME NEW s \in SUBSET S, iter[s] \notin Int  PROVE FALSE
  <2>1. Cardinality(s) \in T
    BY <1>1, FS_Subset, FS_CardinalityType
  <2>2. PICK n \in T : \A k \in T : n <= k
    BY <2>1, SmallestElement
  <2>3. PICK r \in SUBSET S : Cardinality(r) = n /\ iter[r] \notin Int
    BY <2>2
  <2>4. r # {} /\ iter[r] = f[Chosen(r)] + iter[r \ {Chosen(r)}]
    <3>1. iter[r] = IF r = {} THEN 0 ELSE f[Chosen(r)] + iter[r \ {Chosen(r)}]
      BY DEF Sums
    <3> QED  BY <2>3, <3>1
  <2>5. /\ Chosen(r) \in S /\ r \ {Chosen(r)} \in SUBSET S
        /\ n \in Nat /\ n > 0 /\ Cardinality(r \ {Chosen(r)}) = n - 1
    BY <2>3, <2>4, ChosenElement
  <2>6. n - 1 \notin T
    BY <2>2, <2>5
  <2>7. iter[r \ {Chosen(r)}] \in Int
    BY <2>5, <2>6
  <2> QED  BY <2>3, <2>4, <2>5, <2>7
<1> QED  BY <1>1

(* If one addend changes, so does the sum. *)
LEMMA SumsDiffer ==
    ASSUME NEW S, IsFiniteSet(S), NEW f \in [S -> Int], NEW g \in [S -> Int],
           NEW iter, NEW jter, Sums(iter, f, S), Sums(jter, g, S),
           NEW x \in S, \A y \in S \ {x} : g[y] = f[y]
    PROVE  jter[S] = iter[S] + g[x] - f[x]
<1> DEFINE Holds(s) == jter[s] = iter[s] + (IF x \in s THEN g[x] - f[x] ELSE 0)
           T == {n \in Nat : \E s \in SUBSET S : Cardinality(s) = n /\ ~Holds(s)}
<1>1. ASSUME NEW s \in SUBSET S, ~Holds(s)  PROVE FALSE
  <2>1. Cardinality(s) \in T
    BY <1>1, FS_Subset, FS_CardinalityType
  <2>2. PICK n \in T : \A k \in T : n <= k
    BY <2>1, SmallestElement
  <2>3. PICK r \in SUBSET S : Cardinality(r) = n /\ ~Holds(r)
    BY <2>2
  <2>4. r # {}
    <3>1. ASSUME r = {}  PROVE FALSE
      <4>1. iter[r] = 0 /\ jter[r] = 0
        BY <3>1 DEF Sums
      <4> QED  BY <4>1, <3>1, <2>3
    <3> QED  BY <3>1
  <2> DEFINE p == Chosen(r)
             t == r \ {p}
  <2>5. iter[r] = f[p] + iter[t] /\ jter[r] = g[p] + jter[t]
    BY <2>3, <2>4 DEF Sums
  <2>6. /\ p \in S /\ p \in r /\ t \in SUBSET S
        /\ n \in Nat /\ n > 0 /\ Cardinality(t) = n - 1
    BY <2>3, <2>4, ChosenElement
  <2>7. Holds(t)
    <3>1. n - 1 \notin T
      BY <2>2, <2>6
    <3> QED  BY <2>6, <3>1
  <2>8. iter[t] \in Int /\ jter[t] \in Int
    BY <2>6, SumsTyped
  <2>9. p \notin t /\ (x \in r <=> x = p \/ x \in t)
    BY <2>6
  <2> HIDE DEF p, t
  <2>10. f[p] \in Int /\ g[p] \in Int /\ f[x] \in Int /\ g[x] \in Int
    BY <2>6
  <2>11. CASE p = x
    BY <2>5, <2>7, <2>8, <2>9, <2>10, <2>11, <2>3
  <2>12. CASE p # x
    <3>1. g[p] = f[p]
      BY <2>12, <2>6
    <3> QED  BY <2>5, <2>7, <2>8, <2>9, <2>10, <2>12, <2>3, <3>1
  <2> QED  BY <2>11, <2>12
<1>2. Holds(S)
  BY <1>1
<1>3. iter[S] \in Int /\ f[x] \in Int /\ g[x] \in Int
  BY SumsTyped
<1> QED  BY <1>2, <1>3

(* The sums of the same addends are the same. *)
LEMMA SumsAgree ==
    ASSUME NEW S, IsFiniteSet(S), NEW f \in [S -> Int],
           NEW iter, NEW jter, Sums(iter, f, S), Sums(jter, f, S)
    PROVE  jter[S] = iter[S]
<1>1. CASE S = {}
  <2>1. iter[S] = 0 /\ jter[S] = 0
    BY <1>1 DEF Sums
  <2> QED  BY <2>1
<1>2. ASSUME NEW x \in S  PROVE jter[S] = iter[S]
  BY SumsDiffer, SumsTyped
<1> QED  BY <1>1, <1>2

(* The sum of the values of f over S. *)
Total(f, S) == MapThenSumSet(LAMBDA x : f[x], S)

LEMMA TotalIs ==
    ASSUME NEW S, IsFiniteSet(S), NEW f \in [S -> Int]
    PROVE  \E iter : Sums(iter, f, S) /\ Total(f, S) = iter[S]
<1> DEFINE E(iter) == [s \in SUBSET S |->
              IF s = {} THEN 0 ELSE f[Chosen(s)] + iter[s \ {Chosen(s)}]]
<1>1. PICK h : Sums(h, f, S)
  BY SumsExist
<1> DEFINE k == CHOOSE iter : iter = E(iter)
<1>2. k = E(k)
  <2>1. h = E(h)
    BY <1>1 DEF Sums
  <2> QED  BY <2>1
<1>3. Total(f, S) = k[S]
  BY Zenon DEF Total, MapThenSumSet, MapThenFoldSet, Chosen
<1> HIDE DEF k
<1> QED  BY <1>2, <1>3 DEF Sums

LEMMA TotalTyped ==
    ASSUME NEW S, IsFiniteSet(S), NEW f \in [S -> Int]
    PROVE  Total(f, S) \in Int
<1>1. PICK iter : Sums(iter, f, S) /\ Total(f, S) = iter[S]
  BY TotalIs
<1>2. iter[S] \in Int
  BY <1>1, SumsTyped
<1> QED  BY <1>1, <1>2

(* If one addend changes, so does the sum. *)
LEMMA TotalDiffers ==
    ASSUME NEW S, IsFiniteSet(S), NEW f \in [S -> Int], NEW g \in [S -> Int],
           NEW x \in S, \A y \in S \ {x} : g[y] = f[y]
    PROVE  Total(g, S) = Total(f, S) + g[x] - f[x]
<1>1. PICK iter : Sums(iter, f, S) /\ Total(f, S) = iter[S]
  BY TotalIs
<1>2. PICK jter : Sums(jter, g, S) /\ Total(g, S) = jter[S]
  BY TotalIs
<1>3. jter[S] = iter[S] + g[x] - f[x]
  BY <1>1, <1>2, SumsDiffer
<1> QED  BY <1>1, <1>2, <1>3

LEMMA TotalZero ==
    ASSUME NEW S, IsFiniteSet(S), NEW f \in [S -> Int], \A x \in S : f[x] = 0
    PROVE  Total(f, S) = 0
<1> DEFINE z == [s \in SUBSET S |-> 0]
<1>1. PICK iter : Sums(iter, f, S) /\ Total(f, S) = iter[S]
  BY TotalIs
<1>2. Sums(z, f, S)
  <2>1. ASSUME NEW s \in SUBSET S, s # {}
        PROVE  f[Chosen(s)] + z[s \ {Chosen(s)}] = 0
    <3>1. Chosen(s) \in S /\ s \ {Chosen(s)} \in SUBSET S
      BY <2>1, ChosenElement
    <3>2. f[Chosen(s)] = 0 /\ z[s \ {Chosen(s)}] = 0
      BY <3>1
    <3> QED  BY <3>2
  <2>2. z = [s \in SUBSET S |->
               IF s = {} THEN 0 ELSE f[Chosen(s)] + z[s \ {Chosen(s)}]]
    BY <2>1
  <2> HIDE DEF z
  <2> QED  BY <2>2 DEF Sums
<1>3. z[S] = iter[S]
  BY <1>1, <1>2, SumsAgree
<1> QED  BY <1>1, <1>3

-----------------------------------------------------------------------------
(* Finite sets of numbers *)

LEMMA LargestElement ==
    ASSUME NEW S \in SUBSET Nat, IsFiniteSet(S), S # {}
    PROVE  Max(S) \in S /\ \A y \in S : y <= Max(S)
<1> DEFINE Bounded(s) == \E x \in s : \A y \in s : x >= y
           T == {n \in Nat : \E s \in SUBSET S : /\ Cardinality(s) = n /\ s # {}
                                                 /\ ~Bounded(s)}
<1>1. ASSUME ~Bounded(S)  PROVE FALSE
  <2>1. Cardinality(S) \in T
    BY <1>1, FS_CardinalityType
  <2>2. PICK n \in T : \A k \in T : n <= k
    BY <2>1, SmallestElement
  <2>3. PICK s \in SUBSET S : Cardinality(s) = n /\ s # {} /\ ~Bounded(s)
    BY <2>2
  <2> DEFINE c == Chosen(s)
             t == s \ {c}
  <2>4. /\ c \in s /\ t \in SUBSET S /\ n \in Nat /\ n > 0 /\ Cardinality(t) = n - 1
        /\ s = t \cup {c}
    <3>1. c \in s /\ t \in SUBSET S /\ n \in Nat /\ n > 0 /\ Cardinality(t) = n - 1
      BY <2>3, ChosenElement
    <3> QED  BY <3>1
  <2> HIDE DEF c, t
  <2>5. CASE t = {}
    <3>1. c \in Nat /\ s = {c}
      BY <2>4, <2>5
    <3> QED  BY <2>3, <3>1
  <2>6. CASE t # {}
    <3>1. n - 1 \in Nat /\ ~(n <= n - 1)
      BY <2>4
    <3>2. Bounded(t)
      BY <2>2, <2>4, <2>6, <3>1
    <3>3. PICK x \in t : \A y \in t : x >= y
      BY <3>2
    <3>4. x \in Nat /\ c \in Nat /\ \A y \in t : y \in Nat
      BY <2>4, <3>3
    <3>5. x >= c => Bounded(s)
      BY <2>4, <3>3, <3>4
    <3>6. c >= x => Bounded(s)
      BY <2>4, <3>3, <3>4
    <3> QED  BY <2>3, <3>4, <3>5, <3>6
  <2> QED  BY <2>5, <2>6
<1>2. Max(S) \in S /\ \A y \in S : Max(S) >= y
  BY <1>1 DEF Max
<1> QED  BY <1>2
=============================================================================
