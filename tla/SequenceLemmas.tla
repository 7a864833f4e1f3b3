---------------------------- MODULE SequenceLemmas ----------------------------
(* Facts about sequences and numbers that the proofs of several modules need. *)
EXTENDS Integers, SequencesExt, FiniteSetTheorems, WellFoundedInduction, TLAPS

LEMMA AppendOnce ==
  ASSUME NEW S, NEW q \in Seq(S), NEW x
  PROVE  /\ ToSet(Append(q, x)) = ToSet(q) \cup {x}
         /\ IsInjective(q) /\ x \notin ToSet(q) => IsInjective(Append(q, x))
<1>1. /\ DOMAIN Append(q, x) = 1 .. Len(q) + 1 /\ DOMAIN q = 1 .. Len(q) /\ Len(q) \in Nat
      /\ \A i \in 1 .. Len(q) : Append(q, x)[i] = q[i]
      /\ Append(q, x)[Len(q) + 1] = x
  OBVIOUS
<1> QED
  BY <1>1 DEF IsInjective, ToSet

LEMMA TailOnce ==
  ASSUME NEW S, NEW q \in Seq(S), q # <<>>
  PROVE  /\ ToSet(q) = ToSet(Tail(q)) \cup {Head(q)}
         /\ IsInjective(q) => IsInjective(Tail(q)) /\ Head(q) \notin ToSet(Tail(q))
<1>1. /\ DOMAIN Tail(q) = 1 .. Len(q) - 1 /\ DOMAIN q = 1 .. Len(q) /\ Len(q) \in Nat \ {0}
      /\ \A i \in 1 .. Len(q) - 1 : Tail(q)[i] = q[i + 1]
      /\ Head(q) = q[1]
  OBVIOUS
<1>2. \A i \in 1 .. Len(q) : i = 1 \/ (i - 1 \in 1 .. Len(q) - 1 /\ q[i] = Tail(q)[i - 1])
  BY <1>1
<1>3. ToSet(q) = ToSet(Tail(q)) \cup {Head(q)}
  <2>1. \A i \in 1 .. Len(q) - 1 : i + 1 \in DOMAIN q
    BY <1>1
  <2>2. ToSet(Tail(q)) \cup {Head(q)} \subseteq ToSet(q)
    BY <1>1, <2>1 DEF ToSet
  <2>3. ASSUME NEW i \in 1 .. Len(q) PROVE q[i] \in ToSet(Tail(q)) \cup {Head(q)}
    BY <1>1, <1>2 DEF ToSet
  <2> QED
    BY <1>1, <2>2, <2>3 DEF ToSet
<1>4. ASSUME IsInjective(q) PROVE IsInjective(Tail(q)) /\ Head(q) \notin ToSet(Tail(q))
  <2>1. \A i \in 1 .. Len(q) - 1 : i + 1 \in 1 .. Len(q) /\ i + 1 # 1
    BY <1>1
  <2>2. \A i, j \in 1 .. Len(q) : q[i] = q[j] => i = j
    BY <1>1, <1>4 DEF IsInjective
  <2>3. ASSUME NEW i \in 1 .. Len(q) - 1, NEW j \in 1 .. Len(q) - 1, Tail(q)[i] = Tail(q)[j]
        PROVE  i = j
    <3>1. i + 1 = j + 1
      BY <1>1, <2>1, <2>2, <2>3
    <3> QED
      BY <3>1
  <2>4. ASSUME NEW i \in 1 .. Len(q) - 1 PROVE Tail(q)[i] # Head(q)
    <3>1. 1 \in 1 .. Len(q)
      BY <1>1
    <3> QED
      BY <1>1, <2>1, <2>2, <3>1
  <2> QED
    BY <1>1, <2>3, <2>4 DEF IsInjective, ToSet
<1> QED
  BY <1>3, <1>4

LEMMA ConcatAt ==
  ASSUME NEW S, NEW q \in Seq(S), NEW p \in Seq(S)
  PROVE  /\ Len(q) \in Nat /\ Len(p) \in Nat /\ DOMAIN q = 1 .. Len(q) /\ DOMAIN p = 1 .. Len(p)
         /\ DOMAIN (q \o p) = 1 .. Len(q) + Len(p)
         /\ \A i \in 1 .. Len(q) : (q \o p)[i] = q[i]
         /\ \A i \in 1 .. Len(p) : (q \o p)[Len(q) + i] = p[i]
OBVIOUS

LEMMA ConcatOnce ==
  ASSUME NEW S, NEW q \in Seq(S), NEW p \in Seq(S)
  PROVE  /\ ToSet(q \o p) = ToSet(q) \cup ToSet(p)
         /\ IsInjective(q) /\ IsInjective(p) /\ ToSet(q) \cap ToSet(p) = {} => IsInjective(q \o p)
<1>1. /\ Len(q) \in Nat /\ Len(p) \in Nat /\ DOMAIN q = 1 .. Len(q) /\ DOMAIN p = 1 .. Len(p)
      /\ DOMAIN (q \o p) = 1 .. Len(q) + Len(p)
      /\ \A i \in 1 .. Len(q) : (q \o p)[i] = q[i]
      /\ \A i \in 1 .. Len(p) : (q \o p)[Len(q) + i] = p[i]
  BY ConcatAt
<1>2. \A k \in 1 .. Len(q) + Len(p) :
        \/ k \in 1 .. Len(q) /\ (q \o p)[k] = q[k]
        \/ k - Len(q) \in 1 .. Len(p) /\ (q \o p)[k] = p[k - Len(q)]
  <2> SUFFICES ASSUME NEW k \in 1 .. Len(q) + Len(p), k \notin 1 .. Len(q)
               PROVE  k - Len(q) \in 1 .. Len(p) /\ (q \o p)[k] = p[k - Len(q)]
    BY <1>1
  <2>1. k - Len(q) \in 1 .. Len(p) /\ Len(q) + (k - Len(q)) = k
    BY <1>1
  <2> QED
    BY <1>1, <2>1
<1>3. ToSet(q \o p) = ToSet(q) \cup ToSet(p)
  <2>1. \A i \in 1 .. Len(q) : i \in DOMAIN (q \o p) /\ q[i] = (q \o p)[i]
    BY <1>1
  <2>2. \A i \in 1 .. Len(p) : Len(q) + i \in DOMAIN (q \o p) /\ p[i] = (q \o p)[Len(q) + i]
    BY <1>1
  <2> QED
    BY <1>1, <1>2, <2>1, <2>2 DEF ToSet
<1>4. ASSUME IsInjective(q), IsInjective(p), ToSet(q) \cap ToSet(p) = {} PROVE IsInjective(q \o p)
  <2> SUFFICES ASSUME NEW k \in 1 .. Len(q) + Len(p), NEW l \in 1 .. Len(q) + Len(p),
                      (q \o p)[k] = (q \o p)[l]
               PROVE  k = l
    BY <1>1 DEF IsInjective
  <2>1. CASE k \in 1 .. Len(q) /\ l \in 1 .. Len(q)
    BY <1>1, <1>4, <2>1 DEF IsInjective
  <2>2. CASE k \notin 1 .. Len(q) /\ l \notin 1 .. Len(q)
    <3>1. k - Len(q) = l - Len(q)
      BY <1>1, <1>2, <1>4, <2>2, SMTT(30) DEF IsInjective
    <3> QED
      BY <1>1, <3>1
  <2>3. \A i \in 1 .. Len(q), j \in 1 .. Len(p) : q[i] # p[j]
    BY <1>1, <1>4 DEF ToSet
  <2> QED
    BY <1>2, <2>1, <2>2, <2>3
<1> QED
  BY <1>3, <1>4

LEMMA SingleOnce ==
  ASSUME NEW x
  PROVE  <<x>> \in Seq({x}) /\ IsInjective(<<x>>) /\ ToSet(<<x>>) = {x}
BY DEF IsInjective, ToSet

LEMMA RemoveOnce ==
  ASSUME NEW S, NEW q \in Seq(S), NEW i \in DOMAIN q, IsInjective(q)
  PROVE  IsInjective(RemoveAt(q, i)) /\ ToSet(RemoveAt(q, i)) = ToSet(q) \ {q[i]}
<1> DEFINE p == RemoveAt(q, i)
<1>1. /\ DOMAIN q = 1 .. Len(q) /\ Len(q) \in Nat /\ i \in 1 .. Len(q)
      /\ DOMAIN p = 1 .. Len(q) - 1
      /\ \A j \in 1 .. Len(q) - 1 : p[j] = IF j < i THEN q[j] ELSE q[j + 1]
  <2> DEFINE f == SubSeq(q, 1, i - 1)
             g == SubSeq(q, i + 1, Len(q))
  <2>1. DOMAIN q = 1 .. Len(q) /\ Len(q) \in Nat /\ i \in 1 .. Len(q)
    OBVIOUS
  <2>2. /\ f \in Seq(S) /\ Len(f) = i - 1 /\ \A j \in 1 .. i - 1 : f[j] = q[j]
    BY <2>1
  <2>3. /\ g \in Seq(S) /\ Len(g) = Len(q) - i
        /\ \A j \in 1 .. Len(q) - i : g[j] = q[i + j]
    BY <2>1
  <2>4. p = f \o g
    BY DEF RemoveAt
  <2> HIDE DEF f, g, p
  <2>5. /\ DOMAIN p = 1 .. Len(q) - 1
        /\ \A j \in 1 .. i - 1 : p[j] = f[j]
        /\ \A j \in 1 .. Len(q) - i : p[(i - 1) + j] = g[j]
    <3>1. /\ DOMAIN p = 1 .. (i - 1) + (Len(q) - i)
          /\ \A j \in 1 .. i - 1 : p[j] = f[j]
          /\ \A j \in 1 .. Len(q) - i : p[(i - 1) + j] = g[j]
      BY <2>2, <2>3, <2>4, ConcatAt, SMTT(30)
    <3>2. (i - 1) + (Len(q) - i) = Len(q) - 1
      BY <2>1
    <3> QED
      BY <3>1, <3>2
  <2>6. ASSUME NEW j \in 1 .. Len(q) - 1
        PROVE  p[j] = IF j < i THEN q[j] ELSE q[j + 1]
    <3>1. CASE j < i
      BY <2>1, <2>2, <2>5, <3>1
    <3>2. CASE ~(j < i)
      <4>1. j - (i - 1) \in 1 .. Len(q) - i /\ (i - 1) + (j - (i - 1)) = j
            /\ i + (j - (i - 1)) = j + 1
        BY <2>1, <3>2
      <4>2. p[j] = g[j - (i - 1)]
        BY <2>5, <4>1
      <4> QED
        BY <2>3, <3>2, <4>1, <4>2
    <3> QED
      BY <3>1, <3>2
  <2> QED
    BY <2>1, <2>5, <2>6
<1> HIDE DEF p
<1>2. IsInjective(p)
  <2> SUFFICES ASSUME NEW j \in 1 .. Len(q) - 1, NEW k \in 1 .. Len(q) - 1, p[j] = p[k]
               PROVE  j = k
    BY <1>1 DEF IsInjective
  <2>1. \A l \in 1 .. Len(q) - 1 : l \in 1 .. Len(q) /\ l + 1 \in 1 .. Len(q)
    BY <1>1
  <2> QED
    BY <1>1, <2>1 DEF IsInjective
<1>3. ToSet(p) \subseteq ToSet(q) \ {q[i]}
  BY <1>1 DEF IsInjective, ToSet
<1>4. ASSUME NEW k \in 1 .. Len(q), q[k] # q[i] PROVE q[k] \in ToSet(p)
  <2>1. CASE k < i
    <3>1. k \in 1 .. Len(q) - 1 /\ p[k] = q[k]
      BY <1>1, <2>1
    <3> QED
      BY <1>1, <3>1 DEF ToSet
  <2>2. CASE k > i
    <3>1. k - 1 \in 1 .. Len(q) - 1 /\ ~(k - 1 < i) /\ (k - 1) + 1 = k
      BY <1>1, <2>2
    <3>2. p[k - 1] = q[k]
      BY <1>1, <3>1
    <3> QED
      BY <1>1, <3>1, <3>2 DEF ToSet
  <2> QED
    BY <1>1, <1>4, <2>1, <2>2
<1>5. ToSet(q) \ {q[i]} \subseteq ToSet(p)
  BY <1>1, <1>4 DEF ToSet
<1> QED
  BY <1>2, <1>3, <1>5 DEF p

\* A set of natural numbers that is not empty has a least element: the form in
\* which induction is used here.
LEMMA LeastNatural ==
  ASSUME NEW T \in SUBSET Nat, T # {}
  PROVE  \E x \in T : \A y \in T : x <= y
<1>1. PICK R : R = OpToRel(<, Nat)
  OBVIOUS
<1>2. \A y, x \in Nat : <<y, x>> \in R <=> y < x
  <2>1. R = {ss \in Nat \X Nat : ss[1] < ss[2]}
    BY <1>1 DEF OpToRel
  <2> QED
    BY <2>1
<1>3. IsWellFoundedOn(R, Nat)
  BY <1>1, NatLessThanWellFounded
<1>4. PICK x \in T : \A y \in T : ~ (<<y, x>> \in R)
  BY <1>3, WFMin
<1>5. ASSUME NEW y \in T PROVE x <= y
  <2>1. x \in Nat /\ y \in Nat /\ ~(<<y, x>> \in R)
    BY <1>4
  <2> QED
    BY <1>2, <2>1
<1> QED
  BY <1>5

\* A bounded one has a greatest element.
LEMMA GreatestNatural ==
  ASSUME NEW T \in SUBSET Nat, T # {}, NEW n \in Nat, \A x \in T : x <= n
  PROVE  \E x \in T : \A y \in T : y <= x
<1> DEFINE U == {k \in Nat : \E x \in T : k = n - x}
<1>1. U \in SUBSET Nat /\ U # {}
  <2>1. PICK x \in T : TRUE
    OBVIOUS
  <2>2. n - x \in Nat
    OBVIOUS
  <2> QED
    BY <2>2
<1> HIDE DEF U
<1>2. PICK k \in U : \A l \in U : k <= l
  BY <1>1, LeastNatural
<1>3. PICK x \in T : k = n - x
  BY DEF U
<1>4. ASSUME NEW y \in T PROVE y <= x
  <2>1. n - y \in U
    BY DEF U
  <2>2. n - x <= n - y
    BY <1>2, <1>3, <2>1
  <2> QED
    BY <2>2
<1> QED
  BY <1>4
-----------------------------------------------------------------------------
(* FlattenSeq *)

\* f joins the first k parts of s, one by one.
Joins(s, k, f) == \A i \in 1 .. k : f[i] = IF i = 1 THEN s[i] ELSE f[i - 1] \o s[i]

\* FlattenSeq is defined by a recursive function, that exists: from the parts
\* before one to that one, and so on.
LEMMA JoinsExtended ==
  ASSUME NEW S, NEW s \in Seq(Seq(S)), NEW k \in 1 .. Len(s), NEW f \in [1 .. k - 1 -> Seq(S)],
         Joins(s, k - 1, f)
  PROVE  \E g \in [1 .. k -> Seq(S)] : Joins(s, k, g)
<1>1. PICK g : g = [i \in 1 .. k |-> IF i = k THEN (IF k = 1 THEN s[1] ELSE f[k - 1] \o s[k]) ELSE f[i]]
  OBVIOUS
<1>2. k \in Nat \ {0} /\ \A i \in 1 .. k : s[i] \in Seq(S) /\ (i = k \/ i \in 1 .. k - 1)
  OBVIOUS
<1>3. \A i \in 1 .. k - 1 : g[i] = f[i] /\ f[i] \in Seq(S)
  <2>1. \A i \in 1 .. k - 1 : i \in 1 .. k /\ i # k
    BY <1>2
  <2> QED
    BY <1>1, <2>1
<1>4. k \in 1 .. k /\ g[k] = IF k = 1 THEN s[1] ELSE f[k - 1] \o s[k]
  BY <1>1, <1>2
<1>5. k # 1 => k - 1 \in 1 .. k - 1
  BY <1>2
<1>6. g[k] \in Seq(S)
  BY <1>2, <1>3, <1>4, <1>5
<1>7. g \in [1 .. k -> Seq(S)]
  BY <1>1, <1>2, <1>3, <1>6
<1>8. ASSUME NEW i \in 1 .. k
      PROVE  g[i] = IF i = 1 THEN s[i] ELSE g[i - 1] \o s[i]
  <2>1. CASE i = k
    BY <2>1, <1>3, <1>4, <1>5
  <2>2. CASE i \in 1 .. k - 1
    <3>1. i = 1 \/ i - 1 \in 1 .. k - 1
      BY <2>2, <1>2
    <3> QED
      BY <2>2, <3>1, <1>3 DEF Joins
  <2> QED
    BY <1>2, <2>1, <2>2
<1> QED
  BY <1>7, <1>8 DEF Joins

LEMMA JoinsExist ==
  ASSUME NEW S, NEW s \in Seq(Seq(S))
  PROVE  \A n \in 0 .. Len(s) : \E f \in [1 .. n -> Seq(S)] : Joins(s, n, f)
<1> DEFINE Joined(k) == \E f \in [1 .. k -> Seq(S)] : Joins(s, k, f)
           T == {k \in 0 .. Len(s) : ~Joined(k)}
<1>1. Joined(0)
  <2>1. PICK f : f = [i \in 1 .. 0 |-> <<>>]
    OBVIOUS
  <2>2. f \in [1 .. 0 -> Seq(S)] /\ 1 .. 0 = {}
    BY <2>1
  <2> QED
    BY <2>2 DEF Joins
<1>2. ASSUME NEW k \in 1 .. Len(s), Joined(k - 1) PROVE Joined(k)
  <2>1. PICK f \in [1 .. k - 1 -> Seq(S)] : Joins(s, k - 1, f)
    BY <1>2
  <2> QED
    BY <2>1, JoinsExtended
<1> HIDE DEF Joined
<1>3. Len(s) \in Nat /\ T \in SUBSET Nat
  OBVIOUS
<1>4. ASSUME T # {} PROVE FALSE
  <2> HIDE DEF T
  <2>1. PICK k \in T : \A y \in T : k <= y
    BY <1>3, <1>4, LeastNatural
  <2>2. k \in 0 .. Len(s) /\ ~Joined(k)
    BY <2>1 DEF T
  <2>3. k \in 1 .. Len(s)
    BY <1>1, <1>3, <2>2
  <2>4. k - 1 \notin T /\ k - 1 \in 0 .. Len(s)
    BY <1>3, <2>1, <2>3
  <2>5. Joined(k - 1)
    BY <2>4 DEF T
  <2> QED
    BY <1>2, <2>2, <2>3, <2>5
<1>5. \A n \in 0 .. Len(s) : Joined(n)
  BY <1>4
<1> QED
  BY <1>5 DEF Joined

\* The joined parts of a sequence are the last of such joins.
LEMMA FlattenJoins ==
  ASSUME NEW S, NEW s \in Seq(Seq(S)), s # <<>>
  PROVE  \E f : FlattenSeq(s) = f[Len(s)] /\ Joins(s, Len(s), f)
<1> DEFINE J(f) == f = [i \in 1 .. Len(s) |-> IF i = 1 THEN s[i] ELSE f[i - 1] \o s[i]]
<1>1. Len(s) \in Nat \ {0}
  OBVIOUS
<1>2. PICK g \in [1 .. Len(s) -> Seq(S)] : Joins(s, Len(s), g)
  <2>1. Len(s) \in 0 .. Len(s)
    BY <1>1
  <2> QED
    BY <2>1, JoinsExist
<1>3. J(g)
  BY <1>2 DEF Joins
<1>4. PICK f : f = CHOOSE h : J(h)
  OBVIOUS
<1>5. J(f)
  <2> HIDE DEF J
  <2> QED BY <1>3, <1>4
<1>6. FlattenSeq(s) = f[Len(s)]
  BY <1>1, <1>4 DEF FlattenSeq
<1>7. \A i \in 1 .. Len(s) : f[i] = IF i = 1 THEN s[i] ELSE f[i - 1] \o s[i]
  BY <1>5, Zenon
<1> HIDE DEF J
<1> QED
  BY <1>6, <1>7 DEF Joins

LEMMA FlattenType ==
  ASSUME NEW S, NEW s \in Seq(Seq(S))
  PROVE  /\ FlattenSeq(s) \in Seq(S)
         /\ s = <<>> => FlattenSeq(s) = <<>>
         /\ s # <<>> /\ s[1] # <<>> => FlattenSeq(s) # <<>>
<1>1. CASE s = <<>>
  BY <1>1 DEF FlattenSeq
<1>2. CASE s # <<>>
  <2>1. Len(s) \in Nat \ {0} /\ \A i \in 1 .. Len(s) : s[i] \in Seq(S)
    BY <1>2
  <2>2. PICK f : FlattenSeq(s) = f[Len(s)] /\ Joins(s, Len(s), f)
    BY <1>2, FlattenJoins
  <2>3. \A i \in 1 .. Len(s) : f[i] = IF i = 1 THEN s[i] ELSE f[i - 1] \o s[i]
    BY <2>2 DEF Joins
  <2>4. ASSUME NEW i \in 1 .. Len(s), ~(f[i] \in Seq(S) /\ (s[1] # <<>> => f[i] # <<>>))
        PROVE  FALSE
    <3> DEFINE T == {k \in 1 .. Len(s) : ~(f[k] \in Seq(S) /\ (s[1] # <<>> => f[k] # <<>>))}
    <3>1. T \in SUBSET Nat /\ T # {}
      <4>1. i \in T
        BY <2>4
      <4>2. \A k \in 1 .. Len(s) : k \in Nat
        OBVIOUS
      <4> QED
        BY <4>1, <4>2
    <3>2. PICK k \in T : \A y \in T : k <= y
      <4> HIDE DEF T
      <4> QED BY <3>1, LeastNatural
    <3>3. k \in 1 .. Len(s) /\ ~(f[k] \in Seq(S) /\ (s[1] # <<>> => f[k] # <<>>))
      BY <3>2
    <3>4. k # 1
      BY <3>3, <2>1, <2>3
    <3>5. k - 1 \in 1 .. Len(s) /\ k - 1 \notin T
      <4> HIDE DEF T
      <4> QED BY <3>2, <3>3, <3>4, <2>1
    <3>6. f[k - 1] \in Seq(S) /\ (s[1] # <<>> => f[k - 1] # <<>>)
      BY <3>5
    <3>7. f[k] = f[k - 1] \o s[k] /\ s[k] \in Seq(S)
      BY <3>3, <3>4, <2>1, <2>3
    <3> HIDE DEF T
    <3>8. f[k] \in Seq(S)
      BY <3>6, <3>7
    <3>9. f[k - 1] # <<>> => f[k] # <<>>
      BY <3>6, <3>7
    <3> QED
      BY <3>3, <3>6, <3>8, <3>9
  <2> QED
    BY <1>2, <2>1, <2>2, <2>4
<1> QED
  BY <1>1, <1>2
-----------------------------------------------------------------------------
LEMMA Division ==
  ASSUME NEW n \in Nat, NEW d \in Nat \ {0}
  PROVE  \E q \in Nat, r \in 0 .. d - 1 : q = n \div d /\ r = n % d /\ n = q * d + r
<1>1. n \div d \in Nat
  OBVIOUS
<1>2. n % d \in 0 .. d - 1
  OBVIOUS
<1>3. n \in Int /\ d \in Int /\ d > 0
  OBVIOUS
<1>4. \A x, y \in Int : y > 0 => x = y * (x \div y) + (x % y)
  BY SMTT(20)
<1>5. n = d * (n \div d) + (n % d)
  BY <1>3, <1>4
<1>6. PICK q \in Nat, r \in 0 .. d - 1 : q = n \div d /\ r = n % d
  BY <1>1, <1>2
<1>7. n = d * q + r
  BY <1>5, <1>6
<1>8. n = q * d + r
  BY <1>6, <1>7
<1> QED
  BY <1>6, <1>8

LEMMA SmallRemainder ==
  ASSUME NEW d \in Nat \ {0}, NEW n \in 0 .. d - 1
  PROVE  n % d = n
OBVIOUS

LEMMA SmallQuotient ==
  ASSUME NEW d \in Nat \ {0}, NEW n \in Nat, n < d * d
  PROVE  n \div d < d
<1>1. PICK q \in Nat, r \in 0 .. d - 1 : q = n \div d /\ r = n % d /\ n = q * d + r
  BY Division
<1>2. q * d <= n
  <2>1. q * d \in Nat
    OBVIOUS
  <2> QED
    BY <1>1, <2>1
<1>3. ASSUME q >= d PROVE FALSE
  <2>1. PICK k \in Nat : q = d + k
    BY <1>3
  <2>2. q * d = d * d + k * d
    BY <2>1
  <2>3. k * d \in Nat
    OBVIOUS
  <2>4. d * d \in Nat
    OBVIOUS
  <2> QED
    BY <1>2, <2>2, <2>3, <2>4
<1> QED
  BY <1>1, <1>3
-----------------------------------------------------------------------------
\* What is left of a sequence after its first k elements.
LEMMA SuffixType ==
  ASSUME NEW S, NEW s \in Seq(S), NEW k \in 0 .. Len(s)
  PROVE  \E t \in Seq(S) : /\ t = SubSeq(s, k + 1, Len(s)) /\ Len(t) = Len(s) - k
                           /\ t # <<>> <=> k < Len(s)
<1>1. PICK l \in Nat : l = Len(s) /\ \A i \in 1 .. l : s[i] \in S
  OBVIOUS
<1>2. k \in Nat /\ k <= l /\ l - k \in Nat
  BY <1>1
<1>3. PICK t : t = [i \in 1 .. l - k |-> s[i + k]]
  OBVIOUS
<1>4. t \in Seq(S) /\ Len(t) = l - k
  <2>1. \A i \in 1 .. l - k : i + k \in 1 .. l
    BY <1>2
  <2> QED
    BY <1>1, <1>2, <1>3, <2>1
<1>5. SubSeq(s, k + 1, l) = t
  <2>1. SubSeq(s, k + 1, l) \in Seq(S) /\ Len(SubSeq(s, k + 1, l)) = l - k
    BY <1>1, <1>2
  <2>2. \A i \in 1 .. l - k : SubSeq(s, k + 1, l)[i] = s[i + k]
    BY <1>1, <1>2
  <2> QED
    BY <1>3, <1>4, <2>1, <2>2
<1>6. t # <<>> <=> l - k > 0
  BY <1>2, <1>4
<1>7. t # <<>> <=> k < l
  BY <1>2, <1>6
<1> QED
  BY <1>1, <1>4, <1>5, <1>7
LEMMA PrefixType ==
  ASSUME NEW S, NEW s \in Seq(S), NEW k \in 0 .. Len(s)
  PROVE  SubSeq(s, 1, k) \in Seq(S) /\ Len(SubSeq(s, 1, k)) = k
<1>1. Len(s) \in Nat /\ k \in Nat /\ k <= Len(s)
  OBVIOUS
<1> QED
  BY <1>1

LEMMA ConcatType ==
  ASSUME NEW S, NEW s \in Seq(S), NEW t \in Seq(S)
  PROVE  s \o t \in Seq(S) /\ Len(s \o t) = Len(s) + Len(t)
OBVIOUS

\* A sequence is cut in two.
LEMMA SplitOnce ==
  ASSUME NEW S, NEW q \in Seq(S), NEW j \in 0 .. Len(q)
  PROVE  /\ SubSeq(q, 1, j) \in Seq(S) /\ SubSeq(q, j + 1, Len(q)) \in Seq(S)
         /\ ToSet(q) = ToSet(SubSeq(q, 1, j)) \cup ToSet(SubSeq(q, j + 1, Len(q)))
         /\ IsInjective(q) =>
              /\ IsInjective(SubSeq(q, 1, j)) /\ IsInjective(SubSeq(q, j + 1, Len(q)))
              /\ ToSet(SubSeq(q, 1, j)) \cap ToSet(SubSeq(q, j + 1, Len(q))) = {}
<1> DEFINE p == SubSeq(q, 1, j)
           t == SubSeq(q, j + 1, Len(q))
<1>1. Len(q) \in Nat /\ j \in Nat /\ j <= Len(q) /\ DOMAIN q = 1 .. Len(q)
  OBVIOUS
<1>2. p \in Seq(S) /\ DOMAIN p = 1 .. j /\ \A i \in 1 .. j : p[i] = q[i]
  BY <1>1
<1>3. t \in Seq(S) /\ DOMAIN t = 1 .. Len(q) - j /\ \A i \in 1 .. Len(q) - j : t[i] = q[j + i]
  BY <1>1
<1> HIDE DEF p, t
<1>4. ToSet(q) \subseteq ToSet(p) \cup ToSet(t)
  <2>1. ASSUME NEW i \in 1 .. Len(q) PROVE q[i] \in ToSet(p) \cup ToSet(t)
    <3>1. CASE i <= j
      <4>1. i \in DOMAIN p /\ q[i] = p[i]
        BY <1>1, <1>2, <3>1
      <4> QED
        BY <4>1 DEF ToSet
    <3>2. CASE ~(i <= j)
      <4>1. i - j \in DOMAIN t /\ q[i] = t[i - j]
        BY <1>1, <1>3, <3>2
      <4> QED
        BY <4>1 DEF ToSet
    <3> QED
      BY <3>1, <3>2
  <2> QED
    BY <1>1, <2>1 DEF ToSet
<1>5. ToSet(p) \subseteq ToSet(q)
  <2>1. \A i \in 1 .. j : i \in DOMAIN q
    BY <1>1
  <2> QED
    BY <1>2, <2>1 DEF ToSet
<1>6. ToSet(t) \subseteq ToSet(q)
  <2>1. \A i \in 1 .. Len(q) - j : j + i \in DOMAIN q
    BY <1>1
  <2> QED
    BY <1>3, <2>1 DEF ToSet
<1>7. ASSUME IsInjective(q)
      PROVE  IsInjective(p) /\ IsInjective(t) /\ ToSet(p) \cap ToSet(t) = {}
  <2>1. \A x, y \in DOMAIN q : q[x] = q[y] => x = y
    BY <1>7 DEF IsInjective
  <2>2. IsInjective(p)
    <3>1. \A x, y \in 1 .. j : p[x] = p[y] => x = y
      BY <1>1, <1>2, <2>1
    <3> QED
      BY <1>2, <3>1 DEF IsInjective
  <2>3. IsInjective(t)
    <3>1. \A x, y \in 1 .. Len(q) - j : t[x] = t[y] => x = y
      BY <1>1, <1>3, <2>1, SMTT(30)
    <3> QED
      BY <1>3, <3>1 DEF IsInjective
  <2>4. ASSUME NEW x \in 1 .. j, NEW y \in 1 .. Len(q) - j PROVE p[x] # t[y]
    <3>1. x \in DOMAIN q /\ j + y \in DOMAIN q /\ x # j + y
      BY <1>1
    <3>2. q[x] # q[j + y]
      BY <2>1, <3>1
    <3> QED
      BY <1>2, <1>3, <3>2
  <2> QED
    BY <1>2, <1>3, <2>2, <2>3, <2>4 DEF ToSet
<1>8. /\ p \in Seq(S) /\ t \in Seq(S)
      /\ ToSet(q) = ToSet(p) \cup ToSet(t)
      /\ IsInjective(q) =>
           IsInjective(p) /\ IsInjective(t) /\ ToSet(p) \cap ToSet(t) = {}
  BY <1>2, <1>3, <1>4, <1>5, <1>6, <1>7
<1> QED
  BY <1>8 DEF p, t

LEMMA SameSeq ==
  ASSUME NEW S, NEW w \in Seq(S), NEW v \in Seq(S), Len(w) = Len(v),
         \A n \in 1 .. Len(w) : w[n] = v[n]
  PROVE  w = v
OBVIOUS

LEMMA ConcatAssoc ==
  ASSUME NEW S, NEW u \in Seq(S), NEW v \in Seq(S), NEW w \in Seq(S)
  PROVE  (u \o v) \o w = u \o (v \o w) /\ <<>> \o u = u /\ u \o <<>> = u
OBVIOUS

LEMMA AppendAt ==
  ASSUME NEW S, NEW s \in Seq(S), NEW x \in S
  PROVE  /\ Append(s, x) \in Seq(S) /\ Len(Append(s, x)) = Len(s) + 1 /\ Append(s, x) # <<>>
         /\ (\A i \in 1 .. Len(s) : Append(s, x)[i] = s[i]) /\ Append(s, x)[Len(s) + 1] = x
OBVIOUS

LEMMA SingleAt ==
  ASSUME NEW S, NEW x \in S
  PROVE  /\ <<x>> \in Seq(S) /\ Len(<<x>>) = 1 /\ <<x>>[1] = x /\ <<x>> # <<>> /\ Head(<<x>>) = x
OBVIOUS

LEMMA SplitJoin ==
  ASSUME NEW S, NEW w \in Seq(S), NEW k \in 0 .. Len(w)
  PROVE  /\ SubSeq(w, 1, k) \in Seq(S) /\ Len(SubSeq(w, 1, k)) = k
         /\ SubSeq(w, k + 1, Len(w)) \in Seq(S)
         /\ w = SubSeq(w, 1, k) \o SubSeq(w, k + 1, Len(w))
<1>1. PICK u, v : u = SubSeq(w, 1, k) /\ v = SubSeq(w, k + 1, Len(w))
  OBVIOUS
<1>2. Len(w) \in Nat /\ k \in Nat /\ k <= Len(w)
  OBVIOUS
<1>3. u \in Seq(S) /\ Len(u) = k /\ \A i \in 1 .. k : u[i] = w[i]
  BY <1>1, <1>2
<1>4. v \in Seq(S) /\ Len(v) = Len(w) - k /\ \A i \in 1 .. Len(w) - k : v[i] = w[k + i]
  BY <1>1, <1>2
<1>5. PICK x : x = u \o v /\ x \in Seq(S) /\ Len(x) = Len(w)
  <2>1. u \o v \in Seq(S) /\ Len(u \o v) = Len(u) + Len(v)
    BY <1>3, <1>4, ConcatType
  <2>2. k + (Len(w) - k) = Len(w)
    BY <1>2
  <2> QED
    BY <1>3, <1>4, <2>1, <2>2
<1>6. ASSUME NEW i \in 1 .. Len(w) PROVE w[i] = x[i]
  <2>1. CASE i \in 1 .. k
    BY <1>3, <1>4, <1>5, <2>1, ConcatAt
  <2>2. CASE i \notin 1 .. k
    <3>1. i - k \in 1 .. Len(w) - k /\ k + (i - k) = i
      BY <1>2, <2>2
    <3>2. x[k + (i - k)] = v[i - k]
      BY <1>3, <1>4, <1>5, <3>1, ConcatAt
    <3> QED
      BY <1>4, <3>1, <3>2
  <2> QED
    BY <2>1, <2>2
<1>7. w = x
  BY <1>5, <1>6, SameSeq
<1> QED
  BY <1>1, <1>3, <1>4, <1>5, <1>7

LEMMA FunctionSeq ==
  ASSUME NEW S, NEW n \in Nat, NEW f \in [1 .. n -> S]
  PROVE  f \in Seq(S) /\ Len(f) = n
OBVIOUS

LEMMA PrefixAt ==
  ASSUME NEW S, NEW s \in Seq(S), NEW k \in 0 .. Len(s)
  PROVE  /\ SubSeq(s, 1, k) \in Seq(S) /\ Len(SubSeq(s, 1, k)) = k
         /\ \A i \in 1 .. k : SubSeq(s, 1, k)[i] = s[i]
<1>1. SubSeq(s, 1, k) \in Seq(S) /\ Len(SubSeq(s, 1, k)) = k
  BY PrefixType
<1> QED
  BY <1>1

\* f has the values of a loop whose k-th pass does F[k]: they exist.
Iterates(f, b, F, n) == f[0] = b /\ \A i \in 1 .. n : f[i] = F[i][f[i - 1]]

\* One pass more.
LEMMA IterExtended ==
  ASSUME NEW S, NEW n \in Nat, NEW F \in [1 .. n -> [S -> S]], NEW b \in S,
         NEW k \in 1 .. n, NEW f \in [0 .. k - 1 -> S],
         Iterates(f, b, F, k - 1)
  PROVE  \E g \in [0 .. k -> S] : Iterates(g, b, F, k)
<1>1. PICK g : g = [i \in 0 .. k |-> IF i = k THEN F[k][f[k - 1]] ELSE f[i]]
  OBVIOUS
<1>2. /\ k \in Nat \ {0} /\ k - 1 \in 0 .. k - 1 /\ 0 \in 0 .. k - 1 /\ k \in 1 .. k
      /\ \A i \in 0 .. k : i = k \/ i \in 0 .. k - 1
  OBVIOUS
<1>3. \A i \in 0 .. k - 1 : g[i] = f[i] /\ f[i] \in S
  <2>1. \A i \in 0 .. k - 1 : i \in 0 .. k /\ i # k
    BY <1>2
  <2> QED
    BY <1>1, <2>1
<1>4. g[k] = F[k][f[k - 1]] /\ k \in 0 .. k
  <2>1. k \in 0 .. k
    BY <1>2
  <2> QED
    BY <1>1, <2>1
<1>5. g[k] \in S
  BY <1>2, <1>3, <1>4
<1>6. g \in [0 .. k -> S]
  BY <1>1, <1>2, <1>3, <1>5
<1>7. g[0] = b
  BY <1>2, <1>3 DEF Iterates
<1>8. ASSUME NEW i \in 1 .. k PROVE g[i] = F[i][g[i - 1]]
  <2>1. CASE i = k
    BY <1>2, <1>3, <1>4, <2>1
  <2>2. CASE i # k
    <3>1. i \in 1 .. k - 1 /\ i \in 0 .. k - 1 /\ i - 1 \in 0 .. k - 1
      BY <1>2, <2>2
    <3> QED
      BY <1>3, <3>1 DEF Iterates
  <2> QED
    BY <2>1, <2>2
<1> QED
  BY <1>6, <1>7, <1>8 DEF Iterates

\* The loop, as a whole.
LEMMA IterExists ==
  ASSUME NEW S, NEW n \in Nat, NEW F \in [1 .. n -> [S -> S]], NEW b \in S
  PROVE  \E f \in [0 .. n -> S] : Iterates(f, b, F, n)
<1> DEFINE It(k) == \E f \in [0 .. k -> S] : Iterates(f, b, F, k)
           T == {k \in 0 .. n : ~It(k)}
<1>1. It(0)
  <2>1. PICK f : f = [i \in 0 .. 0 |-> b]
    OBVIOUS
  <2>2. f \in [0 .. 0 -> S] /\ f[0] = b /\ 1 .. 0 = {}
    BY <2>1
  <2> QED
    BY <2>2 DEF Iterates
<1>2. ASSUME NEW k \in 1 .. n, It(k - 1) PROVE It(k)
  <2>1. PICK f \in [0 .. k - 1 -> S] : Iterates(f, b, F, k - 1)
    BY <1>2
  <2>2. \E g \in [0 .. k -> S] : Iterates(g, b, F, k)
    BY <2>1, IterExtended
  <2> QED
    BY <2>2
<1> HIDE DEF It
<1>3. T \in SUBSET Nat
  OBVIOUS
<1>4. ASSUME T # {} PROVE FALSE
  <2> HIDE DEF T
  <2>1. PICK k \in T : \A y \in T : k <= y
    BY <1>3, <1>4, LeastNatural
  <2>2. k \in 0 .. n /\ ~It(k)
    BY <2>1 DEF T
  <2>3. k \in 1 .. n
    BY <1>1, <2>2
  <2>4. k - 1 \notin T /\ k - 1 \in 0 .. n
    BY <1>3, <2>1, <2>3
  <2>5. It(k - 1)
    BY <2>4 DEF T
  <2> QED
    BY <1>2, <2>2, <2>3, <2>5
<1>5. It(n)
  BY <1>4
<1> QED
  BY <1>5 DEF It

\* What holds before a loop and is kept by each pass holds after each.
LEMMA Upwards ==
  ASSUME NEW n \in Nat, NEW T \in SUBSET (0 .. n), 0 \in T, \A k \in 1 .. n : k - 1 \in T => k \in T
  PROVE  T = 0 .. n
<1>1. PICK U : U = (0 .. n) \ T
  OBVIOUS
<1>2. ASSUME U # {} PROVE FALSE
  <2>1. PICK k \in U : \A y \in U : k <= y
    <3>1. U \in SUBSET Nat
      BY <1>1
    <3> QED
      BY <1>2, <3>1, LeastNatural
  <2>2. k \in 1 .. n /\ k - 1 \in 0 .. n
    BY <1>1, <2>1
  <2>3. k - 1 \notin U
    BY <2>1, <2>2
  <2> QED
    BY <1>1, <2>1, <2>2, <2>3
<1> QED
  BY <1>1, <1>2

\* Sequences of no element put together.
LEMMA FlattenNone ==
  ASSUME NEW S, NEW n \in Nat
  PROVE  FlattenSeq([j \in 1 .. n |-> <<>>]) = <<>>
<1>1. PICK b : b = [j \in 1 .. n |-> <<>>]
  OBVIOUS
<1>2. b \in Seq(Seq(S)) /\ Len(b) = n
  <2>1. b \in [1 .. n -> Seq(S)]
    BY <1>1
  <2> QED
    BY <2>1, FunctionSeq
<1>3. CASE n = 0
  <2>1. b = <<>>
    BY <1>2, <1>3
  <2> QED
    BY <1>1, <1>2, <2>1, FlattenType
<1>4. CASE n # 0
  <2>1. b # <<>>
    BY <1>2, <1>4
  <2>2. \E f : FlattenSeq(b) = f[Len(b)] /\ Joins(b, Len(b), f)
    BY <1>2, <2>1, FlattenJoins, Zenon
  <2>3. PICK f : FlattenSeq(b) = f[n] /\ Joins(b, n, f)
    BY <1>2, <2>2
  <2>4. PICK T : T = {k \in 0 .. n : k = 0 \/ f[k] = <<>>}
    OBVIOUS
  <2>5. ASSUME NEW k \in 1 .. n, k - 1 \in T PROVE k \in T
    <3>1. b[k] = <<>> /\ k \in 0 .. n
      BY <1>1
    <3>2. CASE k = 1
      <4>1. f[k] = b[1]
        BY <2>3, <3>2 DEF Joins
      <4> QED
        BY <2>4, <3>1, <3>2, <4>1
    <3>3. CASE k # 1
      <4>1. f[k] = f[k - 1] \o b[k]
        BY <2>3, <3>3 DEF Joins
      <4>2. f[k - 1] = <<>>
        BY <2>4, <2>5, <3>3
      <4>3. <<>> \o <<>> = <<>>
        OBVIOUS
      <4> QED
        BY <2>4, <3>1, <4>1, <4>2, <4>3
    <3> QED
      BY <3>2, <3>3
  <2>6. 0 \in T /\ T \in SUBSET (0 .. n)
    BY <2>4
  <2>7. T = 0 .. n
    BY <2>5, <2>6, Upwards
  <2> QED
    BY <1>1, <1>4, <2>3, <2>4, <2>7
<1> QED
  BY <1>3, <1>4

\* And of one each.
LEMMA FlattenSingles ==
  ASSUME NEW S, NEW q \in Seq(S), NEW n \in 0 .. Len(q)
  PROVE  LET r == FlattenSeq([j \in 1 .. n |-> <<q[j]>>])
         IN r \in Seq(S) /\ Len(r) = n /\ \A i \in 1 .. n : r[i] = q[i]
<1>1. PICK b : b = [j \in 1 .. n |-> <<q[j]>>]
  OBVIOUS
<1>2. \A j \in 1 .. n : q[j] \in S /\ <<q[j]>> \in Seq(S)
  OBVIOUS
<1>3. b \in Seq(Seq(S)) /\ Len(b) = n /\ n \in Nat
  <2>1. b \in [1 .. n -> Seq(S)] /\ n \in Nat
    BY <1>1, <1>2
  <2> QED
    BY <2>1, FunctionSeq
<1>4. CASE n = 0
  <2>1. b = <<>>
    BY <1>3, <1>4
  <2>2. FlattenSeq(b) = <<>>
    BY <1>3, <2>1, FlattenType
  <2>3. <<>> \in Seq(S) /\ Len(<<>>) = 0 /\ 1 .. n = {}
    BY <1>4
  <2>4. PICK r : r = FlattenSeq([j \in 1 .. n |-> <<q[j]>>])
    OBVIOUS
  <2>5. r = <<>>
    BY <1>1, <2>2, <2>4
  <2> QED
    BY <1>4, <2>3, <2>4, <2>5
<1>5. CASE n # 0
  <2>1. b # <<>>
    BY <1>3, <1>5
  <2>2. \E f : FlattenSeq(b) = f[Len(b)] /\ Joins(b, Len(b), f)
    BY <1>3, <2>1, FlattenJoins, Zenon
  <2>3. PICK f : FlattenSeq(b) = f[n] /\ Joins(b, n, f)
    BY <1>3, <2>2
  <2> DEFINE Same(k, r) == r \in Seq(S) /\ Len(r) = k /\ \A i \in 1 .. k : r[i] = q[i]
  <2>4. PICK T : T = {k \in 0 .. n : k = 0 \/ Same(k, f[k])}
    OBVIOUS
  <2>5. ASSUME NEW k \in 1 .. n, k - 1 \in T PROVE k \in T
    <3>1. b[k] = <<q[k]>> /\ k \in 0 .. n /\ q[k] \in S /\ k \in Nat
      BY <1>1, <1>2
    <3>2. CASE k = 1
      <4>1. f[k] = <<q[k]>>
        BY <2>3, <3>1, <3>2 DEF Joins
      <4>2. Same(k, f[k])
        BY <3>1, <3>2, <4>1
      <4> QED
        BY <2>4, <3>1, <4>2
    <3>3. CASE k # 1
      <4>1. f[k] = f[k - 1] \o <<q[k]>>
        BY <2>3, <3>1, <3>3 DEF Joins
      <4>2. Same(k - 1, f[k - 1])
        BY <2>4, <2>5, <3>3
      <4>3. PICK r : r = f[k - 1]
        OBVIOUS
      <4>4. Same(k, r \o <<q[k]>>)
        <5>1. r \in Seq(S) /\ Len(r) = k - 1 /\ \A i \in 1 .. k - 1 : r[i] = q[i]
          BY <4>2, <4>3
        <5> QED
          BY <3>1, <5>1
      <4> QED
        BY <2>4, <3>1, <4>1, <4>3, <4>4
    <3> QED
      BY <3>2, <3>3
  <2>6. 0 \in T /\ T \in SUBSET (0 .. n)
    BY <1>3, <2>4
  <2>7. T = 0 .. n
    BY <1>3, <2>5, <2>6, Upwards
  <2>8. Same(n, f[n])
    BY <1>3, <1>5, <2>4, <2>7
  <2> QED
    BY <1>1, <2>3, <2>8
<1> QED
  BY <1>3, <1>4, <1>5
=============================================================================
