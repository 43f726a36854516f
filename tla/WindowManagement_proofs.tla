----------------------- MODULE WindowManagement_proofs -----------------------
(***************************************************************************)
(* That a window is in one place, reachable when minimised and with its    *)
(* family, that the keyboard is with something in sight, and that walking  *)
(* the windows keeps their order of recency: for any windows, slots, rules *)
(* and shell surfaces.                                                     *)
(***************************************************************************)
EXTENDS WindowManagement, FiniteSetTheorems, SequenceTheorems, TLAPS

-----------------------------------------------------------------------------
(* Sequences                                                               *)

\* The n-th place of a finite set of numbers is there for every n up to its size: places
\* have ranks, no two the same, and as many ranks as places is all of them.
LEMMA RanksOnto ==
  ASSUME NEW N \in Nat, NEW at \in SUBSET (1 .. N)
  PROVE  LET Rank(k) == Cardinality({l \in at : l < k})
         IN /\ Cardinality(at) \in Nat
            /\ \A k \in at : Rank(k) \in 0 .. Cardinality(at) - 1
            /\ \A k, l \in at : k < l => Rank(k) < Rank(l)
            /\ \A k, l \in at : Rank(k) = Rank(l) => k = l
            /\ \A n \in 1 .. Cardinality(at) : \E k \in at : Rank(k) = n - 1
<1> DEFINE Below(k) == {l \in at : l < k}
           Rank(k) == Cardinality(Below(k))
           m == Cardinality(at)
<1>1. IsFiniteSet(at) /\ m \in Nat
  <2>1. IsFiniteSet(1 .. N)
    BY FS_Interval
  <2>2. IsFiniteSet(at)
    BY <2>1, FS_Subset
  <2> QED BY <2>2, FS_CardinalityType
<1>2. ASSUME NEW k \in at, NEW A, A \subseteq at, Below(k) \subseteq A, k \in A
      PROVE  Rank(k) \in Nat /\ Cardinality(A) \in Nat /\ Rank(k) < Cardinality(A)
  <2>1. Below(k) \subseteq A /\ Below(k) # A
    BY <1>2
  <2>2. IsFiniteSet(A) /\ IsFiniteSet(Below(k))
    BY <1>1, <1>2, FS_Subset
  <2>3. /\ Cardinality(A) \in Nat /\ Cardinality(Below(k)) \in Nat
    BY <2>2, FS_CardinalityType
  <2>4. /\ Cardinality(Below(k)) <= Cardinality(A)
        /\ Cardinality(Below(k)) = Cardinality(A) => Below(k) = A
    BY <2>1, <2>2, FS_Subset
  <2> QED BY <2>1, <2>3, <2>4
<1>3. \A k \in at : Rank(k) \in Nat /\ Rank(k) < m
  BY <1>2
<1>4. \A k, l \in at : k < l => Rank(k) < Rank(l)
  <2> SUFFICES ASSUME NEW k \in at, NEW l \in at, k < l PROVE Rank(k) < Rank(l)
    OBVIOUS
  <2>1. k \in Nat /\ l \in Nat /\ \A x \in at : x \in Nat
    OBVIOUS
  <2>2. \A x \in at : x < k => x < l
    BY <2>1
  <2>3. Below(k) \subseteq Below(l) /\ k \in Below(l) /\ Below(l) \subseteq at
    BY <2>2
  <2> QED BY <1>2, <2>3
<1> HIDE DEF Rank, m
<1>5. \A k, l \in at : Rank(k) = Rank(l) => k = l
  <2> SUFFICES ASSUME NEW k \in at, NEW l \in at, Rank(k) = Rank(l), k # l PROVE FALSE
    OBVIOUS
  <2>1. k < l \/ l < k
    OBVIOUS
  <2>2. ~(Rank(k) < Rank(l)) /\ ~(Rank(l) < Rank(k))
    BY <1>3
  <2> QED BY <1>4, <2>1, <2>2
<1> DEFINE r == [k \in at |-> Rank(k) + 1]
<1>6. r \in Injection(at, 1 .. m)
  <2>1. r \in [at -> 1 .. m]
    BY <1>1, <1>3
  <2>2. \A k, l \in at : r[k] = r[l] => k = l
    BY <1>3, <1>5
  <2> QED BY <2>1, <2>2 DEF Injection, IsInjective
<1>7. IsFiniteSet(1 .. m) /\ Cardinality(1 .. m) = m
  BY <1>1, FS_Interval
<1>8. r \in Surjection(at, 1 .. m)
  BY <1>6, <1>7, FS_Injection DEF m
<1>9. \A n \in 1 .. m : \E k \in at : r[k] = n
  BY <1>8 DEF Surjection
<1>10. \A n \in 1 .. m : \E k \in at : Rank(k) = n - 1
  <2> SUFFICES ASSUME NEW n \in 1 .. m PROVE \E k \in at : Rank(k) = n - 1
    OBVIOUS
  <2>1. PICK k \in at : r[k] = n
    BY <1>9
  <2>2. Rank(k) \in Nat /\ r[k] = Rank(k) + 1 /\ n \in Nat
    BY <1>1, <1>3
  <2>3. Rank(k) = n - 1
    BY <2>1, <2>2
  <2> QED BY <2>3
<1>11. \A k \in at : Rank(k) \in 0 .. m - 1
  BY <1>1, <1>3
<1> QED BY <1>1, <1>4, <1>5, <1>10, <1>11 DEF Rank, m

\* Filtering keeps what it is meant to keep, each once if it was there once.
LEMMA OnlyTyped ==
  ASSUME NEW T, NEW q \in Seq(T), NEW S
  PROVE  /\ Only(q, S) \in Seq(T)
         /\ ToSet(Only(q, S)) = ToSet(q) \cap S
         /\ IsInjective(q) => IsInjective(Only(q, S))
<1> DEFINE at == {k \in DOMAIN q : q[k] \in S}
           m == Cardinality(at)
           Rank(k) == Cardinality({l \in at : l < k})
           nth == [n \in 1 .. m |-> CHOOSE k \in at : Rank(k) = n - 1]
           o == Only(q, S)
<1>1. /\ at \in SUBSET (1 .. Len(q)) /\ Len(q) \in Nat
      /\ \A k \in at : k \in DOMAIN q /\ q[k] \in T
  <2>1. q \in [1 .. Len(q) -> T] /\ Len(q) \in Nat
    BY LenProperties
  <2> QED BY <2>1
<1>2. /\ m \in Nat
      /\ \A k \in at : Rank(k) \in 0 .. m - 1
      /\ \A k, l \in at : Rank(k) = Rank(l) => k = l
      /\ \A n \in 1 .. m : \E k \in at : Rank(k) = n - 1
  BY <1>1, RanksOnto
<1>3. o = [n \in 1 .. m |-> q[nth[n]]]
  BY DEF Only
<1> HIDE DEF o, m, Rank
<1>4. \A n \in 1 .. m : nth[n] \in at /\ Rank(nth[n]) = n - 1
  BY <1>2
<1>5. \A k \in at : Rank(k) + 1 \in 1 .. m /\ nth[Rank(k) + 1] = k
  <2> SUFFICES ASSUME NEW k \in at
               PROVE  Rank(k) + 1 \in 1 .. m /\ nth[Rank(k) + 1] = k
    OBVIOUS
  <2>1. Rank(k) + 1 \in 1 .. m /\ (Rank(k) + 1) - 1 = Rank(k)
    BY <1>2
  <2>2. nth[Rank(k) + 1] \in at /\ Rank(nth[Rank(k) + 1]) = Rank(k)
    BY <1>4, <2>1
  <2> QED BY <1>2, <2>1, <2>2
<1> HIDE DEF nth
<1>6. o \in [1 .. m -> T]
  BY <1>1, <1>3, <1>4
<1>7. o \in Seq(T)
  BY <1>2, <1>6
<1>8. DOMAIN o = 1 .. m /\ \A n \in 1 .. m : o[n] = q[nth[n]]
  BY <1>3
<1>9. ToSet(o) = ToSet(q) \cap S
  <2>1. ASSUME NEW x \in ToSet(o) PROVE x \in ToSet(q) \cap S
    <3>1. PICK n \in 1 .. m : x = q[nth[n]]
      BY <1>8 DEF ToSet
    <3>2. nth[n] \in DOMAIN q /\ q[nth[n]] \in S
      BY <1>4
    <3> QED BY <3>1, <3>2 DEF ToSet
  <2>2. ASSUME NEW x \in ToSet(q) \cap S PROVE x \in ToSet(o)
    <3>1. PICK k \in DOMAIN q : x = q[k]
      BY DEF ToSet
    <3>2. k \in at
      BY <3>1
    <3>3. Rank(k) + 1 \in 1 .. m /\ o[Rank(k) + 1] = x
      BY <1>5, <1>8, <3>1, <3>2
    <3> QED BY <1>8, <3>3 DEF ToSet
  <2> QED BY <2>1, <2>2
<1>10. IsInjective(q) => IsInjective(o)
  <2> SUFFICES ASSUME IsInjective(q), NEW a \in 1 .. m, NEW b \in 1 .. m, o[a] = o[b]
               PROVE  a = b
    BY <1>8 DEF IsInjective
  <2>1. nth[a] \in DOMAIN q /\ nth[b] \in DOMAIN q /\ q[nth[a]] = q[nth[b]]
    BY <1>4, <1>8
  <2>2. nth[a] = nth[b]
    BY <2>1 DEF IsInjective
  <2>3. a - 1 = b - 1
    BY <1>4, <2>2
  <2> QED BY <1>2, <2>3
<1> QED BY <1>7, <1>9, <1>10 DEF o

\* All but one element.
LEMMA WithoutTyped ==
  ASSUME NEW T, NEW q \in Seq(T), NEW w
  PROVE  /\ Without(q, w) \in Seq(T)
         /\ ToSet(Without(q, w)) = ToSet(q) \ {w}
         /\ IsInjective(q) => IsInjective(Without(q, w))
BY OnlyTyped DEF Without

\* One element more.
LEMMA AppendTyped ==
  ASSUME NEW T, NEW q \in Seq(T), NEW w \in T
  PROVE  /\ Append(q, w) \in Seq(T)
         /\ ToSet(Append(q, w)) = ToSet(q) \cup {w}
         /\ IsInjective(q) /\ w \notin ToSet(q) => IsInjective(Append(q, w))
<1> DEFINE n == Len(q)
           p == Append(q, w)
<1>1. n \in Nat /\ DOMAIN q = 1 .. n
  BY LenProperties
<1>2. /\ p \in Seq(T) /\ DOMAIN p = 1 .. n + 1 /\ p[n + 1] = w
      /\ \A k \in 1 .. n : p[k] = q[k]
  BY AppendProperties
<1> HIDE DEF n, p
<1>3. \A k : k \in 1 .. n + 1 <=> k \in 1 .. n \/ k = n + 1
  BY <1>1
<1>4. ToSet(p) = ToSet(q) \cup {w}
  BY <1>1, <1>2, <1>3 DEF ToSet
<1>5. ASSUME IsInjective(q), w \notin ToSet(q) PROVE IsInjective(p)
  <2>1. \A k \in 1 .. n : q[k] # w
    BY <1>1, <1>5 DEF ToSet
  <2>2. \A k, l \in 1 .. n : q[k] = q[l] => k = l
    BY <1>1, <1>5 DEF IsInjective
  <2>3. \A k, l \in 1 .. n + 1 : p[k] = p[l] => k = l
    BY <1>2, <1>3, <2>1, <2>2
  <2> QED BY <1>2, <2>3 DEF IsInjective
<1> QED BY <1>2, <1>4, <1>5 DEF p

\* One sequence after another.
LEMMA ConcatTyped ==
  ASSUME NEW T, NEW q \in Seq(T), NEW r \in Seq(T)
  PROVE  /\ q \o r \in Seq(T)
         /\ ToSet(q \o r) = ToSet(q) \cup ToSet(r)
         /\ IsInjective(q) /\ IsInjective(r) /\ ToSet(q) \cap ToSet(r) = {}
              => IsInjective(q \o r)
<1> DEFINE n == Len(q)
           m == Len(r)
           p == q \o r
<1>1. n \in Nat /\ DOMAIN q = 1 .. n /\ m \in Nat /\ DOMAIN r = 1 .. m
  BY LenProperties
<1>2. p \in Seq(T) /\ Len(p) = n + m
      /\ \A i \in 1 .. n + m : p[i] = IF i <= n THEN q[i] ELSE r[i - n]
  BY ConcatProperties
<1>3. DOMAIN p = 1 .. n + m
  BY <1>2, LenProperties
<1> HIDE DEF n, m, p
<1>4. /\ \A k \in 1 .. n : k \in 1 .. n + m /\ p[k] = q[k]
      /\ \A k \in 1 .. m : n + k \in 1 .. n + m /\ p[n + k] = r[k]
      /\ \A k \in 1 .. n + m : k \in 1 .. n \/ (k - n \in 1 .. m /\ k = n + (k - n))
  <2>1. ASSUME NEW k \in 1 .. m PROVE n + k \in 1 .. n + m /\ ~(n + k <= n) /\ (n + k) - n = k
    BY <1>1
  <2>2. \A k \in 1 .. n : k \in 1 .. n + m /\ k <= n
    BY <1>1
  <2>3. \A k \in 1 .. n + m : k \in 1 .. n \/ (k - n \in 1 .. m /\ k = n + (k - n))
    BY <1>1
  <2> QED BY <1>2, <2>1, <2>2, <2>3
<1>5. ToSet(p) = ToSet(q) \cup ToSet(r)
  <2>1. ASSUME NEW x \in ToSet(p) PROVE x \in ToSet(q) \cup ToSet(r)
    <3>1. PICK k \in 1 .. n + m : x = p[k]
      BY <1>3 DEF ToSet
    <3>2. CASE k \in 1 .. n
      BY <1>1, <1>4, <3>1, <3>2 DEF ToSet
    <3>3. CASE k - n \in 1 .. m /\ k = n + (k - n)
      <4>1. x = r[k - n]
        BY <1>4, <3>1, <3>3
      <4> QED BY <1>1, <3>3, <4>1 DEF ToSet
    <3> QED BY <1>4, <3>2, <3>3
  <2>2. ASSUME NEW x \in ToSet(q) PROVE x \in ToSet(p)
    BY <1>1, <1>3, <1>4 DEF ToSet
  <2>3. ASSUME NEW x \in ToSet(r) PROVE x \in ToSet(p)
    <3>1. PICK k \in 1 .. m : x = r[k]
      BY <1>1 DEF ToSet
    <3> QED BY <1>3, <1>4, <3>1 DEF ToSet
  <2> QED BY <2>1, <2>2, <2>3
<1>6. ASSUME IsInjective(q), IsInjective(r), ToSet(q) \cap ToSet(r) = {}
      PROVE  IsInjective(p)
  <2>1. \A k \in 1 .. n : \A l \in 1 .. m : q[k] # r[l]
    BY <1>1, <1>6 DEF ToSet
  <2>2. \A k, l \in 1 .. n : q[k] = q[l] => k = l
    BY <1>1, <1>6 DEF IsInjective
  <2>3. \A k, l \in 1 .. m : r[k] = r[l] => k = l
    BY <1>1, <1>6 DEF IsInjective
  <2> SUFFICES ASSUME NEW k \in 1 .. n + m, NEW l \in 1 .. n + m, p[k] = p[l]
               PROVE  k = l
    BY <1>3 DEF IsInjective
  <2>4. CASE k \in 1 .. n /\ l \in 1 .. n
    BY <1>4, <2>2, <2>4
  <2>5. CASE k \in 1 .. n /\ l - n \in 1 .. m /\ l = n + (l - n)
    <3>1. p[l] = r[l - n] /\ p[k] = q[k]
      BY <1>4, <2>5
    <3> QED BY <2>1, <2>5, <3>1
  <2>6. CASE l \in 1 .. n /\ k - n \in 1 .. m /\ k = n + (k - n)
    <3>1. p[k] = r[k - n] /\ p[l] = q[l]
      BY <1>4, <2>6
    <3> QED BY <2>1, <2>6, <3>1
  <2>7. CASE /\ k - n \in 1 .. m /\ k = n + (k - n)
             /\ l - n \in 1 .. m /\ l = n + (l - n)
    <3>1. p[k] = r[k - n] /\ p[l] = r[l - n]
      BY <1>4, <2>7
    <3>2. k - n = l - n
      BY <2>3, <2>7, <3>1
    <3> QED BY <1>1, <3>2
  <2> QED BY <1>4, <2>4, <2>5, <2>6, <2>7
<1> QED BY <1>2, <1>5, <1>6 DEF p

\* x stands somewhere before y.
Before(q, x, y) == \E k, l \in DOMAIN q : k < l /\ q[k] = x /\ q[l] = y

\* Filtering keeps the order of what it keeps.
LEMMA OnlyOrdered ==
  ASSUME NEW T, NEW q \in Seq(T), NEW S, NEW x \in S, NEW y \in S
  PROVE  Before(Only(q, S), x, y) <=> Before(q, x, y)
<1> DEFINE at == {k \in DOMAIN q : q[k] \in S}
           m == Cardinality(at)
           Rank(k) == Cardinality({l \in at : l < k})
           nth == [n \in 1 .. m |-> CHOOSE k \in at : Rank(k) = n - 1]
           o == Only(q, S)
<1>1. /\ at \in SUBSET (1 .. Len(q)) /\ Len(q) \in Nat
      /\ \A k \in at : k \in DOMAIN q /\ k \in Nat
  <2>1. DOMAIN q = 1 .. Len(q) /\ Len(q) \in Nat
    BY LenProperties
  <2> QED BY <2>1
<1>2. /\ m \in Nat
      /\ \A k \in at : Rank(k) \in 0 .. m - 1
      /\ \A k, l \in at : k < l => Rank(k) < Rank(l)
      /\ \A k, l \in at : Rank(k) = Rank(l) => k = l
      /\ \A n \in 1 .. m : \E k \in at : Rank(k) = n - 1
  BY <1>1, RanksOnto
<1>3. o = [n \in 1 .. m |-> q[nth[n]]]
  BY DEF Only
<1> HIDE DEF o, m, Rank
<1>4. \A n \in 1 .. m : nth[n] \in at /\ Rank(nth[n]) = n - 1
  BY <1>2
<1>5. \A k \in at : Rank(k) + 1 \in 1 .. m /\ nth[Rank(k) + 1] = k
  <2> SUFFICES ASSUME NEW k \in at
               PROVE  Rank(k) + 1 \in 1 .. m /\ nth[Rank(k) + 1] = k
    OBVIOUS
  <2>1. Rank(k) + 1 \in 1 .. m /\ (Rank(k) + 1) - 1 = Rank(k)
    BY <1>2
  <2>2. nth[Rank(k) + 1] \in at /\ Rank(nth[Rank(k) + 1]) = Rank(k)
    BY <1>4, <2>1
  <2> QED BY <1>2, <2>1, <2>2
<1> HIDE DEF nth
<1>6. DOMAIN o = 1 .. m /\ \A n \in 1 .. m : o[n] = q[nth[n]]
  BY <1>3
<1>7. ASSUME Before(o, x, y) PROVE Before(q, x, y)
  <2>1. PICK a, b \in 1 .. m : a < b /\ o[a] = x /\ o[b] = y
    BY <1>6, <1>7 DEF Before
  <2>2. /\ nth[a] \in at /\ nth[b] \in at /\ q[nth[a]] = x /\ q[nth[b]] = y
        /\ Rank(nth[a]) < Rank(nth[b])
    <3>1. Rank(nth[a]) = a - 1 /\ Rank(nth[b]) = b - 1 /\ a - 1 < b - 1
      BY <1>2, <1>4, <2>1
    <3>2. Rank(nth[a]) < Rank(nth[b])
      BY <3>1
    <3> QED BY <1>4, <1>6, <2>1, <3>2
  <2>3. nth[a] < nth[b]
    <3>1. ~(nth[b] < nth[a]) /\ nth[a] # nth[b]
      BY <1>2, <2>2
    <3> QED BY <1>1, <2>2, <3>1
  <2> QED BY <1>1, <2>2, <2>3 DEF Before
<1>8. ASSUME Before(q, x, y) PROVE Before(o, x, y)
  <2>1. PICK k, l \in DOMAIN q : k < l /\ q[k] = x /\ q[l] = y
    BY <1>8 DEF Before
  <2>2. k \in at /\ l \in at
    BY <2>1
  <2>3. /\ Rank(k) + 1 \in 1 .. m /\ Rank(l) + 1 \in 1 .. m
        /\ o[Rank(k) + 1] = x /\ o[Rank(l) + 1] = y
    BY <1>5, <1>6, <2>1, <2>2
  <2>4. Rank(k) + 1 < Rank(l) + 1
    BY <1>2, <2>1, <2>2
  <2> QED BY <1>6, <2>3, <2>4 DEF Before
<1> QED BY <1>7, <1>8 DEF o

\* The place of an element is the number of those before it.
LEMMA PlaceByOrder ==
  ASSUME NEW T, NEW q \in Seq(T), IsInjective(q)
  PROVE  /\ Cardinality(ToSet(q)) = Len(q)
         /\ \A n \in DOMAIN q :
              Cardinality({x \in ToSet(q) : Before(q, x, q[n])}) = n - 1
<1>1. DOMAIN q = 1 .. Len(q) /\ Len(q) \in Nat
  BY LenProperties
<1>2. \A k, l \in 1 .. Len(q) : q[k] = q[l] => k = l
  BY <1>1 DEF IsInjective
<1>3. ASSUME NEW n \in 0 .. Len(q), NEW S, S = {q[k] : k \in 1 .. n}
      PROVE  Cardinality(S) = n
  <2> DEFINE f == [k \in 1 .. n |-> q[k]]
  <2>1. IsFiniteSet(1 .. n) /\ Cardinality(1 .. n) = n
    BY <1>1, FS_Interval
  <2>2. f \in Bijection(1 .. n, S)
    <3>1. f \in [1 .. n -> S]
      BY <1>3
    <3>2. \A k, l \in 1 .. n : f[k] = f[l] => k = l
      BY <1>1, <1>2
    <3>3. \A x \in S : \E k \in 1 .. n : f[k] = x
      BY <1>3
    <3> QED BY <3>1, <3>2, <3>3 DEF Bijection, Injection, Surjection, IsInjective
  <2> QED BY <2>1, <2>2, FS_Bijection DEF ExistsBijection
<1>4. Cardinality(ToSet(q)) = Len(q)
  <2>1. ToSet(q) = {q[k] : k \in 1 .. Len(q)}
    BY <1>1 DEF ToSet
  <2> QED BY <1>1, <1>3, <2>1
<1>5. ASSUME NEW n \in DOMAIN q
      PROVE  Cardinality({x \in ToSet(q) : Before(q, x, q[n])}) = n - 1
  <2>1. n - 1 \in 0 .. Len(q) /\ \A k : k \in 1 .. n - 1 <=> k \in 1 .. Len(q) /\ k < n
    BY <1>1
  <2>2. \A x : Before(q, x, q[n]) <=> \E k \in 1 .. n - 1 : q[k] = x
    BY <1>1, <1>2, <2>1 DEF Before
  <2>3. \A k \in 1 .. n - 1 : q[k] \in ToSet(q)
    BY <1>1, <2>1 DEF ToSet
  <2>4. {x \in ToSet(q) : Before(q, x, q[n])} = {q[k] : k \in 1 .. n - 1}
    BY <2>2, <2>3
  <2> QED BY <1>3, <2>1, <2>4
<1> QED BY <1>4, <1>5

\* Two sequences that list the same once and in the same order are the same.
LEMMA SameOrder ==
  ASSUME NEW T, NEW q \in Seq(T), NEW p \in Seq(T), IsInjective(q), IsInjective(p),
         ToSet(q) = ToSet(p),
         \A x, y \in ToSet(q) : Before(q, x, y) <=> Before(p, x, y)
  PROVE  q = p
<1>1. /\ DOMAIN q = 1 .. Len(q) /\ q \in [1 .. Len(q) -> T]
      /\ DOMAIN p = 1 .. Len(p) /\ p \in [1 .. Len(p) -> T]
  BY LenProperties
<1>2. Len(q) = Len(p)
  <2>1. Cardinality(ToSet(q)) = Len(q) /\ Cardinality(ToSet(p)) = Len(p)
    BY PlaceByOrder
  <2> QED BY <2>1
<1>3. ASSUME NEW n \in DOMAIN q PROVE q[n] = p[n]
  <2>1. q[n] \in ToSet(q)
    BY DEF ToSet
  <2>2. PICK k \in DOMAIN p : p[k] = q[n]
    BY <2>1 DEF ToSet
  <2>3. {x \in ToSet(q) : Before(q, x, q[n])} = {x \in ToSet(p) : Before(p, x, p[k])}
    BY <2>1, <2>2
  <2>4. Cardinality({x \in ToSet(q) : Before(q, x, q[n])}) = n - 1
    BY PlaceByOrder
  <2>5. Cardinality({x \in ToSet(p) : Before(p, x, p[k])}) = k - 1
    BY PlaceByOrder
  <2>6. n - 1 = k - 1
    BY <2>3, <2>4, <2>5
  <2>7. n = k
    BY <1>1, <2>6
  <2> QED BY <2>2, <2>7
<1> QED BY <1>1, <1>2, <1>3

\* Moving the last of what is kept to the end changes nothing about what is kept.
LEMMA LastStaysLast ==
  ASSUME NEW T, NEW q \in Seq(T), IsInjective(q), NEW S,
         Only(q, S) # <<>>
  PROVE  LET x == Last(Only(q, S))
         IN Only(Append(Without(q, x), x), S) = Only(q, S)
<1> DEFINE o == Only(q, S)
           x == Last(o)
           r == Without(q, x)
           p == Append(r, x)
           u == Only(p, S)
<1>1. o \in Seq(T) /\ ToSet(o) = ToSet(q) \cap S /\ IsInjective(o)
  BY OnlyTyped
<1>2. Len(o) \in DOMAIN o /\ DOMAIN o = 1 .. Len(o) /\ Len(o) \in Nat /\ x = o[Len(o)]
  BY <1>1, LenProperties, EmptySeq DEF Last
<1>3. x \in ToSet(q) /\ x \in S /\ x \in T
  <2>1. x \in ToSet(o)
    BY <1>2 DEF ToSet
  <2>2. o[Len(o)] \in T
    BY <1>1, <1>2, ElementOfSeq
  <2> QED BY <1>1, <1>2, <2>1, <2>2
<1>4. \A y \in ToSet(q) \cap S : y # x => Before(o, y, x)
  <2> SUFFICES ASSUME NEW y \in ToSet(o), y # x PROVE Before(o, y, x)
    BY <1>1
  <2>1. PICK k \in DOMAIN o : o[k] = y
    BY DEF ToSet
  <2>2. k < Len(o)
    BY <1>2, <2>1
  <2> QED BY <1>2, <2>1, <2>2 DEF Before
<1>5. \A y : ~Before(o, x, y)
  <2> SUFFICES ASSUME NEW k \in DOMAIN o, NEW l \in DOMAIN o, k < l, o[k] = x PROVE FALSE
    BY DEF Before
  <2>1. k = Len(o)
    BY <1>1, <1>2 DEF IsInjective
  <2> QED BY <1>2, <2>1
<1> HIDE DEF o, x
<1>6. r \in Seq(T) /\ ToSet(r) = ToSet(q) \ {x} /\ IsInjective(r)
  BY WithoutTyped
<1>7. \A y, z \in ToSet(q) \ {x} : Before(r, y, z) <=> Before(q, y, z)
  BY OnlyOrdered DEF r, Without
<1> HIDE DEF r
<1>8. p \in Seq(T) /\ ToSet(p) = ToSet(q) /\ IsInjective(p)
  <2>1. /\ p \in Seq(T) /\ ToSet(p) = ToSet(r) \cup {x}
        /\ x \notin ToSet(r) => IsInjective(p)
    BY <1>3, <1>6, AppendTyped
  <2> QED BY <1>3, <1>6, <2>1
<1>9. /\ Len(r) \in Nat /\ DOMAIN r = 1 .. Len(r) /\ DOMAIN p = 1 .. Len(r) + 1
      /\ p[Len(r) + 1] = x /\ \A k \in 1 .. Len(r) : p[k] = r[k]
  BY <1>3, <1>6, AppendProperties, LenProperties
<1> HIDE DEF p
<1>10. \A k \in DOMAIN r : k \in DOMAIN p /\ k < Len(r) + 1 /\ r[k] # x
  <2>1. \A k \in DOMAIN r : r[k] \in ToSet(r)
    BY DEF ToSet
  <2> QED BY <1>6, <1>9, <2>1
<1>11. \A k \in DOMAIN p : k \in DOMAIN r \/ k = Len(r) + 1
  BY <1>9
<1>12. \A y \in ToSet(q) : y # x => Before(p, y, x)
  <2> SUFFICES ASSUME NEW y \in ToSet(r) PROVE Before(p, y, x)
    BY <1>6
  <2>1. PICK k \in DOMAIN r : r[k] = y
    BY DEF ToSet
  <2>2. k \in DOMAIN p /\ Len(r) + 1 \in DOMAIN p /\ k < Len(r) + 1 /\ p[k] = y
    BY <1>9, <1>10, <2>1
  <2> QED BY <1>9, <2>2 DEF Before
<1>13. \A y : ~Before(p, x, y)
  <2> SUFFICES ASSUME NEW k \in DOMAIN p, NEW l \in DOMAIN p, k < l, p[k] = x PROVE FALSE
    BY DEF Before
  <2>1. k = Len(r) + 1
    BY <1>9, <1>10, <1>11
  <2> QED BY <1>9, <2>1
<1>14. \A y, z \in ToSet(q) : y # x /\ z # x => (Before(p, y, z) <=> Before(r, y, z))
  <2> SUFFICES ASSUME NEW y, NEW z, y # x, z # x PROVE Before(p, y, z) <=> Before(r, y, z)
    OBVIOUS
  <2>1. ASSUME Before(r, y, z) PROVE Before(p, y, z)
    BY <1>9, <1>10, <2>1 DEF Before
  <2>2. ASSUME Before(p, y, z) PROVE Before(r, y, z)
    BY <1>9, <1>11, <2>2 DEF Before
  <2> QED BY <2>1, <2>2
<1>15. u \in Seq(T) /\ ToSet(u) = ToSet(q) \cap S /\ IsInjective(u)
  BY <1>8, OnlyTyped
<1>16. \A y, z \in S : /\ Before(u, y, z) <=> Before(p, y, z)
                       /\ Before(o, y, z) <=> Before(q, y, z)
  BY <1>8, OnlyOrdered DEF o
<1> HIDE DEF u
<1>17. ASSUME NEW y \in ToSet(u), NEW z \in ToSet(u)
       PROVE  Before(u, y, z) <=> Before(o, y, z)
  <2>1. y \in ToSet(q) \cap S /\ z \in ToSet(q) \cap S
    BY <1>15
  <2>2. CASE y = x
    BY <1>5, <1>13, <1>16, <2>1, <2>2
  <2>3. CASE y # x /\ z = x
    BY <1>4, <1>12, <1>16, <2>1, <2>3
  <2>4. CASE y # x /\ z # x
    BY <1>7, <1>14, <1>16, <2>1, <2>4
  <2> QED BY <2>2, <2>3, <2>4
<1>18. u = o
  BY <1>1, <1>15, <1>17, SameOrder
<1> QED BY <1>18 DEF u, p, r, x, o

-----------------------------------------------------------------------------
(* The inductive invariant                                                 *)

\* Every window is in one place of one slot.
Placed(d) ==
  \A i \in Slots : /\ IsInjective(d.windows[i])
                   /\ \A j \in Slots \ {i} : In(d, i) \cap In(d, j) = {}

\* Every slot lists its minimised windows and is covered by its own.
Listed(d) ==
  \A i \in Slots :
    /\ IsInjective(d.minimizedHistory[i])
    /\ ToSet(d.minimizedHistory[i]) = In(d, i) \cap d.minimized
    /\ {d.fullscreen[i], d.maximized[i]} \subseteq In(d, i) \cup {NoWindow}

\* A window that never was is nowhere. This is what a step may assume of the windows
\* before anything is laid out again.
Base(d) == /\ d \in States
           /\ Placed(d)
           /\ Managed(d) \cup d.minimized \subseteq d.opened
           /\ Listed(d)

\* KeyboardFollowsSight of any state, and the part of it that outlives a change of the
\* windows: nobody types while the host is elsewhere.
Host(d) == ~d.hostFocused => d.focus = Nobody
Sighted(d) ==
  /\ d.hostFocused => \/ d.focus \in Visible(d, d.active)
                      \/ d.focus = Shell /\ d.shell # "none"
                      \/ d.focus = Nobody /\ Visible(d, d.active) = {}
  /\ Host(d)

\* A shell surface has the keyboard only while it is seen. Its own commits may end that,
\* and nothing else does, so this is no invariant.
Lit(d) == d.focus = Shell => ShellVisible(d)

IInv == Base(desk) /\ Sighted(desk)

\* What Base and what is seen depend on: t differs from s in its focus and its focus
\* histories, its rules, its hints and what is pending at most.
SameWindows(s, t) ==
  /\ t.windows = s.windows /\ t.minimizedHistory = s.minimizedHistory
  /\ t.fullscreen = s.fullscreen /\ t.maximized = s.maximized
  /\ t.minimized = s.minimized /\ t.opened = s.opened
  /\ t.floating = s.floating /\ t.parent = s.parent
SameSeat(s, t) ==
  /\ t.active = s.active /\ t.hostFocused = s.hostFocused /\ t.shell = s.shell
SameDesk(s, t) == t \in States /\ SameWindows(s, t) /\ SameSeat(s, t)

\* Slot i has the same windows in s and t, and looks the same.
SameMembers(s, t, i) ==
  /\ In(t, i) = In(s, i)
  /\ \A x \in In(s, i) : /\ t.parent[x] = s.parent[x]
                         /\ x \in t.minimized <=> x \in s.minimized
                         /\ x \in t.floating <=> x \in s.floating
SameSlot(s, t, i) ==
  /\ SameMembers(s, t, i)
  /\ t.fullscreen[i] = s.fullscreen[i] /\ t.maximized[i] = s.maximized[i]

-----------------------------------------------------------------------------
(* What is seen                                                            *)

\* The windows of a slot are windows, and a window has one slot.
LEMMA InWindows ==
  ASSUME NEW d \in States, NEW i \in Slots
  PROVE  In(d, i) \subseteq Windows /\ NoWindow \notin In(d, i) /\ In(d, i) \subseteq Managed(d)
<1>1. d.windows[i] \in Seq(Windows)
  BY DEF States
<1>2. ToSet(d.windows[i]) \subseteq Windows
  <2>1. d.windows[i] \in [1 .. Len(d.windows[i]) -> Windows]
    BY <1>1, LenProperties
  <2> QED BY <2>1 DEF ToSet
<1> QED BY <1>2, WindowAssumption DEF In, Managed

\* A window has one slot.
LEMMA SlotOfIn ==
  ASSUME NEW d, Placed(d)
  PROVE  /\ \A i \in Slots : \A w \in In(d, i) : SlotOf(d, w) = i
         /\ \A w \in Managed(d) : SlotOf(d, w) \in Slots /\ w \in In(d, SlotOf(d, w))
<1>1. \A i, j \in Slots : \A w : w \in In(d, i) /\ w \in In(d, j) => i = j
  BY DEF Placed
<1>2. \A w \in Managed(d) : \E i \in Slots : w \in In(d, i)
  BY DEF Managed
<1>3. ASSUME NEW w, NEW i \in Slots, w \in In(d, i)
      PROVE  SlotOf(d, w) \in Slots /\ w \in In(d, SlotOf(d, w))
  BY <1>3 DEF SlotOf
<1>4. \A i \in Slots : \A w \in In(d, i) : SlotOf(d, w) = i
  BY <1>1, <1>3
<1>5. \A w \in Managed(d) : SlotOf(d, w) \in Slots /\ w \in In(d, SlotOf(d, w))
  BY <1>2, <1>3
<1> QED BY <1>4, <1>5

\* What a slot shows is up to its windows, once it is known what covers it.
LEMMA MembersLook ==
  ASSUME NEW s, NEW t, NEW i, SameMembers(s, t, i)
  PROVE  /\ \A w : Shown(t, i, w) <=> Shown(s, i, w)
         /\ \A o : Uncovered(t, i, o) = Uncovered(s, i, o)
<1>1. ASSUME NEW w \in In(s, i) PROVE Ancestors(t, i, w) = Ancestors(s, i, w)
  <2> DEFINE C(d, up) ==
        \A x \in {w} \cup (up \cap In(d, i)) : d.parent[x] \in up \cup {NoWindow}
  <2>1. t.parent[w] = s.parent[w]
    BY DEF SameMembers
  <2>2. \A up \in SUBSET Windows : C(t, up) <=> C(s, up)
    BY DEF SameMembers
  <2>3. Ancestors(t, i, w) =
          IF t.parent[w] = NoWindow THEN {}
          ELSE {a \in Windows : \A up \in SUBSET Windows : C(t, up) => a \in up}
    BY DEF Ancestors
  <2>4. Ancestors(s, i, w) =
          IF s.parent[w] = NoWindow THEN {}
          ELSE {a \in Windows : \A up \in SUBSET Windows : C(s, up) => a \in up}
    BY DEF Ancestors
  <2> HIDE DEF C
  <2> QED BY <2>1, <2>2, <2>3, <2>4
<1>2. \A w : Shown(t, i, w) <=> Shown(s, i, w)
  BY <1>1 DEF Shown, SameMembers
<1>3. \A o : Uncovered(t, i, o) = Uncovered(s, i, o)
  BY <1>1, <1>2 DEF Uncovered, SameMembers
<1> QED BY <1>2, <1>3

\* What a slot shows is up to the slot.
LEMMA SlotLooks ==
  ASSUME NEW s, NEW t, NEW i, SameSlot(s, t, i)
  PROVE  /\ \A w : Shown(t, i, w) <=> Shown(s, i, w)
         /\ HasFullscreen(t, i) <=> HasFullscreen(s, i)
         /\ Visible(t, i) = Visible(s, i)
<1>1. \A w : Shown(t, i, w) <=> Shown(s, i, w)
  BY MembersLook DEF SameSlot
<1>2. HasFullscreen(t, i) <=> HasFullscreen(s, i)
  BY <1>1 DEF HasFullscreen, SameSlot
<1>3. Overlay(t, i) = Overlay(s, i)
  BY <1>1, <1>2 DEF Overlay, SameSlot
<1>4. \A o : Uncovered(t, i, o) = Uncovered(s, i, o)
  BY MembersLook DEF SameSlot
<1>5. Visible(t, i) = Visible(s, i)
  BY <1>3, <1>4 DEF Visible
<1> QED BY <1>1, <1>2, <1>5

\* States with the same windows and the same seat see the same.
LEMMA DeskLooks ==
  ASSUME NEW s, NEW t, SameWindows(s, t)
  PROVE  /\ \A i : In(t, i) = In(s, i)
         /\ \A i : \A w : Shown(t, i, w) <=> Shown(s, i, w)
         /\ \A i : HasFullscreen(t, i) <=> HasFullscreen(s, i)
         /\ \A i : Visible(t, i) = Visible(s, i)
         /\ Managed(t) = Managed(s)
         /\ \A w : SlotOf(t, w) = SlotOf(s, w)
         /\ SameSeat(s, t) => /\ ShellVisible(t) <=> ShellVisible(s)
                              /\ ShellExclusive(t) <=> ShellExclusive(s)
<1>1. \A i : In(t, i) = In(s, i)
  BY DEF SameWindows, In
<1>2. \A i : SameSlot(s, t, i)
  BY <1>1 DEF SameSlot, SameMembers, SameWindows
<1>3. \A i : /\ \A w : Shown(t, i, w) <=> Shown(s, i, w)
             /\ HasFullscreen(t, i) <=> HasFullscreen(s, i)
             /\ Visible(t, i) = Visible(s, i)
  BY <1>2, SlotLooks
<1>4. Managed(t) = Managed(s)
  BY <1>1 DEF Managed
<1>5. \A w : SlotOf(t, w) = SlotOf(s, w)
  BY <1>1 DEF SlotOf
<1>6. ASSUME SameSeat(s, t)
      PROVE  /\ ShellVisible(t) <=> ShellVisible(s)
             /\ ShellExclusive(t) <=> ShellExclusive(s)
  <2>1. ShellVisible(t) <=> ShellVisible(s)
    BY <1>3, <1>6 DEF ShellVisible, SameSeat
  <2> QED BY <1>6, <2>1, Zenon DEF ShellExclusive, SameSeat
<1> QED BY <1>1, <1>3, <1>4, <1>5, <1>6

\* Base is about the windows only.
LEMMA DeskBase ==
  ASSUME NEW s, NEW t \in States, SameWindows(s, t), Base(s)
  PROVE  Base(t)
<1>1. \A i : In(t, i) = In(s, i)
  BY DeskLooks
<1>2. Managed(t) = Managed(s)
  BY DeskLooks
<1>3. Placed(t)
  BY <1>1 DEF Base, Placed, SameWindows
<1>4. Listed(t)
  BY <1>1 DEF Base, Listed, SameWindows
<1> QED BY <1>2, <1>3, <1>4 DEF Base, SameWindows

\* What is visible is shown, in the slot.
LEMMA VisibleIn ==
  ASSUME NEW d, NEW i
  PROVE  Visible(d, i) \subseteq In(d, i) /\ \A w \in Visible(d, i) : Shown(d, i, w)
BY DEF Visible, Uncovered

\* If the active slot looks the same and the seat is the same, so is what is seen.
LEMMA Untouched ==
  ASSUME NEW s, NEW t, SameSlot(s, t, s.active), SameSeat(s, t), t.focus = s.focus
  PROVE  /\ Sighted(s) => Sighted(t)
         /\ Lit(s) => Lit(t)
         /\ Host(s) => Host(t)
<1>1. Visible(t, s.active) = Visible(s, s.active)
  BY SlotLooks
<1>2. HasFullscreen(t, s.active) <=> HasFullscreen(s, s.active)
  BY SlotLooks
<1>3. Host(s) => Host(t)
  BY Zenon DEF Host, SameSeat
<1>4. Sighted(s) => Sighted(t)
  BY <1>1, <1>3, Zenon DEF Sighted, SameSeat
<1>5. Lit(s) => Lit(t)
  BY <1>2, Zenon DEF Lit, ShellVisible, SameSeat
<1> QED BY <1>3, <1>4, <1>5

-----------------------------------------------------------------------------
(* Focus                                                                   *)

\* Remembering a window is seen by nobody.
LEMMA RememberSame ==
  ASSUME NEW d, Base(d), NEW w
  PROVE  SameDesk(d, Remember(d, w)) /\ Remember(d, w).focus = d.focus
<1> DEFINE i == SlotOf(d, w)
           h == Append(Without(d.focusHistory[i], w), w)
<1>1. d \in States
  BY DEF Base
<1>2. CASE w \notin Managed(d)
  BY <1>1, <1>2 DEF Remember, SameDesk, SameWindows, SameSeat
<1>3. CASE w \in Managed(d)
  <2>1. i \in Slots /\ w \in In(d, i)
    BY <1>3, SlotOfIn DEF Base
  <2>2. w \in Windows
    BY <1>1, <2>1, InWindows
  <2>3. d.focusHistory[i] \in Seq(Windows)
    BY <1>1, <2>1 DEF States
  <2>4. Without(d.focusHistory[i], w) \in Seq(Windows)
    BY <2>3, WithoutTyped
  <2>5. h \in Seq(Windows)
    BY <2>2, <2>4, AppendTyped
  <2>6. Remember(d, w) = [d EXCEPT !.focusHistory[i] = h]
    BY <1>3 DEF Remember
  <2> HIDE DEF h, i
  <2>7. [d EXCEPT !.focusHistory[i] = h] \in States
    BY <1>1, <2>1, <2>5 DEF States
  <2> QED BY <1>1, <2>6, <2>7 DEF SameDesk, SameWindows, SameSeat, States
<1> QED BY <1>2, <1>3

\* The focus alone is seen by nobody.
LEMMA FocusSame ==
  ASSUME NEW d \in States, NEW x \in Windows \cup {Shell, Nobody}
  PROVE  SameDesk(d, [d EXCEPT !.focus = x]) /\ [d EXCEPT !.focus = x].focus = x
BY DEF SameDesk, SameWindows, SameSeat, States

\* Changes of focus add up.
LEMMA SameDeskTrans ==
  ASSUME NEW s, NEW t, NEW u, SameDesk(s, t), SameDesk(t, u)
  PROVE  SameDesk(s, u)
BY DEF SameDesk, SameWindows, SameSeat

\* A state changes into itself.
LEMMA SameDeskRefl ==
  ASSUME NEW s \in States
  PROVE  SameDesk(s, s)
BY DEF SameDesk, SameWindows, SameSeat

\* Whatever has the keyboard now, it is well there: the window was visible, or the shell
\* surface insists, or nothing is visible.
LEMMA FocusSighted ==
  ASSUME NEW d, Base(d), NEW t, SameDesk(d, t), d.hostFocused,
         \/ t.focus \in Visible(d, d.active)
         \/ t.focus = Shell /\ ShellVisible(d)
         \/ t.focus = Nobody /\ Visible(d, d.active) = {}
  PROVE  Sighted(t) /\ Lit(t)
<1>1. SameWindows(d, t) /\ SameSeat(d, t)
  BY DEF SameDesk
<1>2. t.hostFocused /\ t.active = d.active /\ t.shell = d.shell
  BY <1>1 DEF SameSeat
<1>3. Visible(t, t.active) = Visible(d, d.active)
  BY <1>1, <1>2, DeskLooks
<1>4. ShellVisible(t) <=> ShellVisible(d)
  BY <1>1, DeskLooks
<1>5. ShellVisible(d) => d.shell # "none"
  BY DEF ShellVisible
<1>6. Host(t)
  BY <1>2 DEF Host
<1>7. Sighted(t)
  BY <1>2, <1>3, <1>5, <1>6 DEF Sighted
<1>8. d.active \in Slots /\ d \in States
  BY DEF Base, States
<1>9. Visible(d, d.active) \subseteq Windows
  BY <1>8, VisibleIn, InWindows
<1>10. Lit(t)
  BY <1>4, <1>9, WindowAssumption DEF Lit
<1> QED BY <1>7, <1>10

\* A window gets the keyboard if it is visible; nothing else changes.
LEMMA ApplyFocusWorks ==
  ASSUME NEW d, Base(d), NEW w, NEW remember \in BOOLEAN
  PROVE  LET t == ApplyFocus(d, w, remember)
         IN /\ SameDesk(d, t)
            /\ d.hostFocused /\ w \in Visible(d, d.active) =>
                 /\ Sighted(t) /\ Lit(t)
                 /\ ShellExclusive(d) => t.focus = Shell
                 /\ ~ShellExclusive(d) => t.focus = w
            /\ ~(d.hostFocused /\ w \in Visible(d, d.active)) => t = d
<1> DEFINE t == ApplyFocus(d, w, remember)
           r == IF remember THEN Remember(d, w) ELSE d
           x == IF ShellExclusive(r) THEN Shell ELSE w
<1>1. d \in States
  BY DEF Base
<1>2. CASE ~(d.hostFocused /\ w \in Visible(d, d.active))
  <2>1. t = d
    BY <1>2, Zenon DEF ApplyFocus
  <2> QED BY <1>1, <1>2, <2>1, SameDeskRefl
<1>3. CASE d.hostFocused /\ w \in Visible(d, d.active)
  <2>1. t = [r EXCEPT !.focus = x]
    BY <1>3, Zenon DEF ApplyFocus
  <2>2. SameDesk(d, r)
    <3>1. CASE remember
      BY <3>1, RememberSame, Zenon
    <3>2. CASE ~remember
      BY <1>1, <3>2, SameDeskRefl, Zenon
    <3> QED BY <3>1, <3>2
  <2>3. r \in States /\ SameWindows(d, r) /\ SameSeat(d, r)
    BY <2>2 DEF SameDesk
  <2>4. ShellExclusive(r) <=> ShellExclusive(d)
    BY <2>3, DeskLooks
  <2> HIDE DEF r, t
  <2>5. w \in Windows
    BY <1>1, <1>3, VisibleIn, InWindows DEF States
  <2>6. x \in Windows \cup {Shell, Nobody}
    BY <2>5
  <2> HIDE DEF x
  <2>7. SameDesk(r, t) /\ t.focus = x
    BY <2>1, <2>3, <2>6, FocusSame
  <2>8. SameDesk(d, t)
    BY <2>2, <2>7, SameDeskTrans
  <2>9. /\ ShellExclusive(d) => t.focus = Shell
        /\ ~ShellExclusive(d) => t.focus = w
    BY <2>4, <2>7 DEF x
  <2>10. ShellExclusive(d) => ShellVisible(d)
    BY DEF ShellExclusive
  <2>11. Sighted(t) /\ Lit(t)
    BY <1>3, <2>8, <2>9, <2>10, FocusSighted
  <2> QED BY <1>3, <2>8, <2>9, <2>11 DEF t
<1> QED BY <1>2, <1>3

\* The window to be restored is visible, and there is one if anything is visible.
LEMMA LastVisibleFound ==
  ASSUME NEW d \in States, NEW i \in Slots
  PROVE  /\ LastVisible(d, i) # NoWindow => LastVisible(d, i) \in Visible(d, i)
         /\ LastVisible(d, i) = NoWindow => Visible(d, i) = {}
<1> DEFINE V == Visible(d, i)
           H == Only(d.focusHistory[i], V)
           L == Only(d.windows[i], V)
<1>1. d.focusHistory[i] \in Seq(Windows) /\ d.windows[i] \in Seq(Windows)
  BY DEF States
<1>2. /\ H \in Seq(Windows) /\ ToSet(H) \subseteq V
      /\ L \in Seq(Windows) /\ ToSet(L) = In(d, i) \cap V
  BY <1>1, OnlyTyped DEF In
<1>3. V \subseteq In(d, i) /\ NoWindow \notin V
  BY VisibleIn, InWindows
<1>4. ASSUME NEW q \in Seq(Windows), q # <<>> PROVE Last(q) \in ToSet(q)
  <2>1. Len(q) \in 1 .. Len(q) /\ DOMAIN q = 1 .. Len(q)
    BY <1>4, EmptySeq, LenProperties
  <2> QED BY <2>1 DEF Last, ToSet
<1>5. LastVisible(d, i) = IF H # <<>> THEN Last(H) ELSE IF L # <<>> THEN Last(L) ELSE NoWindow
  BY DEF LastVisible, LastAmong
<1> HIDE DEF H, L
<1>6. L = <<>> => ToSet(L) = {}
  BY DEF ToSet
<1> QED BY <1>2, <1>3, <1>4, <1>5, <1>6

\* Restoring the focus makes the keyboard follow sight, whatever was there before.
LEMMA RestoreFocusWorks ==
  ASSUME NEW d, Base(d), Host(d)
  PROVE  LET t == RestoreFocus(d) IN SameDesk(d, t) /\ Sighted(t) /\ Lit(t)
<1> DEFINE t == RestoreFocus(d)
           w == LastVisible(d, d.active)
<1>1. d \in States /\ d.active \in Slots
  BY DEF Base, States
<1>2. SameDesk(d, d)
  BY <1>1, SameDeskRefl
<1>3. CASE ~d.hostFocused
  <2>1. t = d
    BY <1>3 DEF RestoreFocus
  <2>2. Sighted(d)
    BY <1>3 DEF Sighted
  <2>3. Lit(d)
    BY <1>3, WindowAssumption DEF Lit, Host
  <2> QED BY <1>2, <2>1, <2>2, <2>3
<1>4. CASE d.hostFocused /\ FocusValid(d)
  <2>1. t = d
    BY <1>4 DEF RestoreFocus
  <2>2. \/ d.focus \in Visible(d, d.active)
        \/ d.focus = Shell /\ ShellVisible(d)
    BY <1>4 DEF FocusValid, ShellExclusive
  <2>3. Sighted(d) /\ Lit(d)
    BY <1>2, <1>4, <2>2, FocusSighted
  <2> QED BY <1>2, <2>1, <2>3
<1>5. CASE d.hostFocused /\ ~FocusValid(d)
  <2>1. t = FocusOrNobody(d, w)
    BY <1>5 DEF RestoreFocus
  <2>2. CASE w = NoWindow
    <3>1. t = [d EXCEPT !.focus = Nobody]
      BY <2>1, <2>2 DEF FocusOrNobody
    <3>2. SameDesk(d, t) /\ t.focus = Nobody
      BY <1>1, <3>1, FocusSame
    <3>3. Visible(d, d.active) = {}
      BY <1>1, <2>2, LastVisibleFound
    <3>4. Sighted(t) /\ Lit(t)
      BY <1>5, <3>2, <3>3, FocusSighted
    <3> QED BY <3>2, <3>4
  <2>3. CASE w # NoWindow
    <3>1. t = ApplyFocus(d, w, TRUE)
      BY <2>1, <2>3 DEF FocusOrNobody
    <3>2. w \in Visible(d, d.active)
      BY <1>1, <2>3, LastVisibleFound
    <3> QED BY <1>5, <3>1, <3>2, ApplyFocusWorks
  <2> QED BY <2>2, <2>3
<1> QED BY <1>3, <1>4, <1>5

-----------------------------------------------------------------------------
(* What a step keeps                                                       *)

\* The windows outside F have not left their slots, and those of F that are still there
\* cover a slot of t if they covered one of s.
Kept(s, t, F) ==
  /\ \A i \in Slots : In(t, i) \ F = In(s, i) \ F
  /\ \A x \in F \cap Managed(t) :
       /\ (\E i \in Slots : s.fullscreen[i] = x) => \E j \in Slots : t.fullscreen[j] = x
       /\ (\E i \in Slots : s.maximized[i] = x) => \E j \in Slots : t.maximized[j] = x

\* The step of OverlaysTravel.
Travel(s, t) ==
  \A i \in Slots :
    LET Left(w) == w \notin In(t, i) /\ w \in Managed(t)
    IN /\ Left(s.fullscreen[i]) => \E j \in Slots : t.fullscreen[j] = s.fullscreen[i]
       /\ Left(s.maximized[i]) => \E j \in Slots : t.maximized[j] = s.maximized[i]

\* A step that keeps what is to be kept and ends with the keyboard in sight.
Fine(s, t) ==
  /\ Base(t) /\ Sighted(t)
  /\ Lit(s) /\ t.shell = s.shell => Lit(t)
  /\ Travel(s, t)

\* Overlays travel with the windows that move.
LEMMA KeptTravels ==
  ASSUME NEW s, NEW t, NEW F, Base(s), t \in States, Kept(s, t, F)
  PROVE  Travel(s, t)
<1>1. ASSUME NEW i \in Slots, NEW x, x \in In(s, i) \cup {NoWindow}, x \notin In(t, i),
             x \in Managed(t)
      PROVE  x \in F \cap Managed(t)
  <2>1. NoWindow \notin Managed(t)
    BY InWindows DEF Managed
  <2>2. x \in In(s, i)
    BY <1>1, <2>1
  <2> QED BY <1>1, <2>2 DEF Kept
<1>2. \A i \in Slots : /\ s.fullscreen[i] \in In(s, i) \cup {NoWindow}
                       /\ s.maximized[i] \in In(s, i) \cup {NoWindow}
  BY DEF Base, Listed
<1> SUFFICES ASSUME NEW i \in Slots
             PROVE  LET Left(w) == w \notin In(t, i) /\ w \in Managed(t)
                    IN /\ Left(s.fullscreen[i]) =>
                            \E j \in Slots : t.fullscreen[j] = s.fullscreen[i]
                       /\ Left(s.maximized[i]) =>
                            \E j \in Slots : t.maximized[j] = s.maximized[i]
  BY DEF Travel
<1>3. ASSUME s.fullscreen[i] \notin In(t, i), s.fullscreen[i] \in Managed(t)
      PROVE  \E j \in Slots : t.fullscreen[j] = s.fullscreen[i]
  BY <1>1, <1>2, <1>3 DEF Kept
<1>4. ASSUME s.maximized[i] \notin In(t, i), s.maximized[i] \in Managed(t)
      PROVE  \E j \in Slots : t.maximized[j] = s.maximized[i]
  BY <1>1, <1>2, <1>4 DEF Kept
<1> QED BY <1>3, <1>4

\* As long as no window comes or goes in the second, steps that keep F add up.
LEMMA KeptTrans ==
  ASSUME NEW s, NEW t, NEW u, NEW F, Kept(s, t, F), Kept(t, u, F), Managed(u) \subseteq Managed(t)
  PROVE  Kept(s, u, F)
BY DEF Kept

\* What changes no slot's windows keeps all.
LEMMA KeptSame ==
  ASSUME NEW s, NEW t, \A i \in Slots : In(t, i) = In(s, i)
  PROVE  Kept(s, t, {})
BY DEF Kept

\* What changes neither windows nor overlays keeps everything.
LEMMA KeptSameWindows ==
  ASSUME NEW s, NEW t, SameWindows(s, t), NEW F
  PROVE  Kept(s, t, F)
<1>1. \A i : In(t, i) = In(s, i)
  BY DeskLooks
<1> QED BY <1>1 DEF Kept, SameWindows

\* Laying out the windows ends well whatever they were.
LEMMA RelayoutWorks ==
  ASSUME NEW d, Base(d), Host(d)
  PROVE  LET t == Relayout(d)
         IN SameDesk(d, t) /\ Base(t) /\ Sighted(t) /\ Lit(t)
<1>1. SameDesk(d, Relayout(d)) /\ Sighted(Relayout(d)) /\ Lit(Relayout(d))
  BY RestoreFocusWorks DEF Relayout
<1>2. Base(Relayout(d))
  BY <1>1, DeskBase DEF SameDesk
<1> QED BY <1>1, <1>2

\* So a step that keeps the base and lays out the windows is fine.
LEMMA RelayoutFine ==
  ASSUME NEW s, Base(s), NEW d, Base(d), Host(d), NEW F, Kept(s, d, F)
  PROVE  Fine(s, Relayout(d))
<1> DEFINE t == Relayout(d)
<1>1. SameDesk(d, t) /\ Base(t) /\ Sighted(t) /\ Lit(t)
  BY RelayoutWorks
<1> HIDE DEF t
<1>2. t \in States /\ SameWindows(d, t)
  BY <1>1 DEF SameDesk
<1>3. Kept(d, t, F) /\ Managed(t) = Managed(d)
  BY <1>2, KeptSameWindows, DeskLooks
<1>4. Kept(s, t, F)
  BY <1>3, KeptTrans
<1>5. Travel(s, t)
  BY <1>2, <1>4, KeptTravels
<1> QED BY <1>1, <1>5 DEF Fine, t

\* A step that changes the focus only, and well, is fine.
LEMMA SameFine ==
  ASSUME NEW s, Base(s), NEW t, SameDesk(s, t), Sighted(t), Lit(s) => Lit(t)
  PROVE  Fine(s, t)
<1>1. t \in States /\ SameWindows(s, t)
  BY DEF SameDesk
<1>2. Base(t)
  BY <1>1, DeskBase
<1>3. Kept(s, t, {})
  BY <1>1, KeptSameWindows
<1>4. Travel(s, t)
  BY <1>1, <1>3, KeptTravels
<1> QED BY <1>2, <1>4 DEF Fine

\* Nor does a slot that is not the active one need to be laid out.
LEMMA RelayoutIfFine ==
  ASSUME NEW s, Base(s), Sighted(s), NEW d, Base(d), NEW i, NEW F, Kept(s, d, F),
         SameSeat(s, d), d.focus = s.focus, i # s.active => SameSlot(s, d, s.active)
  PROVE  Fine(s, RelayoutIf(d, i))
<1>1. Host(d)
  BY Zenon DEF Host, SameSeat, Sighted
<1>2. CASE i = d.active
  BY <1>1, <1>2, RelayoutFine DEF RelayoutIf
<1>3. CASE i # d.active
  <2>1. i # s.active
    BY <1>3 DEF SameSeat
  <2>2. Sighted(d) /\ (Lit(s) => Lit(d))
    BY <2>1, Untouched
  <2>3. Travel(s, d)
    BY KeptTravels DEF Base
  <2>4. RelayoutIf(d, i) = d
    BY <1>3 DEF RelayoutIf
  <2> QED BY <2>2, <2>3, <2>4 DEF Fine
<1> QED BY <1>2, <1>3

-----------------------------------------------------------------------------
(* Switching, revealing and focusing                                       *)

\* Another slot is laid out when it becomes the active one.
LEMMA SwitchWorks ==
  ASSUME NEW d, Base(d), Host(d), NEW i \in Slots
  PROVE  LET t == Switch(d, i)
         IN /\ SameWindows(d, t) /\ Base(t) /\ Sighted(t) /\ Lit(t)
            /\ t.active = i /\ t.hostFocused = d.hostFocused /\ t.shell = d.shell
<1> DEFINE r == Remember(d, d.focus)
           a == [r EXCEPT !.active = i]
           t == Relayout(a)
<1>1. SameDesk(d, r) /\ r.focus = d.focus
  BY RememberSame
<1> HIDE DEF r
<1>2. r \in States
  BY <1>1 DEF SameDesk
<1>3. a \in States
  BY <1>2 DEF States
<1>4. SameWindows(d, a) /\ a.active = i /\ a.hostFocused = d.hostFocused
      /\ a.shell = d.shell /\ a.focus = d.focus
  BY <1>1, <1>2 DEF SameDesk, SameWindows, SameSeat, States
<1> HIDE DEF a
<1>5. Base(a)
  BY <1>3, <1>4, DeskBase
<1>6. Host(a)
  BY <1>4, Zenon DEF Host
<1>7. SameDesk(a, t) /\ Base(t) /\ Sighted(t) /\ Lit(t)
  BY <1>5, <1>6, RelayoutWorks
<1>8. Switch(d, i) = t
  BY DEF Switch, a, r
<1> HIDE DEF t
<1>9. SameWindows(d, t)
  BY <1>4, <1>7 DEF SameDesk, SameWindows
<1>10. t.active = i /\ t.hostFocused = d.hostFocused /\ t.shell = d.shell
  BY <1>4, <1>7 DEF SameDesk, SameSeat
<1> QED BY <1>7, <1>8, <1>9, <1>10

\* Focusing a window afterwards is as fine.
LEMMA FocusFine ==
  ASSUME NEW s, Base(s), NEW d, Fine(s, d), NEW w, NEW remember \in BOOLEAN
  PROVE  Fine(s, ApplyFocus(d, w, remember))
<1> DEFINE t == ApplyFocus(d, w, remember)
<1>1. Base(d) /\ Sighted(d)
  BY DEF Fine
<1>2. SameDesk(d, t) /\ (t = d \/ (Sighted(t) /\ Lit(t)))
  BY <1>1, ApplyFocusWorks
<1> HIDE DEF t
<1>3. CASE t = d
  BY <1>3 DEF t
<1>4. CASE Sighted(t) /\ Lit(t)
  <2>1. SameWindows(d, t) /\ t \in States
    BY <1>2 DEF SameDesk
  <2>2. Base(t)
    BY <1>1, <2>1, DeskBase
  <2>3. /\ \A i : In(t, i) = In(d, i)
        /\ Managed(t) = Managed(d)
    BY <2>1, DeskLooks
  <2>4. t.fullscreen = d.fullscreen /\ t.maximized = d.maximized
    BY <2>1 DEF SameWindows
  <2>5. Travel(s, t)
    BY <2>3, <2>4 DEF Fine, Travel
  <2> QED BY <1>4, <2>2, <2>5 DEF Fine, t
<1> QED BY <1>2, <1>3, <1>4

\* Changing what covers the slots changes nothing about their windows.
LEMMA CoverBase ==
  ASSUME NEW d, Base(d), NEW t \in States,
         t.windows = d.windows, t.minimizedHistory = d.minimizedHistory,
         t.minimized = d.minimized, t.opened = d.opened,
         t.floating = d.floating, t.parent = d.parent,
         \A j \in Slots : {t.fullscreen[j], t.maximized[j]} \subseteq In(d, j) \cup {NoWindow}
  PROVE  /\ Base(t)
         /\ \A j : In(t, j) = In(d, j) /\ SameMembers(d, t, j)
<1>6. \A j : In(t, j) = In(d, j)
  BY DEF In
<1>7. Placed(t)
  BY <1>6 DEF Base, Placed
<1>8. Listed(t)
  BY <1>6 DEF Base, Listed
<1>9. Managed(t) = Managed(d)
  BY <1>6 DEF Managed
<1>10. Base(t)
  BY <1>7, <1>8, <1>9 DEF Base
<1>11. \A j : SameMembers(d, t, j)
  BY <1>6 DEF SameMembers
<1> QED BY <1>6, <1>10, <1>11

\* Either overlay of a slot may come or go.
LEMMA OverlayBase ==
  ASSUME NEW d, Base(d), NEW i \in Slots, NEW o \in In(d, i) \cup {NoWindow},
         NEW t, \/ t = [d EXCEPT !.fullscreen[i] = o]
                \/ t = [d EXCEPT !.maximized[i] = o]
  PROVE  /\ Base(t) /\ SameSeat(d, t) /\ t.focus = d.focus
         /\ \A j \in Slots : In(t, j) = In(d, j)
         /\ \A j \in Slots : SameMembers(d, t, j)
         /\ \A j \in Slots \ {i} : SameSlot(d, t, j)
<1>1. d \in States
  BY DEF Base
<1>2. o \in Windows \cup {NoWindow}
  BY <1>1, InWindows
<1>3. /\ t \in States
      /\ t.windows = d.windows /\ t.minimizedHistory = d.minimizedHistory
      /\ t.minimized = d.minimized /\ t.opened = d.opened
      /\ t.floating = d.floating /\ t.parent = d.parent /\ t.focus = d.focus
      /\ SameSeat(d, t)
  <2>1. CASE t = [d EXCEPT !.fullscreen[i] = o]
    BY <1>1, <1>2, <2>1 DEF States, SameSeat
  <2>2. CASE t = [d EXCEPT !.maximized[i] = o]
    BY <1>1, <1>2, <2>2 DEF States, SameSeat
  <2> QED BY <2>1, <2>2
<1>4. /\ t.fullscreen[i] \in {d.fullscreen[i], o} /\ t.maximized[i] \in {d.maximized[i], o}
      /\ \A j \in Slots \ {i} : /\ t.fullscreen[j] = d.fullscreen[j]
                                /\ t.maximized[j] = d.maximized[j]
  <2>1. CASE t = [d EXCEPT !.fullscreen[i] = o]
    BY <1>1, <2>1 DEF States
  <2>2. CASE t = [d EXCEPT !.maximized[i] = o]
    BY <1>1, <2>2 DEF States
  <2> QED BY <2>1, <2>2
<1>5. \A j \in Slots : {d.fullscreen[j], d.maximized[j]} \subseteq In(d, j) \cup {NoWindow}
  BY DEF Base, Listed
<1>6. \A j \in Slots : {t.fullscreen[j], t.maximized[j]} \subseteq In(d, j) \cup {NoWindow}
  BY <1>4, <1>5
<1>7. Base(t) /\ \A j : In(t, j) = In(d, j) /\ SameMembers(d, t, j)
  BY <1>3, <1>6, CoverBase
<1> QED BY <1>3, <1>4, <1>7 DEF SameSlot

\* A slot that nothing covers shows whatever is not minimised.
LEMMA UncoverShows ==
  ASSUME NEW d, Base(d), NEW i \in Slots
  PROVE  LET t == Uncover(d, i)
         IN /\ Base(t) /\ SameSeat(d, t) /\ t.focus = d.focus
            /\ \A j \in Slots : In(t, j) = In(d, j)
            /\ \A w : Shown(t, i, w) <=> Shown(d, i, w)
            /\ \A w : Shown(d, i, w) => w \in Visible(t, i)
<1> DEFINE t == Uncover(d, i)
<1>1. d \in States
  BY DEF Base
<1>2. t = [d EXCEPT !.fullscreen[i] = NoWindow, !.maximized[i] = NoWindow]
  BY DEF Uncover
<1>3. /\ t \in States
      /\ t.windows = d.windows /\ t.minimizedHistory = d.minimizedHistory
      /\ t.minimized = d.minimized /\ t.opened = d.opened
      /\ t.floating = d.floating /\ t.parent = d.parent
  <2>1. t \in States
    BY <1>1 DEF States, Uncover
  <2>2. /\ t.windows = d.windows /\ t.minimizedHistory = d.minimizedHistory
        /\ t.minimized = d.minimized /\ t.opened = d.opened
        /\ t.floating = d.floating /\ t.parent = d.parent
    BY <1>1, <1>2 DEF States
  <2> QED BY <2>1, <2>2
<1>4. /\ t.fullscreen[i] = NoWindow /\ t.maximized[i] = NoWindow
      /\ \A j \in Slots \ {i} : /\ t.fullscreen[j] = d.fullscreen[j]
                                /\ t.maximized[j] = d.maximized[j]
  BY <1>1, <1>2 DEF States
<1>10. SameSeat(d, t) /\ t.focus = d.focus
  BY <1>1, <1>2 DEF States, SameSeat
<1> HIDE DEF t
<1>11. \A j \in Slots : {t.fullscreen[j], t.maximized[j]} \subseteq In(d, j) \cup {NoWindow}
  BY <1>4 DEF Base, Listed
<1>12. Base(t) /\ \A j : In(t, j) = In(d, j) /\ SameMembers(d, t, j)
  BY <1>3, <1>11, CoverBase
<1>5. \A w : Shown(t, i, w) <=> Shown(d, i, w)
  BY <1>12, MembersLook
<1>6. ~Shown(t, i, NoWindow)
  BY <1>12, InWindows DEF Shown, Base
<1>7. Overlay(t, i) = NoWindow
  BY <1>4, <1>6 DEF Overlay, HasFullscreen
<1>8. \A w : Shown(t, i, w) => w \in Uncovered(t, i, NoWindow)
  BY DEF Uncovered, Shown
<1>9. \A w : Shown(d, i, w) => w \in Visible(t, i)
  BY <1>5, <1>7, <1>8 DEF Visible
<1> QED BY <1>5, <1>9, <1>10, <1>12 DEF t

\* A window of the active slot that is behind an overlay is visible once it is revealed.
LEMMA RevealWorks ==
  ASSUME NEW d, Base(d), Sighted(d), NEW w
  PROVE  LET t == Reveal(d, w)
         IN /\ Fine(d, t) /\ SameSeat(d, t)
            /\ \A i \in Slots : In(t, i) = In(d, i)
            /\ Shown(d, d.active, w) => w \in Visible(t, t.active)
<1> DEFINE u == Uncover(d, d.active)
           t == Reveal(d, w)
<1>1. d \in States /\ d.active \in Slots
  BY DEF Base, States
<1>2. CASE w \in Visible(d, d.active)
  <2>1. t = d
    BY <1>2 DEF Reveal
  <2>2. SameDesk(d, d) /\ SameSeat(d, d)
    BY <1>1, SameDeskRefl DEF SameDesk
  <2>3. Fine(d, d)
    BY <2>2, SameFine
  <2> QED BY <1>2, <2>1, <2>2, <2>3
<1>3. CASE w \notin Visible(d, d.active)
  <2>1. t = Relayout(u)
    BY <1>3 DEF Reveal
  <2>2. /\ Base(u) /\ SameSeat(d, u) /\ u.focus = d.focus
        /\ \A j \in Slots : In(u, j) = In(d, j)
        /\ \A x : Shown(d, d.active, x) => x \in Visible(u, d.active)
    BY <1>1, UncoverShows
  <2> HIDE DEF u, t
  <2>3. Host(u)
    BY <2>2, Zenon DEF Sighted, Host, SameSeat
  <2>4. Kept(d, u, {})
    BY <2>2, KeptSame
  <2>5. Fine(d, t)
    BY <2>1, <2>2, <2>3, <2>4, RelayoutFine
  <2>6. SameDesk(u, t)
    BY <2>1, <2>2, <2>3, RelayoutWorks
  <2>7. SameWindows(u, t) /\ SameSeat(u, t)
    BY <2>6 DEF SameDesk
  <2>8. SameSeat(d, t)
    BY <2>2, <2>7 DEF SameSeat
  <2>9. \A i : In(t, i) = In(u, i) /\ Visible(t, i) = Visible(u, i)
    BY <2>7, DeskLooks
  <2>10. t.active = d.active
    BY <2>8 DEF SameSeat
  <2> QED BY <2>2, <2>5, <2>8, <2>9, <2>10 DEF t
<1> QED BY <1>2, <1>3

\* Fine steps add up where no window moves in the first.
LEMMA FineAfter ==
  ASSUME NEW s, NEW d, NEW t, Base(s), \A i \in Slots : In(d, i) = In(s, i),
         \A i \in Slots : In(t, i) = In(d, i),
         Lit(s) /\ d.shell = s.shell => Lit(d), d.shell = s.shell, Fine(d, t)
  PROVE  Fine(s, t)
<1>1. Kept(s, t, {})
  BY KeptSame
<1>2. t \in States
  BY DEF Fine, Base
<1>3. Travel(s, t)
  BY <1>1, <1>2, KeptTravels
<1>4. Lit(s) /\ t.shell = s.shell => Lit(t)
  BY DEF Fine
<1> QED BY <1>3, <1>4 DEF Fine

-----------------------------------------------------------------------------
(* The steps that move no window                                           *)

\* A fullscreen or maximised window comes or goes.
LEMMA OverlayStep ==
  ASSUME IInv, NEW w, NEW on \in BOOLEAN, SetFullscreen(w, on) \/ SetMaximized(w, on)
  PROVE  Fine(desk, desk')
<1> DEFINE i == SlotOf(desk, w)
           o == IF on THEN w ELSE NoWindow
           f == [desk EXCEPT !.fullscreen[i] = o]
           x == [desk EXCEPT !.maximized[i] = o]
<1>1. Base(desk) /\ Sighted(desk) /\ w \in Managed(desk)
  BY DEF IInv, SetFullscreen, SetMaximized
<1>2. i \in Slots /\ o \in In(desk, i) \cup {NoWindow}
  BY <1>1, SlotOfIn DEF Base
<1>3. desk' = RelayoutIf(f, i) \/ desk' = RelayoutIf(x, i)
  BY DEF SetFullscreen, SetMaximized, Become
<1> HIDE DEF o, i
<1>4. ASSUME NEW t, t = f \/ t = x PROVE Fine(desk, RelayoutIf(t, i))
  <2>1. /\ Base(t) /\ SameSeat(desk, t) /\ t.focus = desk.focus
        /\ \A j \in Slots : In(t, j) = In(desk, j)
        /\ \A j \in Slots \ {i} : SameSlot(desk, t, j)
    BY <1>1, <1>2, <1>4, OverlayBase
  <2>2. Kept(desk, t, {})
    BY <2>1, KeptSame
  <2>3. desk.active \in Slots
    BY <1>1 DEF Base, States
  <2>4. i # desk.active => SameSlot(desk, t, desk.active)
    BY <2>1, <2>3
  <2> QED BY <1>1, <2>1, <2>2, <2>4, RelayoutIfFine
<1>5. Fine(desk, RelayoutIf(f, i)) /\ Fine(desk, RelayoutIf(x, i))
  BY <1>4
<1> QED BY <1>3, <1>5

\* What a slot lists and what is minimised in it change together.
LEMMA MinimizedBase ==
  ASSUME NEW d, Base(d), NEW i \in Slots, NEW w \in In(d, i), NEW t \in States,
         t.windows = d.windows, t.fullscreen = d.fullscreen, t.maximized = d.maximized,
         t.opened = d.opened, t.floating = d.floating, t.parent = d.parent,
         t.minimized \ {w} = d.minimized \ {w},
         IsInjective(t.minimizedHistory[i]),
         ToSet(t.minimizedHistory[i]) = In(d, i) \cap t.minimized,
         \A j \in Slots \ {i} : t.minimizedHistory[j] = d.minimizedHistory[j]
  PROVE  /\ Base(t)
         /\ \A j \in Slots : In(t, j) = In(d, j)
         /\ \A j \in Slots \ {i} : SameSlot(d, t, j)
<1>5. \A j : In(t, j) = In(d, j)
  BY DEF In
<1>6. \A j \in Slots \ {i} : w \notin In(d, j)
  BY DEF Base, Placed
<1>7. Placed(t)
  BY <1>5 DEF Base, Placed
<1>8. Listed(t)
  <2> SUFFICES ASSUME NEW j \in Slots
               PROVE  /\ IsInjective(t.minimizedHistory[j])
                      /\ ToSet(t.minimizedHistory[j]) = In(t, j) \cap t.minimized
                      /\ {t.fullscreen[j], t.maximized[j]} \subseteq In(t, j) \cup {NoWindow}
    BY DEF Listed
  <2>1. /\ IsInjective(d.minimizedHistory[j])
        /\ ToSet(d.minimizedHistory[j]) = In(d, j) \cap d.minimized
        /\ {d.fullscreen[j], d.maximized[j]} \subseteq In(d, j) \cup {NoWindow}
    BY DEF Base, Listed
  <2>2. CASE j = i
    BY <1>5, <2>1, <2>2
  <2>3. CASE j # i
    <3>1. In(d, j) \cap d.minimized = In(d, j) \cap t.minimized
      BY <1>6, <2>3
    <3> QED BY <1>5, <2>1, <2>3, <3>1
  <2> QED BY <2>2, <2>3
<1>9. Managed(t) = Managed(d)
  BY <1>5 DEF Managed
<1>10. w \in d.opened
  BY InWindows DEF Base
<1>11. Base(t)
  BY <1>7, <1>8, <1>9, <1>10 DEF Base
<1>12. \A j \in Slots \ {i} : SameSlot(d, t, j)
  BY <1>5, <1>6 DEF SameSlot, SameMembers
<1> QED BY <1>5, <1>11, <1>12

\* The step that follows from it.
LEMMA MinimizedFine ==
  ASSUME IInv, NEW i \in Slots, NEW w \in In(desk, i),
         NEW M \in SUBSET Windows, NEW h \in Seq(Windows), IsInjective(h),
         M \ {w} = desk.minimized \ {w}, ToSet(h) = In(desk, i) \cap M
  PROVE  Fine(desk, RelayoutIf([desk EXCEPT !.minimized = M, !.minimizedHistory[i] = h], i))
<1> DEFINE t == [desk EXCEPT !.minimized = M, !.minimizedHistory[i] = h]
<1>1. Base(desk) /\ Sighted(desk)
  BY DEF IInv
<1>7. desk \in States
  BY <1>1 DEF Base
<1>8. /\ t \in States
      /\ t.windows = desk.windows /\ t.fullscreen = desk.fullscreen
      /\ t.maximized = desk.maximized /\ t.opened = desk.opened
      /\ t.floating = desk.floating /\ t.parent = desk.parent
  BY <1>7 DEF States
<1>9. /\ t.minimized = M /\ t.minimizedHistory[i] = h
      /\ \A j \in Slots \ {i} : t.minimizedHistory[j] = desk.minimizedHistory[j]
      /\ SameSeat(desk, t) /\ t.focus = desk.focus
  BY <1>7 DEF States, SameSeat
<1> HIDE DEF t
<1>2. /\ Base(t) /\ SameSeat(desk, t) /\ t.focus = desk.focus
      /\ \A j \in Slots : In(t, j) = In(desk, j)
      /\ \A j \in Slots \ {i} : SameSlot(desk, t, j)
  BY <1>1, <1>8, <1>9, MinimizedBase
<1>3. Kept(desk, t, {})
  BY <1>2, KeptSame
<1>4. desk.active \in Slots
  BY <1>1 DEF Base, States
<1>5. i # desk.active => SameSlot(desk, t, desk.active)
  BY <1>2, <1>4
<1>6. Fine(desk, RelayoutIf(t, i))
  BY <1>1, <1>2, <1>3, <1>5, RelayoutIfFine
<1> QED BY <1>6 DEF t

\* A window is minimised.
LEMMA MinimizeStep ==
  ASSUME IInv, NEW w, Minimize(w)
  PROVE  Fine(desk, desk')
<1> DEFINE i == SlotOf(desk, w)
           q == desk.minimizedHistory[i]
           h == Append(Without(q, w), w)
           M == desk.minimized \cup {w}
<1>1. Base(desk) /\ desk \in States /\ w \in Managed(desk)
  BY DEF IInv, Base, Minimize
<1>2. i \in Slots /\ w \in In(desk, i)
  BY <1>1, SlotOfIn DEF Base
<1>3. desk' = RelayoutIf([desk EXCEPT !.minimized = M, !.minimizedHistory[i] = h], i)
  BY DEF Minimize, Become
<1>4. w \in Windows /\ M \in SUBSET Windows
  BY <1>1, <1>2, InWindows DEF States
<1>5. q \in Seq(Windows) /\ IsInjective(q) /\ ToSet(q) = In(desk, i) \cap desk.minimized
  BY <1>1, <1>2 DEF States, Base, Listed
<1> HIDE DEF i, q
<1>6. /\ Without(q, w) \in Seq(Windows) /\ IsInjective(Without(q, w))
      /\ ToSet(Without(q, w)) = ToSet(q) \ {w}
  BY <1>5, WithoutTyped
<1>7. h \in Seq(Windows) /\ IsInjective(h) /\ ToSet(h) = (ToSet(q) \ {w}) \cup {w}
  BY <1>4, <1>6, AppendTyped
<1>8. M \ {w} = desk.minimized \ {w} /\ ToSet(h) = In(desk, i) \cap M
  BY <1>2, <1>5, <1>7
<1> HIDE DEF h, M
<1> QED BY <1>2, <1>3, <1>4, <1>7, <1>8, MinimizedFine

\* A window is restored.
LEMMA RestoreStep ==
  ASSUME IInv, NEW w, Restore(w)
  PROVE  Fine(desk, desk')
<1> DEFINE i == SlotOf(desk, w)
           q == desk.minimizedHistory[i]
           h == Without(q, w)
           M == desk.minimized \ {w}
<1>1. Base(desk) /\ desk \in States /\ w \in Managed(desk)
  BY DEF IInv, Base, Restore
<1>2. i \in Slots /\ w \in In(desk, i)
  BY <1>1, SlotOfIn DEF Base
<1>3. desk' = RelayoutIf([desk EXCEPT !.minimized = M, !.minimizedHistory[i] = h], i)
  BY DEF Restore, Become
<1>4. M \in SUBSET Windows
  BY <1>1 DEF States
<1>5. q \in Seq(Windows) /\ IsInjective(q) /\ ToSet(q) = In(desk, i) \cap desk.minimized
  BY <1>1, <1>2 DEF States, Base, Listed
<1> HIDE DEF i, q
<1>6. h \in Seq(Windows) /\ IsInjective(h) /\ ToSet(h) = ToSet(q) \ {w}
  BY <1>5, WithoutTyped
<1>7. M \ {w} = desk.minimized \ {w} /\ ToSet(h) = In(desk, i) \cap M
  BY <1>5, <1>6
<1> HIDE DEF h, M
<1> QED BY <1>2, <1>3, <1>4, <1>6, <1>7, MinimizedFine

\* All but the last of a list.
LEMMA FrontTyped ==
  ASSUME NEW T, NEW q \in Seq(T), q # <<>>
  PROVE  LET f == SubSeq(q, 1, Len(q) - 1)
         IN /\ f \in Seq(T)
            /\ Len(q) \in Nat /\ Len(q) \in DOMAIN q /\ DOMAIN q = 1 .. Len(q)
            /\ IsInjective(q) => /\ IsInjective(f)
                                 /\ ToSet(f) = ToSet(q) \ {q[Len(q)]}
<1> DEFINE n == Len(q)
           f == SubSeq(q, 1, n - 1)
<1>1. n \in Nat /\ n # 0 /\ DOMAIN q = 1 .. n
  BY EmptySeq, LenProperties
<1>2. n \in 1 .. n /\ n - 1 \in Nat
  BY <1>1
<1>3. \A k : k \in 1 .. n <=> k \in 1 .. n - 1 \/ k = n
  BY <1>1
<1>4. \A k \in 1 .. n - 1 : k # n /\ q[k] \in T
  <2>1. \A k \in 1 .. n : q[k] \in T
    BY <1>1
  <2>2. \A m \in Nat : \A k \in 1 .. m - 1 : k # m
    OBVIOUS
  <2>3. \A k \in 1 .. n - 1 : k # n
    BY <1>1, <2>2
  <2> QED BY <1>3, <2>1, <2>3
<1>5. f = [k \in 1 .. n - 1 |-> q[k]]
  BY <1>1, <1>2
<1>6. f \in Seq(T) /\ DOMAIN f = 1 .. n - 1 /\ \A k \in 1 .. n - 1 : f[k] = q[k]
  BY <1>2, <1>4, <1>5
<1> HIDE DEF n, f
<1>7. ASSUME IsInjective(q)
      PROVE  IsInjective(f) /\ ToSet(f) = ToSet(q) \ {q[n]}
  <2>1. \A k, l \in 1 .. n : q[k] = q[l] => k = l
    BY <1>1, <1>7 DEF IsInjective
  <2>2. IsInjective(f)
    BY <1>3, <1>6, <2>1 DEF IsInjective
  <2>3. ToSet(q) = {q[k] : k \in 1 .. n} /\ ToSet(f) = {q[k] : k \in 1 .. n - 1}
    BY <1>1, <1>6 DEF ToSet
  <2>4. ASSUME NEW x \in ToSet(f) PROVE x \in ToSet(q) \ {q[n]}
    BY <1>2, <1>3, <1>4, <2>1, <2>3
  <2>5. ASSUME NEW x \in ToSet(q) \ {q[n]} PROVE x \in ToSet(f)
    BY <1>3, <2>3
  <2> QED BY <2>2, <2>4, <2>5
<1> QED BY <1>1, <1>2, <1>6, <1>7 DEF n, f

\* The last minimised window of the active slot is restored.
LEMMA RestoreLastStep ==
  ASSUME IInv, RestoreLast
  PROVE  Fine(desk, desk')
<1> DEFINE i == desk.active
           q == desk.minimizedHistory[i]
           hits == {k \in DOMAIN q : q[k] \in In(desk, i) \cap desk.minimized}
           k == IF hits = {} THEN 1 ELSE Max(hits)
           f == SubSeq(q, 1, k - 1)
           t == [desk EXCEPT !.minimizedHistory[i] = f]
           M == t.minimized \ {q[k]}
           u == [t EXCEPT !.minimized = M]
<1>1. Base(desk) /\ desk \in States /\ i \in Slots
  BY DEF IInv, Base, States
<1>2. q \in Seq(Windows) /\ IsInjective(q) /\ ToSet(q) = In(desk, i) \cap desk.minimized
  BY <1>1 DEF States, Base, Listed
<1>3. hits = DOMAIN q
  BY <1>2 DEF ToSet
<1>4. desk' = IF hits = {} THEN t ELSE Relayout(u)
  BY DEF RestoreLast, Become
<1>5. CASE q = <<>>
  <2>1. hits = {} /\ k = 1
    BY <1>3, <1>5
  <2>2. f = <<>>
    BY <1>5, <2>1
  <2>3. t = [desk EXCEPT !.minimizedHistory[i] = q]
    BY <1>5, <2>2
  <2>4. t = desk
    BY <1>1, <2>3 DEF States
  <2>5. desk' = desk
    BY <1>4, <2>1, <2>4
  <2>6. SameDesk(desk, desk')
    BY <1>1, <2>5, SameDeskRefl
  <2> QED BY <1>1, <2>5, <2>6, SameFine DEF IInv
<1>6. CASE q # <<>>
  <2> DEFINE n == Len(q)
             g == SubSeq(q, 1, n - 1)
             N == desk.minimized \ {q[n]}
             v == [desk EXCEPT !.minimized = N, !.minimizedHistory[i] = g]
  <2>1. /\ g \in Seq(Windows)
        /\ n \in Nat /\ n \in DOMAIN q /\ DOMAIN q = 1 .. n
        /\ IsInjective(g) /\ ToSet(g) = ToSet(q) \ {q[n]}
    BY <1>2, <1>6, FrontTyped
  <2>2. hits # {}
    BY <1>3, <2>1
  <2>3. k = n
    <3>1. hits = 1 .. n /\ n \in 1 .. n
      BY <1>3, <2>1
    <3>2. Max(1 .. n) = n
      <4>1. \A x \in 1 .. n : (\A y \in 1 .. n : x >= y) <=> x = n
        BY <2>1
      <4>2. Max(1 .. n) = CHOOSE x \in 1 .. n : \A y \in 1 .. n : x >= y
        BY DEF Max
      <4> HIDE DEF n
      <4> QED BY <3>1, <4>1, <4>2
    <3> QED BY <2>2, <3>1, <3>2
  <2>4. u = v
    <3>1. t = [desk EXCEPT !.minimizedHistory[i] = g] /\ t.minimized = desk.minimized /\ M = N
      BY <1>1, <2>3 DEF States
    <3> HIDE DEF t, M, g, N
    <3> QED BY <1>1, <3>1 DEF States
  <2>5. desk' = Relayout(v)
    BY <1>4, <2>2, <2>4
  <2>6. q[n] \in In(desk, i) /\ q[n] \in Windows
    BY <1>1, <1>2, <2>1, InWindows DEF ToSet
  <2>7. N \in SUBSET Windows /\ N \ {q[n]} = desk.minimized \ {q[n]}
    BY <1>1 DEF States
  <2>8. ToSet(g) = In(desk, i) \cap N
    BY <1>2, <2>1
  <2> HIDE DEF n, g, N, q
  <2>9. Fine(desk, RelayoutIf(v, i))
    BY <1>1, <2>1, <2>6, <2>7, <2>8, MinimizedFine
  <2>10. v.active = i
    BY <1>1 DEF States
  <2>11. RelayoutIf(v, i) = Relayout(v)
    BY <2>10 DEF RelayoutIf
  <2> QED BY <2>5, <2>9, <2>11
<1> QED BY <1>5, <1>6

\* Another workspace becomes the active one.
LEMMA SwitchStep ==
  ASSUME IInv, NEW i \in Slots, SwitchWorkspace(i)
  PROVE  Fine(desk, desk')
<1> DEFINE t == Switch(desk, i)
<1>1. Base(desk) /\ Host(desk)
  BY DEF IInv, Sighted
<1>2. /\ SameWindows(desk, t) /\ Base(t) /\ Sighted(t) /\ Lit(t)
  BY <1>1, SwitchWorks
<1>3. desk' = t
  BY DEF SwitchWorkspace, Become
<1> HIDE DEF t
<1>4. Kept(desk, t, {})
  BY <1>2, KeptSameWindows
<1>5. Travel(desk, t)
  BY <1>1, <1>2, <1>4, KeptTravels DEF Base
<1> QED BY <1>2, <1>3, <1>5 DEF Fine

\* A window is revealed and focused, by a walk or in a direction.
LEMMA RevealStep ==
  ASSUME IInv, NEW w, NEW remember \in BOOLEAN,
         desk' = ApplyFocus(Reveal(desk, w), w, remember)
  PROVE  Fine(desk, desk')
<1>1. Base(desk) /\ Sighted(desk)
  BY DEF IInv
<1>2. Fine(desk, Reveal(desk, w))
  BY <1>1, RevealWorks
<1> QED BY <1>1, <1>2, FocusFine

\* focus_window(): a switch, an overlay that goes, and the window has the keyboard.
LEMMA FocusWindowStep ==
  ASSUME IInv, NEW w, FocusWindow(w)
  PROVE  /\ Fine(desk, desk')
         /\ desk.hostFocused => /\ ShellExclusive(desk') => desk'.focus = Shell
                                /\ ~ShellExclusive(desk') => desk'.focus = w
<1> DEFINE i == SlotOf(desk, w)
           s == IF i = desk.active THEN desk ELSE Switch(desk, i)
           r == Reveal(s, w)
           t == ApplyFocus(r, w, TRUE)
<1>1. Base(desk) /\ Sighted(desk) /\ Host(desk) /\ w \in Managed(desk) /\ Shown(desk, i, w)
  BY DEF IInv, Sighted, FocusWindow, CanFocus
<1>2. i \in Slots
  BY <1>1, SlotOfIn DEF Base
<1>3. desk' = t
  BY DEF FocusWindow, Become
<1>4. /\ SameWindows(desk, s) /\ Base(s) /\ Sighted(s) /\ (Lit(desk) => Lit(s))
      /\ s.active = i /\ s.hostFocused = desk.hostFocused /\ s.shell = desk.shell
  <2>1. CASE i = desk.active
    <3>1. s = desk
      BY <2>1
    <3> QED BY <1>1, <2>1, <3>1 DEF SameWindows
  <2>2. CASE i # desk.active
    <3>1. s = Switch(desk, i)
      BY <2>2
    <3> HIDE DEF i
    <3> QED BY <1>1, <1>2, <3>1, SwitchWorks
  <2> QED BY <2>1, <2>2
<1> HIDE DEF i, s
<1>5. Shown(s, s.active, w)
  BY <1>1, <1>4, DeskLooks
<1>6. /\ Fine(s, r) /\ SameSeat(s, r)
      /\ \A j \in Slots : In(r, j) = In(s, j)
      /\ w \in Visible(r, r.active)
  BY <1>4, <1>5, RevealWorks
<1> HIDE DEF r
<1>7. \A j \in Slots : In(s, j) = In(desk, j)
  BY <1>4, DeskLooks
<1>8. Fine(desk, r)
  BY <1>1, <1>4, <1>6, <1>7, FineAfter
<1>9. Fine(desk, t)
  BY <1>1, <1>8, FocusFine
<1>10. ASSUME desk.hostFocused
       PROVE  /\ ShellExclusive(t) => t.focus = Shell
              /\ ~ShellExclusive(t) => t.focus = w
  <2>1. r.hostFocused
    <3>1. r.hostFocused = s.hostFocused
      BY <1>6 DEF SameSeat
    <3> QED BY <1>4, <1>10, <3>1
  <2>2. Base(r)
    BY <1>6 DEF Fine
  <2>3. /\ SameDesk(r, t)
        /\ ShellExclusive(r) => t.focus = Shell
        /\ ~ShellExclusive(r) => t.focus = w
    BY <1>6, <2>1, <2>2, ApplyFocusWorks
  <2>4. ShellExclusive(t) <=> ShellExclusive(r)
    BY <2>3, DeskLooks DEF SameDesk
  <2> QED BY <2>3, <2>4
<1> HIDE DEF t
<1> QED BY <1>3, <1>9, <1>10

\* Two tiles change places.
LEMMA SwappedWorks ==
  ASSUME IInv, NEW w, SwapTiles(w)
  PROVE  \E t : /\ desk' = Relayout(t)
                /\ Base(t) /\ Host(t) /\ Kept(desk, t, {})
                /\ t.focusHistory = desk.focusHistory
                /\ \A j \in Slots : In(t, j) = In(desk, j)
<1> DEFINE i == desk.active
           f == desk.focus
           q == desk.windows[i]
           Swap(x) == IF x = w THEN f ELSE IF x = f THEN w ELSE x
           p == [k \in DOMAIN q |-> Swap(q[k])]
           t == [desk EXCEPT !.windows[i] = p]
<1>1. Base(desk) /\ Sighted(desk) /\ desk \in States /\ i \in Slots
  BY DEF IInv, Base, States
<1>2. w \in In(desk, i) /\ f \in In(desk, i)
  BY VisibleIn DEF SwapTiles
<1>3. desk' = Relayout(t)
  BY DEF SwapTiles, Become
<1>4. w \in Windows /\ f \in Windows
  BY <1>1, <1>2, InWindows
<1>5. q \in Seq(Windows) /\ IsInjective(q) /\ ToSet(q) = In(desk, i)
  BY <1>1 DEF States, Base, Placed, In
<1> HIDE DEF f, q
<1>6. Len(q) \in Nat /\ DOMAIN q = 1 .. Len(q) /\ \A k \in DOMAIN q : q[k] \in Windows
  BY <1>5, LenProperties
<1>7. /\ \A x \in Windows : Swap(x) \in Windows /\ Swap(Swap(x)) = x
      /\ \A x \in In(desk, i) : Swap(x) \in In(desk, i)
  BY <1>2, <1>4
<1> HIDE DEF Swap
<1>8. DOMAIN p = DOMAIN q /\ \A k \in DOMAIN q : p[k] = Swap(q[k])
  OBVIOUS
<1>9. p \in [1 .. Len(q) -> Windows]
  BY <1>6, <1>7
<1>10. p \in Seq(Windows)
  BY <1>6, <1>9
<1> HIDE DEF p
<1>11. \A k, l \in DOMAIN q : p[k] = p[l] => k = l
  <2> SUFFICES ASSUME NEW k \in DOMAIN q, NEW l \in DOMAIN q, p[k] = p[l] PROVE k = l
    OBVIOUS
  <2>1. Swap(q[k]) = Swap(q[l])
    BY <1>8
  <2>2. q[k] = q[l]
    BY <1>6, <1>7, <2>1
  <2> QED BY <1>5, <2>2 DEF IsInjective
<1>12. IsInjective(p)
  BY <1>8, <1>11 DEF IsInjective
<1>13. ToSet(p) = ToSet(q)
  <2>1. ASSUME NEW x \in ToSet(p) PROVE x \in ToSet(q)
    <3>1. PICK k \in DOMAIN q : x = Swap(q[k])
      BY <1>8 DEF ToSet
    <3>2. q[k] \in In(desk, i)
      BY <1>5 DEF ToSet
    <3> QED BY <1>5, <1>7, <3>1, <3>2
  <2>2. ASSUME NEW x \in ToSet(q) PROVE x \in ToSet(p)
    <3>1. Swap(x) \in ToSet(q) /\ x \in Windows
      BY <1>1, <1>5, <1>7, InWindows
    <3>2. PICK k \in DOMAIN q : Swap(x) = q[k]
      BY <3>1 DEF ToSet
    <3>3. p[k] = x
      BY <1>7, <1>8, <3>1, <3>2
    <3> QED BY <1>8, <3>3 DEF ToSet
  <2> QED BY <2>1, <2>2
<1>14. /\ t \in States /\ t.windows[i] = p
       /\ \A j \in Slots \ {i} : t.windows[j] = desk.windows[j]
       /\ t.minimizedHistory = desk.minimizedHistory /\ t.minimized = desk.minimized
       /\ t.fullscreen = desk.fullscreen /\ t.maximized = desk.maximized
       /\ t.opened = desk.opened /\ t.focusHistory = desk.focusHistory
  BY <1>1, <1>10 DEF States
<1>15. t.focus = desk.focus /\ SameSeat(desk, t)
  BY <1>1 DEF States, SameSeat
<1> HIDE DEF t
<1>16. \A j \in Slots : In(t, j) = In(desk, j)
  <2> SUFFICES ASSUME NEW j \in Slots PROVE In(t, j) = In(desk, j)
    OBVIOUS
  <2>1. CASE j = i
    BY <1>5, <1>13, <1>14, <2>1 DEF In
  <2>2. CASE j # i
    BY <1>14, <2>2 DEF In
  <2> QED BY <2>1, <2>2
<1>17. Placed(t)
  BY <1>1, <1>12, <1>14, <1>16 DEF Base, Placed
<1>18. Listed(t)
  BY <1>1, <1>14, <1>16 DEF Base, Listed
<1>19. Managed(t) = Managed(desk)
  BY <1>16 DEF Managed
<1>20. Base(t)
  BY <1>1, <1>14, <1>17, <1>18, <1>19 DEF Base
<1>21. Host(t)
  BY <1>1, <1>15, Zenon DEF Sighted, Host, SameSeat
<1>22. Kept(desk, t, {})
  BY <1>16, KeptSame
<1> QED BY <1>3, <1>14, <1>16, <1>20, <1>21, <1>22

\* ... and are laid out again.
LEMMA SwapStep ==
  ASSUME IInv, NEW w, SwapTiles(w)
  PROVE  Fine(desk, desk')
<1>1. PICK t : desk' = Relayout(t) /\ Base(t) /\ Host(t) /\ Kept(desk, t, {})
  BY SwappedWorks
<1> QED BY <1>1, RelayoutFine DEF IInv

\* The base does not depend on parents, floating windows or rules.
LEMMA BaseSame ==
  ASSUME NEW s, NEW t \in States, Base(s),
         t.windows = s.windows, t.minimizedHistory = s.minimizedHistory,
         t.fullscreen = s.fullscreen, t.maximized = s.maximized,
         t.minimized = s.minimized, t.opened = s.opened
  PROVE  Base(t) /\ \A i : In(t, i) = In(s, i)
<1>1. \A i : In(t, i) = In(s, i)
  BY DEF In
<1>2. Managed(t) = Managed(s)
  BY <1>1 DEF Managed
<1>3. Placed(t) /\ Listed(t)
  BY <1>1 DEF Base, Placed, Listed
<1> QED BY <1>1, <1>2, <1>3 DEF Base

\* The focused window floats, or no longer does.
LEMMA FloatStep ==
  ASSUME IInv, ToggleFloating
  PROVE  Fine(desk, desk')
<1> DEFINE w == desk.focus
           tile == w \in desk.floating
           F == IF tile THEN desk.floating \ {w} ELSE desk.floating \cup {w}
           o == IF tile THEN "tiled" ELSE "floating"
           t == [desk EXCEPT !.floating = F, !.override[w] = o]
<1>1. Base(desk) /\ Sighted(desk) /\ desk \in States /\ desk.active \in Slots
  BY DEF IInv, Base, States
<1>2. w \in Windows
  BY <1>1, VisibleIn, InWindows DEF ToggleFloating
<1>3. desk' = ApplyFocus(Relayout(t), w, TRUE)
  BY DEF ToggleFloating, Become
<1>4. F \in SUBSET Windows /\ o \in {"none", "tiled", "floating"}
  BY <1>1, <1>2 DEF States
<1> HIDE DEF F, o, w
<1>5. /\ t \in States /\ t.windows = desk.windows
      /\ t.minimizedHistory = desk.minimizedHistory /\ t.minimized = desk.minimized
      /\ t.fullscreen = desk.fullscreen /\ t.maximized = desk.maximized
      /\ t.opened = desk.opened
  BY <1>1, <1>2, <1>4 DEF States
<1>6. t.focus = desk.focus /\ SameSeat(desk, t)
  BY <1>1 DEF States, SameSeat
<1> HIDE DEF t
<1>7. Base(t) /\ \A i : In(t, i) = In(desk, i)
  BY <1>1, <1>5, BaseSame
<1>8. Host(t)
  BY <1>1, <1>6, Zenon DEF Sighted, Host, SameSeat
<1>9. Kept(desk, t, {})
  BY <1>7, KeptSame
<1>10. Fine(desk, Relayout(t))
  BY <1>1, <1>7, <1>8, <1>9, RelayoutFine
<1> QED BY <1>1, <1>3, <1>10, FocusFine

\* The keyboard goes where the pointer is.
LEMMA PointStep ==
  ASSUME IInv, NEW hit \in Windows \cup {Shell, Nobody}, PointAt(hit)
  PROVE  Fine(desk, desk')
<1>1. Base(desk) /\ Sighted(desk) /\ Host(desk) /\ desk \in States /\ desk.active \in Slots
  BY DEF IInv, Base, States, Sighted
<1>2. /\ hit = Shell => ShellVisible(desk)
      /\ hit \in Windows => hit \in Visible(desk, desk.active)
  BY DEF PointAt
<1>3. CASE ~desk.hostFocused
  <2>1. desk' = [desk EXCEPT !.focus = Nobody]
    BY <1>3, Zenon DEF PointAt, Become
  <2>2. SameDesk(desk, desk') /\ desk'.focus = Nobody
    BY <1>1, <2>1, FocusSame
  <2>3. desk'.hostFocused = desk.hostFocused
    BY <2>2 DEF SameDesk, SameSeat
  <2>4. Sighted(desk')
    BY <1>3, <2>2, <2>3 DEF Sighted, Host
  <2>5. Lit(desk')
    BY <2>2, WindowAssumption DEF Lit
  <2> QED BY <1>1, <2>2, <2>4, <2>5, SameFine
<1>4. CASE desk.hostFocused /\ (ShellExclusive(desk) \/ hit = Shell)
  <2>1. desk' = [desk EXCEPT !.focus = Shell]
    BY <1>4, Zenon DEF PointAt, Become, FocusShell
  <2>2. SameDesk(desk, desk') /\ desk'.focus = Shell
    BY <1>1, <2>1, FocusSame
  <2>3. ShellVisible(desk)
    BY <1>2, <1>4 DEF ShellExclusive
  <2>4. Sighted(desk') /\ Lit(desk')
    BY <1>1, <1>4, <2>2, <2>3, FocusSighted
  <2> QED BY <1>1, <2>2, <2>4, SameFine
<1>5. CASE desk.hostFocused /\ ~(ShellExclusive(desk) \/ hit = Shell)
  <2>1. CASE hit = Nobody
    <3>1. desk' = RestoreFocus(desk)
      BY <1>5, <2>1, Zenon DEF PointAt, Become
    <3>2. SameDesk(desk, desk') /\ Sighted(desk') /\ Lit(desk')
      BY <1>1, <3>1, RestoreFocusWorks
    <3> QED BY <1>1, <3>2, SameFine
  <2>2. CASE hit # Nobody
    <3> DEFINE r == Remember(desk, hit)
    <3>1. desk' = [r EXCEPT !.focus = hit]
      BY <1>5, <2>2, Zenon DEF PointAt, Become
    <3>2. SameDesk(desk, r)
      BY <1>1, RememberSame
    <3> HIDE DEF r
    <3>3. r \in States
      BY <3>2 DEF SameDesk
    <3>4. SameDesk(r, desk') /\ desk'.focus = hit
      BY <3>1, <3>3, FocusSame
    <3>5. SameDesk(desk, desk')
      BY <3>2, <3>4, SameDeskTrans
    <3>6. hit \in Visible(desk, desk.active)
      BY <1>2, <1>5, <2>2
    <3>7. Sighted(desk') /\ Lit(desk')
      BY <1>1, <1>5, <3>4, <3>5, <3>6, FocusSighted
    <3> QED BY <1>1, <3>5, <3>7, SameFine
  <2> QED BY <2>1, <2>2
<1> QED BY <1>3, <1>4, <1>5

\* The shell surface changes, comes or goes.
LEMMA ShellStep ==
  ASSUME IInv, NEW shell \in ShellStates, ShellChanges(shell)
  PROVE  Fine(desk, desk')
<1> DEFINE t == [desk EXCEPT !.shell = shell]
           laid == IF "none" \in {shell, desk.shell} THEN Relayout(t) ELSE t
           Ends(d) == IF ShellExclusive(d) THEN FocusShell(d)
                      ELSE IF shell = "none" /\ d.focus = Shell THEN RestoreFocus(d)
                      ELSE d
<1>1. Base(desk) /\ Sighted(desk) /\ Host(desk) /\ desk \in States /\ shell # desk.shell
  BY DEF IInv, Base, Sighted, ShellChanges
<1>2. PICK d \in {laid, Relayout(t)} : desk' = Ends(d)
  BY DEF ShellChanges, Become
<1>3. shell \in Layers
  BY WindowAssumption DEF Layers
<1>4. t \in States /\ SameWindows(desk, t)
  BY <1>1, <1>3 DEF States, SameWindows
<1>5. /\ t.active = desk.active /\ t.hostFocused = desk.hostFocused /\ t.focus = desk.focus
      /\ t.shell = shell
  BY <1>1 DEF States
<1> HIDE DEF t
<1>6. Base(t)
  BY <1>1, <1>4, DeskBase
<1>7. Host(t)
  BY <1>1, <1>5, Zenon DEF Host
<1>8. SameDesk(t, d) /\ Sighted(d) /\ Host(d)
  <2>1. CASE d = Relayout(t)
    BY <1>6, <1>7, <2>1, RelayoutWorks DEF Sighted
  <2>2. CASE d # Relayout(t)
    <3>1. d = t /\ shell # "none"
      BY <2>2, <1>2
    <3>2. Visible(t, desk.active) = Visible(desk, desk.active)
      BY <1>4, DeskLooks
    <3>3. Sighted(t)
      BY <1>1, <1>5, <1>7, <3>1, <3>2, Zenon DEF Sighted
    <3> QED BY <1>4, <1>7, <3>1, <3>3, SameDeskRefl
  <2> QED BY <2>1, <2>2
<1> HIDE DEF laid
<1>9. SameWindows(t, d) /\ SameSeat(t, d) /\ d \in States
  BY <1>8 DEF SameDesk
<1>10. Base(d)
  BY <1>6, <1>9, DeskBase
<1>11. SameDesk(d, desk') /\ Sighted(desk')
  <2>1. CASE ShellExclusive(d)
    <3>1. desk' = [d EXCEPT !.focus = Shell]
      BY <1>2, <2>1 DEF FocusShell
    <3>2. SameDesk(d, desk') /\ desk'.focus = Shell
      BY <1>9, <3>1, FocusSame
    <3>3. ShellVisible(d) /\ d.hostFocused
      BY <2>1 DEF ShellExclusive
    <3> QED BY <1>10, <3>2, <3>3, FocusSighted
  <2>2. CASE ~ShellExclusive(d) /\ shell = "none" /\ d.focus = Shell
    <3>1. desk' = RestoreFocus(d)
      BY <1>2, <2>2
    <3> QED BY <1>8, <1>10, <3>1, RestoreFocusWorks
  <2>3. CASE ~ShellExclusive(d) /\ ~(shell = "none" /\ d.focus = Shell)
    <3>1. desk' = d
      BY <1>2, <2>3
    <3> QED BY <1>8, <1>9, <3>1, SameDeskRefl
  <2> QED BY <2>1, <2>2, <2>3
<1>12. SameWindows(d, desk') /\ SameSeat(d, desk') /\ desk' \in States
  BY <1>11 DEF SameDesk
<1>13. SameWindows(desk, desk')
  BY <1>4, <1>9, <1>12 DEF SameWindows
<1>14. desk'.shell # desk.shell
  BY <1>1, <1>5, <1>9, <1>12 DEF SameSeat
<1>15. Base(desk')
  BY <1>1, <1>12, <1>13, DeskBase
<1>16. Kept(desk, desk', {})
  BY <1>13, KeptSameWindows
<1>17. Travel(desk, desk')
  BY <1>1, <1>12, <1>16, KeptTravels
<1> QED BY <1>11, <1>14, <1>15, <1>17 DEF Fine

\* The host takes the input away, or gives it back.
LEMMA HostStep ==
  ASSUME IInv, NEW on \in BOOLEAN, HostFocus(on)
  PROVE  Fine(desk, desk')
<1>1. Base(desk) /\ desk \in States
  BY DEF IInv, Base
<1>2. CASE on
  <2> DEFINE t == [desk EXCEPT !.hostFocused = TRUE]
  <2>1. desk' = RestoreFocus(t)
    BY <1>2, Zenon DEF HostFocus, Become
  <2>2. t \in States /\ SameWindows(desk, t) /\ t.shell = desk.shell
    BY <1>1 DEF States, SameWindows
  <2>3. t.hostFocused = TRUE
    BY <1>1, Zenon DEF States
  <2> HIDE DEF t
  <2>4. Base(t)
    BY <1>1, <2>2, DeskBase
  <2>5. Host(t)
    BY <2>3, Zenon DEF Host
  <2>6. SameDesk(t, desk') /\ Sighted(desk') /\ Lit(desk')
    BY <2>1, <2>4, <2>5, RestoreFocusWorks
  <2>7. SameWindows(desk, desk') /\ desk' \in States
    BY <2>2, <2>6 DEF SameDesk, SameWindows
  <2>8. Base(desk')
    BY <1>1, <2>7, DeskBase
  <2>9. Kept(desk, desk', {})
    BY <2>7, KeptSameWindows
  <2>10. Travel(desk, desk')
    BY <1>1, <2>7, <2>9, KeptTravels
  <2> QED BY <2>6, <2>8, <2>10 DEF Fine
<1>3. CASE ~on
  <2>1. desk' = [desk EXCEPT !.hostFocused = FALSE, !.focus = Nobody]
    BY <1>3, Zenon DEF HostFocus, Become
  <2>2. desk' \in States /\ SameWindows(desk, desk') /\ desk'.focus = Nobody
    BY <1>1, <2>1 DEF States, SameWindows
  <2>3. desk'.hostFocused = FALSE
    BY <1>1, <2>1, Zenon DEF States
  <2>4. Sighted(desk')
    BY <2>2, <2>3, Zenon DEF Sighted, Host
  <2>5. Lit(desk')
    BY <2>2, WindowAssumption DEF Lit
  <2>6. Base(desk')
    BY <1>1, <2>2, DeskBase
  <2>7. Kept(desk, desk', {})
    BY <2>2, KeptSameWindows
  <2>8. Travel(desk, desk')
    BY <1>1, <2>2, <2>7, KeptTravels
  <2> QED BY <2>4, <2>5, <2>6, <2>8 DEF Fine
<1> QED BY <1>2, <1>3

\* The windows are laid out again.
LEMMA LayOutStep ==
  ASSUME IInv, LayOutAgain
  PROVE  Fine(desk, desk')
<1>1. Base(desk) /\ Host(desk)
  BY DEF IInv, Sighted
<1>2. Kept(desk, desk, {})
  BY DEF Kept
<1> QED BY <1>1, <1>2, RelayoutFine DEF LayOutAgain, Become

-----------------------------------------------------------------------------
(* Windows changing slots                                                  *)

\* What leaves one sequence for the end of another.
LEMMA CarryTyped ==
  ASSUME NEW f \in [Slots -> Seq(Windows)], NEW i \in Slots, NEW j \in Slots \ {i},
         NEW F \in SUBSET Windows
  PROVE  LET g == Carry(f, i, j, F)
         IN /\ g \in [Slots -> Seq(Windows)]
            /\ ToSet(g[i]) = ToSet(f[i]) \ F
            /\ ToSet(g[j]) = ToSet(f[j]) \cup (ToSet(f[i]) \cap F)
            /\ \A k \in Slots \ {i, j} : g[k] = f[k]
            /\ IsInjective(f[i]) => IsInjective(g[i])
            /\ IsInjective(f[i]) /\ IsInjective(f[j]) /\ ToSet(f[i]) \cap ToSet(f[j]) = {}
                 => IsInjective(g[j])
<1> DEFINE p == Only(f[i], Windows \ F)
           o == Only(f[i], F)
           q == f[j] \o o
           g == Carry(f, i, j, F)
<1>1. f[i] \in Seq(Windows) /\ f[j] \in Seq(Windows)
  OBVIOUS
<1>2. /\ p \in Seq(Windows) /\ ToSet(p) = ToSet(f[i]) \cap (Windows \ F)
      /\ IsInjective(f[i]) => IsInjective(p)
  BY <1>1, OnlyTyped
<1>3. /\ o \in Seq(Windows) /\ ToSet(o) = ToSet(f[i]) \cap F
      /\ IsInjective(f[i]) => IsInjective(o)
  BY <1>1, OnlyTyped
<1>4. ToSet(f[i]) \subseteq Windows
  <2>1. f[i] \in [1 .. Len(f[i]) -> Windows]
    BY <1>1, LenProperties
  <2> QED BY <2>1 DEF ToSet
<1>5. g = [f EXCEPT ![i] = p, ![j] = q]
  BY DEF Carry
<1> HIDE DEF p, o, g
<1>6. /\ q \in Seq(Windows) /\ ToSet(q) = ToSet(f[j]) \cup ToSet(o)
      /\ IsInjective(f[j]) /\ IsInjective(o) /\ ToSet(f[j]) \cap ToSet(o) = {} => IsInjective(q)
  BY <1>1, <1>3, ConcatTyped
<1> HIDE DEF q
<1>7. /\ g \in [Slots -> Seq(Windows)] /\ g[i] = p /\ g[j] = q
      /\ \A k \in Slots \ {i, j} : g[k] = f[k]
  BY <1>2, <1>5, <1>6
<1>8. ToSet(p) = ToSet(f[i]) \ F
  BY <1>2, <1>4
<1>9. ASSUME IsInjective(f[i]), IsInjective(f[j]), ToSet(f[i]) \cap ToSet(f[j]) = {}
      PROVE  IsInjective(q)
  <2>1. ToSet(f[j]) \cap ToSet(o) = {}
    BY <1>3, <1>9
  <2> QED BY <1>3, <1>6, <1>9, <2>1
<1>10. ToSet(q) = ToSet(f[j]) \cup (ToSet(f[i]) \cap F)
  BY <1>3, <1>6
<1> QED BY <1>2, <1>7, <1>8, <1>9, <1>10 DEF g

\* The windows F of slot i are those of slot j in t, with their overlays and their places
\* among the minimised, and nothing else that Base knows of has changed.
Moved(s, t, i, j, F) ==
  /\ t \in States /\ SameSeat(s, t) /\ t.focus = s.focus
  /\ t.minimized = s.minimized /\ t.opened = s.opened
  /\ t.floating = s.floating /\ t.parent = s.parent
  /\ In(t, i) = In(s, i) \ F /\ In(t, j) = In(s, j) \cup F
  /\ \A k \in Slots \ {i, j} : /\ In(t, k) = In(s, k)
                               /\ t.fullscreen[k] = s.fullscreen[k]
                               /\ t.maximized[k] = s.maximized[k]
  /\ \A k \in Slots : /\ IsInjective(t.windows[k]) /\ IsInjective(t.minimizedHistory[k])
                      /\ ToSet(t.minimizedHistory[k]) = In(t, k) \cap s.minimized
  /\ t.fullscreen[i] = IF s.fullscreen[i] \in F THEN NoWindow ELSE s.fullscreen[i]
  /\ t.fullscreen[j] = IF s.fullscreen[i] \in F THEN s.fullscreen[i] ELSE s.fullscreen[j]
  /\ t.maximized[i] = IF s.maximized[i] \in F THEN NoWindow ELSE s.maximized[i]
  /\ t.maximized[j] = IF s.maximized[i] \in F THEN s.maximized[i] ELSE s.maximized[j]

\* Windows that move stay together, covered and listed, and disturb no third slot.
LEMMA MovedWorks ==
  ASSUME NEW s, NEW t, NEW i \in Slots, NEW j \in Slots \ {i}, NEW F \in SUBSET In(s, i),
         Base(s), Moved(s, t, i, j, F)
  PROVE  /\ Base(t) /\ Kept(s, t, F) /\ Managed(t) = Managed(s)
         /\ SameSeat(s, t) /\ t.focus = s.focus
         /\ \A k \in Slots \ {i, j} : SameSlot(s, t, k)
         /\ \A w \in F : SlotOf(t, w) = j
         /\ \A w \in Managed(s) \ F : SlotOf(t, w) = SlotOf(s, w)
<1>1. /\ t \in States /\ SameSeat(s, t) /\ t.focus = s.focus
      /\ t.minimized = s.minimized /\ t.opened = s.opened
      /\ t.floating = s.floating /\ t.parent = s.parent
  BY DEF Moved
<1>2. /\ In(t, i) = In(s, i) \ F /\ In(t, j) = In(s, j) \cup F
      /\ \A k \in Slots \ {i, j} : In(t, k) = In(s, k)
  BY DEF Moved
<1>3. \A k \in Slots : \A l \in Slots \ {k} : In(s, k) \cap In(s, l) = {}
  BY DEF Base, Placed
<1>4. \A k \in Slots : \A l \in Slots \ {k} : In(t, k) \cap In(t, l) = {}
  <2> SUFFICES ASSUME NEW k \in Slots, NEW l \in Slots \ {k}, NEW x,
                      x \in In(t, k), x \in In(t, l)
               PROVE  FALSE
    OBVIOUS
  <2>1. ASSUME NEW m \in Slots, x \in In(t, m)
        PROVE  IF x \in F THEN m = j ELSE x \in In(s, m)
    <3>1. F \cap In(s, j) = {}
      BY <1>3
    <3>2. \A n \in Slots \ {i, j} : F \cap In(s, n) = {}
      BY <1>3
    <3> QED BY <1>2, <2>1, <3>1, <3>2
  <2> QED BY <1>3, <2>1
<1>5. Placed(t)
  BY <1>4 DEF Placed, Moved
<1>6. Managed(t) = Managed(s)
  <2>1. \A x : (\E k \in Slots : x \in In(t, k)) <=> \E k \in Slots : x \in In(s, k)
    <3> SUFFICES ASSUME NEW x
                 PROVE  (\E k \in Slots : x \in In(t, k)) <=> \E k \in Slots : x \in In(s, k)
      OBVIOUS
    <3>1. ASSUME NEW k \in Slots, x \in In(t, k) PROVE \E l \in Slots : x \in In(s, l)
      BY <1>2, <3>1
    <3>2. ASSUME NEW k \in Slots, x \in In(s, k) PROVE \E l \in Slots : x \in In(t, l)
      <4>1. CASE x \in F
        BY <1>2, <4>1
      <4>2. CASE x \notin F
        <5>1. x \in In(t, k)
          BY <1>2, <3>2, <4>2
        <5> QED BY <5>1
      <4> QED BY <4>1, <4>2
    <3> QED BY <3>1, <3>2
  <2> QED BY <2>1 DEF Managed
<1>7. Listed(t)
  <2> SUFFICES ASSUME NEW k \in Slots
               PROVE  /\ IsInjective(t.minimizedHistory[k])
                      /\ ToSet(t.minimizedHistory[k]) = In(t, k) \cap t.minimized
                      /\ t.fullscreen[k] \in In(t, k) \cup {NoWindow}
                      /\ t.maximized[k] \in In(t, k) \cup {NoWindow}
    BY DEF Listed
  <2>1. \A l \in Slots : /\ s.fullscreen[l] \in In(s, l) \cup {NoWindow}
                         /\ s.maximized[l] \in In(s, l) \cup {NoWindow}
    BY DEF Base, Listed
  <2>2. t.fullscreen[k] \in In(t, k) \cup {NoWindow}
    <3>1. CASE k = i
      BY <1>2, <2>1, <3>1 DEF Moved
    <3>2. CASE k = j
      BY <1>2, <2>1, <3>2 DEF Moved
    <3>3. CASE k \notin {i, j}
      BY <1>2, <2>1, <3>3 DEF Moved
    <3> QED BY <3>1, <3>2, <3>3
  <2>3. t.maximized[k] \in In(t, k) \cup {NoWindow}
    <3>1. CASE k = i
      BY <1>2, <2>1, <3>1 DEF Moved
    <3>2. CASE k = j
      BY <1>2, <2>1, <3>2 DEF Moved
    <3>3. CASE k \notin {i, j}
      BY <1>2, <2>1, <3>3 DEF Moved
    <3> QED BY <3>1, <3>2, <3>3
  <2> QED BY <1>1, <2>2, <2>3 DEF Moved
<1>8. Base(t)
  BY <1>1, <1>5, <1>6, <1>7 DEF Base
<1>9. Kept(s, t, F)
  <2>1. \A k \in Slots : In(t, k) \ F = In(s, k) \ F
    BY <1>2
  <2>2. ASSUME NEW x \in F, NEW k \in Slots, s.fullscreen[k] = x
        PROVE  \E l \in Slots : t.fullscreen[l] = x
    <3>1. k = i
      <4>1. x \in In(s, k)
        BY <2>2, InWindows DEF Base, Listed
      <4> QED BY <1>3, <4>1
    <3>2. t.fullscreen[j] = x
      BY <2>2, <3>1 DEF Moved
    <3> QED BY <3>2
  <2>3. ASSUME NEW x \in F, NEW k \in Slots, s.maximized[k] = x
        PROVE  \E l \in Slots : t.maximized[l] = x
    <3>1. k = i
      <4>1. x \in In(s, k)
        BY <2>3, InWindows DEF Base, Listed
      <4> QED BY <1>3, <4>1
    <3>2. t.maximized[j] = x
      BY <2>3, <3>1 DEF Moved
    <3> QED BY <3>2
  <2> QED BY <2>1, <2>2, <2>3 DEF Kept
<1>10. \A k \in Slots \ {i, j} : SameSlot(s, t, k)
  BY <1>1, <1>2 DEF Moved, SameSlot, SameMembers
<1>11. \A w \in F : SlotOf(t, w) = j
  <2>1. \A w \in F : w \in In(t, j)
    BY <1>2
  <2> QED BY <1>5, <2>1, SlotOfIn
<1>12. \A w \in Managed(s) \ F : SlotOf(t, w) = SlotOf(s, w)
  <2> SUFFICES ASSUME NEW w \in Managed(s) \ F PROVE SlotOf(t, w) = SlotOf(s, w)
    OBVIOUS
  <2>1. SlotOf(s, w) \in Slots /\ w \in In(s, SlotOf(s, w))
    BY SlotOfIn DEF Base
  <2>2. w \in In(t, SlotOf(s, w))
    BY <1>2, <2>1
  <2> QED BY <1>5, <2>1, <2>2, SlotOfIn
<1> QED BY <1>1, <1>6, <1>8, <1>9, <1>10, <1>11, <1>12

\* What covers the old slot and is among the windows that leave covers the new one.
LEMMA CarryOverlaysWorks ==
  ASSUME NEW d \in States, NEW i \in Slots, NEW j \in Slots \ {i}, NEW F \in SUBSET Windows
  PROVE  LET t == CarryOverlays(d, i, j, F)
         IN /\ t \in States /\ SameSeat(d, t) /\ t.focus = d.focus
            /\ t.minimized = d.minimized /\ t.opened = d.opened
            /\ t.floating = d.floating /\ t.parent = d.parent
            /\ t.windows = d.windows /\ t.focusHistory = d.focusHistory
            /\ t.minimizedHistory = d.minimizedHistory
            /\ \A k \in Slots \ {i, j} : /\ t.fullscreen[k] = d.fullscreen[k]
                                         /\ t.maximized[k] = d.maximized[k]
            /\ t.fullscreen[i] = IF d.fullscreen[i] \in F THEN NoWindow ELSE d.fullscreen[i]
            /\ t.fullscreen[j] = IF d.fullscreen[i] \in F THEN d.fullscreen[i]
                                 ELSE d.fullscreen[j]
            /\ t.maximized[i] = IF d.maximized[i] \in F THEN NoWindow ELSE d.maximized[i]
            /\ t.maximized[j] = IF d.maximized[i] \in F THEN d.maximized[i]
                                ELSE d.maximized[j]
<1> DEFINE f == Hand(d.fullscreen, i, j, F)
           m == Hand(d.maximized, i, j, F)
           t == CarryOverlays(d, i, j, F)
<1>1. t = [d EXCEPT !.fullscreen = f, !.maximized = m]
  BY DEF CarryOverlays
<1>2. /\ d.fullscreen \in [Slots -> Windows \cup {NoWindow}]
      /\ d.maximized \in [Slots -> Windows \cup {NoWindow}]
  BY DEF States
<1>3. ASSUME NEW c \in [Slots -> Windows \cup {NoWindow}]
      PROVE  /\ Hand(c, i, j, F) \in [Slots -> Windows \cup {NoWindow}]
             /\ Hand(c, i, j, F)[i] = IF c[i] \in F THEN NoWindow ELSE c[i]
             /\ Hand(c, i, j, F)[j] = IF c[i] \in F THEN c[i] ELSE c[j]
             /\ \A k \in Slots \ {i, j} : Hand(c, i, j, F)[k] = c[k]
  BY DEF Hand
<1>4. f \in [Slots -> Windows \cup {NoWindow}] /\ m \in [Slots -> Windows \cup {NoWindow}]
  BY <1>2, <1>3
<1>5. /\ f[i] = IF d.fullscreen[i] \in F THEN NoWindow ELSE d.fullscreen[i]
      /\ f[j] = IF d.fullscreen[i] \in F THEN d.fullscreen[i] ELSE d.fullscreen[j]
      /\ \A k \in Slots \ {i, j} : f[k] = d.fullscreen[k]
  BY <1>2, <1>3
<1>6. /\ m[i] = IF d.maximized[i] \in F THEN NoWindow ELSE d.maximized[i]
      /\ m[j] = IF d.maximized[i] \in F THEN d.maximized[i] ELSE d.maximized[j]
      /\ \A k \in Slots \ {i, j} : m[k] = d.maximized[k]
  BY <1>2, <1>3
<1> HIDE DEF f, m, t
<1>7. /\ t \in States /\ t.focus = d.focus
      /\ t.minimized = d.minimized /\ t.opened = d.opened
      /\ t.floating = d.floating /\ t.parent = d.parent
      /\ t.windows = d.windows /\ t.focusHistory = d.focusHistory
      /\ t.minimizedHistory = d.minimizedHistory
  BY <1>1, <1>4 DEF States
<1>8. SameSeat(d, t) /\ t.fullscreen = f /\ t.maximized = m
  BY <1>1 DEF States, SameSeat
<1> QED BY <1>5, <1>6, <1>7, <1>8 DEF t

\* A rule or the user moves windows.
LEMMA MoveAllWorks ==
  ASSUME NEW d, Base(d), NEW i \in Slots, NEW j \in Slots \ {i}, NEW F \in SUBSET In(d, i)
  PROVE  Moved(d, MoveAll(d, i, j, F), i, j, F)
<1> DEFINE c == CarryOverlays(d, i, j, F)
           W == Carry(d.windows, i, j, F)
           H == Carry(d.focusHistory, i, j, F)
           M == Carry(d.minimizedHistory, i, j, F)
           t == MoveAll(d, i, j, F)
<1>1. d \in States /\ F \in SUBSET Windows
  BY InWindows DEF Base
<1>2. /\ d.windows \in [Slots -> Seq(Windows)] /\ d.focusHistory \in [Slots -> Seq(Windows)]
      /\ d.minimizedHistory \in [Slots -> Seq(Windows)]
  BY <1>1 DEF States
<1>3. /\ c \in States /\ SameSeat(d, c) /\ c.focus = d.focus
      /\ c.minimized = d.minimized /\ c.opened = d.opened
      /\ c.floating = d.floating /\ c.parent = d.parent
      /\ c.windows = d.windows /\ c.focusHistory = d.focusHistory
      /\ c.minimizedHistory = d.minimizedHistory
      /\ \A k \in Slots \ {i, j} : /\ c.fullscreen[k] = d.fullscreen[k]
                                   /\ c.maximized[k] = d.maximized[k]
      /\ c.fullscreen[i] = IF d.fullscreen[i] \in F THEN NoWindow ELSE d.fullscreen[i]
      /\ c.fullscreen[j] = IF d.fullscreen[i] \in F THEN d.fullscreen[i] ELSE d.fullscreen[j]
      /\ c.maximized[i] = IF d.maximized[i] \in F THEN NoWindow ELSE d.maximized[i]
      /\ c.maximized[j] = IF d.maximized[i] \in F THEN d.maximized[i] ELSE d.maximized[j]
  BY <1>1, CarryOverlaysWorks
<1>4. t = [c EXCEPT !.windows = Carry(c.windows, i, j, F),
                    !.focusHistory = Carry(c.focusHistory, i, j, F),
                    !.minimizedHistory = Carry(c.minimizedHistory, i, j, F)]
  BY DEF MoveAll
<1> HIDE DEF c
<1>5. t = [c EXCEPT !.windows = W, !.focusHistory = H, !.minimizedHistory = M]
  BY <1>3, <1>4
<1>6. \A k \in Slots : /\ IsInjective(d.windows[k]) /\ IsInjective(d.minimizedHistory[k])
                       /\ ToSet(d.minimizedHistory[k]) = ToSet(d.windows[k]) \cap d.minimized
  BY DEF Base, Placed, Listed, In
<1>7. ToSet(d.windows[i]) \cap ToSet(d.windows[j]) = {}
  BY DEF Base, Placed, In
<1>8. ToSet(d.minimizedHistory[i]) \cap ToSet(d.minimizedHistory[j]) = {}
  BY <1>6, <1>7
<1>9. /\ W \in [Slots -> Seq(Windows)]
      /\ ToSet(W[i]) = ToSet(d.windows[i]) \ F
      /\ ToSet(W[j]) = ToSet(d.windows[j]) \cup (ToSet(d.windows[i]) \cap F)
      /\ \A k \in Slots \ {i, j} : W[k] = d.windows[k]
      /\ IsInjective(W[i]) /\ IsInjective(W[j])
  <2>1. /\ W \in [Slots -> Seq(Windows)]
        /\ ToSet(W[i]) = ToSet(d.windows[i]) \ F
        /\ ToSet(W[j]) = ToSet(d.windows[j]) \cup (ToSet(d.windows[i]) \cap F)
        /\ \A k \in Slots \ {i, j} : W[k] = d.windows[k]
        /\ IsInjective(d.windows[i]) => IsInjective(W[i])
        /\ IsInjective(d.windows[i]) /\ IsInjective(d.windows[j])
             /\ ToSet(d.windows[i]) \cap ToSet(d.windows[j]) = {} => IsInjective(W[j])
    BY <1>1, <1>2, CarryTyped
  <2> HIDE DEF W
  <2> QED BY <1>6, <1>7, <2>1
<1>10. H \in [Slots -> Seq(Windows)]
  BY <1>1, <1>2, CarryTyped
<1>11. /\ M \in [Slots -> Seq(Windows)]
       /\ ToSet(M[i]) = ToSet(d.minimizedHistory[i]) \ F
       /\ ToSet(M[j]) = ToSet(d.minimizedHistory[j]) \cup (ToSet(d.minimizedHistory[i]) \cap F)
       /\ \A k \in Slots \ {i, j} : M[k] = d.minimizedHistory[k]
       /\ IsInjective(M[i]) /\ IsInjective(M[j])
  <2> DEFINE h == d.minimizedHistory
  <2>1. /\ M \in [Slots -> Seq(Windows)]
        /\ ToSet(M[i]) = ToSet(h[i]) \ F
        /\ ToSet(M[j]) = ToSet(h[j]) \cup (ToSet(h[i]) \cap F)
        /\ \A k \in Slots \ {i, j} : M[k] = h[k]
        /\ IsInjective(h[i]) => IsInjective(M[i])
        /\ IsInjective(h[i]) /\ IsInjective(h[j]) /\ ToSet(h[i]) \cap ToSet(h[j]) = {}
             => IsInjective(M[j])
    BY <1>1, <1>2, CarryTyped
  <2> HIDE DEF M
  <2> QED BY <1>6, <1>8, <2>1
<1> HIDE DEF W, H, M
<1>12. /\ t \in States /\ t.windows = W /\ t.minimizedHistory = M /\ t.focus = c.focus
       /\ t.minimized = c.minimized /\ t.opened = c.opened
       /\ t.floating = c.floating /\ t.parent = c.parent
       /\ t.fullscreen = c.fullscreen /\ t.maximized = c.maximized
  <2>1. c \in States /\ W \in [Slots -> Seq(Windows)] /\ M \in [Slots -> Seq(Windows)]
    BY <1>3, <1>9, <1>11
  <2>2. t \in States
    BY <1>5, <1>10, <2>1 DEF States
  <2> QED BY <1>5, <2>1, <2>2 DEF States
<1>13. SameSeat(c, t)
  BY <1>3, <1>5 DEF States, SameSeat
<1> HIDE DEF t
<1>14. \A k : In(t, k) = ToSet(W[k]) /\ In(d, k) = ToSet(d.windows[k])
  BY <1>12 DEF In
<1>15. /\ In(t, i) = In(d, i) \ F /\ In(t, j) = In(d, j) \cup F
       /\ \A k \in Slots \ {i, j} : In(t, k) = In(d, k)
  BY <1>9, <1>14
<1>16. \A k \in Slots : /\ IsInjective(t.windows[k]) /\ IsInjective(t.minimizedHistory[k])
                        /\ ToSet(t.minimizedHistory[k]) = In(t, k) \cap d.minimized
  <2> SUFFICES ASSUME NEW k \in Slots
               PROVE  /\ IsInjective(W[k]) /\ IsInjective(M[k])
                      /\ ToSet(M[k]) = ToSet(W[k]) \cap d.minimized
    BY <1>12, <1>14
  <2>1. CASE k = i
    BY <1>6, <1>9, <1>11, <2>1
  <2>2. CASE k = j
    BY <1>6, <1>9, <1>11, <2>2
  <2>3. CASE k \notin {i, j}
    BY <1>6, <1>9, <1>11, <2>3
  <2> QED BY <2>1, <2>2, <2>3
<1>17. SameSeat(d, t)
  BY <1>3, <1>13 DEF SameSeat
<1>18. Moved(d, t, i, j, F)
  BY <1>3, <1>12, <1>15, <1>16, <1>17 DEF Moved
<1> QED BY <1>18 DEF t

\* A window is pulled to its parent.
LEMMA PullWorks ==
  ASSUME NEW d, Base(d), NEW w \in Managed(d), NEW j \in Slots \ {SlotOf(d, w)}
  PROVE  Moved(d, Pull(d, w, j), SlotOf(d, w), j, {w})
<1> DEFINE i == SlotOf(d, w)
           c == CarryOverlays(d, i, j, {w})
           W == Carry(d.windows, i, j, {w})
           p == Without(d.minimizedHistory[i], w)
           q == IF w \in d.minimized THEN Append(d.minimizedHistory[j], w)
                ELSE d.minimizedHistory[j]
           M == [d.minimizedHistory EXCEPT ![i] = p, ![j] = q]
           t == Pull(d, w, j)
<1>1. d \in States /\ i \in Slots /\ w \in In(d, i)
  BY SlotOfIn DEF Base
<1>2. w \in Windows /\ j \in Slots /\ j # i
  BY <1>1, InWindows
<1>3. /\ d.windows \in [Slots -> Seq(Windows)]
      /\ d.minimizedHistory \in [Slots -> Seq(Windows)]
  BY <1>1 DEF States
<1> DEFINE Relist(f) == [f EXCEPT ![i] = Without(@, w),
                                  ![j] = IF w \in d.minimized THEN Append(@, w) ELSE @]
<1>4. t = [c EXCEPT !.windows = Carry(@, i, j, {w}), !.minimizedHistory = Relist(@)]
  BY DEF Pull
<1> HIDE DEF i
<1>5. /\ c \in States /\ SameSeat(d, c) /\ c.focus = d.focus
      /\ c.minimized = d.minimized /\ c.opened = d.opened
      /\ c.floating = d.floating /\ c.parent = d.parent
      /\ c.windows = d.windows
      /\ c.minimizedHistory = d.minimizedHistory
      /\ \A k \in Slots \ {i, j} : /\ c.fullscreen[k] = d.fullscreen[k]
                                   /\ c.maximized[k] = d.maximized[k]
      /\ c.fullscreen[i] = IF d.fullscreen[i] \in {w} THEN NoWindow ELSE d.fullscreen[i]
      /\ c.fullscreen[j] = IF d.fullscreen[i] \in {w} THEN d.fullscreen[i] ELSE d.fullscreen[j]
      /\ c.maximized[i] = IF d.maximized[i] \in {w} THEN NoWindow ELSE d.maximized[i]
      /\ c.maximized[j] = IF d.maximized[i] \in {w} THEN d.maximized[i] ELSE d.maximized[j]
  BY <1>1, <1>2, CarryOverlaysWorks
<1> HIDE DEF c, t
<1>6. t = [c EXCEPT !.windows = W, !.minimizedHistory = M]
  <2>1. Relist(c.minimizedHistory) = M
    BY <1>2, <1>5
  <2> HIDE DEF Relist, M, W
  <2>2. Carry(c.windows, i, j, {w}) = W
    BY <1>5 DEF W
  <2> QED BY <1>4, <2>1, <2>2
<1>7. \A k \in Slots : /\ IsInjective(d.windows[k]) /\ IsInjective(d.minimizedHistory[k])
                       /\ ToSet(d.minimizedHistory[k]) = ToSet(d.windows[k]) \cap d.minimized
  BY DEF Base, Placed, Listed, In
<1>8. \A k \in Slots \ {i} : w \notin ToSet(d.windows[k])
  BY <1>1 DEF Base, Placed, In
<1>9. ToSet(d.windows[i]) \cap ToSet(d.windows[j]) = {}
  BY <1>1, <1>2 DEF Base, Placed, In
<1>10. /\ W \in [Slots -> Seq(Windows)]
       /\ ToSet(W[i]) = ToSet(d.windows[i]) \ {w}
       /\ ToSet(W[j]) = ToSet(d.windows[j]) \cup (ToSet(d.windows[i]) \cap {w})
       /\ \A k \in Slots \ {i, j} : W[k] = d.windows[k]
       /\ IsInjective(W[i]) /\ IsInjective(W[j])
  <2>1. {w} \in SUBSET Windows /\ j \in Slots \ {i}
    BY <1>2
  <2>2. /\ W \in [Slots -> Seq(Windows)]
        /\ ToSet(W[i]) = ToSet(d.windows[i]) \ {w}
        /\ ToSet(W[j]) = ToSet(d.windows[j]) \cup (ToSet(d.windows[i]) \cap {w})
        /\ \A k \in Slots \ {i, j} : W[k] = d.windows[k]
        /\ IsInjective(d.windows[i]) => IsInjective(W[i])
        /\ IsInjective(d.windows[i]) /\ IsInjective(d.windows[j])
             /\ ToSet(d.windows[i]) \cap ToSet(d.windows[j]) = {} => IsInjective(W[j])
    BY <1>1, <1>3, <2>1, CarryTyped
  <2> HIDE DEF W
  <2> QED BY <1>1, <1>2, <1>7, <1>9, <2>2
<1>11. /\ d.minimizedHistory[i] \in Seq(Windows) /\ d.minimizedHistory[j] \in Seq(Windows)
       /\ w \notin ToSet(d.minimizedHistory[j])
  BY <1>1, <1>2, <1>3, <1>7, <1>8
<1>12. p \in Seq(Windows) /\ IsInjective(p) /\ ToSet(p) = ToSet(d.minimizedHistory[i]) \ {w}
  BY <1>1, <1>7, <1>11, WithoutTyped
<1>13. /\ q \in Seq(Windows) /\ IsInjective(q)
       /\ ToSet(q) = ToSet(d.minimizedHistory[j]) \cup ({w} \cap d.minimized)
  <2>1. CASE w \in d.minimized
    BY <1>2, <1>7, <1>11, <2>1, AppendTyped
  <2>2. CASE w \notin d.minimized
    BY <1>2, <1>7, <1>11, <2>2
  <2> QED BY <2>1, <2>2
<1> HIDE DEF W, p, q
<1>14. /\ M \in [Slots -> Seq(Windows)] /\ M[i] = p /\ M[j] = q
       /\ \A k \in Slots \ {i, j} : M[k] = d.minimizedHistory[k]
  BY <1>1, <1>2, <1>3, <1>12, <1>13
<1> HIDE DEF M
<1>15. /\ t \in States /\ t.windows = W /\ t.minimizedHistory = M /\ t.focus = c.focus
       /\ t.minimized = c.minimized /\ t.opened = c.opened
       /\ t.floating = c.floating /\ t.parent = c.parent
       /\ t.fullscreen = c.fullscreen /\ t.maximized = c.maximized
  <2>1. c \in States /\ W \in [Slots -> Seq(Windows)] /\ M \in [Slots -> Seq(Windows)]
    BY <1>5, <1>10, <1>14
  <2> QED BY <1>6, <2>1 DEF States
<1>16. SameSeat(c, t)
  BY <1>5, <1>6 DEF States, SameSeat
<1>17. \A k : In(t, k) = ToSet(W[k]) /\ In(d, k) = ToSet(d.windows[k])
  BY <1>15 DEF In
<1>18. /\ In(t, i) = In(d, i) \ {w} /\ In(t, j) = In(d, j) \cup {w}
       /\ \A k \in Slots \ {i, j} : In(t, k) = In(d, k)
  BY <1>1, <1>10, <1>17
<1>19. \A k \in Slots : /\ IsInjective(t.windows[k]) /\ IsInjective(t.minimizedHistory[k])
                        /\ ToSet(t.minimizedHistory[k]) = In(t, k) \cap d.minimized
  <2> SUFFICES ASSUME NEW k \in Slots
               PROVE  /\ IsInjective(W[k]) /\ IsInjective(M[k])
                      /\ ToSet(M[k]) = ToSet(W[k]) \cap d.minimized
    BY <1>15, <1>17
  <2>1. CASE k = i
    BY <1>7, <1>10, <1>12, <1>14, <2>1
  <2>2. CASE k = j
    BY <1>1, <1>7, <1>10, <1>13, <1>14, <1>17, <2>2
  <2>3. CASE k \notin {i, j}
    BY <1>7, <1>10, <1>14, <2>3
  <2> QED BY <2>1, <2>2, <2>3
<1>20. SameSeat(d, t)
  BY <1>5, <1>16 DEF SameSeat
<1>21. Moved(d, t, i, j, {w})
  BY <1>5, <1>15, <1>18, <1>19, <1>20 DEF Moved
<1> QED BY <1>21 DEF t, i

-----------------------------------------------------------------------------
(* New windows                                                             *)

\* What the parts of a handler about the window w keep between them.
Carried(s, t, w) ==
  /\ Base(t) /\ Host(t) /\ Kept(s, t, {w}) /\ Managed(t) = Managed(s)
  /\ t.hostFocused = s.hostFocused /\ t.shell = s.shell
  /\ Sighted(s) => Sighted(t)
  /\ Lit(s) => Lit(t)

\* It adds up.
LEMMA CarriedTrans ==
  ASSUME NEW s, NEW t, NEW u, NEW w, Carried(s, t, w), Carried(t, u, w)
  PROVE  Carried(s, u, w)
<1>1. Kept(s, u, {w})
  BY KeptTrans DEF Carried
<1>2. u.hostFocused = s.hostFocused
  BY Zenon DEF Carried
<1> QED BY <1>1, <1>2 DEF Carried

\* A change of what is remembered, ruled or pending is carried.
LEMMA SameCarried ==
  ASSUME NEW s, NEW t, NEW w, Base(s), Host(s), SameDesk(s, t), t.focus = s.focus
  PROVE  Carried(s, t, w)
<1>1. t \in States /\ SameWindows(s, t) /\ SameSeat(s, t)
  BY DEF SameDesk
<1>2. Base(t)
  BY <1>1, DeskBase
<1>3. Kept(s, t, {w})
  BY <1>1, KeptSameWindows
<1>4. Managed(t) = Managed(s) /\ \A i : SameSlot(s, t, i)
  BY <1>1, DeskLooks DEF SameSlot, SameMembers, SameWindows
<1>5. /\ Sighted(s) => Sighted(t)
      /\ Lit(s) => Lit(t)
      /\ Host(t)
  BY <1>1, <1>4, Untouched
<1>6. t.hostFocused = s.hostFocused /\ t.shell = s.shell
  BY <1>1 DEF SameSeat
<1> QED BY <1>2, <1>3, <1>4, <1>5, <1>6 DEF Carried

\* So is laying out the windows again.
LEMMA RelayoutCarried ==
  ASSUME NEW s, NEW t, NEW w, Base(t), Host(t), Kept(s, t, {w}), Managed(t) = Managed(s),
         t.hostFocused = s.hostFocused, t.shell = s.shell
  PROVE  /\ Carried(s, Relayout(t), w) /\ Sighted(Relayout(t)) /\ Lit(Relayout(t))
         /\ SameDesk(t, Relayout(t))
<1> DEFINE u == Relayout(t)
<1>1. SameDesk(t, u) /\ Base(u) /\ Sighted(u) /\ Lit(u)
  BY RelayoutWorks
<1> HIDE DEF u
<1>2. SameWindows(t, u) /\ SameSeat(t, u)
  BY <1>1 DEF SameDesk
<1>3. Managed(u) = Managed(s) /\ Kept(t, u, {w})
  BY <1>2, DeskLooks, KeptSameWindows
<1>4. Kept(s, u, {w})
  BY <1>3, KeptTrans
<1>5. u.hostFocused = s.hostFocused /\ u.shell = s.shell
  BY <1>2 DEF SameSeat
<1>6. Host(u)
  BY <1>1 DEF Sighted
<1>7. Carried(s, u, w)
  BY <1>1, <1>3, <1>4, <1>5, <1>6 DEF Carried
<1> QED BY <1>1, <1>7 DEF u

\* Slots that look the same as one that looks the same.
LEMMA SameSlotTrans ==
  ASSUME NEW s, NEW t, NEW u, NEW i, SameSlot(s, t, i), SameSlot(t, u, i)
  PROVE  SameSlot(s, u, i)
BY DEF SameSlot, SameMembers

\* A parent is looked up, and w pulled to it; whoever sees a difference is laid out again.
LEMMA RefreshWorks ==
  ASSUME NEW d, Base(d), Host(d), NEW w \in Managed(d), NEW dialog \in BOOLEAN
  PROVE  LET t == RefreshHints(d, w, dialog)
         IN /\ Carried(d, t, w) /\ t.active = d.active
            /\ SlotOf(d, w) = d.active =>
                 SlotOf(t, w) = d.active \/ (Sighted(t) /\ Lit(t))
<1> DEFINE p == IF d.hint[w] \in Managed(d) \ {w} THEN d.hint[w] ELSE NoWindow
           i == SlotOf(d, w)
           j == IF p = NoWindow THEN i ELSE SlotOf(d, p)
           u == IF j = i THEN d ELSE Pull(d, w, j)
           t == Adopt(u, w, p, dialog)
           r == RefreshHints(d, w, dialog)
<1>1. d \in States /\ i \in Slots /\ w \in In(d, i)
  BY SlotOfIn DEF Base
<1>2. w \in Windows /\ Managed(d) \subseteq Windows
  BY <1>1, InWindows DEF Managed
<1>3. p \in Windows \cup {NoWindow}
  BY <1>2
<1>4. j \in Slots
  <2>1. CASE p = NoWindow
    BY <1>1, <2>1
  <2>2. CASE p # NoWindow
    BY <2>2, SlotOfIn DEF Base
  <2> QED BY <2>1, <2>2
<1>5. r = RelayoutChange(d, t, i, j)
  BY DEF RefreshHints
<1> HIDE DEF p, j
<1>6. /\ Base(u) /\ Kept(d, u, {w}) /\ Managed(u) = Managed(d)
      /\ SameSeat(d, u) /\ u.focus = d.focus
      /\ \A k \in Slots \ {i, j} : SameSlot(d, u, k)
  <2>1. CASE j = i
    BY <2>1 DEF Kept, SameSeat, SameSlot, SameMembers
  <2>2. CASE j # i
    <3>1. u = Pull(d, w, j) /\ j \in Slots \ {i} /\ {w} \in SUBSET In(d, i)
      BY <1>1, <1>4, <2>2
    <3>2. Moved(d, u, i, j, {w})
      BY <3>1, PullWorks
    <3> HIDE DEF u, i
    <3> QED BY <1>1, <3>1, <3>2, MovedWorks
  <2> QED BY <2>1, <2>2
<1> HIDE DEF i, u
<1>7. u \in States
  BY <1>6 DEF Base
<1>8. /\ t \in States /\ t.windows = u.windows
      /\ t.minimizedHistory = u.minimizedHistory /\ t.minimized = u.minimized
      /\ t.fullscreen = u.fullscreen /\ t.maximized = u.maximized
      /\ t.opened = u.opened /\ t.focus = u.focus /\ SameSeat(u, t)
      /\ \A x \in Windows \ {w} : /\ t.parent[x] = u.parent[x]
                                  /\ x \in t.floating <=> x \in u.floating
  <2> DEFINE floats == IF u.override[w] = "none" THEN p # NoWindow \/ dialog
                       ELSE u.override[w] = "floating"
  <2>1. t = [u EXCEPT !.parent[w] = p,
                      !.floating = IF floats THEN @ \cup {w} ELSE @ \ {w}]
    BY DEF Adopt
  <2> HIDE DEF t, floats
  <2>2. CASE floats
    <3>1. t = [u EXCEPT !.parent[w] = p, !.floating = @ \cup {w}]
      BY <2>1, <2>2
    <3> QED BY <1>2, <1>3, <1>7, <3>1 DEF States, SameSeat
  <2>3. CASE ~floats
    <3>1. t = [u EXCEPT !.parent[w] = p, !.floating = @ \ {w}]
      BY <2>1, <2>3
    <3> QED BY <1>2, <1>3, <1>7, <3>1 DEF States, SameSeat
  <2> QED BY <2>2, <2>3
<1> HIDE DEF t
<1>9. Base(t) /\ \A k : In(t, k) = In(u, k)
  BY <1>6, <1>8, BaseSame
<1>10. Managed(t) = Managed(d)
  BY <1>6, <1>9 DEF Managed
<1>11. Kept(d, t, {w})
  <2>1. Kept(u, t, {w})
    BY <1>8, <1>9 DEF Kept
  <2>2. Managed(t) \subseteq Managed(u)
    BY <1>6, <1>10
  <2> QED BY <1>6, <2>1, <2>2, KeptTrans
<1>12. SameSeat(d, t) /\ t.focus = d.focus
  BY <1>6, <1>8 DEF SameSeat
<1>13. Host(t)
  BY <1>12, Zenon DEF Host, SameSeat
<1>14. t.active = d.active /\ t.hostFocused = d.hostFocused /\ t.shell = d.shell
  BY <1>12 DEF SameSeat
<1>15. \A k \in Slots \ {i, j} : SameSlot(d, t, k)
  <2> SUFFICES ASSUME NEW k \in Slots \ {i, j} PROVE SameSlot(d, t, k)
    OBVIOUS
  <2>1. SameSlot(d, u, k)
    BY <1>6
  <2>2. w \notin In(d, k)
    BY <1>1 DEF Base, Placed
  <2>3. In(u, k) \subseteq Windows \ {w}
    BY <1>7, <2>1, <2>2, InWindows DEF SameSlot, SameMembers
  <2>4. SameSlot(u, t, k)
    BY <1>8, <1>9, <2>3 DEF SameSlot, SameMembers
  <2> QED BY <2>1, <2>4, SameSlotTrans
<1>16. CASE t # d /\ d.active \in {i, j}
  <2>1. r = Relayout(t)
    BY <1>5, <1>16 DEF RelayoutChange
  <2>2. Carried(d, r, w) /\ Sighted(r) /\ Lit(r) /\ SameDesk(t, r)
    BY <1>9, <1>10, <1>11, <1>13, <1>14, <2>1, RelayoutCarried
  <2>3. r.active = d.active
    BY <1>14, <2>2 DEF SameDesk, SameSeat
  <2> QED BY <2>2, <2>3
<1>17. CASE t = d
  <2>1. r = d
    BY <1>5, <1>17 DEF RelayoutChange
  <2>2. SameDesk(d, d)
    BY <1>1, SameDeskRefl
  <2>3. Carried(d, d, w)
    BY <2>2, SameCarried
  <2> QED BY <2>1, <2>3
<1>18. CASE d.active \notin {i, j}
  <2>1. r = t
    BY <1>5, <1>18 DEF RelayoutChange
  <2>2. d.active \in Slots
    BY <1>1 DEF States
  <2>3. SameSlot(d, t, d.active)
    BY <1>15, <1>18, <2>2
  <2>4. /\ Sighted(d) => Sighted(t)
        /\ Lit(d) => Lit(t)
    BY <1>12, <2>3, Untouched
  <2>5. Carried(d, t, w)
    BY <1>9, <1>10, <1>11, <1>13, <1>14, <2>4 DEF Carried
  <2> QED BY <1>14, <1>18, <2>1, <2>5 DEF i
<1> QED BY <1>16, <1>17, <1>18

\* A rule sends w to its slot.
LEMMA SendWorks ==
  ASSUME NEW d, Base(d), Host(d), NEW w \in Managed(d), NEW j \in Slots
  PROVE  Carried(d, SendByRule(d, w, SlotOf(d, w), j), w)
<1> DEFINE i == SlotOf(d, w)
           t == MoveAll(d, i, j, {w})
           r == SendByRule(d, w, i, j)
<1>1. d \in States /\ i \in Slots /\ w \in In(d, i)
  BY SlotOfIn DEF Base
<1>2. CASE i = j
  <2>1. r = d
    BY <1>2 DEF SendByRule
  <2>2. SameDesk(d, d)
    BY <1>1, SameDeskRefl
  <2> QED BY <2>1, <2>2, SameCarried
<1>3. CASE i # j
  <2>1. j \in Slots \ {i} /\ {w} \in SUBSET In(d, i)
    BY <1>1, <1>3
  <2>2. r = IF d.active \in {i, j} THEN Relayout(t) ELSE t
    BY <1>3 DEF SendByRule
  <2> HIDE DEF i
  <2>3. Moved(d, t, i, j, {w})
    BY <1>1, <2>1, MoveAllWorks
  <2> HIDE DEF t
  <2>4. /\ Base(t) /\ Kept(d, t, {w}) /\ Managed(t) = Managed(d)
        /\ SameSeat(d, t) /\ t.focus = d.focus
        /\ \A k \in Slots \ {i, j} : SameSlot(d, t, k)
    BY <1>1, <2>1, <2>3, MovedWorks
  <2>5. Host(t)
    BY <2>4, Zenon DEF Host, SameSeat
  <2>6. t.hostFocused = d.hostFocused /\ t.shell = d.shell
    BY <2>4 DEF SameSeat
  <2>7. CASE d.active \in {i, j}
    <3>1. Carried(d, Relayout(t), w)
      BY <2>4, <2>5, <2>6, RelayoutCarried
    <3> QED BY <2>2, <2>7, <3>1 DEF i
  <2>8. CASE d.active \notin {i, j}
    <3>1. d.active \in Slots
      BY <1>1 DEF States
    <3>2. SameSlot(d, t, d.active)
      BY <2>4, <2>8, <3>1
    <3>3. /\ Sighted(d) => Sighted(t)
          /\ Lit(d) => Lit(t)
      BY <2>4, <3>2, Untouched
    <3>4. Carried(d, t, w)
      BY <2>4, <2>5, <2>6, <3>3 DEF Carried
    <3> QED BY <2>2, <2>8, <3>4 DEF i
  <2> QED BY <2>7, <2>8
<1> QED BY <1>2, <1>3

\* The rules apply once, and what they do is carried.
LEMMA RulesWork ==
  ASSUME NEW d, Base(d), Host(d), NEW w \in Managed(d), NEW placement \in Placements,
         NEW j \in Slots, NEW dialog \in BOOLEAN
  PROVE  Carried(d, ApplyRules(d, w, placement, j, dialog), w)
<1> DEFINE o == IF placement = "none" THEN d.override[w] ELSE placement
           a == [d EXCEPT !.ruled = @ \cup {w}, !.override[w] = o]
           b == SendByRule(a, w, SlotOf(a, w), j)
           t == ApplyRules(d, w, placement, j, dialog)
<1>1. d \in States /\ w \in Windows
  BY InWindows DEF Base, Managed
<1>2. CASE w \in d.ruled \/ placement = "anonymous"
  <2>1. t = d
    BY <1>2 DEF ApplyRules
  <2>2. SameDesk(d, d)
    BY <1>1, SameDeskRefl
  <2> QED BY <2>1, <2>2, SameCarried
<1>3. CASE ~(w \in d.ruled \/ placement = "anonymous")
  <2>1. t = RefreshHints(SendByRule(a, w, SlotOf(d, w), j), w, dialog)
    BY <1>3 DEF ApplyRules
  <2>2. o \in {"none", "tiled", "floating"}
    BY <1>1, <1>3, WindowAssumption DEF States
  <2> HIDE DEF o, t
  <2>3. a \in States /\ a.focus = d.focus /\ SameWindows(d, a)
    BY <1>1, <2>2 DEF States, SameWindows
  <2>4. SameSeat(d, a)
    BY <1>1 DEF States, SameSeat
  <2> HIDE DEF a
  <2>5. Carried(d, a, w)
    BY <2>3, <2>4, SameCarried DEF SameDesk
  <2>6. SlotOf(a, w) = SlotOf(d, w)
    BY <2>3, DeskLooks
  <2>7. Base(a) /\ Host(a) /\ w \in Managed(a)
    BY <2>5 DEF Carried
  <2>8. Carried(a, b, w)
    BY <2>7, SendWorks
  <2> HIDE DEF b
  <2>9. Base(b) /\ Host(b) /\ w \in Managed(b)
    BY <2>7, <2>8 DEF Carried
  <2>10. Carried(b, RefreshHints(b, w, dialog), w)
    BY <2>9, RefreshWorks
  <2>11. t = RefreshHints(b, w, dialog)
    BY <2>1, <2>6 DEF b
  <2>12. Carried(d, b, w)
    BY <2>5, <2>8, CarriedTrans
  <2>13. Carried(d, t, w)
    BY <2>10, <2>11, <2>12, CarriedTrans
  <2> QED BY <2>13 DEF t
<1> QED BY <1>2, <1>3

\* Focusing a window is carried.
LEMMA FocusCarried ==
  ASSUME NEW s, NEW d, NEW w, Base(d), Host(d), Carried(s, d, w), NEW x, NEW remember \in BOOLEAN
  PROVE  Carried(s, ApplyFocus(d, x, remember), w)
<1> DEFINE t == ApplyFocus(d, x, remember)
<1>1. SameDesk(d, t) /\ (t = d \/ (Sighted(t) /\ Lit(t)))
  BY ApplyFocusWorks
<1> HIDE DEF t
<1>2. CASE t = d
  BY <1>2 DEF t
<1>3. CASE Sighted(t) /\ Lit(t)
  <2>1. t \in States /\ SameWindows(d, t) /\ SameSeat(d, t)
    BY <1>1 DEF SameDesk
  <2>2. Base(t) /\ Kept(d, t, {w}) /\ Managed(t) = Managed(d)
    BY <2>1, DeskBase, KeptSameWindows, DeskLooks
  <2>3. t.hostFocused = d.hostFocused /\ t.shell = d.shell
    BY <2>1 DEF SameSeat
  <2>4. Host(t)
    BY <1>3 DEF Sighted
  <2>5. Carried(d, t, w)
    BY <1>3, <2>2, <2>3, <2>4 DEF Carried
  <2>6. Carried(s, t, w)
    BY <2>5, CarriedTrans
  <2> QED BY <2>6 DEF t
<1> QED BY <1>1, <1>2, <1>3

\* A new window gets the keyboard, and only a maximised window of its slot is disturbed.
LEMMA FocusNewWorks ==
  ASSUME NEW d, Base(d), Host(d), NEW w, NEW i \in Slots
  PROVE  Carried(d, FocusNew(d, w, i), w)
<1> DEFINE over == d.maximized[i]
           reveal == /\ ~HasFullscreen(d, i)
                     /\ Shown(d, i, w)
                     /\ w \notin Visible(d, i)
                     /\ over \notin {NoWindow, w} \cup Ancestors(d, i, w)
           m == [d EXCEPT !.maximized[i] = NoWindow]
           r == IF reveal THEN Relayout(m) ELSE d
<1>1. d \in States
  BY DEF Base
<1>2. FocusNew(d, w, i) = ApplyFocus(r, w, TRUE)
  BY DEF FocusNew
<1>3. Carried(d, r, w)
  <2>1. CASE ~reveal
    <3>1. r = d
      BY <2>1
    <3>2. SameDesk(d, d)
      BY <1>1, SameDeskRefl
    <3> QED BY <3>1, <3>2, SameCarried
  <2>2. CASE reveal
    <3>1. r = Relayout(m) /\ over # w
      BY <2>2
    <3>2. m.fullscreen = d.fullscreen /\ \A k \in Slots \ {i} : m.maximized[k] = d.maximized[k]
      BY <1>1 DEF States
    <3>3. NoWindow \in In(d, i) \cup {NoWindow} /\ m = [d EXCEPT !.maximized[i] = NoWindow]
      OBVIOUS
    <3> HIDE DEF m, r
    <3>4. /\ Base(m) /\ SameSeat(d, m) /\ m.focus = d.focus
          /\ \A j \in Slots : In(m, j) = In(d, j)
      BY <3>3, OverlayBase
    <3>5. Kept(d, m, {w})
      BY <3>1, <3>2, <3>4 DEF Kept
    <3>6. Managed(m) = Managed(d)
      BY <3>4 DEF Managed
    <3>7. Host(m)
      BY <3>4, Zenon DEF Host, SameSeat
    <3>8. m.hostFocused = d.hostFocused /\ m.shell = d.shell
      BY <3>4 DEF SameSeat
    <3> QED BY <3>1, <3>4, <3>5, <3>6, <3>7, <3>8, RelayoutCarried
  <2> QED BY <2>1, <2>2
<1> HIDE DEF r
<1>4. Base(r) /\ Host(r)
  BY <1>3 DEF Carried
<1> QED BY <1>2, <1>3, <1>4, FocusCarried

\* It is decided once whether a new window is followed.
LEMMA FollowNewWorks ==
  ASSUME NEW d, Base(d), Host(d), NEW w, NEW i \in Slots, NEW follow \in BOOLEAN
  PROVE  Carried(d, FollowNew(d, w, i, follow), w)
<1>1. ASSUME NEW s, Base(s), Host(s)
      PROVE  Carried(s, NoLongerPending(s, w), w)
  <2> DEFINE t == NoLongerPending(s, w)
  <2>1. s \in States
    BY <1>1 DEF Base
  <2>2. t = [s EXCEPT !.pending = s.pending \ {w}]
    BY DEF NoLongerPending
  <2> HIDE DEF t
  <2>3. t \in States /\ t.focus = s.focus /\ SameWindows(s, t)
    BY <2>1, <2>2 DEF States, SameWindows
  <2>4. SameSeat(s, t)
    BY <2>1, <2>2 DEF States, SameSeat
  <2>5. Carried(s, t, w)
    BY <1>1, <2>3, <2>4, SameCarried DEF SameDesk
  <2> QED BY <2>5 DEF t
<1>2. ASSUME NEW s, Base(s), Host(s)
      PROVE  Carried(s, FocusNew(NoLongerPending(s, w), w, i), w)
  <2> DEFINE t == NoLongerPending(s, w)
  <2>1. Carried(s, t, w)
    BY <1>1, <1>2
  <2> HIDE DEF t
  <2>2. Base(t) /\ Host(t)
    BY <2>1 DEF Carried
  <2>3. Carried(t, FocusNew(t, w, i), w)
    BY <2>2, FocusNewWorks
  <2>4. Carried(s, FocusNew(t, w, i), w)
    BY <2>1, <2>3, CarriedTrans
  <2> QED BY <2>4 DEF t
<1>3. CASE w \notin d.pending
  <2>1. FollowNew(d, w, i, follow) = d
    BY <1>3 DEF FollowNew
  <2>2. d \in States /\ SameDesk(d, d)
    BY SameDeskRefl DEF Base
  <2> QED BY <2>1, <2>2, SameCarried
<1>4. CASE w \in d.pending /\ i = d.active
  <2>1. FollowNew(d, w, i, follow) = FocusNew(NoLongerPending(d, w), w, i)
    BY <1>4 DEF FollowNew
  <2> QED BY <1>2, <2>1
<1>5. CASE w \in d.pending /\ i # d.active /\ follow
  <2> DEFINE s == Switch(d, i)
  <2>1. FollowNew(d, w, i, follow) = FocusNew(NoLongerPending(s, w), w, i)
    BY <1>5, Zenon DEF FollowNew
  <2>2. /\ SameWindows(d, s) /\ Base(s) /\ Sighted(s) /\ Lit(s)
        /\ s.hostFocused = d.hostFocused /\ s.shell = d.shell
    BY SwitchWorks
  <2> HIDE DEF s
  <2>3. Kept(d, s, {w}) /\ Managed(s) = Managed(d)
    BY <2>2, KeptSameWindows, DeskLooks
  <2>4. Host(s)
    BY <2>2 DEF Sighted
  <2>5. Carried(d, s, w)
    BY <2>2, <2>3, <2>4 DEF Carried
  <2>6. Carried(s, FocusNew(NoLongerPending(s, w), w, i), w)
    BY <1>2, <2>2, <2>4
  <2> QED BY <2>1, <2>5, <2>6, CarriedTrans
<1>6. CASE w \in d.pending /\ i # d.active /\ ~follow
  <2>1. FollowNew(d, w, i, follow) = NoLongerPending(d, w)
    BY <1>6, Zenon DEF FollowNew
  <2> QED BY <1>1, <2>1
<1> QED BY <1>3, <1>4, <1>5, <1>6

\* The rules and that decision together.
LEMMA FinishWorks ==
  ASSUME NEW d, Base(d), Host(d), NEW w \in Managed(d), NEW placement \in Placements,
         NEW j \in Slots, NEW dialog \in BOOLEAN, NEW follow \in BOOLEAN
  PROVE  Carried(d, FinishNewWindow(d, w, placement, j, dialog, follow), w)
<1> DEFINE a == ApplyRules(d, w, placement, j, dialog)
<1>1. Carried(d, a, w)
  BY RulesWork
<1>2. FinishNewWindow(d, w, placement, j, dialog, follow) = FollowNew(a, w, SlotOf(a, w), follow)
  BY DEF FinishNewWindow
<1> HIDE DEF a
<1>3. Base(a) /\ Host(a) /\ w \in Managed(a)
  BY <1>1 DEF Carried
<1>4. SlotOf(a, w) \in Slots
  BY <1>3, SlotOfIn DEF Base
<1>5. Carried(a, FollowNew(a, w, SlotOf(a, w), follow), w)
  BY <1>3, <1>4, FollowNewWorks
<1> QED BY <1>1, <1>2, <1>5, CarriedTrans

\* What is carried from a state with the keyboard in sight is fine.
LEMMA CarriedFine ==
  ASSUME NEW s, NEW t, NEW w, Base(s), Sighted(s), Carried(s, t, w)
  PROVE  Fine(s, t)
<1>1. Travel(s, t)
  BY KeptTravels DEF Carried, Base
<1> QED BY <1>1 DEF Carried, Fine

\* What Open does before it looks for a parent.
Added(d, w, i, p) == [d EXCEPT !.windows[i] = Append(@, w), !.hint[w] = p,
                               !.pending = @ \cup {w}, !.opened = @ \cup {w}]

\* A window appears at the end of a slot.
LEMMA AddedWorks ==
  ASSUME NEW d, Base(d), Sighted(d), NEW w \in Windows \ d.opened, NEW i \in Slots,
         NEW p \in Windows \cup {NoWindow}
  PROVE  LET t == Added(d, w, i, p)
         IN /\ Base(t) /\ Host(t) /\ Kept(d, t, {w}) /\ Managed(t) = Managed(d) \cup {w}
            /\ SlotOf(t, w) = i /\ SameSeat(d, t) /\ t.focus = d.focus
            /\ i # d.active => SameSlot(d, t, d.active)
<1> DEFINE q == Append(d.windows[i], w)
           t == Added(d, w, i, p)
<1>1. d \in States /\ d.active \in Slots
  BY DEF Base, States
<1>2. d.windows[i] \in Seq(Windows) /\ IsInjective(d.windows[i])
  BY <1>1 DEF States, Base, Placed
<1>3. \A k \in Slots : w \notin In(d, k)
  BY DEF Base, Managed
<1>4. /\ q \in Seq(Windows) /\ IsInjective(q) /\ ToSet(q) = In(d, i) \cup {w}
  BY <1>2, <1>3, AppendTyped DEF In
<1>5. t = [d EXCEPT !.windows[i] = q, !.hint[w] = p,
                    !.pending = @ \cup {w}, !.opened = @ \cup {w}]
  BY DEF Added
<1>20. w \in Windows
  OBVIOUS
<1> HIDE DEF q, t
<1>6. t \in States
  BY <1>1, <1>4, <1>5, <1>20 DEF States
<1>7. /\ t.windows[i] = q /\ \A k \in Slots \ {i} : t.windows[k] = d.windows[k]
      /\ t.minimizedHistory = d.minimizedHistory /\ t.minimized = d.minimized
      /\ t.fullscreen = d.fullscreen /\ t.maximized = d.maximized
      /\ t.floating = d.floating /\ t.parent = d.parent /\ t.focus = d.focus
      /\ t.opened = d.opened \cup {w}
  BY <1>1, <1>5 DEF States
<1>8. SameSeat(d, t)
  BY <1>1, <1>5 DEF States, SameSeat
<1>9. In(t, i) = In(d, i) \cup {w} /\ \A k \in Slots \ {i} : In(t, k) = In(d, k)
  BY <1>4, <1>7 DEF In
<1>10. \A k \in Slots : \A l \in Slots \ {k} : In(t, k) \cap In(t, l) = {}
  <2>1. \A k \in Slots : \A l \in Slots \ {k} : In(d, k) \cap In(d, l) = {}
    BY DEF Base, Placed
  <2> QED BY <1>3, <1>9, <2>1
<1>11. Placed(t)
  BY <1>4, <1>7, <1>10 DEF Base, Placed
<1>12. w \notin d.minimized
  BY DEF Base
<1>13. Listed(t)
  <2> SUFFICES ASSUME NEW k \in Slots
               PROVE  /\ IsInjective(t.minimizedHistory[k])
                      /\ ToSet(t.minimizedHistory[k]) = In(t, k) \cap t.minimized
                      /\ {t.fullscreen[k], t.maximized[k]} \subseteq In(t, k) \cup {NoWindow}
    BY DEF Listed
  <2>1. /\ IsInjective(d.minimizedHistory[k])
        /\ ToSet(d.minimizedHistory[k]) = In(d, k) \cap d.minimized
        /\ {d.fullscreen[k], d.maximized[k]} \subseteq In(d, k) \cup {NoWindow}
    BY DEF Base, Listed
  <2>2. In(t, k) \cap t.minimized = In(d, k) \cap d.minimized /\ In(d, k) \subseteq In(t, k)
    BY <1>7, <1>9, <1>12
  <2> QED BY <1>7, <2>1, <2>2
<1>14. Managed(t) = Managed(d) \cup {w}
  <2>1. \A k \in Slots : In(t, k) \subseteq In(d, k) \cup {w} /\ In(d, k) \subseteq In(t, k)
    BY <1>9
  <2>2. w \in In(t, i)
    BY <1>9
  <2> QED BY <2>1, <2>2 DEF Managed
<1>15. Base(t)
  BY <1>6, <1>7, <1>11, <1>13, <1>14 DEF Base
<1>16. Host(t)
  BY <1>7, <1>8, Zenon DEF Sighted, Host, SameSeat
<1>17. Kept(d, t, {w})
  BY <1>7, <1>9 DEF Kept
<1>18. SlotOf(t, w) = i
  BY <1>9, <1>11, SlotOfIn
<1>19. i # d.active => SameSlot(d, t, d.active)
  BY <1>1, <1>7, <1>9 DEF SameSlot, SameMembers
<1> QED BY <1>7, <1>8, <1>14, <1>15, <1>16, <1>17, <1>18, <1>19 DEF t

\* A new window opens.
LEMMA OpenStep ==
  ASSUME IInv, NEW w \in Windows, NEW i \in Slots, NEW x11 \in BOOLEAN, Open(w, i, x11)
  PROVE  Fine(desk, desk')
<1>1. Base(desk) /\ Sighted(desk) /\ desk \in States
  BY DEF IInv, Base
<1>2. PICK p \in (IF x11 THEN Managed(desk) \cup {NoWindow} ELSE {NoWindow}),
           placement \in Placements, j \in Slots, dialog \in Dialogs, follow \in BOOLEAN :
        LET added == [desk EXCEPT !.windows[i] = Append(@, w), !.hint[w] = p,
                                  !.pending = @ \cup {w}, !.opened = @ \cup {w}]
            shown == ShowNew(RefreshHints(added, w, dialog), w)
        IN Become(IF x11 THEN FinishNewWindow(shown, w, placement, j, dialog, follow)
                  ELSE FocusIfActive(shown, w))
  BY Zenon DEF Open
<1> DEFINE a == [desk EXCEPT !.windows[i] = Append(@, w), !.hint[w] = p,
                             !.pending = @ \cup {w}, !.opened = @ \cup {w}]
           r == RefreshHints(a, w, dialog)
           m == Remember(r, w)
           s == ShowNew(r, w)
           x == FinishNewWindow(s, w, placement, j, dialog, follow)
           y == FocusIfActive(s, w)
<1>3. desk' = x \/ desk' = y
  BY <1>2, Zenon DEF Become
<1>4. Managed(desk) \subseteq Windows
  BY <1>1, InWindows DEF Managed
<1>5. w \in Windows \ desk.opened /\ p \in Windows \cup {NoWindow} /\ dialog \in BOOLEAN
  BY <1>4, WindowAssumption DEF Open
<1>6. a = Added(desk, w, i, p)
  BY DEF Added
<1> HIDE DEF a
<1>7. /\ Base(a) /\ Host(a) /\ Kept(desk, a, {w}) /\ Managed(a) = Managed(desk) \cup {w}
      /\ SlotOf(a, w) = i /\ SameSeat(desk, a) /\ a.focus = desk.focus
      /\ i # desk.active => SameSlot(desk, a, desk.active)
  BY <1>1, <1>5, <1>6, AddedWorks
<1>8. a.active = desk.active /\ a.shell = desk.shell
  BY <1>7 DEF SameSeat
<1>9. i # a.active => /\ Sighted(a)
                      /\ Lit(desk) => Lit(a)
  BY <1>1, <1>7, <1>8, Untouched
<1>10. w \in Managed(a)
  BY <1>7
<1>11. /\ Carried(a, r, w) /\ r.active = a.active
       /\ SlotOf(a, w) = a.active =>
            SlotOf(r, w) = a.active \/ (Sighted(r) /\ Lit(r))
  BY <1>5, <1>7, <1>10, RefreshWorks
<1> HIDE DEF r
<1>12. Base(r) /\ Host(r) /\ w \in Managed(r) /\ r.shell = a.shell
  BY <1>10, <1>11 DEF Carried
<1>13. SameDesk(r, m) /\ m.focus = r.focus
  BY <1>12, RememberSame
<1>14. Carried(r, m, w)
  BY <1>12, <1>13, SameCarried
<1>15. Carried(a, m, w)
  BY <1>11, <1>14, CarriedTrans
<1>17. SlotOf(m, w) = SlotOf(r, w) /\ m.active = r.active
  <2>1. SameWindows(r, m) /\ SameSeat(r, m)
    BY <1>13 DEF SameDesk
  <2>2. \A v : SlotOf(m, v) = SlotOf(r, v)
    BY <2>1, DeskLooks
  <2> QED BY <2>1, <2>2 DEF SameSeat
<1>18. s = RelayoutIf(m, SlotOf(r, w))
  BY DEF ShowNew
<1> HIDE DEF m, s
<1>19. Carried(a, s, w) /\ Sighted(s) /\ (Lit(desk) => Lit(s))
  <2>1. Base(m) /\ Host(m)
    BY <1>15 DEF Carried
  <2>2. CASE SlotOf(r, w) = m.active
    <3>1. s = Relayout(m)
      BY <1>18, <2>2 DEF RelayoutIf
    <3>2. /\ Kept(a, m, {w}) /\ Managed(m) = Managed(a)
          /\ m.hostFocused = a.hostFocused /\ m.shell = a.shell
      BY <1>15, Zenon DEF Carried
    <3> QED BY <2>1, <3>1, <3>2, RelayoutCarried
  <2>3. CASE SlotOf(r, w) # m.active
    <3>1. s = m
      BY <1>18, <2>3 DEF RelayoutIf
    <3>2. Sighted(r) /\ (Lit(desk) => Lit(r))
      <4>1. CASE i = a.active
        BY <1>7, <1>11, <1>17, <2>3, <4>1
      <4>2. CASE i # a.active
        BY <1>9, <1>11, <4>2 DEF Carried
      <4> QED BY <4>1, <4>2
    <3>3. Sighted(m) /\ (Lit(desk) => Lit(m))
      BY <1>14, <3>2 DEF Carried
    <3> QED BY <1>15, <3>1, <3>3
  <2> QED BY <2>2, <2>3
<1>20. ASSUME NEW t, Carried(s, t, w) PROVE Fine(desk, t)
  <2>1. Carried(a, t, w)
    BY <1>19, <1>20, CarriedTrans
  <2>2. Base(t) /\ Sighted(t) /\ (Lit(desk) => Lit(t))
    BY <1>19, <1>20 DEF Carried
  <2>3. Kept(desk, t, {w})
    BY <1>7, <2>1, KeptTrans DEF Carried
  <2>4. Travel(desk, t)
    BY <1>1, <2>2, <2>3, KeptTravels DEF Base
  <2> QED BY <2>2, <2>4 DEF Fine
<1>21. Base(s) /\ Host(s) /\ w \in Managed(s) /\ s \in States
  BY <1>10, <1>19 DEF Carried, Base
<1>22. Fine(desk, x)
  <2>1. Carried(s, x, w)
    BY <1>5, <1>21, FinishWorks
  <2> HIDE DEF x
  <2> QED BY <1>20, <2>1
<1>23. Fine(desk, y)
  <2>1. Carried(s, s, w)
    BY <1>21, SameDeskRefl, SameCarried
  <2>2. Carried(s, ApplyFocus(s, w, TRUE), w)
    BY <1>21, <2>1, FocusCarried
  <2>3. y = ApplyFocus(s, w, TRUE) \/ y = s
    BY DEF FocusIfActive
  <2> HIDE DEF y
  <2> QED BY <1>20, <2>1, <2>2, <2>3
<1> HIDE DEF x, y
<1> QED BY <1>3, <1>22, <1>23

\* A window commits.
LEMMA CommitStep ==
  ASSUME IInv, NEW w, Commit(w)
  PROVE  Fine(desk, desk')
<1>1. Base(desk) /\ Sighted(desk) /\ Host(desk) /\ w \in Managed(desk)
  BY DEF IInv, Sighted, Commit
<1>2. PICK dialog \in Dialogs :
        LET t == RefreshHints(desk, w, dialog)
        IN \/ w \in t.ruled \ t.pending /\ Become(t)
           \/ /\ w \notin t.ruled \ t.pending
              /\ \E placement \in Placements, j \in Slots, follow \in BOOLEAN :
                   Become(FinishNewWindow(t, w, placement, j, dialog, follow))
  BY DEF Commit
<1> DEFINE t == RefreshHints(desk, w, dialog)
<1>3. dialog \in BOOLEAN
  BY WindowAssumption
<1>4. Carried(desk, t, w)
  BY <1>1, <1>3, RefreshWorks
<1>5. \/ desk' = t
      \/ \E placement \in Placements, j \in Slots, follow \in BOOLEAN :
           desk' = FinishNewWindow(t, w, placement, j, dialog, follow)
  BY <1>2, Zenon DEF Become
<1> HIDE DEF t
<1>6. CASE desk' = t
  BY <1>1, <1>4, <1>6, CarriedFine
<1>7. ASSUME NEW placement \in Placements, NEW j \in Slots, NEW follow \in BOOLEAN,
             desk' = FinishNewWindow(t, w, placement, j, dialog, follow)
      PROVE  Fine(desk, desk')
  <2>1. Base(t) /\ Host(t) /\ w \in Managed(t)
    BY <1>1, <1>4 DEF Carried
  <2>2. Carried(t, desk', w)
    BY <1>3, <1>7, <2>1, FinishWorks
  <2>3. Carried(desk, desk', w)
    BY <1>4, <2>2, CarriedTrans
  <2> QED BY <1>1, <2>3, CarriedFine
<1> QED BY <1>5, <1>6, <1>7

\* A window has another parent.
LEMMA ParentStep ==
  ASSUME IInv, NEW w, NEW p, ParentChanged(w, p)
  PROVE  Fine(desk, desk')
<1> DEFINE a == [desk EXCEPT !.hint[w] = p]
<1>1. Base(desk) /\ Sighted(desk) /\ Host(desk) /\ desk \in States /\ w \in Managed(desk)
  BY DEF IInv, Sighted, Base, ParentChanged
<1>2. PICK dialog \in Dialogs : desk' = RefreshHints(a, w, dialog)
  BY DEF ParentChanged, Become
<1>3. Managed(desk) \subseteq Windows
  BY <1>1, InWindows DEF Managed
<1>4. p \in Windows \cup {NoWindow} /\ w \in Windows
  BY <1>1, <1>3 DEF ParentChanged
<1>5. a \in States /\ a.focus = desk.focus /\ SameWindows(desk, a)
  BY <1>1, <1>4 DEF States, SameWindows
<1>6. SameSeat(desk, a)
  BY <1>1 DEF States, SameSeat
<1> HIDE DEF a
<1>7. Carried(desk, a, w)
  BY <1>1, <1>5, <1>6, SameCarried DEF SameDesk
<1>8. Base(a) /\ Host(a) /\ w \in Managed(a) /\ dialog \in BOOLEAN
  BY <1>1, <1>7, WindowAssumption DEF Carried
<1>9. Carried(a, desk', w)
  BY <1>2, <1>8, RefreshWorks
<1>10. Carried(desk, desk', w)
  BY <1>7, <1>9, CarriedTrans
<1> QED BY <1>1, <1>10, CarriedFine

\* A window that closes is gone from its slot, and from what the slot remembers.
LEMMA GoneWorks ==
  ASSUME IInv, NEW w \in Managed(desk)
  PROVE  LET i == SlotOf(desk, w)
             g == Gone(desk, i, w)
         IN /\ Base(g) /\ Host(g) /\ Kept(desk, g, {w})
            /\ i \in Slots /\ \A k \in Slots : In(g, k) = In(desk, k) \ {w}
            /\ g.focusHistory[i] = Without(desk.focusHistory[i], w)
            /\ \A k \in Slots \ {i} : g.focusHistory[k] = desk.focusHistory[k]
<1> DEFINE i == SlotOf(desk, w)
           Clear(o) == IF o = w THEN NoWindow ELSE o
           W == Without(desk.windows[i], w)
           H == Without(desk.focusHistory[i], w)
           M == Without(desk.minimizedHistory[i], w)
           f == Clear(desk.fullscreen[i])
           x == Clear(desk.maximized[i])
           l == Leave(desk, i, w)
           hint == [v \in Windows |-> IF w \in {v, l.hint[v]} THEN NoWindow ELSE l.hint[v]]
           g == Gone(desk, i, w)
<1>1. Base(desk) /\ Sighted(desk) /\ desk \in States /\ w \in Managed(desk)
  BY DEF IInv, Base
<1>2. i \in Slots /\ w \in In(desk, i)
  BY <1>1, SlotOfIn DEF Base
<1>3. w \in Windows
  BY <1>1, <1>2, InWindows
<1> HIDE DEF i
<1>5. /\ desk.windows[i] \in Seq(Windows) /\ desk.focusHistory[i] \in Seq(Windows)
      /\ desk.minimizedHistory[i] \in Seq(Windows)
      /\ desk.fullscreen[i] \in Windows \cup {NoWindow}
      /\ desk.maximized[i] \in Windows \cup {NoWindow}
  BY <1>1, <1>2 DEF States
<1>6. IsInjective(desk.windows[i]) /\ IsInjective(desk.minimizedHistory[i])
  BY <1>1, <1>2 DEF Base, Placed, Listed
<1>7. W \in Seq(Windows) /\ IsInjective(W) /\ ToSet(W) = ToSet(desk.windows[i]) \ {w}
  BY <1>5, <1>6, WithoutTyped
<1>8. H \in Seq(Windows)
  BY <1>5, WithoutTyped
<1>9. /\ M \in Seq(Windows) /\ IsInjective(M)
      /\ ToSet(M) = ToSet(desk.minimizedHistory[i]) \ {w}
  BY <1>5, <1>6, WithoutTyped
<1>10. f \in Windows \cup {NoWindow} /\ x \in Windows \cup {NoWindow}
  BY <1>5
<1>11. l = [desk EXCEPT !.windows[i] = W, !.focusHistory[i] = H, !.minimizedHistory[i] = M,
                        !.fullscreen[i] = f, !.maximized[i] = x]
  BY DEF Leave
<1>12. {f, x} \subseteq (In(desk, i) \ {w}) \cup {NoWindow}
  BY <1>1, <1>2 DEF Base, Listed
<1> HIDE DEF W, H, M, f, x, l
<1>13. l \in States
  BY <1>1, <1>2, <1>7, <1>8, <1>9, <1>10, <1>11 DEF States
<1>14. /\ l.windows[i] = W /\ l.minimizedHistory[i] = M
       /\ l.fullscreen[i] = f /\ l.maximized[i] = x /\ l.focusHistory[i] = H
       /\ \A k \in Slots \ {i} : /\ l.windows[k] = desk.windows[k]
                                 /\ l.minimizedHistory[k] = desk.minimizedHistory[k]
                                 /\ l.focusHistory[k] = desk.focusHistory[k]
                                 /\ l.fullscreen[k] = desk.fullscreen[k]
                                 /\ l.maximized[k] = desk.maximized[k]
  BY <1>1, <1>2, <1>11 DEF States
<1>15. l.minimized = desk.minimized /\ l.opened = desk.opened /\ l.focus = desk.focus
  BY <1>1, <1>11 DEF States
<1>16. SameSeat(desk, l)
  BY <1>1, <1>11 DEF States, SameSeat
<1>17. hint \in [Windows -> Windows \cup {NoWindow}]
  <2>1. \A v \in Windows : l.hint[v] \in Windows \cup {NoWindow}
    BY <1>13 DEF States
  <2> QED BY <2>1
<1>18. g = [l EXCEPT !.minimized = @ \ {w}, !.floating = @ \ {w}, !.pending = @ \ {w},
                     !.ruled = @ \ {w}, !.override[w] = "none", !.parent[w] = NoWindow,
                     !.hint = hint]
  BY DEF Gone, l
<1> HIDE DEF hint, g
<1>19. g \in States
  BY <1>3, <1>13, <1>17, <1>18 DEF States
<1>20. /\ g.windows = l.windows /\ g.minimizedHistory = l.minimizedHistory
       /\ g.focusHistory = l.focusHistory
       /\ g.fullscreen = l.fullscreen /\ g.maximized = l.maximized
       /\ g.minimized = l.minimized \ {w} /\ g.opened = l.opened /\ g.focus = l.focus
  BY <1>13, <1>18 DEF States
<1>21. SameSeat(l, g)
  BY <1>13, <1>18 DEF States, SameSeat
<1>22. In(g, i) = In(desk, i) \ {w} /\ \A k \in Slots \ {i} : In(g, k) = In(desk, k)
  BY <1>7, <1>14, <1>20 DEF In
<1>23. \A k \in Slots \ {i} : w \notin In(desk, k)
  BY <1>1, <1>2 DEF Base, Placed
<1>24. \A k \in Slots : In(g, k) = In(desk, k) \ {w}
  BY <1>22, <1>23
<1>25. Placed(g)
  <2>1. \A k \in Slots : /\ IsInjective(desk.windows[k])
                         /\ \A m \in Slots \ {k} : In(desk, k) \cap In(desk, m) = {}
    BY <1>1 DEF Base, Placed
  <2>2. \A k \in Slots : IsInjective(g.windows[k])
    BY <1>7, <1>14, <1>20, <2>1
  <2>3. \A k \in Slots : \A m \in Slots \ {k} : In(g, k) \cap In(g, m) = {}
    BY <1>24, <2>1
  <2> QED BY <2>2, <2>3 DEF Placed
<1>26. Listed(g)
  <2> SUFFICES ASSUME NEW k \in Slots
               PROVE  /\ IsInjective(g.minimizedHistory[k])
                      /\ ToSet(g.minimizedHistory[k]) = In(g, k) \cap g.minimized
                      /\ {g.fullscreen[k], g.maximized[k]} \subseteq In(g, k) \cup {NoWindow}
    BY DEF Listed
  <2>1. /\ IsInjective(desk.minimizedHistory[k])
        /\ ToSet(desk.minimizedHistory[k]) = In(desk, k) \cap desk.minimized
        /\ {desk.fullscreen[k], desk.maximized[k]} \subseteq In(desk, k) \cup {NoWindow}
    BY <1>1 DEF Base, Listed
  <2>2. g.minimized = desk.minimized \ {w}
    BY <1>15, <1>20
  <2>3. CASE k = i
    BY <1>9, <1>12, <1>14, <1>20, <1>24, <2>1, <2>2, <2>3
  <2>4. CASE k # i
    BY <1>14, <1>20, <1>22, <1>23, <2>1, <2>2, <2>4
  <2> QED BY <2>3, <2>4
<1>27. Managed(g) = Managed(desk) \ {w}
  BY <1>24 DEF Managed
<1>28. Base(g)
  BY <1>1, <1>15, <1>19, <1>20, <1>25, <1>26, <1>27 DEF Base
<1>29. SameSeat(desk, g) /\ g.focus = desk.focus
  BY <1>15, <1>16, <1>20, <1>21 DEF SameSeat
<1>30. Host(g)
  BY <1>1, <1>29, Zenon DEF Sighted, Host, SameSeat
<1>31. Kept(desk, g, {w})
  BY <1>24, <1>27 DEF Kept
<1>32. /\ g.focusHistory[i] = H
       /\ \A k \in Slots \ {i} : g.focusHistory[k] = desk.focusHistory[k]
  BY <1>14, <1>20
<1> QED BY <1>2, <1>24, <1>28, <1>30, <1>31, <1>32 DEF g, i, H

\* A window goes, and the rest is laid out again.
LEMMA RemoveStep ==
  ASSUME IInv, NEW w, RemoveWindow(w)
  PROVE  Fine(desk, desk')
<1> DEFINE g == Gone(desk, SlotOf(desk, w), w)
<1>1. w \in Managed(desk) /\ desk' = Relayout(g)
  BY DEF RemoveWindow, Become
<1>2. Base(g) /\ Host(g) /\ Kept(desk, g, {w})
  BY <1>1, GoneWorks
<1> HIDE DEF g
<1> QED BY <1>1, <1>2, RelayoutFine DEF IInv

-----------------------------------------------------------------------------
(* Families                                                                *)

\* The ancestors of a window are its parent and its parent's, as far as the slot goes.
LEMMA AncestorsClosed ==
  ASSUME NEW d \in States, NEW i, NEW w \in Windows
  PROVE  /\ d.parent[w] # NoWindow => d.parent[w] \in Ancestors(d, i, w)
         /\ \A x \in Ancestors(d, i, w) \cap In(d, i) :
              d.parent[x] # NoWindow => d.parent[x] \in Ancestors(d, i, w)
<1> DEFINE C(up) == \A x \in {w} \cup (up \cap In(d, i)) : d.parent[x] \in up \cup {NoWindow}
           L == {a \in Windows : \A up \in SUBSET Windows : C(up) => a \in up}
<1>1. Ancestors(d, i, w) = IF d.parent[w] = NoWindow THEN {} ELSE L
  BY DEF Ancestors
<1>2. \A v \in Windows : d.parent[v] \in Windows \cup {NoWindow}
  BY DEF States
<1>3. ASSUME d.parent[w] # NoWindow PROVE d.parent[w] \in L
  BY <1>2, <1>3
<1>4. ASSUME NEW x \in L \cap In(d, i), d.parent[x] # NoWindow PROVE d.parent[x] \in L
  <2>1. d.parent[x] \in Windows
    BY <1>2, <1>4
  <2>2. ASSUME NEW up \in SUBSET Windows, C(up) PROVE d.parent[x] \in up
    <3>1. x \in up
      BY <2>2
    <3>2. d.parent[x] \in up \cup {NoWindow}
      BY <2>2, <3>1
    <3> QED BY <1>4, <3>2
  <2> HIDE DEF C
  <2> QED BY <2>1, <2>2
<1> HIDE DEF L
<1> QED BY <1>1, <1>3, <1>4

\* A set that has the parents of w and of its own members in the slot has the ancestors.
LEMMA AncestorsLeast ==
  ASSUME NEW d, NEW i, NEW w, NEW up \in SUBSET Windows,
         \A x \in {w} \cup (up \cap In(d, i)) : d.parent[x] \in up \cup {NoWindow}
  PROVE  Ancestors(d, i, w) \subseteq up
BY DEF Ancestors

\* Above a window is its parent, and above that what is above its parent.
LEMMA AncestorsOfParent ==
  ASSUME NEW d \in States, NEW i, NEW w \in Windows,
         d.parent[w] \in In(d, i), d.parent[w] # NoWindow
  PROVE  Ancestors(d, i, w) = {d.parent[w]} \cup Ancestors(d, i, d.parent[w])
<1> DEFINE p == d.parent[w]
           U == {p} \cup Ancestors(d, i, p)
<1>1. \A v \in Windows : d.parent[v] \in Windows \cup {NoWindow}
  BY DEF States
<1>2. p \in Windows
  BY <1>1
<1> HIDE DEF p
<1>3. /\ p \in Ancestors(d, i, w)
      /\ \A x \in Ancestors(d, i, w) \cap In(d, i) :
              d.parent[x] # NoWindow => d.parent[x] \in Ancestors(d, i, w)
  BY AncestorsClosed DEF p
<1>4. /\ d.parent[p] # NoWindow => d.parent[p] \in Ancestors(d, i, p)
      /\ \A x \in Ancestors(d, i, p) \cap In(d, i) :
              d.parent[x] # NoWindow => d.parent[x] \in Ancestors(d, i, p)
  BY <1>2, AncestorsClosed
<1>5. Ancestors(d, i, w) \subseteq Windows /\ Ancestors(d, i, p) \subseteq Windows
  BY DEF Ancestors
<1>6. p \in In(d, i) /\ p = d.parent[w]
  BY DEF p
<1>7. Ancestors(d, i, w) \subseteq U
  <2>1. U \in SUBSET Windows
    BY <1>2, <1>5
  <2>2. ASSUME NEW x \in {w} \cup (U \cap In(d, i))
        PROVE  d.parent[x] \in U \cup {NoWindow}
    BY <1>4, <1>6
  <2> HIDE DEF U
  <2> QED BY <2>1, <2>2, AncestorsLeast
<1>8. Ancestors(d, i, p) \subseteq Ancestors(d, i, w)
  <2>1. \A x \in {p} \cup (Ancestors(d, i, w) \cap In(d, i)) :
          d.parent[x] \in Ancestors(d, i, w) \cup {NoWindow}
    BY <1>3, <1>6
  <2> QED BY <1>5, <2>1, AncestorsLeast
<1> QED BY <1>3, <1>7, <1>8 DEF p

\* A parent and its child in the slot of the focused window are both of its family, or
\* neither is.
LEMMA FamilyClosed ==
  ASSUME NEW d \in States, NEW w \in In(d, d.active), d.parent[w] \in In(d, d.active),
         d.focus \in In(d, d.active)
  PROVE  w \in Family(d) <=> d.parent[w] \in Family(d)
<1> DEFINE i == d.active
           f == d.focus
           p == d.parent[w]
<1>1. i \in Slots
  BY DEF States
<1>2. {w, p, f} \subseteq Windows /\ p # NoWindow
  BY <1>1, InWindows
<1>3. Ancestors(d, i, w) = {p} \cup Ancestors(d, i, p)
  BY <1>2, AncestorsOfParent
<1>4. \A x \in Ancestors(d, i, f) \cap In(d, i) :
        d.parent[x] # NoWindow => d.parent[x] \in Ancestors(d, i, f)
  BY <1>2, AncestorsClosed
<1>5. Line(d, i, p) \subseteq Line(d, i, w)
  BY <1>3 DEF Line
<1>6. p \in Family(d) => w \in Family(d)
  BY <1>5 DEF Family
<1>7. p \in Line(d, i, p)
  BY DEF Line
<1>8. ASSUME w \in Family(d) PROVE p \in Family(d)
  <2>1. PICK a \in Line(d, i, w) : a \in Line(d, i, f)
    BY <1>8 DEF Family
  <2>2. CASE w \in Line(d, i, f)
    <3>1. p \in Line(d, i, f)
      <4>1. CASE w = f
        BY <1>3, <4>1 DEF Line
      <4>2. CASE w \in Ancestors(d, i, f)
        BY <1>2, <1>4, <4>2 DEF Line
      <4> QED BY <2>2, <4>1, <4>2 DEF Line
    <3> QED BY <1>7, <3>1 DEF Family
  <2>3. CASE w \notin Line(d, i, f)
    <3>1. a \in Ancestors(d, i, w) /\ a \in In(d, i)
      BY <2>1, <2>3 DEF Line
    <3>2. a \in Line(d, i, p)
      BY <1>3, <3>1 DEF Line
    <3> QED BY <2>1, <3>2 DEF Family
  <2> QED BY <2>2, <2>3
<1> QED BY <1>6, <1>8

\* The focused window leaves with its family: no window is parted from its parent.
LEMMA MoveFocusedStep ==
  ASSUME IInv, NEW j \in Slots, MoveFocused(j)
  PROVE  /\ Fine(desk, desk')
         /\ \A w \in Windows, i \in Slots :
              (/\ desk.parent[w] # NoWindow
               /\ {w, desk.parent[w]} \subseteq In(desk, i))
                => SlotOf(desk', w) = SlotOf(desk', desk.parent[w])
<1> DEFINE a == desk.active
           F == Family(desk)
           m == MoveAll(desk, a, j, F)
<1>1. Base(desk) /\ Sighted(desk) /\ Host(desk) /\ desk \in States /\ a \in Slots
  BY DEF IInv, Base, States, Sighted
<1>2. j \in Slots \ {a} /\ desk' = Relayout(m)
  BY DEF MoveFocused, Become
<1>3. desk.focus \in In(desk, a)
  BY DEF MoveFocused, Focused
<1>4. F \in SUBSET In(desk, a)
  BY DEF Family
<1>5. \A w \in In(desk, a) :
        desk.parent[w] \in In(desk, a) => (w \in F <=> desk.parent[w] \in F)
  BY <1>1, <1>3, FamilyClosed
<1>6. \A i \in Slots \ {a} : In(desk, i) \cap F = {}
  BY <1>1, <1>4 DEF Base, Placed
<1> HIDE DEF a, F
<1>7. Moved(desk, m, a, j, F)
  BY <1>1, <1>2, <1>4, MoveAllWorks
<1> HIDE DEF m
<1>8. /\ Base(m) /\ Kept(desk, m, F) /\ SameSeat(desk, m) /\ m.focus = desk.focus
      /\ \A w \in F : SlotOf(m, w) = j
      /\ \A w \in Managed(desk) \ F : SlotOf(m, w) = SlotOf(desk, w)
  BY <1>1, <1>2, <1>4, <1>7, MovedWorks
<1>9. Host(m)
  BY <1>1, <1>8, Zenon DEF Host, SameSeat
<1>10. Fine(desk, desk')
  BY <1>1, <1>2, <1>8, <1>9, RelayoutFine
<1>11. \A w : SlotOf(desk', w) = SlotOf(m, w)
  <2>1. SameWindows(m, desk')
    BY <1>2, <1>8, <1>9, RelayoutWorks DEF SameDesk
  <2> QED BY <2>1, DeskLooks
<1>12. ASSUME NEW w \in Windows, NEW i \in Slots, {w, desk.parent[w]} \subseteq In(desk, i)
       PROVE  SlotOf(desk', w) = SlotOf(desk', desk.parent[w])
  <2> DEFINE p == desk.parent[w]
  <2>1. w \in F <=> p \in F
    <3>1. CASE i = a
      BY <1>5, <1>12, <3>1
    <3>2. CASE i # a
      BY <1>6, <1>12, <3>2
    <3> QED BY <3>1, <3>2
  <2>2. {w, p} \subseteq Managed(desk)
    BY <1>12 DEF Managed
  <2>3. SlotOf(desk, w) = i /\ SlotOf(desk, p) = i
    BY <1>1, <1>12, SlotOfIn DEF Base
  <2> HIDE DEF p
  <2>4. SlotOf(m, w) = SlotOf(m, p)
    <3>1. CASE w \in F
      BY <1>8, <2>1, <3>1
    <3>2. CASE w \notin F
      BY <1>8, <2>1, <2>2, <2>3, <3>2
    <3> QED BY <3>1, <3>2
  <2> QED BY <1>11, <2>4 DEF p
<1> QED BY <1>10, <1>12

-----------------------------------------------------------------------------
(* The theorems                                                            *)

\* An empty compositor.
LEMMA InitWorks ==
  ASSUME Init
  PROVE  IInv
<1>1. PICK first \in Slots : desk =
  [windows |-> [i \in Slots |-> <<>>], focusHistory |-> [i \in Slots |-> <<>>],
   minimizedHistory |-> [i \in Slots |-> <<>>],
   fullscreen |-> [i \in Slots |-> NoWindow], maximized |-> [i \in Slots |-> NoWindow],
   minimized |-> {}, floating |-> {}, override |-> [w \in Windows |-> "none"],
   parent |-> [w \in Windows |-> NoWindow], hint |-> [w \in Windows |-> NoWindow],
   pending |-> {}, ruled |-> {}, opened |-> {},
   active |-> first, focus |-> Nobody, hostFocused |-> TRUE, shell |-> "none"]
  BY DEF Init
<1>2. desk \in States
  <2>1. [i \in Slots |-> <<>>] \in [Slots -> Seq(Windows)]
    OBVIOUS
  <2> QED BY <1>1, <2>1 DEF States, Layers
<1>3. /\ \A i \in Slots : /\ desk.windows[i] = <<>> /\ desk.minimizedHistory[i] = <<>>
                          /\ desk.fullscreen[i] = NoWindow /\ desk.maximized[i] = NoWindow
      /\ desk.minimized = {} /\ desk.focus = Nobody /\ desk.active \in Slots
  BY <1>1
<1>4. ToSet(<<>>) = {} /\ IsInjective(<<>>)
  BY DEF ToSet, IsInjective
<1>5. \A i \in Slots : In(desk, i) = {}
  BY <1>3, <1>4 DEF In
<1>6. Base(desk)
  BY <1>2, <1>3, <1>4, <1>5 DEF Base, Placed, Listed, Managed
<1>7. Visible(desk, desk.active) = {}
  BY <1>3, <1>5, VisibleIn
<1>8. Sighted(desk)
  BY <1>3, <1>7 DEF Sighted, Host
<1> QED BY <1>6, <1>8 DEF IInv

\* Every handler ends well.
LEMMA NextFine ==
  ASSUME IInv, Next
  PROVE  Fine(desk, desk')
<1>1. CASE \E w \in Windows, i \in Slots, x11 \in BOOLEAN : Open(w, i, x11)
  BY <1>1, OpenStep
<1>2. CASE \E w \in Windows : Commit(w)
  BY <1>2, CommitStep
<1>3. CASE \E w \in Windows, p \in Windows \cup {NoWindow} : ParentChanged(w, p)
  BY <1>3, ParentStep
<1>4. CASE \E w \in Windows : RemoveWindow(w)
  BY <1>4, RemoveStep
<1>5. CASE \E w \in Windows, on \in BOOLEAN : SetFullscreen(w, on)
  BY <1>5, OverlayStep
<1>6. CASE \E w \in Windows, on \in BOOLEAN : SetMaximized(w, on)
  BY <1>6, OverlayStep
<1>7. CASE \E w \in Windows : Minimize(w)
  BY <1>7, MinimizeStep
<1>8. CASE RestoreLast
  BY <1>8, RestoreLastStep
<1>9. CASE \E w \in Windows : Restore(w)
  BY <1>9, RestoreStep
<1>10. CASE \E i \in Slots : SwitchWorkspace(i)
  BY <1>10, SwitchStep
<1>11. CASE \E w \in Windows : FocusWindow(w)
  BY <1>11, FocusWindowStep
<1>12. CASE \E order \in Orders, step \in {"next", "previous"} : CycleFocus(order, step)
  <2>1. \E w : desk' = ApplyFocus(Reveal(desk, w), w, FALSE)
    BY <1>12 DEF CycleFocus, Become
  <2> QED BY <2>1, RevealStep
<1>13. CASE \E w \in Windows : FocusDirection(w)
  <2>1. \E w : desk' = ApplyFocus(Reveal(desk, w), w, TRUE)
    BY <1>13 DEF FocusDirection, Become
  <2> QED BY <2>1, RevealStep
<1>14. CASE \E w \in Windows : SwapTiles(w)
  BY <1>14, SwapStep
<1>15. CASE ToggleFloating
  BY <1>15, FloatStep
<1>16. CASE \E j \in Slots : MoveFocused(j)
  BY <1>16, MoveFocusedStep
<1>17. CASE \E hit \in Windows \cup {Shell, Nobody} : PointAt(hit)
  BY <1>17, PointStep
<1>18. CASE \E shell \in ShellStates : ShellChanges(shell)
  BY <1>18, ShellStep
<1>19. CASE \E on \in HostStates : HostFocus(on)
  BY <1>19, HostStep, WindowAssumption
<1>20. CASE LayOutAgain
  BY <1>20, LayOutStep
<1> QED
  BY <1>1, <1>2, <1>3, <1>4, <1>5, <1>6, <1>7, <1>8, <1>9, <1>10, <1>11, <1>12, <1>13,
     <1>14, <1>15, <1>16, <1>17, <1>18, <1>19, <1>20 DEF Next

\* The windows are where they should be, and the keyboard with something in sight, after
\* every handler.
THEOREM Invariance == Spec => []IInv
<1>1. Init => IInv
  BY InitWorks
<1>2. IInv /\ [Next]_desk => IInv'
  <2> SUFFICES ASSUME IInv, [Next]_desk PROVE IInv'
    OBVIOUS
  <2>1. CASE Next
    BY <2>1, NextFine DEF Fine, IInv
  <2>2. CASE UNCHANGED desk
    BY <2>2 DEF IInv
  <2> QED BY <2>1, <2>2
<1> QED BY <1>1, <1>2, PTL DEF Spec

\* Whatever slot a minimised window was carried to, that slot lists it once, and lists
\* nothing else, so that restoring the last minimised window reaches it.
THEOREM Reachable == Spec => []MinimizedReachable
<1>1. IInv => MinimizedReachable
  BY DEF IInv, Base, Placed, Listed, MinimizedReachable, TypeOK
<1> QED BY <1>1, Invariance, PTL

\* The keyboard is never with a window that is minimised, covered, elsewhere or gone.
THEOREM FollowsSight == Spec => []KeyboardFollowsSight
<1>1. IInv => KeyboardFollowsSight
  BY DEF IInv, Sighted, Host, KeyboardFollowsSight
<1> QED BY <1>1, Invariance, PTL

\* What hides the shell surface, its own commits apart, takes the keyboard from it.
THEOREM ShellLeft == Spec => HiddenShellIsLeft
<1>1. IInv /\ [Next]_desk =>
        [(desk.focus = Shell /\ ShellVisible(desk) /\ desk'.shell = desk.shell) =>
           (desk'.focus # Shell \/ ShellVisible(desk'))]_desk
  <2> SUFFICES ASSUME IInv, Next, desk.focus = Shell, ShellVisible(desk),
                      desk'.shell = desk.shell
               PROVE  desk'.focus # Shell \/ ShellVisible(desk')
    OBVIOUS
  <2>1. Fine(desk, desk')
    BY NextFine
  <2> QED BY <2>1 DEF Fine, Lit
<1> QED BY <1>1, Invariance, PTL DEF Spec, HiddenShellIsLeft

\* A window that covers its slot covers the one it is carried to.
THEOREM OverlaysGoAlong == Spec => OverlaysTravel
<1>1. IInv /\ [Next]_desk => [Travel(desk, desk')]_desk
  BY NextFine DEF Fine
<1>2. [Travel(desk, desk')]_desk =>
        [\A i \in Slots :
           LET Left(w) == w \notin In(desk', i) /\ w \in Managed(desk')
           IN /\ Left(desk.fullscreen[i]) =>
                   \E j \in Slots : desk'.fullscreen[j] = desk.fullscreen[i]
              /\ Left(desk.maximized[i]) =>
                   \E j \in Slots : desk'.maximized[j] = desk.maximized[i]]_desk
  BY DEF Travel
<1> QED BY <1>1, <1>2, Invariance, PTL DEF Spec, OverlaysTravel

\* Sending the focused window elsewhere parts no window from its parent.
THEOREM FamiliesStay == Spec => FamilyTogether
<1>1. IInv /\ [Next]_desk =>
        [\A w \in Windows, i \in Slots :
           (/\ desk.parent[w] # NoWindow
            /\ {w, desk.parent[w]} \subseteq In(desk, i)
            /\ {w, desk.parent[w]} \subseteq Managed(desk')
            /\ SlotOf(desk', w) # SlotOf(desk', desk.parent[w])) =>
              \A j \in Slots : ~MoveFocused(j)]_desk
  BY MoveFocusedStep
<1> QED BY <1>1, Invariance, PTL DEF Spec, FamilyTogether

\* focus_window() that does not refuse gives the window the keyboard, unless the host is
\* elsewhere or the shell surface insists.
THEOREM Granted == Spec => FocusGranted
<1>1. IInv /\ [Next]_desk =>
        [\A w \in Windows :
           (desk.hostFocused /\ desk'.focus # IF ShellExclusive(desk') THEN Shell ELSE w) =>
             ~FocusWindow(w)]_desk
  <2> SUFFICES ASSUME IInv, NEW w \in Windows, desk.hostFocused, FocusWindow(w)
               PROVE  desk'.focus = IF ShellExclusive(desk') THEN Shell ELSE w
    OBVIOUS
  <2>1. /\ ShellExclusive(desk') => desk'.focus = Shell
        /\ ~ShellExclusive(desk') => desk'.focus = w
    BY FocusWindowStep
  <2> QED BY <2>1
<1> QED BY <1>1, Invariance, PTL DEF Spec, FocusGranted

-----------------------------------------------------------------------------
(* Recency: walking the windows                                            *)

\* Walking to a window remembers at most what was last already.
LEMMA WalkKeepsRecency ==
  ASSUME IInv, Recorded(desk, desk.active), NEW w, desk' = ApplyFocus(Reveal(desk, w), w, FALSE)
  PROVE  LET Recent(d) == Only(d.focusHistory[desk.active], ToSet(Candidates(desk, desk.active)))
         IN Recent(desk') = Recent(desk)
<1> DEFINE i == desk.active
           C == {x \in In(desk, i) : Shown(desk, i, x)}
           h == desk.focusHistory[i]
           u == Uncover(desk, i)
           t == Reveal(desk, w)
           v == LastVisible(u, i)
<1>1. Base(desk) /\ desk \in States /\ i \in Slots
  BY DEF IInv, Base, States
<1>2. desk.windows[i] \in Seq(Windows) /\ h \in Seq(Windows)
  BY <1>1 DEF States
<1>3. ToSet(Candidates(desk, i)) = C
  <2>1. ToSet(Candidates(desk, i)) = In(desk, i) \cap C
    BY <1>2, OnlyTyped DEF Candidates, In
  <2> QED BY <2>1
<1>4. IsInjective(h) /\ C \subseteq ToSet(h)
  BY DEF Recorded
<1>5. t \in States
  BY <1>1, RevealWorks DEF IInv, Fine, Base
<1>6. desk'.focusHistory = t.focusHistory
  <2> HIDE DEF t
  <2>1. \/ desk' = t
        \/ \E x : desk' = [t EXCEPT !.focus = x]
    BY Zenon DEF ApplyFocus, t
  <2> QED BY <1>5, <2>1 DEF States
<1>7. CASE t.focusHistory[i] = h
  BY <1>3, <1>6, <1>7
<1>8. CASE t.focusHistory[i] # h
  <2>1. t = RestoreFocus(u)
    BY <1>8 DEF Reveal, Relayout
  <2>2. /\ Base(u) /\ \A j \in Slots : In(u, j) = In(desk, j)
        /\ \A x : Shown(u, i, x) <=> Shown(desk, i, x)
        /\ \A x : Shown(desk, i, x) => x \in Visible(u, i)
        /\ SameSeat(desk, u)
    BY <1>1, UncoverShows
  <2>3. u.focusHistory[i] = h /\ u.active = i /\ u \in States
    BY <1>1, <2>2 DEF Uncover, States, SameSeat, Base
  <2>4. Visible(u, i) = C
    BY <1>1, <2>2, VisibleIn
  <2>5. Placed(u)
    BY <2>2 DEF Base
  <2> HIDE DEF u, t, h, C
  <2>6. t # u
    BY <1>8, <2>3
  <2>7. t = FocusOrNobody(u, v)
    BY <2>1, <2>3, <2>6 DEF RestoreFocus
  <2>8. v # NoWindow /\ t = ApplyFocus(u, v, TRUE)
    <3>1. [u EXCEPT !.focus = Nobody].focusHistory[i] = h
      BY <2>3 DEF States
    <3> QED BY <1>8, <2>7, <3>1 DEF FocusOrNobody
  <2>9. v \in C /\ v \in In(u, i)
    BY <1>1, <2>3, <2>4, <2>8, LastVisibleFound, VisibleIn
  <2>10. /\ Only(h, C) \in Seq(Windows) /\ ToSet(Only(h, C)) = ToSet(h) \cap C
    BY <1>2, OnlyTyped
  <2>11. Only(h, C) # <<>>
    <3>1. ToSet(Only(h, C)) # {}
      BY <1>4, <2>9, <2>10
    <3> QED BY <3>1 DEF ToSet
  <2>12. v = Last(Only(h, C))
    BY <2>3, <2>4, <2>11 DEF LastVisible, LastAmong
  <2>13. v \in Managed(u) /\ SlotOf(u, v) = i
    BY <1>1, <2>5, <2>9, SlotOfIn DEF Managed
  <2> HIDE DEF v
  <2>14. t = [Remember(u, v) EXCEPT !.focus = IF ShellExclusive(Remember(u, v)) THEN Shell ELSE v]
    BY <2>6, <2>8, Zenon DEF ApplyFocus
  <2>15. Remember(u, v) = [u EXCEPT !.focusHistory[i] = Append(Without(@, v), v)]
    BY <2>13 DEF Remember
  <2>16. Remember(u, v) \in States
    BY <2>2, RememberSame DEF SameDesk
  <2>17. Remember(u, v).focusHistory[i] = Append(Without(h, v), v)
    BY <1>1, <2>3, <2>15 DEF States
  <2>18. t.focusHistory[i] = Append(Without(h, v), v)
    <3> DEFINE r == Remember(u, v)
    <3>1. \E x : t = [r EXCEPT !.focus = x]
      BY <2>14
    <3>2. r \in States /\ r.focusHistory[i] = Append(Without(h, v), v)
      BY <2>16, <2>17
    <3> HIDE DEF r
    <3> QED BY <3>1, <3>2 DEF States
  <2>19. Only(t.focusHistory[i], C) = Only(h, C)
    BY <1>2, <1>4, <2>11, <2>12, <2>18, LastStaysLast
  <2> QED BY <1>3, <1>6, <2>19 DEF h
<1> QED BY <1>7, <1>8

\* Wherever the active slot remembers each of its windows once, walking them leaves their
\* order of recency as it is: for any slots, whatever was done to the others.
THEOREM WalksKeepRecency == Spec => CycleKeepsRecency
<1>1. IInv /\ [Next]_desk =>
        [LET i == desk.active
             Recent(d) == Only(d.focusHistory[i], ToSet(Candidates(desk, i)))
         IN Recorded(desk, i) /\ Recent(desk') # Recent(desk) =>
              \A order \in Orders, step \in {"next", "previous"} : ~CycleFocus(order, step)]_desk
  <2> SUFFICES ASSUME IInv, Recorded(desk, desk.active),
                      NEW order \in Orders, NEW step \in {"next", "previous"},
                      CycleFocus(order, step)
               PROVE  LET i == desk.active
                          Recent(d) == Only(d.focusHistory[i], ToSet(Candidates(desk, i)))
                      IN Recent(desk') = Recent(desk)
    BY Zenon
  <2>1. \E w : desk' = ApplyFocus(Reveal(desk, w), w, FALSE)
    BY DEF CycleFocus, Become
  <2> QED BY <2>1, WalkKeepsRecency
<1> QED BY <1>1, Invariance, PTL DEF Spec, CycleKeepsRecency

==============================================================================
