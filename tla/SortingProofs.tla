----------------------------- MODULE SortingProofs -----------------------------
(***************************************************************************)
(* What TLAPS proves of the sorted lists of Contents: every list of        *)
(* numbers has a sorting, a sorting loses and repeats nothing, and however *)
(* the elements of a set were listed, their numbers come out in one order. *)
(***************************************************************************)
EXTENDS Contents, FiniteSetTheorems, TLAPS

(* How a loop over the finite set S may list it. *)
Listings(n, S) == {f \in [1..n -> S] : \A i, j \in 1..n : i # j => f[i] # f[j]}

LEMMA UpTo ==
  ASSUME NEW n \in Nat
  PROVE  IsFiniteSet(1..n) /\ Cardinality(1..n) = n
BY FS_Interval

(* A list that takes every place once takes every place.                   *)
LEMMA ListingOnto ==
  ASSUME NEW n \in Nat, NEW S, IsFiniteSet(S), n = Cardinality(S),
         NEW f \in Listings(n, S)
  PROVE  \A x \in S : \E i \in 1..n : f[i] = x
<1>1. f \in Injection(1..n, S)
  BY DEF Injection, IsInjective, Listings
<1>2. IsFiniteSet(1..n) /\ Cardinality(1..n) = n
  BY FS_Interval
<1>3. f \in Surjection(1..n, S)
  BY <1>1, <1>2, FS_Injection
<1>. QED  BY <1>3 DEF Surjection

LEMMA PermutationOnto ==
  ASSUME NEW n \in Nat, NEW p \in [1..n -> 1..n],
         \A i, j \in 1..n : i # j => p[i] # p[j]
  PROVE  \A x \in 1..n : \E i \in 1..n : p[i] = x
<1>. DEFINE S == 1..n
<1>1. IsFiniteSet(S) /\ n = Cardinality(S)
  BY FS_Interval
<1>2. p \in Listings(n, S)
  BY DEF Listings
<1>. HIDE DEF S
<1>3. \A x \in S : \E i \in 1..n : p[i] = x
  BY <1>1, <1>2, ListingOnto
<1>. QED  BY <1>3 DEF S

LEMMA Listed ==
  ASSUME NEW S, IsFiniteSet(S)
  PROVE  Cardinality(S) \in Nat /\ SetToSeqs(S) = Listings(Cardinality(S), S)
<1>1. Cardinality(S) \in Nat
  BY FS_CardinalityType
<1>. QED  BY <1>1 DEF SetToSeqs, Listings

-----------------------------------------------------------------------------
(* Every list of numbers has a sorting.                                    *)

(* The places that come before a place, itself included, when equals stay  *)
(* as they are.                                                            *)
Before(key, i) ==
  {j \in DOMAIN key : key[j] < key[i] \/ (key[j] = key[i] /\ j <= i)}

LEMMA BeforeGrows ==
  ASSUME NEW n \in Nat, NEW key \in [1..n -> Int], NEW i \in 1..n, NEW j \in 1..n,
         i # j, key[j] < key[i] \/ (key[j] = key[i] /\ j <= i)
  PROVE  Cardinality(Before(key, j)) < Cardinality(Before(key, i))
<1>1. IsFiniteSet(1..n)
  BY FS_Interval
<1>2. Before(key, i) \subseteq 1..n /\ Before(key, j) \subseteq Before(key, i)
  BY DEF Before
<1>3. i \in Before(key, i) /\ i \notin Before(key, j)
  BY DEF Before
<1>4. IsFiniteSet(Before(key, i))
  BY <1>1, <1>2, FS_Subset
<1>5. IsFiniteSet(Before(key, j))
  BY <1>2, <1>4, FS_Subset
<1>6. /\ Cardinality(Before(key, j)) <= Cardinality(Before(key, i))
      /\ Cardinality(Before(key, j)) # Cardinality(Before(key, i))
  BY <1>2, <1>3, <1>4, FS_Subset
<1>7. Cardinality(Before(key, j)) \in Nat /\ Cardinality(Before(key, i)) \in Nat
  BY <1>4, <1>5, FS_CardinalityType
<1>. QED  BY <1>6, <1>7

LEMMA SortingExists ==
  ASSUME NEW n \in Nat, NEW key \in [1..n -> Int]
  PROVE  Sortings(key) # {}
<1>. DEFINE place == [i \in 1..n |-> Cardinality(Before(key, i))]
<1>1. IsFiniteSet(1..n) /\ Cardinality(1..n) = n
  BY FS_Interval
<1>2. place \in [1..n -> 1..n]
  <2>. SUFFICES ASSUME NEW i \in 1..n PROVE Cardinality(Before(key, i)) \in 1..n
    OBVIOUS
  <2>1. Before(key, i) \subseteq 1..n /\ i \in Before(key, i)
    BY DEF Before
  <2>2. IsFiniteSet(Before(key, i)) /\ Cardinality(Before(key, i)) <= n
    BY <1>1, <2>1, FS_Subset
  <2>3. Cardinality(Before(key, i)) \in Nat /\ Cardinality(Before(key, i)) # 0
    BY <2>1, <2>2, FS_CardinalityType, FS_EmptySet
  <2>. QED  BY <2>2, <2>3
<1>3. ASSUME NEW i \in 1..n, NEW j \in 1..n, i # j,
             key[j] < key[i] \/ (key[j] = key[i] /\ j <= i)
      PROVE  place[j] < place[i]
  BY <1>3, BeforeGrows
<1>4. \A i, j \in 1..n : i # j => place[i] # place[j]
  <2>. SUFFICES ASSUME NEW i \in 1..n, NEW j \in 1..n, i # j PROVE place[i] # place[j]
    OBVIOUS
  <2>1. /\ key[i] \in Int /\ key[j] \in Int
        /\ place[i] \in 1..n /\ place[j] \in 1..n
    BY <1>2
  <2>2. \/ key[j] < key[i] \/ (key[j] = key[i] /\ j <= i)
        \/ key[i] < key[j] \/ (key[i] = key[j] /\ i <= j)
    BY <2>1
  <2>3. place[j] < place[i] \/ place[i] < place[j]
    BY <1>3, <2>2
  <2>. QED  BY <2>1, <2>3
<1>. HIDE DEF place
<1>5. \A x \in 1..n : \E i \in 1..n : place[i] = x
  BY <1>2, <1>4, PermutationOnto
<1>. DEFINE p == [x \in 1..n |-> CHOOSE i \in 1..n : place[i] = x]
<1>6. \A x \in 1..n : p[x] \in 1..n /\ place[p[x]] = x
  BY <1>5
<1>7. p \in [1..n -> 1..n]
  BY <1>6
<1>. HIDE DEF p
<1>8. ASSUME NEW x \in 1..n, NEW y \in 1..n, x < y
      PROVE  p[x] # p[y] /\ key[p[x]] <= key[p[y]]
  <2>1. p[x] \in 1..n /\ p[y] \in 1..n /\ place[p[x]] = x /\ place[p[y]] = y
    BY <1>6
  <2>2. p[x] # p[y]
    BY <1>8, <2>1
  <2>3. CASE key[p[y]] < key[p[x]]
    <3>1. place[p[y]] < place[p[x]]
      BY <1>3, <2>1, <2>2, <2>3
    <3>. QED  BY <1>8, <2>1, <3>1
  <2>4. key[p[x]] \in Int /\ key[p[y]] \in Int
    BY <2>1
  <2>. QED  BY <2>2, <2>3, <2>4
<1>9. DOMAIN key = 1..n
  OBVIOUS
<1>10. p \in Sortings(key)
  BY <1>7, <1>8, <1>9 DEF Sortings
<1>. QED  BY <1>10

(* Sorting moves every element to one place. *)
LEMMA SortingMoves ==
  ASSUME NEW n \in Nat, NEW key \in [1..n -> Int]
  PROVE  LET p == Sorting(key)
         IN  /\ p \in [1..n -> 1..n]
             /\ \A i, j \in 1..n : i # j => p[i] # p[j]
             /\ \A i, j \in 1..n : i < j => key[p[i]] <= key[p[j]]
             /\ \A x \in 1..n : \E i \in 1..n : p[i] = x
<1>. DEFINE p == Sorting(key)
<1>1. p \in Sortings(key)
  BY SortingExists DEF Sorting
<1>. HIDE DEF p
<1>2. DOMAIN key = 1..n
  OBVIOUS
<1>3. /\ p \in [1..n -> 1..n]
      /\ \A i, j \in 1..n : i < j => p[i] # p[j] /\ key[p[i]] <= key[p[j]]
  BY <1>1, <1>2 DEF Sortings
<1>4. \A i, j \in 1..n : i # j => p[i] # p[j]
  <2>. SUFFICES ASSUME NEW i \in 1..n, NEW j \in 1..n, i # j PROVE p[i] # p[j]
    OBVIOUS
  <2>1. i < j \/ j < i
    OBVIOUS
  <2>. QED  BY <1>3, <2>1
<1>5. \A x \in 1..n : \E i \in 1..n : p[i] = x
  BY <1>3, <1>4, PermutationOnto
<1>. QED  BY <1>3, <1>4, <1>5 DEF p

LEMMA SortingType ==
  ASSUME NEW n \in Nat, NEW key \in [1..n -> Int]
  PROVE  Sorting(key) \in [1..n -> 1..n]
BY SortingMoves

LEMMA SortingOnto ==
  ASSUME NEW n \in Nat, NEW key \in [1..n -> Int], NEW x \in 1..n
  PROVE  \E i \in 1..n : Sorting(key)[i] = x
BY SortingMoves

LEMMA SortingOrders ==
  ASSUME NEW n \in Nat, NEW key \in [1..n -> Int], NEW i \in 1..n, NEW j \in 1..n, i < j
  PROVE  key[Sorting(key)[i]] <= key[Sorting(key)[j]]
BY SortingMoves

(* A sorted list has the elements of the list. *)
LEMMA SortedType ==
  ASSUME NEW n \in Nat, NEW key \in [1..n -> Int], NEW X, NEW seq \in [1..n -> X]
  PROVE  SortBy(seq, key) \in [1..n -> X]
<1>1. Sorting(key) \in [1..n -> 1..n]
  BY SortingType
<1>. QED  BY <1>1 DEF SortBy

-----------------------------------------------------------------------------
(* One order comes out.                                                    *)

(* Two listings in which the numbers do not fall: the first of them has no *)
(* smaller number anywhere, or as many elements would be in one less place.*)
LEMMA NotBelow ==
  ASSUME NEW S, IsFiniteSet(S), NEW num \in [S -> Int],
         NEW n \in Nat, n = Cardinality(S),
         NEW g \in Listings(n, S), NEW h \in Listings(n, S),
         \A i, j \in 1..n : i < j => num[g[i]] <= num[g[j]],
         \A i, j \in 1..n : i < j => num[h[i]] <= num[h[j]],
         NEW k \in 1..n
  PROVE  ~(num[g[k]] < num[h[k]])
<1>. SUFFICES ASSUME num[g[k]] < num[h[k]] PROVE FALSE
  OBVIOUS
<1>. DEFINE A == {x \in S : num[x] <= num[g[k]]}
            first == [i \in 1..k |-> g[i]]
            place == [x \in A |-> CHOOSE i \in 1..n : h[i] = x]
<1>1. IsFiniteSet(A)
  BY FS_Subset
<1>2. g \in [1..n -> S] /\ h \in [1..n -> S]
  BY DEF Listings
<1>3. first \in Injection(1..k, A)
  <2>1. ASSUME NEW i \in 1..k PROVE g[i] \in A
    <3>1. i \in 1..n /\ (i < k \/ i = k)
      OBVIOUS
    <3>2. num[g[i]] \in Int /\ num[g[k]] \in Int
      BY <1>2, <3>1
    <3>3. num[g[i]] <= num[g[k]]
      BY <3>1, <3>2
    <3>. QED  BY <1>2, <3>1, <3>3
  <2>2. ASSUME NEW i \in 1..k, NEW j \in 1..k, i # j PROVE g[i] # g[j]
    <3>1. i \in 1..n /\ j \in 1..n
      OBVIOUS
    <3>. QED  BY <2>2, <3>1 DEF Listings
  <2>. HIDE DEF A
  <2>. QED  BY <2>1, <2>2 DEF Injection, IsInjective
<1>4. k <= Cardinality(A)
  <2>1. IsFiniteSet(1..k) /\ Cardinality(1..k) = k
    BY FS_Interval
  <2>. HIDE DEF A, first
  <2>. QED  BY <1>1, <1>3, <2>1, FS_Injection
<1>5. \A x \in A : \E i \in 1..n : h[i] = x
  BY ListingOnto
<1>6. \A x \in A : place[x] \in 1..n /\ h[place[x]] = x
  BY <1>5
<1>7. ASSUME NEW x \in A PROVE place[x] \in 1..(k - 1)
  <2>1. place[x] \in 1..n /\ h[place[x]] = x
    BY <1>6
  <2>. HIDE DEF place
  <2>2. CASE place[x] >= k
    <3>1. num[h[k]] <= num[x]
      <4>1. num[h[k]] \in Int
        BY <1>2
      <4>2. k < place[x] \/ k = place[x]
        BY <2>1, <2>2
      <4>. QED  BY <2>1, <4>1, <4>2
    <3>2. num[x] <= num[g[k]] /\ num[x] \in Int /\ num[h[k]] \in Int /\ num[g[k]] \in Int
      BY <1>2
    <3>. QED  BY <3>1, <3>2
  <2>. QED  BY <2>1, <2>2
<1>. HIDE DEF A
<1>8. place \in Injection(A, 1..(k - 1))
  <2>1. \A x, y \in A : place[x] = place[y] => x = y
    BY <1>6
  <2>2. place \in [A -> 1..(k - 1)]
    BY <1>7
  <2>. HIDE DEF place
  <2>. QED  BY <2>1, <2>2 DEF Injection, IsInjective
<1>9. Cardinality(A) <= k - 1
  <2>1. IsFiniteSet(1..(k - 1)) /\ Cardinality(1..(k - 1)) = k - 1
    <3>1. k - 1 \in Nat
      OBVIOUS
    <3>. QED  BY <3>1, UpTo
  <2>. HIDE DEF place
  <2>. QED  BY <1>8, <2>1, FS_Injection
<1>10. Cardinality(A) \in Nat
  BY <1>1, FS_CardinalityType
<1>. QED  BY <1>4, <1>9, <1>10

(* A listing that is sorted by the numbers of its elements is a listing,   *)
(* and the numbers of its elements do not fall.                            *)
LEMMA SortedListing ==
  ASSUME NEW S, NEW num \in [S -> Int], NEW n \in Nat, NEW f \in Listings(n, S),
         NEW key \in [1..n -> Int], \A i \in 1..n : key[i] = num[f[i]]
  PROVE  SortBy(f, key) \in Listings(n, S)
<1>1. f \in [1..n -> S] /\ \A i, j \in 1..n : i # j => f[i] # f[j]
  BY DEF Listings
<1>2. /\ Sorting(key) \in [1..n -> 1..n]
      /\ \A i, j \in 1..n : i # j => Sorting(key)[i] # Sorting(key)[j]
  BY SortingMoves
<1>3. SortBy(f, key) \in [1..n -> S]
  BY <1>1, SortedType
<1>4. ASSUME NEW i \in 1..n PROVE SortBy(f, key)[i] = f[Sorting(key)[i]]
  BY DEF SortBy
<1>. QED  BY <1>1, <1>2, <1>3, <1>4 DEF Listings

LEMMA SortedRises ==
  ASSUME NEW S, NEW num \in [S -> Int], NEW n \in Nat, NEW f \in Listings(n, S),
         NEW key \in [1..n -> Int], \A i \in 1..n : key[i] = num[f[i]],
         NEW i \in 1..n, NEW j \in 1..n, i < j
  PROVE  num[SortBy(f, key)[i]] <= num[SortBy(f, key)[j]]
<1>1. Sorting(key)[i] \in 1..n /\ Sorting(key)[j] \in 1..n
  <2>1. Sorting(key) \in [1..n -> 1..n]
    BY SortingType
  <2>. QED  BY <2>1
<1>2. key[Sorting(key)[i]] <= key[Sorting(key)[j]]
  BY SortingOrders
<1>3. /\ SortBy(f, key)[i] = f[Sorting(key)[i]]
      /\ SortBy(f, key)[j] = f[Sorting(key)[j]]
  BY DEF SortBy
<1>. QED  BY <1>1, <1>2, <1>3

(* The numbers of the elements of a listing. *)
Numbers(a, n, num, f) == a \in [1..n -> Int] /\ \A i \in 1..n : a[i] = num[f[i]]

(* However the elements of a set are listed, their numbers, sorted, make   *)
(* one list.                                                               *)
THEOREM SortedSame ==
  ASSUME NEW S, IsFiniteSet(S), NEW num \in [S -> Int],
         NEW n \in Nat, n = Cardinality(S),
         NEW f \in Listings(n, S), NEW g \in Listings(n, S),
         NEW a, Numbers(a, n, num, f), NEW b, Numbers(b, n, num, g)
  PROVE  SortBy(a, a) = SortBy(b, b)
<1>. DEFINE t == SortBy(f, a)
            u == SortBy(g, b)
            sa == SortBy(a, a)
            sb == SortBy(b, b)
<1>0. /\ a \in [1..n -> Int] /\ \A i \in 1..n : a[i] = num[f[i]]
      /\ b \in [1..n -> Int] /\ \A i \in 1..n : b[i] = num[g[i]]
  BY DEF Numbers
<1>1. t \in Listings(n, S) /\ u \in Listings(n, S)
  BY <1>0, SortedListing
<1>2. ASSUME NEW i \in 1..n, NEW j \in 1..n, i < j
      PROVE  num[t[i]] <= num[t[j]] /\ num[u[i]] <= num[u[j]]
  BY <1>0, <1>2, SortedRises
<1>3. ASSUME NEW i \in 1..n PROVE sa[i] = num[t[i]] /\ sb[i] = num[u[i]]
  <2>1. Sorting(a)[i] \in 1..n /\ Sorting(b)[i] \in 1..n
    <3>1. Sorting(a) \in [1..n -> 1..n] /\ Sorting(b) \in [1..n -> 1..n]
      BY <1>0, SortingType
    <3>. QED  BY <3>1
  <2>2. SortBy(a, a)[i] = a[Sorting(a)[i]] /\ SortBy(f, a)[i] = f[Sorting(a)[i]]
    BY <1>0 DEF SortBy
  <2>3. SortBy(b, b)[i] = b[Sorting(b)[i]] /\ SortBy(g, b)[i] = g[Sorting(b)[i]]
    BY <1>0 DEF SortBy
  <2>. QED  BY <1>0, <2>1, <2>2, <2>3
<1>4. sa \in [1..n -> Int] /\ sb \in [1..n -> Int]
  BY <1>0, SortedType
<1>. HIDE DEF t, u, sa, sb
<1>5. ASSUME NEW k \in 1..n PROVE num[t[k]] = num[u[k]]
  <2>1. ~(num[t[k]] < num[u[k]])
    BY <1>1, <1>2, NotBelow
  <2>2. ~(num[u[k]] < num[t[k]])
    BY <1>1, <1>2, NotBelow
  <2>3. num[t[k]] \in Int /\ num[u[k]] \in Int
    BY <1>1 DEF Listings
  <2>. QED  BY <2>1, <2>2, <2>3
<1>6. \A i \in 1..n : sa[i] = sb[i]
  BY <1>3, <1>5
<1>7. sa = sb
  BY <1>4, <1>6
<1>. QED  BY <1>7 DEF sa, sb

LEMMA SortedSetSame ==
  ASSUME NEW S, IsFiniteSet(S), \A x \in S : x \in Int, NEW n \in Nat, n = Cardinality(S),
         NEW f \in Listings(n, S), NEW g \in Listings(n, S)
  PROVE  SortBy(f, f) = SortBy(g, g)
<1>. DEFINE num == [x \in S |-> x]
<1>1. num \in [S -> Int]
  OBVIOUS
<1>2. Numbers(f, n, num, f)
  BY DEF Listings, Numbers
<1>3. Numbers(g, n, num, g)
  BY DEF Listings, Numbers
<1>. HIDE DEF num
<1>. QED  BY <1>1, <1>2, <1>3, SortedSame
=============================================================================
