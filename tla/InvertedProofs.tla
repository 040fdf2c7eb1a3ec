--------------------------- MODULE InvertedProofs ---------------------------
(***************************************************************************)
(* What TLAPS proves of Inverted, for every set of keys, items, values and *)
(* bounds: what convert makes of any tree, and the inductive invariant.    *)
(***************************************************************************)
EXTENDS Inverted, WellFoundedInduction, TLAPS

(* Induction on the natural numbers, with a set for the property. *)
LEMMA SetInduction ==
  ASSUME NEW S, 0 \in S, \A n \in Nat : n \in S => n + 1 \in S
  PROVE  \A n \in Nat : n \in S
<1>. SUFFICES ASSUME Nat \ S # {} PROVE FALSE
  OBVIOUS
<1>. DEFINE R == OpToRel(<, Nat)
<1>1. IsWellFoundedOn(R, Nat)
  BY NatLessThanWellFounded
<1>2. \A x, y \in Nat : y < x => <<y, x>> \in R
  BY DEF OpToRel
<1>. HIDE DEF R
<1>3. PICK x \in Nat \ S : \A y \in Nat \ S : <<y, x>> \notin R
  <2>. DEFINE T == Nat \ S
  <2>1. T \subseteq Nat /\ T # {}
    OBVIOUS
  <2>. HIDE DEF T
  <2>2. \E x \in T : \A y \in T : ~(<<y, x>> \in R)
    BY <1>1, <2>1, WFMin
  <2>. QED  BY <2>2 DEF T
<1>4. x # 0 /\ x - 1 \in Nat
  OBVIOUS
<1>5. <<x - 1, x>> \in R /\ (x - 1) + 1 = x
  BY <1>2, <1>4
<1>6. x - 1 \in S
  BY <1>3, <1>4, <1>5
<1>. QED  BY <1>4, <1>5, <1>6

-----------------------------------------------------------------------------
(* Convert, one leaf of the store after the other. *)

Start == [ok |-> TRUE, ret |-> Nothing, table |-> table]

Step(pairs, acc, n) ==
  IF Sorted[n] \in DOMAIN pairs
  THEN ConvertPair(acc, Sorted[n], pairs[Sorted[n]])
  ELSE acc

Recursion(pairs, f, N) ==
  f = [n \in 0 .. N |-> IF n = 0 THEN Start ELSE Step(pairs, f[n - 1], n)]

(* There is a function that obeys the recursion. *)
LEMMA RecursionExists ==
  ASSUME NEW pairs
  PROVE  \A N \in Nat : \E f : Recursion(pairs, f, N)
<1>. DEFINE S == {N \in Nat : \E f : Recursion(pairs, f, N)}
<1>1. 0 \in S
  <2>. DEFINE f == [n \in 0 .. 0 |-> IF n = 0 THEN Start ELSE 0]
  <2>1. f = [n \in 0 .. 0 |-> IF n = 0 THEN Start ELSE Step(pairs, f[n - 1], n)]
    OBVIOUS
  <2>2. Recursion(pairs, f, 0)
    BY <2>1 DEF Recursion
  <2>. QED  BY <2>2
<1>2. ASSUME NEW N \in Nat, N \in S
      PROVE  N + 1 \in S
  <2>1. PICK f : Recursion(pairs, f, N)
    BY <1>2
  <2>. DEFINE g == [n \in 0 .. N + 1 |->
                      IF n = N + 1 THEN Step(pairs, f[N], N + 1) ELSE f[n]]
  <2>2. \A n \in 0 .. N : g[n] = f[n]
    OBVIOUS
  <2>3. \A n \in 0 .. N : f[n] = IF n = 0 THEN Start ELSE Step(pairs, f[n - 1], n)
    BY <2>1 DEF Recursion
  <2>4. ASSUME NEW n \in 0 .. N + 1
        PROVE  g[n] = IF n = 0 THEN Start ELSE Step(pairs, g[n - 1], n)
    <3>1. CASE n = N + 1
      <4>1. g[n] = Step(pairs, f[N], N + 1) /\ n # 0 /\ n - 1 = N
        BY <3>1
      <4>2. g[N] = f[N]
        BY <2>2
      <4>. QED  BY <3>1, <4>1, <4>2
    <3>2. CASE n \in 0 .. N /\ n # 0
      <4>1. n - 1 \in 0 .. N
        BY <3>2
      <4>. QED  BY <2>2, <2>3, <3>2, <4>1
    <3>3. CASE n = 0
      BY <2>2, <2>3, <3>3
    <3>. QED  BY <3>1, <3>2, <3>3
  <2>5. g = [n \in 0 .. N + 1 |->
               IF n = 0 THEN Start ELSE Step(pairs, g[n - 1], n)]
    <3>. DEFINE h == [n \in 0 .. N + 1 |->
               IF n = 0 THEN Start ELSE Step(pairs, g[n - 1], n)]
    <3>1. DOMAIN g = 0 .. N + 1 /\ DOMAIN h = 0 .. N + 1
      OBVIOUS
    <3>2. \A n \in 0 .. N + 1 : h[n] = IF n = 0 THEN Start ELSE Step(pairs, g[n - 1], n)
      OBVIOUS
    <3>3. g = [n \in 0 .. N + 1 |-> g[n]] /\ h = [n \in 0 .. N + 1 |-> h[n]]
      OBVIOUS
    <3>. HIDE DEF g, h
    <3>4. \A n \in 0 .. N + 1 : g[n] = h[n]
      BY <2>4, <3>2
    <3>5. g = h
      BY <3>1, <3>3, <3>4
    <3>. QED  BY <3>5 DEF h
  <2>6. Recursion(pairs, g, N + 1)
    <3>. HIDE DEF g
    <3>. QED  BY <2>5 DEF Recursion
  <2>. HIDE DEF g
  <2>. QED  BY <2>6
<1>. HIDE DEF S
<1>3. \A n \in Nat : n \in S
  BY <1>1, <1>2, SetInduction
<1>. QED  BY <1>3 DEF S

(* The steps by which Convert gets from its start to its result. *)
LEMMA ConvertSteps ==
  ASSUME NEW pairs
  PROVE  \E f : /\ f[0] = Start
                /\ \A n \in 1 .. Len(Sorted) : f[n] = Step(pairs, f[n - 1], n)
                /\ Convert(pairs) = f[Len(Sorted)]
<1>1. Len(Sorted) \in Nat
  BY InvertedAssumption
<1>. DEFINE F == CHOOSE f : f = [n \in 0 .. Len(Sorted) |->
                   IF n = 0 THEN [ok |-> TRUE, ret |-> Nothing, table |-> table]
                   ELSE IF Sorted[n] \in DOMAIN pairs
                   THEN ConvertPair(f[n - 1], Sorted[n], pairs[Sorted[n]])
                   ELSE f[n - 1]]
<1>2. Convert(pairs) = F[Len(Sorted)]
  BY DEF Convert
<1>3. F = CHOOSE f : Recursion(pairs, f, Len(Sorted))
  BY DEF Recursion, Step, Start
<1>. HIDE DEF F
<1>4. Recursion(pairs, F, Len(Sorted))
  BY <1>1, <1>3, RecursionExists
<1>5. /\ F[0] = Start
      /\ \A n \in 1 .. Len(Sorted) : F[n] = Step(pairs, F[n - 1], n)
  BY <1>1, <1>4 DEF Recursion
<1>. QED  BY <1>2, <1>5

Accs == [ok    : BOOLEAN,
         ret   : [Items -> Entries \union {Absent, Nil}],
         table : [Items -> Leaves \union {Absent}]]

Pairs == UNION {[S -> Vals] : S \in SUBSET Leaves}

(* The leaves of D whose pairs list i. *)
Listers(pairs, D, i) == {k \in D : i \in Lists[pairs[k]]}

(* What convert made of the pairs of D, when it could decode all of them:  *)
(* an item has the entry that the last of those that list it asks for; a   *)
(* container that nobody lists any more is nil if its group was read.      *)
MadeOf(pairs, acc, D, i) ==
  LET L == Listers(pairs, D, i)
  IN  /\ L = {} =>
           IF kind = "container" /\ table[i] \in D
           THEN acc.ret[i] = Nil /\ acc.table[i] = Absent
           ELSE acc.ret[i] = Absent /\ acc.table[i] = table[i]
      /\ L # {} =>
           /\ acc.table[i] \in L
           /\ acc.ret[i] = IF kind = "depends" THEN L
                           ELSE <<acc.table[i], pairs[acc.table[i]]>>

Made(pairs, acc, D) ==
  /\ acc.ok <=> \A k \in D : pairs[k] # Bad
  /\ acc.ok => \A i \in Items : MadeOf(pairs, acc, D, i)
  /\ \A i \in Items :
       acc.table[i] \in Listers(pairs, D, i) \union {table[i], Absent}

(* No entry is one of the markers. *)
LEMMA Markers ==
  /\ \A k \in Leaves, v \in Vals : <<k, v>> \notin {Absent, Nil, Drop}
  /\ \A K \in SUBSET Leaves : K \notin {Absent, Nil, Drop}
  /\ Nil # Absent /\ Drop \notin {Nil, Absent} /\ Absent \notin Leaves
<1>. DEFINE All == (Leaves \X Vals) \union SUBSET Leaves
<1>1. \A e \in All : e \notin {Absent, Nil, Drop}
  BY InvertedAssumption
<1>2. \A k \in Leaves, v \in Vals : <<k, v>> \in All
  OBVIOUS
<1>3. \A K \in SUBSET Leaves : K \in All
  OBVIOUS
<1>. HIDE DEF All
<1>. QED  BY <1>1, <1>2, <1>3, InvertedAssumption

(* One more pair. *)
LEMMA PairMade ==
  ASSUME TypeOK, NEW pairs \in Pairs, NEW acc \in Accs,
         NEW D \in SUBSET DOMAIN pairs, NEW k \in (DOMAIN pairs) \ D,
         Made(pairs, acc, D)
  PROVE  /\ ConvertPair(acc, k, pairs[k]) \in Accs
         /\ Made(pairs, ConvertPair(acc, k, pairs[k]), D \union {k})
<1>. DEFINE v == pairs[k]
            new == ConvertPair(acc, k, v)
            E == D \union {k}
<1>1. /\ k \in Leaves /\ D \subseteq Leaves /\ v \in Vals
      /\ Absent \notin Leaves
      /\ \A i \in Items : i \in Lists[v] <=> k \in Listers(pairs, E, i)
      /\ \A i \in Items : Listers(pairs, E, i) =
            IF i \in Lists[v] THEN Listers(pairs, D, i) \union {k}
                               ELSE Listers(pairs, D, i)
      /\ \A i \in Items : Listers(pairs, D, i) \subseteq D
  BY InvertedAssumption DEF Pairs, Listers
<1>2. CASE ~acc.ok \/ v = Bad
  <2>1. new = [acc EXCEPT !.ok = FALSE]
    BY <1>2 DEF ConvertPair
  <2>2. /\ new \in Accs /\ new.ok = FALSE
        /\ new.table = acc.table /\ new.ret = acc.ret
    BY <2>1 DEF Accs
  <2>3. \E l \in E : pairs[l] = Bad
    BY <1>2 DEF Made
  <2>. QED  BY <2>2, <2>3, <1>1 DEF Made
<1>3. CASE acc.ok /\ v # Bad
  <2>0. /\ \A l \in E : pairs[l] # Bad
        /\ \A i \in Items : MadeOf(pairs, acc, D, i)
    BY <1>3 DEF Made
  <2>t. /\ kind \in {"container", "podgroup", "depends"}
        /\ \A i \in Items : acc.ret[i] \in Entries \union {Absent, Nil}
        /\ \A i \in Items : acc.table[i] \in Leaves \union {Absent}
    BY DEF Accs, TypeOK
  <2>1. CASE kind = "container"
    <3>1. new = ContainerPair(acc, k, v)
      BY <1>3, <2>1 DEF ConvertPair
    <3>2. /\ new.ok
          /\ \A i \in Items :
               /\ new.ret[i] = IF i \in Lists[v] THEN <<k, v>>
                               ELSE IF acc.table[i] = k THEN Nil ELSE acc.ret[i]
               /\ new.table[i] = IF i \in Lists[v] THEN k
                                 ELSE IF acc.table[i] = k THEN Absent
                                 ELSE acc.table[i]
      BY <3>1 DEF ContainerPair
    <3>3. <<k, v>> \in Entries
      BY <1>1, <1>3, <2>1 DEF Entries
    <3>4. new \in Accs
      BY <3>1, <3>3, <2>t, <1>1 DEF ContainerPair, Accs
    <3>5. ASSUME NEW i \in Items PROVE MadeOf(pairs, new, E, i)
      BY <3>2, <2>0, <1>1, <2>1, ZenonT(40) DEF MadeOf
    <3>. QED  BY <3>2, <3>4, <3>5, <2>0, <1>1 DEF Made
  <2>2. CASE kind = "podgroup"
    <3>1. new = PodgroupPair(acc, k, v)
      BY <1>3, <2>2 DEF ConvertPair
    <3>2. /\ new.ok
          /\ \A i \in Items :
               /\ new.ret[i] = IF i \in Lists[v] THEN <<k, v>> ELSE acc.ret[i]
               /\ new.table[i] = IF i \in Lists[v] THEN k ELSE acc.table[i]
      BY <3>1 DEF PodgroupPair
    <3>3. <<k, v>> \in Entries
      BY <1>1, <1>3, <2>2 DEF Entries
    <3>4. new \in Accs
      BY <3>1, <3>3, <2>t, <1>1 DEF PodgroupPair, Accs
    <3>5. ASSUME NEW i \in Items PROVE MadeOf(pairs, new, E, i)
      BY <3>2, <2>0, <1>1, <2>2 DEF MadeOf
    <3>. QED  BY <3>2, <3>4, <3>5, <2>0, <1>1 DEF Made
  <2>3. CASE kind = "depends"
    <3>1. new = DependsPair(acc, k, v)
      BY <1>3, <2>3 DEF ConvertPair
    <3>2. /\ new.ok
          /\ \A i \in Items :
               /\ new.ret[i] = IF i \notin Lists[v] THEN acc.ret[i]
                               ELSE IF acc.ret[i] = Absent THEN {k}
                               ELSE acc.ret[i] \union {k}
               /\ new.table[i] = IF i \in Lists[v] THEN k ELSE acc.table[i]
      BY <3>1 DEF DependsPair
    <3>3. ASSUME NEW i \in Items
          PROVE  /\ Listers(pairs, D, i) = {} => acc.ret[i] = Absent
                 /\ Listers(pairs, D, i) # {} =>
                      /\ acc.ret[i] = Listers(pairs, D, i)
                      /\ acc.ret[i] \in SUBSET Leaves
                      /\ acc.ret[i] # Absent
      <4>1. MadeOf(pairs, acc, D, i) /\ Listers(pairs, D, i) \in SUBSET Leaves
        BY <2>0, <1>1
      <4>2. /\ Listers(pairs, D, i) = {} => acc.ret[i] = Absent
            /\ Listers(pairs, D, i) # {} => acc.ret[i] = Listers(pairs, D, i)
        BY <4>1, <2>3 DEF MadeOf
      <4>. QED  BY <4>1, <4>2, Markers
    <3>4. ASSUME NEW i \in Items
          PROVE  new.ret[i] \in Entries \union {Absent, Nil}
      <4>1. CASE i \notin Lists[v]
        BY <4>1, <3>2, <2>t
      <4>2. CASE i \in Lists[v]
        <5>1. new.ret[i] \in {{k}, Listers(pairs, D, i) \union {k}}
          BY <4>2, <3>2, <3>3
        <5>2. {k} \in Entries /\ Listers(pairs, D, i) \union {k} \in Entries
          BY <1>1, <2>3 DEF Entries
        <5>. QED  BY <5>1, <5>2
      <4>. QED  BY <4>1, <4>2
    <3>5. new \in Accs
      <4>. DEFINE r == [i \in Items |->
                         IF i \notin Lists[v] THEN acc.ret[i]
                         ELSE IF acc.ret[i] = Absent THEN {k}
                         ELSE acc.ret[i] \union {k}]
                  t == [i \in Items |-> IF i \in Lists[v] THEN k ELSE acc.table[i]]
      <4>1. new = [ok |-> TRUE, ret |-> r, table |-> t]
        BY <3>1 DEF DependsPair
      <4>2. \A i \in Items : r[i] \in Entries \union {Absent, Nil}
        BY <3>4, <3>2
      <4>3. \A i \in Items : t[i] \in Leaves \union {Absent}
        BY <2>t, <1>1
      <4>4. /\ r \in [Items -> Entries \union {Absent, Nil}]
            /\ t \in [Items -> Leaves \union {Absent}]
        BY <4>2, <4>3
      <4>. HIDE DEF r, t, new
      <4>. QED  BY <4>1, <4>4 DEF Accs
    <3>6. ASSUME NEW i \in Items PROVE MadeOf(pairs, new, E, i)
      <4>1. CASE i \notin Lists[v]
        <5>1. /\ new.ret[i] = acc.ret[i] /\ new.table[i] = acc.table[i]
              /\ Listers(pairs, E, i) = Listers(pairs, D, i)
          <6>. HIDE DEF new, E, v
          <6>. QED  BY <4>1, <3>2, <1>1
        <5>. QED  BY <5>1, <2>0, <2>3 DEF MadeOf
      <4>2. CASE i \in Lists[v]
        <5>1. /\ Listers(pairs, E, i) = Listers(pairs, D, i) \union {k}
              /\ new.table[i] = k
          BY <4>2, <3>2, <1>1
        <5>2. new.ret[i] = Listers(pairs, E, i)
          BY <4>2, <5>1, <3>2, <3>3
        <5>. QED  BY <5>1, <5>2, <2>3 DEF MadeOf
      <4>. QED  BY <4>1, <4>2
    <3>. QED  BY <3>2, <3>5, <3>6, <2>0, <1>1 DEF Made
  <2>. QED  BY <2>1, <2>2, <2>3, <2>t
<1>. QED  BY <1>2, <1>3 DEF Accs

(* What convert makes of all the pairs. *)
LEMMA ConvertMade ==
  ASSUME TypeOK, NEW pairs \in Pairs
  PROVE  /\ Convert(pairs) \in Accs
         /\ Made(pairs, Convert(pairs), DOMAIN pairs)
<1>. DEFINE N == Len(Sorted)
            Past(n) == {k \in DOMAIN pairs : \E m \in 1 .. n : Sorted[m] = k}
<1>1. /\ N \in Nat /\ DOMAIN Sorted = 1 .. N /\ \A n \in 1 .. N : Sorted[n] \in Leaves
      /\ \A k \in Leaves : \E n \in 1 .. N : Sorted[n] = k
      /\ \A m, n \in 1 .. N : Sorted[m] = Sorted[n] => m = n
      /\ DOMAIN pairs \subseteq Leaves
  BY InvertedAssumption DEF Pairs
<1>2. PICK f : /\ f[0] = Start
               /\ \A n \in 1 .. N : f[n] = Step(pairs, f[n - 1], n)
               /\ Convert(pairs) = f[N]
  BY ConvertSteps
<1>. DEFINE S == {n \in Nat : n <= N => f[n] \in Accs /\ Made(pairs, f[n], Past(n))}
<1>3. 0 \in S
  <2>1. Start \in Accs
    BY DEF Start, Accs, Nothing, TypeOK
  <2>2. Past(0) = {}
    OBVIOUS
  <2>3. Made(pairs, Start, {})
    BY DEF Made, MadeOf, Listers, Start, Nothing
  <2>. QED  BY <1>2, <2>1, <2>2, <2>3
<1>4. ASSUME NEW n \in Nat, n \in S PROVE n + 1 \in S
  <2>. SUFFICES ASSUME n + 1 <= N
                PROVE  f[n + 1] \in Accs /\ Made(pairs, f[n + 1], Past(n + 1))
    OBVIOUS
  <2>1. f[n] \in Accs /\ Made(pairs, f[n], Past(n))
    BY <1>1, <1>4
  <2>2. n + 1 \in 1 .. N /\ (n + 1) - 1 = n
    BY <1>1
  <2>3. f[n + 1] = Step(pairs, f[n], n + 1)
    BY <1>2, <2>2
  <2>4. CASE Sorted[n + 1] \in DOMAIN pairs
    <3>1. Past(n + 1) = Past(n) \union {Sorted[n + 1]}
      BY <2>2, <2>4, <1>1
    <3>2. Sorted[n + 1] \notin Past(n)
      BY <2>2, <1>1
    <3>3. Past(n) \in SUBSET DOMAIN pairs
      OBVIOUS
    <3>. HIDE DEF Past
    <3>. QED  BY <2>1, <2>3, <2>4, <3>1, <3>2, <3>3, PairMade DEF Step
  <2>5. CASE Sorted[n + 1] \notin DOMAIN pairs
    <3>1. Past(n + 1) = Past(n)
      BY <2>2, <2>5, <1>1
    <3>. HIDE DEF Past
    <3>. QED  BY <2>1, <2>3, <2>5, <3>1 DEF Step
  <2>. QED  BY <2>4, <2>5
<1>5. N \in S
  <2>. HIDE DEF S
  <2>. QED  BY <1>1, <1>3, <1>4, SetInduction
<1>6. Past(N) = DOMAIN pairs
  BY <1>1
<1>. QED  BY <1>1, <1>2, <1>5, <1>6

-----------------------------------------------------------------------------
(* The two uses of convert: on the whole tree and on one event. *)

LEMMA TreeMade ==
  ASSUME TypeOK
  PROVE  /\ Tree \in Accs
         /\ Tree.ok <=> \A k \in Leaves : kv[k] # Bad
         /\ \A i \in Items :
              Tree.table[i] \in Holders(i) \union {table[i], Absent}
         /\ Tree.ok => \A i \in Items :
              /\ Holders(i) = {} =>
                   IF kind = "container" THEN Tree.ret[i] \in {Absent, Nil}
                                         ELSE Tree.ret[i] = Absent
              /\ Holders(i) # {} =>
                   /\ Tree.table[i] \in Holders(i)
                   /\ Tree.ret[i] = IF kind = "depends" THEN Holders(i)
                                    ELSE <<Tree.table[i], kv[Tree.table[i]]>>
<1>1. /\ GetTree \in Pairs /\ DOMAIN GetTree = travelNodes
      /\ \A k \in travelNodes : GetTree[k] = kv[k]
  <2>1. GetTree \in [travelNodes -> Vals] /\ travelNodes \in SUBSET Leaves
    BY DEF GetTree, travelNodes, TypeOK, Contents
  <2>. QED  BY <2>1 DEF Pairs, GetTree
<1>2. \A i \in Items : Listers(GetTree, travelNodes, i) = Holders(i)
  BY <1>1 DEF Listers, Holders, travelNodes
<1>3. Tree \in Accs /\ Made(GetTree, Tree, travelNodes)
  BY <1>1, ConvertMade DEF Tree
<1>4. Bad # Absent
  BY EtcdAssumption, InvertedAssumption
<1>5. Tree.ok <=> \A k \in Leaves : kv[k] # Bad
  BY <1>1, <1>3, <1>4 DEF Made, travelNodes
<1>6. \A i \in Items : Tree.table[i] \in Holders(i) \union {table[i], Absent}
  BY <1>2, <1>3 DEF Made
<1>7. ASSUME Tree.ok, NEW i \in Items
      PROVE  /\ Holders(i) = {} =>
                  IF kind = "container" THEN Tree.ret[i] \in {Absent, Nil}
                                        ELSE Tree.ret[i] = Absent
             /\ Holders(i) # {} =>
                  /\ Tree.table[i] \in Holders(i)
                  /\ Tree.ret[i] = IF kind = "depends" THEN Holders(i)
                                   ELSE <<Tree.table[i], kv[Tree.table[i]]>>
  <2>1. MadeOf(GetTree, Tree, travelNodes, i)
    BY <1>3, <1>7 DEF Made
  <2>2. \A k \in Holders(i) : k \in travelNodes
    BY DEF Holders, travelNodes
  <2>. QED  BY <2>1, <2>2, <1>1, <1>2 DEF MadeOf
<1>. QED  BY <1>3, <1>5, <1>6, <1>7

(* convert of the one pair of an event. *)
EventConvert(k, v) == Convert([l \in {k} |-> v])

LEMMA EventMade ==
  ASSUME TypeOK, NEW k \in Leaves, NEW v \in Vals
  PROVE  /\ EventConvert(k, v) \in Accs
         /\ EventConvert(k, v).ok <=> v # Bad
         /\ EventConvert(k, v).ok => \A i \in Items :
              /\ i \in Lists[v] =>
                   /\ EventConvert(k, v).table[i] = k
                   /\ EventConvert(k, v).ret[i] = IF kind = "depends" THEN {k} ELSE <<k, v>>
              /\ i \notin Lists[v] =>
                   IF kind = "container" /\ table[i] = k
                   THEN EventConvert(k, v).table[i] = Absent /\ EventConvert(k, v).ret[i] = Nil
                   ELSE EventConvert(k, v).table[i] = table[i] /\ EventConvert(k, v).ret[i] = Absent
<1>. DEFINE pair == [l \in {k} |-> v]
<1>1. pair \in Pairs /\ DOMAIN pair = {k} /\ pair[k] = v
  <2>1. pair \in [{k} -> Vals] /\ {k} \in SUBSET Leaves
    OBVIOUS
  <2>. QED  BY <2>1 DEF Pairs
<1>2. \A i \in Items : Listers(pair, {k}, i) = IF i \in Lists[v] THEN {k} ELSE {}
  BY <1>1 DEF Listers
<1>. HIDE DEF pair
<1>3. EventConvert(k, v) \in Accs /\ Made(pair, EventConvert(k, v), {k})
  BY <1>1, ConvertMade DEF pair, EventConvert
<1>4. EventConvert(k, v).ok <=> v # Bad
  BY <1>1, <1>3 DEF Made
<1>5. ASSUME EventConvert(k, v).ok, NEW i \in Items
      PROVE  /\ i \in Lists[v] =>
                  /\ EventConvert(k, v).table[i] = k
                  /\ EventConvert(k, v).ret[i] = IF kind = "depends" THEN {k} ELSE <<k, v>>
             /\ i \notin Lists[v] =>
                  IF kind = "container" /\ table[i] = k
                  THEN EventConvert(k, v).table[i] = Absent /\ EventConvert(k, v).ret[i] = Nil
                  ELSE EventConvert(k, v).table[i] = table[i] /\ EventConvert(k, v).ret[i] = Absent
  <2>1. MadeOf(pair, EventConvert(k, v), {k}, i)
    BY <1>3, <1>5 DEF Made
  <2>. QED  BY <2>1, <1>1, <1>2 DEF MadeOf
<1>. QED  BY <1>3, <1>4, <1>5

-----------------------------------------------------------------------------
(* Types. *)

LEMMA InitType == Init => TypeOK
<1>. SUFFICES ASSUME Init PROVE TypeOK
  OBVIOUS
<1>1. kv \in Contents /\ log \in Seq(Event)
  BY DEF Init, Contents
<1>2. /\ cache \in [Items -> Entries \union {Absent, Nil}]
      /\ todo \in [Items -> Entries \union {Absent, Nil, Drop}]
      /\ table \in [Items -> Leaves \union {Absent}]
  BY DEF Init, Nothing
<1>3. \A i \in Items : Nil \notin {cache[i], todo[i]}
  BY Markers DEF Init, Nothing
<1>4. todo = Nothing /\ changed = {} /\ lost = {}
  BY DEF Init
<1>. QED  BY <1>1, <1>2, <1>3, <1>4 DEF Init, TypeOK

(* What a client's modification does: one more event, which says what the  *)
(* leaves it touches now hold, and lists no item that another leaf holds.  *)
LEMMA DeploydAppend ==
  ASSUME TypeOK, Deployd
  PROVE  \E e \in Event :
           /\ log' \in Seq(Event) /\ kv' \in Contents
           /\ Rev' = Rev + 1
           /\ \A j \in 1..Rev : log'[j] = log[j]
           /\ log'[Rev + 1] = e
           /\ \A k \in Leaves : kv'[k] = IF Touches(e, k) THEN e.val ELSE kv[k]
           /\ e.act = "set" =>
                /\ e.key \in Leaves /\ e.val \in Vals
                /\ \A k \in Leaves : Touches(e, k) <=> k = e.key
                /\ kind # "depends" => \A i \in Lists[e.val] : Holders(i) \subseteq {e.key}
           /\ e.act # "set" => e.val = Absent
<1>. USE EtcdAssumption DEF TypeOK, Rev, Touches, Contents, Event, Paths
<1>1. CASE \E k \in Leaves, v \in Vals :
             /\ kind # "depends" => \A i \in Lists[v] : Holders(i) \subseteq {k}
             /\ EtcdSet(k, v)
  <2>. PICK k \in Leaves, v \in Vals :
             /\ kind # "depends" => \A i \in Lists[v] : Holders(i) \subseteq {k}
             /\ EtcdSet(k, v)
    BY <1>1
  <2>. DEFINE e == [act |-> "set", key |-> k, val |-> v]
  <2>1. e \in Event /\ log' = Append(log, e)
    BY DEF EtcdSet
  <2>2. \A l \in Leaves : kv'[l] = IF Touches(e, l) THEN e.val ELSE kv[l]
    BY DEF EtcdSet
  <2>3. kv' \in Contents
    BY DEF EtcdSet
  <2>4. /\ e.act = "set" /\ e.key = k /\ e.val = v
        /\ \A l \in Leaves : Touches(e, l) <=> l = k
    OBVIOUS
  <2>5. /\ log' \in Seq(Event) /\ Rev' = Rev + 1 /\ log'[Rev + 1] = e
        /\ \A j \in 1..Rev : log'[j] = log[j]
    BY <2>1
  <2>. HIDE DEF e, Touches
  <2>. QED  BY <2>1, <2>2, <2>3, <2>4, <2>5
<1>2. CASE \E p \in Paths : EtcdDelete(p)
  <2>. PICK p \in Paths : EtcdDelete(p)
    BY <1>2
  <2>. DEFINE e == [act |-> "delete", key |-> p, val |-> Absent]
  <2>1. e \in Event /\ log' = Append(log, e)
    BY DEF EtcdDelete
  <2>2. \A l \in Leaves : kv'[l] = IF Touches(e, l) THEN e.val ELSE kv[l]
    BY DEF EtcdDelete
  <2>3. kv' \in Contents
    BY DEF EtcdDelete
  <2>4. e.act = "delete" /\ e.val = Absent
    OBVIOUS
  <2>5. /\ log' \in Seq(Event) /\ Rev' = Rev + 1 /\ log'[Rev + 1] = e
        /\ \A j \in 1..Rev : log'[j] = log[j]
    BY <2>1
  <2>. HIDE DEF e, Touches
  <2>. QED  BY <2>1, <2>2, <2>3, <2>4, <2>5
<1>. QED  BY <1>1, <1>2 DEF Deployd

LEMMA OutsideType ==
  ASSUME TypeOK, Deployd \/ Register \/ Transport
  PROVE  TypeOK'
<1>1. UNCHANGED <<loopVars, table, cache, readAt, told, lost>>
  BY DEF Deployd, Register, Transport, Stream, histVars
<1>2. CASE Deployd
  <2>1. kv' \in Contents /\ log' \in Seq(Event)
    BY <1>2, DeploydAppend
  <2>2. UNCHANGED <<streamVars, loopVars, table, cache, histVars>>
    BY <1>2 DEF Deployd
  <2>. QED  BY <2>1, <2>2 DEF TypeOK, Entries, streamVars, loopVars, histVars
<1>3. CASE Register \/ Transport
  <2>1. UNCHANGED storeVars
    BY <1>3 DEF Register, Transport, Stream
  <2>2. /\ st' \in {"none", "open", "failed"}
        /\ waitIdx' \in Nat /\ reg' \in Nat /\ held' \in Nat
        /\ base' \in Nat /\ pos' \in Nat
    <3>. USE DEF TypeOK, Rev
    <3>1. CASE Register
      BY <3>1 DEF Register, PollFromNow
    <3>2. CASE Stream(PollFromIndex)
      BY <3>2 DEF Stream, PollFromIndex, histVars
    <3>3. CASE Stream(PollOutdated)
      BY <3>3 DEF Stream, PollOutdated, histVars
    <3>4. CASE Stream(Fetch)
      BY <3>4 DEF Stream, Fetch, histVars
    <3>5. CASE Stream(PollFails)
      BY <3>5 DEF Stream, PollFails, histVars
    <3>. QED  BY <1>3, <3>1, <3>2, <3>3, <3>4, <3>5 DEF Transport
  <2>. QED  BY <1>1, <2>1, <2>2 DEF TypeOK, Entries, storeVars, loopVars
<1>. QED  BY <1>2, <1>3

LEMMA RefreshType ==
  ASSUME TypeOK, RefreshFirst \/ RefreshAgain \/ RefreshFails
  PROVE  TypeOK'
<1>1. Tree \in Accs
  BY TreeMade
<1>2. /\ Tree.ret \in [Items -> Entries \union {Absent, Nil}]
      /\ Tree.table \in [Items -> Leaves \union {Absent}]
  BY <1>1 DEF Accs
<1>3. UNCHANGED <<storeVars, streamVars, kind, bar, lastIndex, todo>>
  BY DEF RefreshFirst, RefreshAgain, RefreshFails, Reset, loopVars
<1>4. pc = "refresh" /\ todo = Nothing /\ changed = {} /\ table' = Tree.table
  BY DEF TypeOK, RefreshFirst, RefreshAgain, RefreshFails, Reset
<1>5. CASE RefreshFirst \/ RefreshAgain
  <2>1. /\ Tree.ok /\ cache' = Tree.ret /\ pc' \in {"open", "apply"} /\ lost' = {}
        /\ readAt' = Rev /\ base' = Rev /\ pos' = Rev /\ Rev \in Nat
        /\ changed' \subseteq Items /\ (pc' # "apply" => changed' = {})
    BY <1>4, <1>5 DEF RefreshFirst, RefreshAgain, Reset, KeysOf, TypeOK, Rev
  <2>2. kind # "container" => \A i \in Items : Tree.ret[i] # Nil
    <3>. SUFFICES ASSUME kind # "container", NEW i \in Items
                  PROVE  Tree.ret[i] # Nil
      OBVIOUS
    <3>1. \A k \in Holders(i) : k \in Leaves /\ kv[k] \in Vals
      BY DEF Holders, TypeOK, Contents
    <3>2. Holders(i) \in SUBSET Leaves
      BY <3>1
    <3>3. CASE Holders(i) = {}
      <4>1. Tree.ret[i] = Absent
        BY <2>1, <3>3, TreeMade
      <4>. QED  BY <4>1, Markers
    <3>4. CASE Holders(i) # {}
      <4>1. /\ Tree.table[i] \in Holders(i)
            /\ Tree.ret[i] \in {Holders(i), <<Tree.table[i], kv[Tree.table[i]]>>}
        BY <2>1, <3>4, TreeMade
      <4>. QED  BY <3>1, <3>2, <4>1, Markers
    <3>. QED  BY <3>3, <3>4
  <2>3. /\ todo' = Nothing /\ kind' = kind /\ Entries' = Entries
        /\ todo \in [Items -> Entries \union {Absent, Nil, Drop}]
        /\ \A i \in Items : todo[i] = Absent
    BY <1>3, <1>4 DEF TypeOK, Entries, Nothing
  <2>. QED
    BY <1>2, <1>3, <1>4, <2>1, <2>2, <2>3, Markers
    DEF TypeOK, storeVars, streamVars
<1>6. CASE RefreshFails
  BY <1>2, <1>6 DEF TypeOK, RefreshFails, Entries, storeVars, streamVars,
                    loopVars, histVars
<1>. QED  BY <1>5, <1>6

LEMMA EventType ==
  ASSUME TypeOK, held > 0, held <= Rev
  PROVE  /\ log[held] \in Event
         /\ log[held].act = "set" => log[held].key \in Leaves /\ log[held].val \in Vals
         /\ log[held].act = "delete" => log[held].key \in Paths /\ log[held].val = Absent
BY DEF TypeOK, Event, Rev

(* What HandleSet does when the leaf k gets the value v. *)
SetDoes(k, v) ==
  /\ log[held].act = "set" /\ log[held].key = k /\ log[held].val = v
  /\ todo' \in [Items -> Entries \union {Absent, Nil}]
  /\ table' \in [Items -> Leaves \union {Absent}]
  /\ \A i \in Items :
       /\ i \in Lists[v] =>
            /\ table'[i] = k
            /\ todo'[i] = IF kind = "depends" THEN {k} ELSE <<k, v>>
       /\ i \notin Lists[v] =>
            IF kind = "container" /\ table[i] = k
            THEN table'[i] = Absent /\ todo'[i] = Nil
            ELSE table'[i] = table[i] /\ todo'[i] = Absent

LEMMA HandleSetDoes ==
  ASSUME TypeOK, held <= Rev, HandleSet
  PROVE  \E k \in Leaves, v \in Vals \ {Bad} : SetDoes(k, v)
<1>. DEFINE k == log[held].key
            v == log[held].val
            conv == EventConvert(k, v)
<1>1. log[held].act = "set" /\ conv.ok /\ todo' = conv.ret /\ table' = conv.table
  BY DEF HandleSet, EventConvert
<1>2. k \in Leaves /\ v \in Vals
  BY <1>1, EventType DEF HandleSet, Receive
<1>3. log[held].key = k /\ log[held].val = v
  OBVIOUS
<1>4. conv = EventConvert(k, v)
  OBVIOUS
<1>. HIDE DEF k, v, conv
<1>5. /\ conv \in Accs
      /\ conv.ok <=> v # Bad
      /\ conv.ok => \A i \in Items :
           /\ i \in Lists[v] =>
                /\ conv.table[i] = k
                /\ conv.ret[i] = IF kind = "depends" THEN {k} ELSE <<k, v>>
           /\ i \notin Lists[v] =>
                IF kind = "container" /\ table[i] = k
                THEN conv.table[i] = Absent /\ conv.ret[i] = Nil
                ELSE conv.table[i] = table[i] /\ conv.ret[i] = Absent
  BY <1>2, <1>4, EventMade
<1>6. /\ conv.ret \in [Items -> Entries \union {Absent, Nil}]
      /\ conv.table \in [Items -> Leaves \union {Absent}]
  BY <1>5 DEF Accs
<1>7. SetDoes(k, v)
  BY <1>1, <1>3, <1>5, <1>6 DEF SetDoes
<1>. QED  BY <1>1, <1>2, <1>5, <1>7

LEMMA HandleType ==
  ASSUME TypeOK, held <= Rev, HandleSet \/ HandleUnreadable \/ HandleDelete
  PROVE  TypeOK'
<1>1. /\ pc = "select" /\ held > 0 /\ held' = 0 /\ pos' = held
      /\ UNCHANGED <<storeVars, st, waitIdx, reg, kind, bar, changed, cache>>
      /\ UNCHANGED <<readAt, base, told>>
  BY DEF HandleSet, HandleUnreadable, HandleDelete, Receive
<1>2. held \in Nat /\ changed = {} /\ todo = Nothing
  BY <1>1 DEF TypeOK
<1>3. CASE HandleSet
  <2>1. PICK k \in Leaves, v \in Vals \ {Bad} : SetDoes(k, v)
    BY <1>1, <1>3, HandleSetDoes
  <2>2. kind # "container" => \A i \in Items : todo'[i] # Nil
    <3>1. {k} # Nil /\ <<k, v>> # Nil /\ Absent # Nil
      BY Markers
    <3>. QED  BY <2>1, <3>1 DEF SetDoes
  <2>3. pc' = "apply" /\ lastIndex' = held /\ lost' = lost
    BY <1>3 DEF HandleSet
  <2>. QED  BY <1>1, <1>2, <2>1, <2>2, <2>3 DEF SetDoes, TypeOK, Entries, storeVars
<1>4. CASE HandleUnreadable
  BY <1>1, <1>2, <1>4 DEF HandleUnreadable, TypeOK, Entries, storeVars
<1>5. CASE HandleDelete
  <2>1. \A p : Concerned(p) \subseteq Items
    BY DEF Concerned, KeysOf
  <2>2. /\ todo' \in [Items -> {Absent, Drop}]
        /\ \A i \in Items : todo'[i] # Nil
        /\ lost' \subseteq Items
        /\ pc' = "apply" /\ lastIndex' = held /\ table' = table
    BY <1>5, <2>1, Markers DEF HandleDelete, TypeOK
  <2>. QED  BY <1>1, <1>2, <2>2 DEF TypeOK, Entries, storeVars
<1>. QED  BY <1>3, <1>4, <1>5

LEMMA ApplyType ==
  ASSUME TypeOK, NEW i \in Items, Put(i) \/ Delete(i)
  PROVE  TypeOK'
<1>1. /\ pc = "apply" /\ todo[i] # Absent /\ todo' = [todo EXCEPT ![i] = Absent]
      /\ UNCHANGED <<storeVars, streamVars, kind, pc, bar, lastIndex, table>>
      /\ UNCHANGED <<readAt, base, pos, told>>
  BY DEF Put, Delete, Applying
<1>2. /\ todo' \in [Items -> Entries \union {Absent, Nil, Drop}]
      /\ \A j \in Items : todo'[j] # todo[j] => todo'[j] = Absent
  BY <1>1 DEF TypeOK
<1>3. /\ cache' \in [Items -> Entries \union {Absent, Nil}]
      /\ \A j \in Items : cache'[j] = Nil => cache[j] = Nil
  <2>1. CASE Put(i)
    BY <2>1, <1>1, Markers DEF Put, TypeOK
  <2>2. CASE Delete(i)
    BY <2>2, Markers DEF Delete, TypeOK
  <2>. QED  BY <2>1, <2>2
<1>4. changed' \subseteq Items /\ lost' \subseteq Items
  <2>1. Removed(i) \subseteq Items
    BY InvertedAssumption DEF Removed
  <2>. QED  BY <2>1 DEF Put, Delete, TypeOK
<1>. QED
  BY <1>1, <1>2, <1>3, <1>4, Markers DEF TypeOK, Entries, storeVars, streamVars

LEMMA RestType ==
  ASSUME TypeOK, OpenWatch \/ Broadcast \/ HandleClosed
  PROVE  TypeOK'
<1>1. CASE OpenWatch
  BY <1>1 DEF TypeOK, Entries, OpenWatch, OpenStream, storeVars
<1>2. CASE Broadcast
  BY <1>2 DEF TypeOK, Entries, Broadcast, storeVars, streamVars
<1>3. CASE HandleClosed
  BY <1>3 DEF TypeOK, Entries, HandleClosed, storeVars, histVars
<1>. QED  BY <1>1, <1>2, <1>3

-----------------------------------------------------------------------------
(* The inductive invariant, one kind of step at a time. *)

LEMMA InitInv == Init => IInv
<1>. SUFFICES ASSUME Init PROVE IInv
  OBVIOUS
<1>1. TypeOK
  BY InitType
<1>2. Rev = 0 /\ 1..Rev = {}
  BY DEF Init, Rev
<1>3. \A k \in Leaves : kv[k] = Absent
  BY DEF Init
<1>4. \A i \in Items : Holders(i) = {}
  BY <1>3 DEF Holders
<1>5. pc = "refresh" /\ bar = FALSE
  BY DEF Init
<1>6. LoopInv /\ StreamInv
  BY <1>2 DEF Init, LoopInv, JustRead, StreamInv
<1>7. StoreInv /\ HolderInv
  BY <1>2, <1>3, <1>4 DEF StoreInv, HolderInv
<1>8. TableInv /\ KnownInv /\ OwnInv
  BY <1>5 DEF Init, TableInv, KnownInv, OwnInv, Whole, Nothing
<1>9. ToldInv
  BY DEF Init, ToldInv, Nothing
<1>. QED  BY <1>1, <1>6, <1>7, <1>8, <1>9 DEF IInv

(* What the parts of the invariant give at once. *)
LEMMA Basics ==
  ASSUME IInv
  PROVE  /\ TypeOK
         /\ Rev \in Nat /\ pos \in Nat /\ base \in Nat /\ readAt \in Nat
         /\ held \in Nat /\ lastIndex \in Nat /\ reg \in Nat /\ waitIdx \in Nat
         /\ lastIndex <= pos /\ base <= pos /\ pos <= Rev /\ readAt <= Rev
         /\ Seen \in Nat /\ Seen <= Rev /\ held <= Rev
BY DEF IInv, TypeOK, StreamInv, Rev, Seen

(* An entry is in the table under the leaf it came from. *)
LEMMA DueTable ==
  ASSUME IInv, pc # "refresh", NEW i \in Items, Due(i) \notin {Absent, Nil}
  PROVE  table[i] \in Leaves
<1>1. Due(i) \in Entries
  BY DEF Due, IInv, TypeOK
<1>. QED  BY <1>1 DEF IInv, TableInv, Entries

(* Who holds an item now once listed it. *)
LEMMA HoldersEver ==
  ASSUME StoreInv, NEW i \in Items
  PROVE  Holders(i) \subseteq Ever(i)
BY DEF StoreInv, Holders, Ever

LEMMA DeploydInv ==
  ASSUME IInv, Deployd
  PROVE  IInv'
<1>. USE Basics
<1>1. TypeOK'
  BY OutsideType
<1>2. PICK e \in Event :
        /\ log' \in Seq(Event) /\ kv' \in Contents
        /\ Rev' = Rev + 1
        /\ \A j \in 1..Rev : log'[j] = log[j]
        /\ log'[Rev + 1] = e
        /\ \A k \in Leaves : kv'[k] = IF Touches(e, k) THEN e.val ELSE kv[k]
        /\ e.act = "set" =>
             /\ e.key \in Leaves /\ e.val \in Vals
             /\ \A k \in Leaves : Touches(e, k) <=> k = e.key
             /\ kind # "depends" => \A i \in Lists[e.val] : Holders(i) \subseteq {e.key}
        /\ e.act # "set" => e.val = Absent
  BY DeploydAppend
<1>3. /\ UNCHANGED <<st, waitIdx, reg, held, kind, pc, bar, lastIndex, todo>>
      /\ UNCHANGED <<changed, table, cache, readAt, base, pos, told, lost>>
  BY DEF Deployd, streamVars, loopVars, histVars
<1>4. LoopInv' /\ ToldInv'
  <2>1. LoopInv'
    BY <1>3 DEF IInv, LoopInv, JustRead
  <2>2. ToldInv'
    BY <1>3 DEF IInv, ToldInv
  <2>. QED  BY <2>1, <2>2
<1>5. StreamInv'
  BY <1>2, <1>3, SMTT(30) DEF IInv, StreamInv
<1>6. StoreInv'
  <2>1. ASSUME NEW k \in Leaves, NEW n \in (1..Rev)', Touches(log'[n], k),
               \A j \in (1..Rev)' : j > n => ~Touches(log'[j], k)
        PROVE  kv'[k] = log'[n].val
    <3>1. CASE n = Rev + 1
      BY <3>1, <2>1, <1>2
    <3>2. CASE n \in 1..Rev
      <4>0. Rev + 1 \in (1..Rev)' /\ Rev + 1 > n
        BY <3>2, <1>2
      <4>1. ~Touches(e, k) /\ kv'[k] = kv[k]
        BY <2>1, <4>0, <1>2
      <4>2. \A j \in 1..Rev : j > n => ~Touches(log[j], k)
        BY <2>1, <1>2
      <4>. QED  BY <2>1, <3>2, <4>1, <4>2, <1>2 DEF IInv, StoreInv
    <3>. QED  BY <3>1, <3>2, <2>1, <1>2
  <2>2. ASSUME NEW k \in Leaves, kv'[k] # Absent
        PROVE  \E n \in (1..Rev)' : /\ log'[n].act = "set" /\ log'[n].key = k
                                    /\ log'[n].val = kv'[k]
    <3>1. CASE Touches(e, k)
      <4>1. e.act = "set" /\ e.key = k /\ e.val = kv'[k]
        BY <2>2, <3>1, <1>2
      <4>2. Rev + 1 \in (1..Rev)' /\ log'[Rev + 1] = e
        BY <1>2
      <4>. QED  BY <4>1, <4>2
    <3>2. CASE ~Touches(e, k)
      <4>1. kv[k] # Absent /\ kv'[k] = kv[k]
        BY <2>2, <3>2, <1>2
      <4>2. PICK n \in 1..Rev : /\ log[n].act = "set" /\ log[n].key = k
                                /\ log[n].val = kv[k]
        BY <4>1 DEF IInv, StoreInv
      <4>3. n \in (1..Rev)' /\ log'[n] = log[n]
        BY <1>2
      <4>. QED  BY <4>1, <4>2, <4>3
    <3>. QED  BY <3>1, <3>2
  <2>. QED  BY <2>1, <2>2 DEF StoreInv
<1>7. ASSUME NEW i \in Items, NEW k \in Holders(i)'
      PROVE  /\ k \in Leaves
             /\ Touches(e, k) => e.act = "set" /\ e.key = k /\ i \in Lists[e.val]
             /\ ~Touches(e, k) => k \in Holders(i)
  BY <1>2, <1>7, EtcdAssumption DEF Holders
<1>8. HolderInv'
  <2>. SUFFICES ASSUME kind # "depends", NEW i \in Items, NEW k \in Holders(i)'
                PROVE  /\ Holders(i)' = {k}
                       /\ \A n \in (1..Rev)' :
                            log'[n].act = "set" /\ log'[n].key # k /\ i \in Lists[log'[n].val]
                              => \E j \in (1..Rev)' : j > n /\ Touches(log'[j], k)
    BY <1>3 DEF HolderInv
  <2>1. HolderInv
    BY DEF IInv
  <2>2. ASSUME NEW l \in Holders(i)' PROVE l = k
    <3>1. CASE Touches(e, k)
      <4>1. e.act = "set" /\ e.key = k /\ Holders(i) \subseteq {k}
        BY <3>1, <1>2, <1>7
      <4>. QED  BY <2>2, <4>1, <1>2, <1>7
    <3>2. CASE Touches(e, l)
      <4>1. e.act = "set" /\ e.key = l /\ Holders(i) \subseteq {l}
        BY <2>2, <3>2, <1>2, <1>7
      <4>. QED  BY <4>1, <1>2, <1>7
    <3>3. CASE ~Touches(e, k) /\ ~Touches(e, l)
      <4>1. k \in Holders(i) /\ l \in Holders(i)
        BY <2>2, <3>3, <1>7
      <4>. QED  BY <4>1, <2>1 DEF HolderInv
    <3>. QED  BY <3>1, <3>2, <3>3
  <2>3. ASSUME NEW n \in (1..Rev)', log'[n].act = "set", log'[n].key # k,
               i \in Lists[log'[n].val]
        PROVE  \E j \in (1..Rev)' : j > n /\ Touches(log'[j], k)
    <3>1. CASE n = Rev + 1
      <4>1. e.act = "set" /\ e.key # k /\ Holders(i) \subseteq {e.key}
        BY <2>3, <3>1, <1>2
      <4>. QED  BY <4>1, <1>2, <1>7
    <3>2. CASE n \in 1..Rev /\ Touches(e, k)
      BY <3>2, <1>2
    <3>3. CASE n \in 1..Rev /\ ~Touches(e, k)
      <4>1. k \in Holders(i) /\ log[n] = log'[n]
        BY <3>3, <1>2, <1>7
      <4>2. PICK j \in 1..Rev : j > n /\ Touches(log[j], k)
        BY <2>1, <2>3, <3>3, <4>1 DEF HolderInv
      <4>. QED  BY <4>2, <1>2
    <3>. QED  BY <3>1, <3>2, <3>3, <1>2
  <2>. QED  BY <2>2, <2>3
<1>9. \A i \in Items : Ever(i) \subseteq Ever(i)'
  <2>1. \A n \in 1..Rev : n \in (1..Rev)' /\ log'[n] = log[n]
    BY <1>2
  <2>. QED  BY <2>1 DEF Ever
<1>10. \A i \in Items : Due(i)' = Due(i)
  BY <1>3 DEF Due
<1>11. TableInv'
  BY <1>3, <1>9, <1>10 DEF IInv, TableInv
<1>12. ASSUME NEW k \in Leaves, ~Later(k)'
       PROVE  ~Later(k) /\ ~Touches(e, k) /\ kv'[k] = kv[k]
  <2>1. Seen' = Seen
    BY <1>3 DEF Seen
  <2>2. \A j \in 1 .. Rev + 1 : j > Seen => ~Touches(log'[j], k)
    BY <1>2, <1>12, <2>1 DEF Later
  <2>. QED  BY <2>2, <1>2 DEF Later
<1>13. Whole' <=> Whole
  BY <1>3 DEF Whole
<1>14. KnownInv'
  <2>. SUFFICES ASSUME Whole, NEW i \in Items, NEW k \in Holders(i)', ~Later(k)',
                       kind = "depends" => Ever(i)' = {k}
                PROVE  /\ table[i] = k
                       /\ Due(i) = EntryOf(k)' \/ (i \in lost /\ Due(i) = Absent)
    BY <1>3, <1>10, <1>13 DEF KnownInv
  <2>1. k \in Holders(i) /\ ~Later(k) /\ kv'[k] = kv[k]
    BY <1>7, <1>12
  <2>2. kind = "depends" => Ever(i) = {k}
    BY <2>1, <1>9, HoldersEver DEF IInv
  <2>3. EntryOf(k)' = EntryOf(k)
    BY <2>1, <1>3 DEF EntryOf
  <2>. QED  BY <2>1, <2>2, <2>3 DEF IInv, KnownInv
<1>15. OwnInv'
  <2>. SUFFICES ASSUME Whole, NEW i \in Items, Due(i) \notin {Absent, Nil},
                       ~Later(table[i])'
                PROVE  /\ kv'[table[i]] # Absent
                       /\ kind = "container" => kv'[table[i]] \in {Due(i)[2], Bad}
    BY <1>3, <1>10, <1>13 DEF OwnInv
  <2>1. table[i] \in Leaves
    BY DueTable DEF Whole
  <2>2. ~Later(table[i]) /\ kv'[table[i]] = kv[table[i]]
    BY <2>1, <1>3, <1>12
  <2>. QED  BY <2>2 DEF IInv, OwnInv
<1>. QED
  BY <1>1, <1>4, <1>5, <1>6, <1>8, <1>11, <1>14, <1>15 DEF IInv

(* Steps that leave alone what these parts are about. *)
LEMMA UnchangedInv ==
  ASSUME IInv, UNCHANGED <<kv, log, kind>>
  PROVE  /\ Rev' = Rev /\ StoreInv' /\ HolderInv'
         /\ \A i \in Items : Holders(i)' = Holders(i) /\ Ever(i)' = Ever(i)
         /\ \A k : EntryOf(k)' = EntryOf(k)
<1>1. Rev' = Rev
  BY DEF Rev
<1>2. \A i \in Items : Holders(i)' = Holders(i) /\ Ever(i)' = Ever(i)
  BY <1>1 DEF Holders, Ever
<1>3. StoreInv'
  BY <1>1 DEF IInv, StoreInv
<1>4. HolderInv'
  BY <1>1, <1>2 DEF IInv, HolderInv
<1>5. \A k : EntryOf(k)' = EntryOf(k)
  BY DEF EntryOf
<1>. QED  BY <1>1, <1>2, <1>3, <1>4, <1>5

(* Steps that leave the cache and the pending work alone, and after which  *)
(* they still stand for the same events.                                   *)
LEMMA SameWork ==
  ASSUME IInv, UNCHANGED <<kv, log, kind, todo, table, cache, lost>>,
         pc' # "refresh" => pc # "refresh",
         Whole' => Whole /\ Seen' = Seen
  PROVE  StoreInv' /\ HolderInv' /\ TableInv' /\ KnownInv' /\ OwnInv'
<1>. USE UnchangedInv
<1>1. \A i \in Items : Due(i)' = Due(i)
  BY DEF Due
<1>2. TableInv'
  BY <1>1 DEF IInv, TableInv
<1>3. Whole' => \A k : Later(k)' = Later(k)
  BY DEF Later
<1>4. KnownInv'
  BY <1>1, <1>3 DEF IInv, KnownInv
<1>5. OwnInv'
  BY <1>1, <1>3 DEF IInv, OwnInv
<1>. QED  BY <1>2, <1>4, <1>5

LEMMA TransportInv ==
  ASSUME IInv, Transport
  PROVE  IInv'
<1>. USE Basics
<1>1. /\ UNCHANGED <<kv, log, kind, pc, bar, lastIndex, todo, changed, table>>
      /\ UNCHANGED <<cache, readAt, base, pos, told, lost>>
  BY DEF Transport, Stream, storeVars, loopVars, histVars
<1>2. TypeOK'
  BY OutsideType
<1>3. st = "open" /\ st' \in {"open", "failed"}
  BY DEF Transport, Stream, PollFromIndex, PollOutdated, Fetch, PollFails,
         Polling
<1>4. LoopInv' /\ ToldInv'
  BY <1>1, <1>3 DEF IInv, LoopInv, JustRead, ToldInv
<1>5. StreamInv'
  <2>. USE <1>1 DEF IInv, StreamInv, Rev, Polling, Stream
  <2>1. CASE Stream(PollFromIndex)
    BY <2>1 DEF PollFromIndex
  <2>2. CASE Stream(PollOutdated)
    BY <2>2 DEF PollOutdated
  <2>3. CASE Stream(Fetch)
    BY <2>3 DEF Fetch
  <2>4. CASE Stream(PollFails)
    BY <2>4 DEF PollFails
  <2>. QED  BY <2>1, <2>2, <2>3, <2>4 DEF Transport
<1>6. StoreInv' /\ HolderInv' /\ TableInv' /\ KnownInv' /\ OwnInv'
  BY <1>1, SameWork DEF Whole, Seen
<1>. QED  BY <1>2, <1>4, <1>5, <1>6 DEF IInv

LEMMA RegisterInv ==
  ASSUME IInv, Register
  PROVE  IInv'
<1>. USE Basics
<1>1. /\ UNCHANGED <<kv, log, kind, pc, bar, lastIndex, todo, changed, table>>
      /\ UNCHANGED <<cache, readAt, told, lost, st, waitIdx, held>>
      /\ st = "open" /\ waitIdx = 0 /\ held = 0 /\ reg' = Rev + 1
      /\ base' = Rev /\ pos' = Rev /\ Rev' = Rev
  BY DEF Register, PollFromNow, Polling, storeVars, loopVars, Rev
<1>2. TypeOK'
  BY OutsideType
<1>3. base = pos
  BY <1>1 DEF IInv, StreamInv
<1>4. LoopInv' /\ ToldInv'
  BY <1>1 DEF IInv, LoopInv, JustRead, ToldInv
<1>5. StreamInv'
  BY <1>1 DEF IInv, StreamInv
<1>6. Whole' => Whole /\ Seen' = Seen
  BY <1>1, <1>3 DEF Whole, Seen
<1>7. StoreInv' /\ HolderInv' /\ TableInv' /\ KnownInv' /\ OwnInv'
  BY <1>1, <1>6, SameWork
<1>. QED  BY <1>2, <1>4, <1>5, <1>7 DEF IInv

LEMMA OpenWatchInv ==
  ASSUME IInv, OpenWatch
  PROVE  IInv'
<1>. USE Basics
<1>1. /\ UNCHANGED <<kv, log, kind, bar, lastIndex, todo, changed, table>>
      /\ UNCHANGED <<cache, readAt, told, lost>>
      /\ pc = "open" /\ pc' = "select" /\ st' = "open" /\ held' = 0 /\ reg' = 0
      /\ waitIdx' = IF lastIndex = 0 THEN 0 ELSE lastIndex + 1
      /\ base' = lastIndex /\ pos' = lastIndex /\ Rev' = Rev
  BY DEF OpenWatch, OpenStream, storeVars, Rev
<1>2. TypeOK'
  BY RestType
<1>3. base = pos /\ pos = readAt
  BY <1>1 DEF IInv, LoopInv, JustRead
<1>4. LoopInv' /\ ToldInv'
  BY <1>1 DEF IInv, LoopInv, JustRead, ToldInv
<1>5. StreamInv'
  BY <1>1 DEF IInv, StreamInv
<1>6. Whole' => Whole /\ Seen' = Seen
  BY <1>1, <1>3 DEF Whole, Seen
<1>7. StoreInv' /\ HolderInv' /\ TableInv' /\ KnownInv' /\ OwnInv'
  BY <1>1, <1>6, SameWork
<1>. QED  BY <1>2, <1>4, <1>5, <1>7 DEF IInv

LEMMA HandleClosedInv ==
  ASSUME IInv, HandleClosed
  PROVE  IInv'
<1>. USE Basics
<1>1. /\ UNCHANGED <<kv, log, kind, lastIndex, todo, changed, table, cache>>
      /\ UNCHANGED <<readAt, base, pos, told, lost, waitIdx, reg, held>>
      /\ pc' = "refresh" /\ st = "failed" /\ st' = "none" /\ Rev' = Rev
  BY DEF HandleClosed, storeVars, histVars, Rev
<1>2. TypeOK'
  BY RestType
<1>3. LoopInv' /\ ToldInv'
  BY <1>1 DEF IInv, LoopInv, JustRead, ToldInv
<1>4. StreamInv'
  BY <1>1 DEF IInv, StreamInv
<1>5. StoreInv' /\ HolderInv' /\ TableInv' /\ KnownInv' /\ OwnInv'
  BY <1>1, SameWork DEF Whole
<1>. QED  BY <1>2, <1>3, <1>4, <1>5 DEF IInv

LEMMA BroadcastInv ==
  ASSUME IInv, Broadcast
  PROVE  IInv'
<1>. USE Basics
<1>1. /\ UNCHANGED <<kv, log, kind, lastIndex, todo, table, cache>>
      /\ UNCHANGED <<readAt, base, pos, lost, st, waitIdx, reg, held>>
      /\ pc = "apply" /\ pc' = (IF bar THEN "open" ELSE "select")
      /\ bar' = FALSE /\ changed' = {} /\ Rev' = Rev
      /\ told' = [i \in Items |-> IF i \in changed THEN cache[i] ELSE told[i]]
  BY DEF Broadcast, storeVars, streamVars, Rev
<1>2. TypeOK'
  BY RestType
<1>3. LoopInv'
  BY <1>1 DEF IInv, LoopInv, JustRead
<1>4. ToldInv'
  BY <1>1 DEF IInv, ToldInv
<1>5. StreamInv'
  BY <1>1 DEF IInv, StreamInv
<1>6. StoreInv' /\ HolderInv' /\ TableInv' /\ KnownInv' /\ OwnInv'
  BY <1>1, SameWork DEF Whole, Seen
<1>. QED  BY <1>2, <1>3, <1>4, <1>5, <1>6 DEF IInv

LEMMA RefreshInv ==
  ASSUME IInv, RefreshFirst \/ RefreshAgain
  PROVE  IInv'
<1>. USE Basics
<1>1. /\ UNCHANGED <<kv, log, kind, bar, lastIndex, todo, st, waitIdx, reg, held>>
      /\ Tree.ok /\ cache' = Tree.ret /\ table' = Tree.table
      /\ readAt' = Rev /\ base' = Rev /\ pos' = Rev /\ Rev' = Rev
      /\ pc = "refresh" /\ pc' = (IF bar THEN "apply" ELSE "open")
  BY DEF RefreshFirst, RefreshAgain, Reset, storeVars, streamVars, Rev
<1>2. TypeOK'
  BY RefreshType
<1>3. todo = Nothing /\ changed = {} /\ st = "none"
  BY <1>1 DEF IInv, TypeOK, LoopInv
<1>4. LoopInv'
  BY <1>1, <1>3 DEF IInv, LoopInv, JustRead, RefreshFirst, RefreshAgain
<1>5. StreamInv'
  BY <1>1, <1>3 DEF IInv, StreamInv
<1>6. ToldInv'
  <2>1. CASE RefreshFirst
    BY <2>1 DEF ToldInv, RefreshFirst
  <2>2. CASE RefreshAgain
    BY <2>2 DEF ToldInv, RefreshAgain, KeysOf
  <2>. QED  BY <2>1, <2>2
<1>7. StoreInv' /\ HolderInv'
  BY <1>1, UnchangedInv
<1>8. ASSUME NEW i \in Items
      PROVE  /\ Due(i)' = Tree.ret[i] /\ todo'[i] # Nil
             /\ Holders(i)' = Holders(i) /\ Ever(i)' = Ever(i)
             /\ Holders(i) \subseteq Ever(i) /\ Holders(i) \subseteq Leaves
             /\ Tree.table[i] \in Holders(i) \union {table[i], Absent}
             /\ table[i] \in Ever(i) \union {Absent}
             /\ Due(i)' \notin {Absent, Nil} => Holders(i) # {}
             /\ Holders(i) # {} =>
                  /\ Tree.table[i] \in Holders(i)
                  /\ Tree.ret[i] = IF kind = "depends" THEN Holders(i)
                                   ELSE <<Tree.table[i], kv[Tree.table[i]]>>
  <2>1. todo'[i] = Absent
    BY <1>1, <1>3 DEF Nothing
  <2>2. Due(i)' = Tree.ret[i] /\ todo'[i] # Nil
    BY <1>1, <2>1, Markers DEF Due
  <2>3. Holders(i) \subseteq Ever(i) /\ Holders(i) \subseteq Leaves
    BY HoldersEver DEF IInv, Holders
  <2>4. table[i] \in Ever(i) \union {Absent}
    BY DEF IInv, TableInv
  <2>5. Holders(i) = {} => Tree.ret[i] \in {Absent, Nil}
    BY <1>1, TreeMade
  <2>6. /\ Tree.table[i] \in Holders(i) \union {table[i], Absent}
        /\ Holders(i) # {} =>
             /\ Tree.table[i] \in Holders(i)
             /\ Tree.ret[i] = IF kind = "depends" THEN Holders(i)
                              ELSE <<Tree.table[i], kv[Tree.table[i]]>>
    BY <1>1, TreeMade
  <2>. QED  BY <1>1, <2>2, <2>3, <2>4, <2>5, <2>6, UnchangedInv
<1>9. TableInv'
  <2>1. \A i \in Items : table'[i] \in Ever(i)' \union {Absent}
    BY <1>1, <1>8
  <2>2. ASSUME NEW i \in Items, Due(i)' \notin {Absent, Nil}
        PROVE  IF kind = "depends" THEN table'[i] \in Due(i)'
               ELSE Due(i)'[1] = table'[i] /\ i \in Lists[Due(i)'[2]]
    <3>1. Tree.table[i] \in Holders(i) /\ table'[i] = Tree.table[i]
      BY <1>1, <1>8, <2>2
    <3>2. \A k \in Holders(i) : i \in Lists[kv[k]]
      BY DEF Holders
    <3>3. Due(i)' = IF kind = "depends" THEN Holders(i)
                    ELSE <<Tree.table[i], kv[Tree.table[i]]>>
      BY <1>8, <3>1
    <3>. QED  BY <3>1, <3>2, <3>3
  <2>. QED  BY <1>1, <1>8, <2>1, <2>2 DEF TableInv
<1>10. KnownInv'
  <2>. SUFFICES ASSUME NEW i \in Items, NEW k \in Holders(i),
                       kind = "depends" => Ever(i) = {k}
                PROVE  Tree.table[i] = k /\ Due(i)' = EntryOf(k)
    BY <1>1, <1>8, UnchangedInv DEF KnownInv
  <2>1. Holders(i) = {k}
    BY <1>8 DEF IInv, HolderInv
  <2>. QED  BY <2>1, <1>8 DEF EntryOf
<1>11. OwnInv'
  <2>. SUFFICES ASSUME NEW i \in Items, Due(i)' \notin {Absent, Nil}
                PROVE  /\ kv[Tree.table[i]] # Absent
                       /\ kind = "container" => kv[Tree.table[i]] = Due(i)'[2]
    BY <1>1 DEF OwnInv
  <2>1. Tree.table[i] \in Holders(i)
    BY <1>8
  <2>2. \A k \in Holders(i) : kv[k] # Absent
    BY DEF Holders
  <2>3. kind = "container" => Due(i)' = <<Tree.table[i], kv[Tree.table[i]]>>
    BY <1>8, <2>1
  <2>. QED  BY <2>1, <2>2, <2>3
<1>. QED
  BY <1>2, <1>4, <1>5, <1>6, <1>7, <1>9, <1>10, <1>11 DEF IInv

LEMMA RefreshFailsInv ==
  ASSUME IInv, RefreshFails
  PROVE  IInv'
<1>. USE Basics
<1>1. /\ UNCHANGED <<kv, log, kind, bar, lastIndex, todo, st, waitIdx, reg, held>>
      /\ UNCHANGED <<pc, changed, cache, readAt, base, pos, told, lost>>
      /\ table' = Tree.table /\ pc = "refresh" /\ Rev' = Rev
  BY DEF RefreshFails, storeVars, streamVars, loopVars, histVars, Rev
<1>2. TypeOK'
  BY RefreshType
<1>3. LoopInv' /\ StreamInv' /\ ToldInv'
  BY <1>1 DEF IInv, LoopInv, JustRead, StreamInv, ToldInv
<1>4. StoreInv' /\ HolderInv'
  BY <1>1, UnchangedInv
<1>5. ASSUME NEW i \in Items PROVE table'[i] \in Ever(i)' \union {Absent}
  <2>1. /\ Tree.table[i] \in Holders(i) \union {table[i], Absent}
        /\ Holders(i) \subseteq Ever(i) /\ Ever(i)' = Ever(i)
        /\ table[i] \in Ever(i) \union {Absent}
    BY <1>1, TreeMade, HoldersEver, UnchangedInv DEF IInv, TableInv
  <2>. QED  BY <1>1, <2>1
<1>6. TableInv' /\ KnownInv' /\ OwnInv'
  BY <1>1, <1>5 DEF TableInv, KnownInv, OwnInv, Whole
<1>. QED  BY <1>2, <1>3, <1>4, <1>6 DEF IInv

(* The loop has an event: what concerns a leaf after it concerned it       *)
(* before, but for the leaves that the event touches; and those it touches *)
(* last hold what it says.                                                 *)
LEMMA Received ==
  ASSUME IInv, Receive
  PROVE  /\ pc = "select" /\ held > 0 /\ held <= Rev /\ base <= pos /\ pos < held
         /\ held' = 0 /\ pos' = held /\ Seen' = held /\ Rev' = Rev
         /\ UNCHANGED <<kv, log, st, waitIdx, reg, kind, bar, changed, cache>>
         /\ UNCHANGED <<readAt, base, told>>
         /\ changed = {} /\ todo = Nothing
         /\ \A i \in Items : Due(i) = cache[i]
         /\ Whole' =>
              /\ Whole
              /\ \A k \in Leaves : ~Later(k)' =>
                   IF Touches(log[held], k) THEN kv[k] = log[held].val
                                            ELSE ~Later(k)
<1>. USE Basics
<1>1. /\ pc = "select" /\ held > 0 /\ held' = 0 /\ pos' = held /\ Rev' = Rev
      /\ UNCHANGED <<kv, log, st, waitIdx, reg, kind, bar, changed, cache>>
      /\ UNCHANGED <<readAt, base, told>>
  BY DEF Receive, storeVars, Rev
<1>2. /\ held <= Rev /\ base <= pos /\ pos < held
      /\ \A j \in 1..Rev : pos < j /\ j < held => log[j].act = "other"
  BY <1>1 DEF IInv, StreamInv
<1>3. changed = {} /\ todo = Nothing
  BY <1>1 DEF TypeOK
<1>4. \A i \in Items : Due(i) = cache[i]
  BY <1>3 DEF Due, Nothing
<1>6. Seen' = held
  BY <1>1, <1>2 DEF Seen
<1>7. Whole' => Whole /\ base <= readAt
  BY <1>1 DEF Whole
<1>8. ASSUME NEW k \in Leaves, ~Later(k)', base <= readAt
      PROVE  IF Touches(log[held], k) THEN kv[k] = log[held].val ELSE ~Later(k)
  <2>1. \A j \in 1..Rev : j > held => ~Touches(log[j], k)
    BY <1>1, <1>6, <1>8 DEF Later
  <2>2. CASE Touches(log[held], k)
    BY <2>1, <2>2, <1>1, <1>2 DEF IInv, StoreInv
  <2>3. CASE ~Touches(log[held], k)
    <3>1. Seen >= pos
      BY <1>8 DEF Seen
    <3>2. \A j \in 1..Rev : j > Seen => ~Touches(log[j], k)
      <4>. SUFFICES ASSUME NEW j \in 1..Rev, j > Seen PROVE ~Touches(log[j], k)
        OBVIOUS
      <4>1. CASE j > held
        BY <4>1, <2>1
      <4>2. CASE j = held
        BY <4>2, <2>3
      <4>3. CASE j < held
        BY <4>3, <3>1, <1>2 DEF Touches
      <4>. QED  BY <4>1, <4>2, <4>3
    <3>. QED  BY <2>3, <3>2 DEF Later
  <2>. QED  BY <2>2, <2>3
<1>. QED  BY <1>1, <1>2, <1>3, <1>4, <1>6, <1>7, <1>8

LEMMA HandleSetInv ==
  ASSUME IInv, HandleSet
  PROVE  IInv'
<1>. USE Basics
<1>0. Receive
  BY DEF HandleSet
<1>1. /\ pc = "select" /\ held > 0 /\ base <= pos /\ pos < held
      /\ held' = 0 /\ pos' = held /\ Seen' = held /\ Rev' = Rev
      /\ UNCHANGED <<kv, log, st, waitIdx, reg, kind, bar, changed, cache>>
      /\ UNCHANGED <<readAt, base, told>>
      /\ pc' = "apply" /\ lastIndex' = held /\ lost' = lost
      /\ todo = Nothing
  BY <1>0, Received DEF HandleSet
<1>2. TypeOK'
  BY HandleType
<1>3. LoopInv' /\ StreamInv' /\ ToldInv'
  BY <1>1 DEF IInv, LoopInv, JustRead, StreamInv, ToldInv
<1>4. StoreInv' /\ HolderInv'
  BY <1>1, UnchangedInv
<1>5. PICK k \in Leaves, v \in Vals \ {Bad} : SetDoes(k, v)
  BY HandleSetDoes
<1>6. /\ log[held].act = "set" /\ log[held].key = k /\ log[held].val = v
      /\ \A l \in Leaves : Touches(log[held], l) <=> l = k
  BY <1>5, EtcdAssumption DEF SetDoes, Touches
<1>7. ASSUME NEW i \in Items, i \in Lists[v]
      PROVE  /\ table'[i] = k /\ k \in Ever(i)
             /\ Due(i)' = IF kind = "depends" THEN {k} ELSE <<k, v>>
             /\ todo'[i] # Nil /\ Due(i)' \notin {Absent, Nil}
  <2>1. /\ table'[i] = k
        /\ todo'[i] = IF kind = "depends" THEN {k} ELSE <<k, v>>
    BY <1>5, <1>7 DEF SetDoes
  <2>2. todo'[i] \notin {Absent, Nil, Drop}
    BY <2>1, Markers
  <2>3. k \in Ever(i)
    BY <1>6, <1>7, <1>1 DEF Ever
  <2>. QED  BY <2>1, <2>2, <2>3 DEF Due
<1>8. ASSUME NEW i \in Items, i \notin Lists[v], kind = "container", table[i] = k
      PROVE  table'[i] = Absent /\ Due(i)' = Absent
  <2>1. table'[i] = Absent /\ todo'[i] = Nil
    BY <1>5, <1>8 DEF SetDoes
  <2>. QED  BY <2>1, Markers DEF Due
<1>9. ASSUME NEW i \in Items, i \notin Lists[v], ~(kind = "container" /\ table[i] = k)
      PROVE  table'[i] = table[i] /\ Due(i)' = Due(i) /\ todo'[i] = Absent
  <2>1. table'[i] = table[i] /\ todo'[i] = Absent
    BY <1>5, <1>9 DEF SetDoes
  <2>2. Due(i) = cache[i]
    BY <1>0, Received
  <2>. QED  BY <2>1, <2>2, <1>1 DEF Due
<1>10. TableInv'
  <2>. SUFFICES ASSUME NEW i \in Items
                PROVE  /\ table'[i] \in Ever(i) \union {Absent}
                       /\ todo'[i] = Nil => table'[i] = Absent
                       /\ Due(i)' \notin {Absent, Nil} =>
                            IF kind = "depends" THEN table'[i] \in Due(i)'
                            ELSE Due(i)'[1] = table'[i] /\ i \in Lists[Due(i)'[2]]
    BY <1>1, UnchangedInv DEF TableInv
  <2>1. CASE i \in Lists[v]
    BY <2>1, <1>7
  <2>2. CASE i \notin Lists[v] /\ kind = "container" /\ table[i] = k
    BY <2>2, <1>8
  <2>3. CASE i \notin Lists[v] /\ ~(kind = "container" /\ table[i] = k)
    BY <2>3, <1>1, <1>9, Markers DEF IInv, TableInv
  <2>. QED  BY <2>1, <2>2, <2>3
<1>11. ASSUME Whole', NEW l \in Leaves, ~Later(l)'
       PROVE  Whole /\ IF l = k THEN kv[l] = v ELSE ~Later(l)
  BY <1>0, <1>6, <1>11, Received
<1>12. KnownInv'
  <2>. SUFFICES ASSUME Whole', NEW i \in Items, NEW l \in Holders(i), ~Later(l)',
                       kind = "depends" => Ever(i) = {l}
                PROVE  /\ table'[i] = l
                       /\ Due(i)' = EntryOf(l) \/ (i \in lost /\ Due(i)' = Absent)
    BY <1>1, UnchangedInv DEF KnownInv
  <2>1. l \in Leaves /\ i \in Lists[kv[l]]
    BY DEF Holders
  <2>2. CASE l = k
    <3>1. kv[k] = v /\ i \in Lists[v]
      BY <2>1, <2>2, <1>11
    <3>. QED  BY <2>2, <3>1, <1>7 DEF EntryOf
  <2>3. CASE l # k
    <3>1. ~Later(l) /\ Whole
      BY <2>1, <2>3, <1>11
    <3>2. /\ table[i] = l
          /\ Due(i) = EntryOf(l) \/ (i \in lost /\ Due(i) = Absent)
      BY <3>1 DEF IInv, KnownInv
    <3>3. i \notin Lists[v]
      <4>. SUFFICES ASSUME i \in Lists[v] PROVE FALSE
        OBVIOUS
      <4>1. kind # "depends"
        BY <2>3, <1>7
      <4>2. \E j \in 1..Rev : j > held /\ Touches(log[j], l)
        BY <4>1, <2>3, <1>1, <1>6 DEF IInv, HolderInv
      <4>. QED  BY <4>2, <1>1 DEF Later
    <3>. QED  BY <2>3, <3>2, <3>3, <1>9
  <2>. QED  BY <2>2, <2>3
<1>13. OwnInv'
  <2>. SUFFICES ASSUME Whole', NEW i \in Items, Due(i)' \notin {Absent, Nil},
                       ~Later(table[i])'
                PROVE  /\ kv[table'[i]] # Absent
                       /\ kind = "container" => kv[table'[i]] \in {Due(i)'[2], Bad}
    BY <1>1 DEF OwnInv
  <2>1. CASE i \in Lists[v]
    <3>1. table'[i] = k /\ ~Later(k)'
      BY <2>1, <1>7
    <3>2. kv[k] = v /\ v # Absent
      BY <3>1, <1>11, EtcdAssumption
    <3>. QED  BY <2>1, <3>1, <3>2, <1>7
  <2>2. CASE i \notin Lists[v]
    <3>1. ~(kind = "container" /\ table[i] = k)
      BY <2>2, <1>8
    <3>2. table'[i] = table[i] /\ Due(i)' = Due(i)
      BY <2>2, <3>1, <1>9
    <3>3. table[i] \in Leaves
      BY <3>2, <1>1, DueTable
    <3>. PICK l \in Leaves : l = table[i] /\ l = table'[i]
      BY <3>2, <3>3
    <3>4. ~Later(l)'
      OBVIOUS
    <3>5. CASE l = k
      <4>1. kv[k] = v /\ v # Absent /\ kind # "container"
        BY <3>1, <3>4, <3>5, <1>11, EtcdAssumption
      <4>. QED  BY <3>5, <4>1
    <3>6. CASE l # k
      <4>1. Whole /\ ~Later(l)
        BY <3>4, <3>6, <1>11
      <4>. QED  BY <3>2, <4>1 DEF IInv, OwnInv
    <3>. QED  BY <3>5, <3>6
  <2>. QED  BY <2>1, <2>2
<1>. QED  BY <1>2, <1>3, <1>4, <1>10, <1>12, <1>13 DEF IInv

LEMMA HandleUnreadableInv ==
  ASSUME IInv, HandleUnreadable
  PROVE  IInv'
<1>. USE Basics
<1>0. Receive
  BY DEF HandleUnreadable
<1>1. /\ pc = "select" /\ held > 0 /\ base <= pos /\ pos < held
      /\ held' = 0 /\ pos' = held /\ Seen' = held /\ Rev' = Rev
      /\ UNCHANGED <<kv, log, st, waitIdx, reg, kind, bar, changed, cache>>
      /\ UNCHANGED <<readAt, base, told, pc, lastIndex, lost, todo, table>>
  BY <1>0, Received DEF HandleUnreadable
<1>2. TypeOK'
  BY HandleType
<1>3. LoopInv' /\ StreamInv' /\ ToldInv'
  BY <1>1 DEF IInv, LoopInv, JustRead, StreamInv, ToldInv
<1>4. StoreInv' /\ HolderInv'
  BY <1>1, UnchangedInv
<1>5. \A i \in Items : Due(i)' = Due(i)
  BY <1>1 DEF Due
<1>6. TableInv'
  BY <1>1, <1>5, UnchangedInv DEF IInv, TableInv
<1>7. ASSUME Whole', NEW l \in Leaves, ~Later(l)'
      PROVE  Whole /\ (kv[l] = Bad \/ ~Later(l))
  BY <1>0, <1>7, Received DEF HandleUnreadable
<1>8. KnownInv'
  <2>. SUFFICES ASSUME Whole', NEW i \in Items, NEW l \in Holders(i), ~Later(l)',
                       kind = "depends" => Ever(i) = {l}
                PROVE  /\ table[i] = l
                       /\ Due(i) = EntryOf(l) \/ (i \in lost /\ Due(i) = Absent)
    BY <1>1, <1>5, UnchangedInv DEF KnownInv
  <2>1. l \in Leaves /\ kv[l] # Bad
    BY InvertedAssumption DEF Holders
  <2>2. Whole /\ ~Later(l)
    BY <2>1, <1>7
  <2>. QED  BY <2>2 DEF IInv, KnownInv
<1>9. OwnInv'
  <2>. SUFFICES ASSUME Whole', NEW i \in Items, Due(i) \notin {Absent, Nil},
                       ~Later(table[i])'
                PROVE  /\ kv[table[i]] # Absent
                       /\ kind = "container" => kv[table[i]] \in {Due(i)[2], Bad}
    BY <1>1, <1>5 DEF OwnInv
  <2>1. table[i] \in Leaves
    BY <1>1, DueTable
  <2>2. Bad # Absent
    BY EtcdAssumption, InvertedAssumption
  <2>3. Whole /\ (kv[table[i]] = Bad \/ ~Later(table[i]))
    BY <2>1, <1>1, <1>7
  <2>. QED  BY <2>2, <2>3 DEF IInv, OwnInv
<1>. QED  BY <1>2, <1>3, <1>4, <1>6, <1>8, <1>9 DEF IInv

LEMMA HandleDeleteInv ==
  ASSUME IInv, HandleDelete
  PROVE  IInv'
<1>. USE Basics
<1>. DEFINE p == log[held].key
<1>0. Receive
  BY DEF HandleDelete
<1>1. /\ pc = "select" /\ held > 0 /\ held <= Rev /\ base <= pos /\ pos < held
      /\ held' = 0 /\ pos' = held /\ Seen' = held /\ Rev' = Rev
      /\ UNCHANGED <<kv, log, st, waitIdx, reg, kind, bar, changed, cache>>
      /\ UNCHANGED <<readAt, base, told, table>>
      /\ pc' = "apply" /\ lastIndex' = held
      /\ lost' = lost \union {i \in Concerned(p) : table[i] \notin Below[p]}
      /\ todo' = [i \in Items |-> IF i \in Concerned(p) THEN Drop ELSE Absent]
      /\ log[held].act = "delete"
      /\ \A i \in Items : Due(i) = cache[i]
  BY <1>0, Received DEF HandleDelete
<1>2. TypeOK'
  BY HandleType
<1>3. LoopInv' /\ StreamInv' /\ ToldInv'
  BY <1>1 DEF IInv, LoopInv, JustRead, StreamInv, ToldInv
<1>4. StoreInv' /\ HolderInv'
  BY <1>1, UnchangedInv
<1>5. /\ p \in Paths /\ log[held].val = Absent
      /\ \A l \in Leaves : Touches(log[held], l) <=> l \in Below[p]
      /\ Below[p] \subseteq Matches[p]
  BY <1>1, EventType, InvertedAssumption DEF Touches
<1>. HIDE DEF p
<1>6. ASSUME NEW i \in Items
      PROVE  /\ todo'[i] # Nil
             /\ Due(i)' = IF i \in Concerned(p) THEN Absent ELSE Due(i)
             /\ i \in Concerned(p) <=> Due(i) # Absent /\ table[i] \in Matches[p]
  BY <1>1, Markers DEF Due, Concerned, KeysOf
<1>7. TableInv'
  BY <1>1, <1>6, UnchangedInv DEF IInv, TableInv
<1>8. ASSUME Whole', NEW l \in Leaves, ~Later(l)'
      PROVE  Whole /\ IF l \in Below[p] THEN kv[l] = Absent ELSE ~Later(l)
  BY <1>0, <1>5, <1>8, Received
<1>9. KnownInv'
  <2>. SUFFICES ASSUME Whole', NEW i \in Items, NEW l \in Holders(i), ~Later(l)',
                       kind = "depends" => Ever(i) = {l}
                PROVE  /\ table[i] = l
                       /\ Due(i)' = EntryOf(l) \/ (i \in lost' /\ Due(i)' = Absent)
    BY <1>1, UnchangedInv DEF KnownInv
  <2>1. l \in Leaves /\ kv[l] # Absent
    BY DEF Holders
  <2>2. Whole /\ ~Later(l) /\ l \notin Below[p]
    BY <2>1, <1>8
  <2>3. /\ table[i] = l
        /\ Due(i) = EntryOf(l) \/ (i \in lost /\ Due(i) = Absent)
    BY <2>2 DEF IInv, KnownInv
  <2>. QED  BY <2>2, <2>3, <1>1, <1>6
<1>10. OwnInv'
  <2>. SUFFICES ASSUME Whole', NEW i \in Items, Due(i)' \notin {Absent, Nil},
                       ~Later(table[i])'
                PROVE  /\ kv[table[i]] # Absent
                       /\ kind = "container" => kv[table[i]] \in {Due(i)'[2], Bad}
    BY <1>1 DEF OwnInv
  <2>1. Due(i)' = Due(i) /\ table[i] \notin Below[p]
    BY <1>5, <1>6
  <2>2. table[i] \in Leaves
    BY <2>1, <1>1, DueTable
  <2>3. Whole /\ ~Later(table[i])
    BY <2>1, <2>2, <1>1, <1>8
  <2>. QED  BY <2>1, <2>3 DEF IInv, OwnInv
<1>. QED  BY <1>2, <1>3, <1>4, <1>7, <1>9, <1>10 DEF IInv

(* One Put or Delete changes nothing about what is due, but for the items  *)
(* that a Delete takes along.                                              *)
LEMMA ApplyInv ==
  ASSUME IInv, NEW i \in Items, Put(i) \/ Delete(i)
  PROVE  IInv'
<1>. USE Basics
<1>1. /\ pc = "apply" /\ todo[i] # Absent /\ todo' = [todo EXCEPT ![i] = Absent]
      /\ UNCHANGED <<kv, log, st, waitIdx, reg, held, kind, pc, bar, lastIndex>>
      /\ UNCHANGED <<table, readAt, base, pos, told>>
      /\ changed' = changed \union {i} /\ Rev' = Rev
  BY DEF Put, Delete, Applying, storeVars, streamVars, Rev
<1>2. TypeOK'
  BY ApplyType
<1>3. LoopInv' /\ StreamInv'
  BY <1>1 DEF IInv, LoopInv, JustRead, StreamInv
<1>4. StoreInv' /\ HolderInv'
  BY <1>1, UnchangedInv
<1>5. ASSUME NEW j \in Items
      PROVE  todo'[j] = IF j = i THEN Absent ELSE todo[j]
  BY <1>1 DEF TypeOK
<1>6. ASSUME NEW j \in Items
      PROVE  cache'[j] = cache[j] \/ cache'[j] = Absent \/ j \in changed'
  BY <1>1 DEF Put, Delete, TypeOK
<1>7. ToldInv'
  BY <1>1, <1>6 DEF IInv, ToldInv
<1>8. ASSUME NEW j \in Items
      PROVE  Due(j)' = Due(j) \/ (Delete(i) /\ j \in Removed(i) /\ j # i /\ Due(j)' = Absent)
  <2>1. CASE Put(i)
    <3>1. cache'[j] = IF j # i THEN cache[j]
                      ELSE IF todo[i] = Nil THEN Absent ELSE todo[i]
      BY <2>1 DEF Put, TypeOK
    <3>2. todo[i] # Drop
      BY <2>1 DEF Put
    <3>. QED  BY <3>1, <3>2, <1>1, <1>5 DEF Due
  <2>2. CASE Delete(i)
    <3>1. /\ cache'[j] = IF j \in Removed(i) THEN Absent ELSE cache[j]
          /\ todo[i] = Drop /\ i \in Removed(i)
      BY <2>2, InvertedAssumption DEF Delete, Removed
    <3>2. CASE j = i
      BY <3>1, <3>2, <1>1, <1>5 DEF Due
    <3>3. CASE j # i
      BY <2>2, <3>1, <3>3, <1>5 DEF Due
    <3>. QED  BY <3>2, <3>3
  <2>. QED  BY <2>1, <2>2
<1>9. ASSUME NEW j \in Items, NEW k \in Leaves, table[j] = k, j \in lost, Due(j) = Absent
      PROVE  j \in lost'
  <2>1. CASE Put(i)
    <3>1. j = i => todo[i] \in {Absent, Nil, Drop}
      BY <1>9 DEF Due
    <3>2. j = i => todo[i] = Nil
      BY <2>1, <3>1, <1>1 DEF Put
    <3>3. j # i
      BY <3>2, <1>1, <1>9, Markers DEF IInv, TableInv
    <3>. QED  BY <2>1, <3>3, <1>9 DEF Put
  <2>2. CASE Delete(i)
    BY <2>2, <1>9 DEF Delete
  <2>. QED  BY <2>1, <2>2
<1>10. TableInv'
  <2>1. \A j \in Items : todo'[j] = Nil => todo[j] = Nil
    BY <1>5, Markers
  <2>. QED  BY <2>1, <1>1, <1>8, UnchangedInv DEF IInv, TableInv
<1>11. (Whole' <=> Whole) /\ \A k : Later(k)' = Later(k)
  BY <1>1 DEF Whole, Later, Seen
<1>12. KnownInv'
  <2>. SUFFICES ASSUME Whole', NEW j \in Items, NEW k \in Holders(j), ~Later(k)',
                       kind = "depends" => Ever(j) = {k}
                PROVE  /\ table[j] = k
                       /\ Due(j)' = EntryOf(k) \/ (j \in lost' /\ Due(j)' = Absent)
    BY <1>1, UnchangedInv DEF KnownInv
  <2>1. /\ table[j] = k /\ k \in Leaves
        /\ Due(j) = EntryOf(k) \/ (j \in lost /\ Due(j) = Absent)
    BY <1>11 DEF IInv, KnownInv, Holders
  <2>2. CASE Due(j)' = Due(j)
    BY <2>1, <2>2, <1>9
  <2>3. CASE Delete(i) /\ j \in Removed(i) /\ j # i /\ Due(j)' = Absent
    BY <2>1, <2>3 DEF Delete
  <2>. QED  BY <2>2, <2>3, <1>8
<1>13. OwnInv'
  BY <1>1, <1>8, <1>11 DEF IInv, OwnInv
<1>. QED
  BY <1>2, <1>3, <1>4, <1>7, <1>10, <1>12, <1>13 DEF IInv

LEMMA StepInv == IInv /\ [Next]_vars => IInv'
<1>. SUFFICES ASSUME IInv, [Next]_vars PROVE IInv'
  OBVIOUS
<1>1. CASE Deployd
  BY <1>1, DeploydInv
<1>2. CASE Register
  BY <1>2, RegisterInv
<1>3. CASE Transport
  BY <1>3, TransportInv
<1>4. CASE Loop
  <2>1. CASE RefreshFirst \/ RefreshAgain
    BY <2>1, RefreshInv
  <2>2. CASE RefreshFails
    BY <2>2, RefreshFailsInv
  <2>3. CASE OpenWatch
    BY <2>3, OpenWatchInv
  <2>4. CASE HandleSet
    BY <2>4, HandleSetInv
  <2>5. CASE HandleUnreadable
    BY <2>5, HandleUnreadableInv
  <2>6. CASE HandleDelete
    BY <2>6, HandleDeleteInv
  <2>7. CASE \E i \in Items : Put(i) \/ Delete(i)
    BY <2>7, ApplyInv
  <2>8. CASE Broadcast
    BY <2>8, BroadcastInv
  <2>9. CASE HandleClosed
    BY <2>9, HandleClosedInv
  <2>. QED
    BY <1>4, <2>1, <2>2, <2>3, <2>4, <2>5, <2>6, <2>7, <2>8, <2>9 DEF Loop
<1>5. CASE UNCHANGED vars
  <2>. USE <1>5 DEF vars, storeVars, streamVars, loopVars, histVars
  <2>1. TypeOK'
    BY DEF IInv, TypeOK, Entries
  <2>2. LoopInv' /\ StreamInv' /\ ToldInv'
    BY DEF IInv, LoopInv, JustRead, StreamInv, ToldInv, Rev
  <2>3. StoreInv' /\ HolderInv' /\ TableInv' /\ KnownInv' /\ OwnInv'
    BY SameWork DEF Whole, Seen
  <2>. QED  BY <2>1, <2>2, <2>3 DEF IInv
<1>. QED  BY <1>1, <1>2, <1>3, <1>4, <1>5 DEF Next

(* The inductive invariant: types; where the loop and the stream stand;    *)
(* what the log says of the store; and that cache and table, with the Puts *)
(* and Deletes still to do, stand for every change up to the last event    *)
(* taken (watcher.go 81-173 with the convert of container.go 71-120 and    *)
(* auth.go 155-244).                                                       *)
THEOREM Invariant == Spec => []IInv
BY InitInv, StepInv, PTL DEF Spec

-----------------------------------------------------------------------------
(* What it means once the loop is up to date. *)

LEMMA WhenSettled ==
  ASSUME IInv, Settled, NEW i \in Items
  PROVE  /\ Due(i) = cache[i] /\ Whole /\ \A k : ~Later(k)
         /\ Holders(i) \subseteq Leaves
         /\ \A k \in Leaves : kv[k] # Bad
<1>. USE Basics
<1>1. todo = Nothing /\ pos = Rev /\ base <= readAt
  BY DEF Settled, TypeOK
<1>2. Due(i) = cache[i]
  BY <1>1 DEF Due, Nothing
<1>3. Seen = Rev
  BY <1>1 DEF Seen
<1>4. \A k : ~Later(k)
  BY <1>3 DEF Later
<1>. QED  BY <1>2, <1>4 DEF Settled, Whole, Holders

LEMMA HolderKnown ==
  ASSUME IInv, Settled, NEW i \in Items, NEW k \in Holders(i),
         kind = "depends" => Ever(i) = {k}
  PROVE  cache[i] = EntryOf(k) \/ Taken(i)
BY WhenSettled DEF IInv, KnownInv, Taken

LEMMA EntryOwned ==
  ASSUME IInv, Settled, NEW i \in Items, cache[i] \notin {Absent, Nil}
  PROVE  /\ table[i] \in Leaves /\ kv[table[i]] # Absent /\ table[i] \in Ever(i)
         /\ kind # "depends" => cache[i][1] = table[i] /\ i \in Lists[cache[i][2]]
         /\ kind = "container" => kv[table[i]] = cache[i][2]
<1>1. /\ Due(i) = cache[i] /\ Whole /\ ~Later(table[i])
      /\ \A k \in Leaves : kv[k] # Bad
  BY WhenSettled
<1>2. table[i] \in Leaves
  BY <1>1, DueTable DEF Whole
<1>3. table[i] \in Ever(i)
  BY <1>2, Markers DEF IInv, TableInv
<1>4. /\ kv[table[i]] # Absent
      /\ kind = "container" => kv[table[i]] \in {cache[i][2], Bad}
  BY <1>1 DEF IInv, OwnInv
<1>5. kind # "depends" => cache[i][1] = table[i] /\ i \in Lists[cache[i][2]]
  BY <1>1 DEF IInv, TableInv, Whole
<1>. QED  BY <1>1, <1>2, <1>3, <1>4, <1>5

(* Once the loop is up to date, the containers in the cache are those the  *)
(* groups list, with what the groups say of them, but for what a deletion  *)
(* of another group took (container.go 71-120).                            *)
THEOREM ContainersAreExact == Spec => []ContainersExact
<1>1. IInv => ContainersExact
  <2>. SUFFICES ASSUME IInv, kind = "container", Settled, NEW i \in Items
                PROVE  /\ \A k \in Holders(i) : cache[i] = <<k, kv[k]>> \/ Taken(i)
                       /\ Holders(i) = {} => cache[i] \in {Absent, Nil}
    BY DEF ContainersExact
  <2>1. \A k \in Holders(i) : cache[i] = <<k, kv[k]>> \/ Taken(i)
    BY HolderKnown DEF EntryOf
  <2>2. ASSUME cache[i] \notin {Absent, Nil} PROVE table[i] \in Holders(i)
    BY <2>2, EntryOwned DEF Holders
  <2>. QED  BY <2>1, <2>2
<1>. QED  BY <1>1, Invariant, PTL

(* Once the loop is up to date, an address is known as the app of the      *)
(* group that has it (auth.go 155-206).                                    *)
THEOREM AddressesKnown == Spec => []AddressKnown
<1>1. IInv => AddressKnown
  <2>. SUFFICES ASSUME IInv, kind = "podgroup", Settled, NEW i \in Items,
                       NEW k \in Holders(i)
                PROVE  cache[i] = <<k, kv[k]>> \/ Taken(i)
    BY DEF AddressKnown
  <2>. QED  BY HolderKnown DEF EntryOf
<1>. QED  BY <1>1, Invariant, PTL

(* Once the loop is up to date, no address has the rights of a group that  *)
(* was deleted (auth.go 177-206).                                          *)
THEOREM AddressesRevoked == Spec => []Revoked
<1>1. IInv => Revoked
  <2>. SUFFICES ASSUME IInv, kind = "podgroup", Settled, NEW i \in Items,
                       cache[i] # Absent
                PROVE  kv[cache[i][1]] # Absent
    BY DEF Revoked
  <2>1. cache[i] # Nil
    BY DEF IInv, TypeOK
  <2>. QED  BY <2>1, EntryOwned
<1>. QED  BY <1>1, Invariant, PTL

(* Once the loop is up to date, an address that only ever depended on one  *)
(* service may visit it while it depends on it, and not when the           *)
(* service's dependencies are gone (auth.go 208-244).                      *)
THEOREM DependenciesKnown == Spec => []DependsKnown
<1>1. IInv => DependsKnown
  <2>. SUFFICES ASSUME IInv, kind = "depends", Settled, NEW i \in Items,
                       NEW k \in Leaves, Ever(i) = {k}
                PROVE  /\ Holders(i) = {k} => cache[i] = {k} \/ Taken(i)
                       /\ kv[k] = Absent => cache[i] = Absent
    BY DEF DependsKnown
  <2>1. Holders(i) = {k} => cache[i] = {k} \/ Taken(i)
    BY HolderKnown DEF EntryOf
  <2>2. cache[i] # Nil
    BY DEF IInv, TypeOK
  <2>3. cache[i] # Absent => kv[k] # Absent
    BY <2>2, EntryOwned
  <2>. QED  BY <2>1, <2>3
<1>. QED  BY <1>1, Invariant, PTL

(* Although an event becomes several Puts and Deletes, once it was         *)
(* broadcast the receivers of every key know its value, unless it is no    *)
(* longer cached (watcher.go 149-168).                                     *)
THEOREM ReceiversTold == Spec => []Announced
<1>1. IInv => Announced
  BY DEF IInv, TypeOK, ToldInv, Announced
<1>. QED  BY <1>1, Invariant, PTL

-----------------------------------------------------------------------------
(* The container watcher is a Source. *)

SourceStep == \/ Src!Load(cache') \/ Src!Replace(cache')
              \/ Src!Change(cache', changed') \/ Src!Announce

LEMMA InitSource == Init => Src!SourceInit
BY DEF Init, Nothing, Src!SourceInit, ModeOf

LEMMA LoopSource ==
  ASSUME IInv, kind = "container", Loop
  PROVE  SourceStep \/ UNCHANGED (Src!sourceVars)
<1>. USE DEF Src!sourceVars
<1>0. TypeOK
  BY DEF IInv
<1>1. CASE RefreshFirst
  <2>1. Src!Load(cache')
    BY <1>1 DEF RefreshFirst, Reset, Src!Load, ModeOf
  <2>. QED  BY <2>1 DEF SourceStep
<1>2. CASE RefreshAgain
  <2>1. Src!Replace(cache')
    BY <1>2 DEF RefreshAgain, Reset, Src!Replace, Src!Present, KeysOf, ModeOf
  <2>. QED  BY <2>1 DEF SourceStep
<1>3. CASE RefreshFails \/ OpenWatch \/ HandleUnreadable \/ HandleClosed
  <2>1. changed' = changed /\ cache' = cache
    BY <1>3 DEF RefreshFails, OpenWatch, HandleUnreadable, HandleClosed, Receive,
                loopVars, histVars
  <2>2. ModeOf' = ModeOf
    BY <1>3 DEF RefreshFails, OpenWatch, HandleUnreadable, HandleClosed, Receive,
                loopVars, ModeOf
  <2>. QED  BY <2>1, <2>2
<1>4. CASE HandleSet \/ HandleDelete
  <2>1. /\ pc = "select" /\ pc' = "apply" /\ changed = {}
        /\ changed' = changed /\ cache' = cache
    BY <1>0, <1>4 DEF HandleSet, HandleDelete, Receive, TypeOK
  <2>2. Src!Change(cache', changed')
    BY <2>1 DEF Src!Change, ModeOf
  <2>. QED  BY <2>2 DEF SourceStep
<1>5. ASSUME NEW i \in Items, Put(i) \/ Delete(i)
      PROVE  SourceStep
  <2>1. /\ pc = "apply" /\ pc' = pc /\ bar' = bar
        /\ changed' = changed \union {i}
        /\ \A j \in Items : cache'[j] # cache[j] => j = i
    BY <1>0, <1>5 DEF Put, Delete, Applying, Removed, TypeOK
  <2>2. cache' = cache'
    OBVIOUS
  <2>3. Src!Change(cache', changed')
    BY <2>1 DEF Src!Change, ModeOf
  <2>. QED  BY <2>3 DEF SourceStep
<1>6. CASE Broadcast
  <2>1. /\ pc = "apply" /\ pc' \in {"open", "select"}
        /\ changed' = {} /\ cache' = cache
    BY <1>6 DEF Broadcast
  <2>2. Src!Announce
    BY <2>1 DEF Src!Announce, ModeOf
  <2>. QED  BY <2>2 DEF SourceStep
<1>. QED  BY <1>1, <1>2, <1>3, <1>4, <1>5, <1>6 DEF Loop

LEMMA StepSource ==
  ASSUME IInv, kind = "container", [Next]_vars
  PROVE  SourceStep \/ UNCHANGED (Src!sourceVars)
<1>1. CASE Loop
  BY <1>1, LoopSource
<1>2. CASE ~Loop
  <2>1. UNCHANGED <<cache, changed, pc, bar>>
    BY <1>2 DEF Next, Deployd, Register, Transport, Stream, vars, loopVars
  <2>. QED  BY <2>1 DEF Src!sourceVars, ModeOf
<1>. QED  BY <1>1, <1>2

(* Whatever etcd and deployd do, what the container watcher does to its    *)
(* cache and announces is what Source says, although an event is several   *)
(* Puts and Deletes (watcher.go 99-173, container.go 71-120).              *)
THEOREM ContainersFeedSender == Spec => FeedsSender
<1>1. IInv /\ [Next]_vars =>
        [kind = "container" => \/ Src!Load(cache') \/ Src!Replace(cache')
                               \/ Src!Change(cache', changed')
                               \/ Src!Announce]_(Src!sourceVars)
  BY StepSource DEF SourceStep
<1>. QED  BY <1>1, InitSource, Invariant, PTL DEF Spec, FeedsSender

(* The container watcher implements Source, so that what is proved of the  *)
(* Sender and the sessions holds of those that watch containers.           *)
THEOREM ContainersImplementSource ==
  Spec /\ kind = "container" => Src!SourceSpec
<1>1. kind = "container" /\ [Next]_vars => (kind = "container")'
  BY DEF Next, Deployd, Register, Transport, Stream, Loop, RefreshFirst,
     RefreshAgain, RefreshFails, Reset, OpenWatch, HandleSet, HandleUnreadable,
     HandleDelete, Receive, Put, Delete, Applying, Broadcast, HandleClosed,
     loopVars, vars
<1>2. IInv /\ IInv' /\ kind = "container" /\ [Next]_vars =>
        [Src!SourceNext]_(Src!sourceVars)
  <2>. SUFFICES ASSUME IInv, IInv', kind = "container", [Next]_vars
                PROVE  [Src!SourceNext]_(Src!sourceVars)
    OBVIOUS
  <2>1. cache' \in Src!Caches /\ changed' \in SUBSET Items
    BY <1>1 DEF IInv, TypeOK, Entries, Src!Caches
  <2>2. SourceStep \/ UNCHANGED (Src!sourceVars)
    BY StepSource
  <2>3. CASE Src!Load(cache')
    BY <2>1, <2>3 DEF Src!SourceNext
  <2>4. CASE Src!Replace(cache')
    BY <2>1, <2>4 DEF Src!SourceNext
  <2>5. CASE Src!Change(cache', changed')
    BY <2>1, <2>5 DEF Src!SourceNext
  <2>6. CASE Src!Announce
    BY <2>6 DEF Src!SourceNext
  <2>7. SourceStep => [Src!SourceNext]_(Src!sourceVars)
    BY <2>3, <2>4, <2>5, <2>6 DEF SourceStep
  <2>. QED  BY <2>2, <2>7
<1>. QED  BY <1>1, <1>2, InitSource, Invariant, PTL DEF Spec, Src!SourceSpec
=============================================================================
