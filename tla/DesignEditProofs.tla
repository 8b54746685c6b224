--------------------------- MODULE DesignEditProofs ---------------------------
(***************************************************************************)
(* Proofs about DesignEdit and DesignExport, for every library, every      *)
(* board, and documents of any size: ids are unique, components stay       *)
(* wired, and connections name what there is.                              *)
(***************************************************************************)
EXTENDS DesignExport, FiniteSetTheorems, WellFoundedInduction, TLAPS

-----------------------------------------------------------------------------
(* Numbers.                                                                *)

\* Every set of numbers has a least one; for induction, take the numbers that
\* a statement is false of.
LEMMA LeastNumber ==
    ASSUME NEW S \in SUBSET Nat, S # {}
    PROVE  \E m \in S : \A n \in S : m <= n
<1>1. PICK m \in S : \A n \in S : <<n, m>> \notin OpToRel(<, Nat)
  BY WFMin, NatLessThanWellFounded
<1>2. \A n \in S : ~(n < m)
  BY <1>1 DEF OpToRel
<1>3. QED
  BY <1>2

LEMMA MinFacts ==
    ASSUME NEW S \in SUBSET Nat, S # {}
    PROVE  Min(S) \in S /\ \A n \in S : Min(S) <= n
  BY LeastNumber DEF Min

\* What SelectInSeq does with the positions that pass its test.
FirstOf(I) == IF I # {} THEN Min(I) ELSE 0

LEMMA FirstOfFacts ==
    ASSUME NEW I \in SUBSET (Nat \ {0})
    PROVE  /\ FirstOf(I) = 0 <=> I = {}
           /\ I # {} => FirstOf(I) \in I /\ \A i \in I : FirstOf(I) <= i
<1>1. I \in SUBSET Nat
  OBVIOUS
<1>2. I # {} => Min(I) \in I /\ \A i \in I : Min(I) <= i
  BY <1>1, MinFacts
<1>3. QED
  BY <1>2 DEF FirstOf

-----------------------------------------------------------------------------
(* Without.                                                                *)

Kept(s, S, f) ==
    f = [n \in 0 .. Len(s) |->
            IF n = 0 THEN <<>> ELSE IF s[n] \in S THEN f[n - 1] ELSE Append(f[n - 1], s[n])]

\* The recursive function exists ...
LEMMA KeptExists ==
    ASSUME NEW s, Len(s) \in Nat, NEW S
    PROVE  \E f : Kept(s, S, f)
<1> DEFINE Upto(m, f) ==
             f = [n \in 0 .. m |->
                    IF n = 0 THEN <<>> ELSE IF s[n] \in S THEN f[n - 1] ELSE Append(f[n - 1], s[n])]
           Bad == {m \in Nat : ~ \E f : Upto(m, f)}
<1>1. SUFFICES ASSUME Bad # {} PROVE FALSE
  BY DEF Kept
<1>2. PICK m \in Bad : \A n \in Bad : m <= n
  <2>1. Bad \in SUBSET Nat
    OBVIOUS
  <2> HIDE DEF Bad
  <2>2. QED
    BY <1>1, <2>1, LeastNumber
<1>3. m # 0
  <2>1. Upto(0, [n \in 0 .. 0 |-> <<>>])
    OBVIOUS
  <2>2. QED
    BY <2>1
<1>4. m - 1 \in Nat /\ m - 1 \notin Bad
  <2>1. m \in Nat
    OBVIOUS
  <2> HIDE DEF Bad
  <2>2. QED
    BY <1>2, <1>3, <2>1
<1>5. PICK f : Upto(m - 1, f)
  BY <1>4
<1> DEFINE step == IF s[m] \in S THEN f[m - 1] ELSE Append(f[m - 1], s[m])
           g    == [n \in 0 .. m |-> IF n = m THEN step ELSE f[n]]
<1>6. Upto(m, g)
  <2>1. \A n \in 0 .. m - 1 : g[n] = f[n]
    OBVIOUS
  <2>2. g[m] = IF s[m] \in S THEN g[m - 1] ELSE Append(g[m - 1], s[m])
    BY <1>3, <2>1
  <2>3. \A n \in 0 .. m - 1 :
           f[n] = IF n = 0 THEN <<>> ELSE IF s[n] \in S THEN f[n - 1] ELSE Append(f[n - 1], s[n])
    BY <1>5
  <2>4. \A n \in 0 .. m :
           g[n] = IF n = 0 THEN <<>> ELSE IF s[n] \in S THEN g[n - 1] ELSE Append(g[n - 1], s[n])
    <3> SUFFICES ASSUME NEW n \in 0 .. m
                 PROVE  g[n] = IF n = 0 THEN <<>>
                               ELSE IF s[n] \in S THEN g[n - 1] ELSE Append(g[n - 1], s[n])
      OBVIOUS
    <3>1. CASE n = m
      BY <1>3, <2>2, <3>1
    <3>2. CASE n # m
      <4>1. n \in 0 .. m - 1
        BY <3>2
      <4>2. n # 0 => n - 1 \in 0 .. m - 1
        BY <4>1
      <4> HIDE DEF g
      <4>3. QED
        BY <2>1, <2>3, <4>1, <4>2
    <3>3. QED
      BY <3>1, <3>2
  <2>5. QED
    BY <2>4
<1>7. QED
  BY <1>6

LEMMA WithoutIsKept ==
    ASSUME NEW s, Len(s) \in Nat, NEW S
    PROVE  \E f : Kept(s, S, f) /\ Without(s, S) = f[Len(s)]
<1>1. PICK f : Kept(s, S, f)
  BY KeptExists
<1> DEFINE F == CHOOSE g : Kept(s, S, g)
<1>2. Kept(s, S, F)
  BY <1>1
<1>3. Without(s, S) = F[Len(s)]
  BY DEF Without, Kept
<1>4. QED
  BY <1>2, <1>3

\* Where the elements that stay come from: g numbers the positions of s that
\* stay, in order.
Numbers(s, S, n, r, g) ==
    /\ Len(r) <= n /\ \A i \in 1 .. n : s[i] \in S => Len(r) < n
    /\ g \in [1 .. Len(r) -> 1 .. n]
    /\ \A j, k \in 1 .. Len(r) : j < k => g[j] < g[k]
    /\ \A k \in 1 .. Len(r) : s[g[k]] \notin S /\ r[k] = s[g[k]]
    /\ \A i \in 1 .. n : s[i] \notin S => \E k \in 1 .. Len(r) : g[k] = i

LEMMA NumbersStep ==
    ASSUME NEW A, NEW s \in Seq(A), NEW S, NEW n \in 1 .. Len(s),
           NEW r \in Seq(A), NEW g, Numbers(s, S, n - 1, r, g), NEW q,
           q = IF s[n] \in S THEN r ELSE Append(r, s[n])
    PROVE  q \in Seq(A) /\ \E h : Numbers(s, S, n, q, h)
<1>1. n \in Nat /\ n - 1 \in Nat /\ s[n] \in A /\ Len(r) \in Nat
  OBVIOUS
<1>2. /\ Len(r) <= n - 1 /\ \A i \in 1 .. n - 1 : s[i] \in S => Len(r) < n - 1
      /\ g \in [1 .. Len(r) -> 1 .. n - 1]
      /\ \A j, k \in 1 .. Len(r) : j < k => g[j] < g[k]
      /\ \A k \in 1 .. Len(r) : s[g[k]] \notin S /\ r[k] = s[g[k]]
      /\ \A i \in 1 .. n - 1 : s[i] \notin S => \E k \in 1 .. Len(r) : g[k] = i
  BY DEF Numbers
<1>3. CASE s[n] \in S
  <2>1. q = r
    BY <1>3
  <2>2. /\ Len(r) <= n /\ \A i \in 1 .. n : s[i] \in S => Len(r) < n
        /\ g \in [1 .. Len(r) -> 1 .. n]
    BY <1>1, <1>2
  <2>3. \A i \in 1 .. n : s[i] \notin S => \E k \in 1 .. Len(r) : g[k] = i
    <3> SUFFICES ASSUME NEW i \in 1 .. n, s[i] \notin S
                 PROVE  \E k \in 1 .. Len(r) : g[k] = i
      OBVIOUS
    <3>1. i \in 1 .. n - 1
      BY <1>1, <1>3
    <3>2. QED
      BY <1>2, <3>1
  <2>4. Numbers(s, S, n, r, g)
    BY <1>2, <2>2, <2>3 DEF Numbers
  <2>5. QED
    BY <2>1, <2>4
<1>4. CASE s[n] \notin S
  <2> DEFINE h == [k \in 1 .. Len(q) |-> IF k = Len(q) THEN n ELSE g[k]]
  <2>1. /\ q = Append(r, s[n]) /\ q \in Seq(A) /\ Len(q) = Len(r) + 1
        /\ q[Len(q)] = s[n] /\ \A k \in 1 .. Len(r) : q[k] = r[k]
    BY <1>1, <1>4
  <2>2. h[Len(q)] = n /\ \A k \in 1 .. Len(r) : h[k] = g[k]
    BY <1>1, <2>1
  <2>3. \A k \in 1 .. Len(q) : k = Len(q) \/ k \in 1 .. Len(r)
    BY <1>1, <2>1
  <2>4. \A k \in 1 .. Len(r) : g[k] \in 1 .. n - 1
    BY <1>2
  <2>5. h \in [1 .. Len(q) -> 1 .. n]
    BY <1>1, <2>1, <2>3, <2>4
  <2> HIDE DEF h
  <2>6. Len(q) <= n /\ \A i \in 1 .. n : s[i] \in S => Len(q) < n
    <3>1. Len(q) <= n
      BY <1>1, <1>2, <2>1
    <3>2. ASSUME NEW i \in 1 .. n, s[i] \in S PROVE Len(q) < n
      <4>1. i \in 1 .. n - 1
        BY <1>1, <1>4, <3>2
      <4>2. Len(r) < n - 1
        BY <1>2, <3>2, <4>1
      <4>3. QED
        BY <1>1, <2>1, <4>2
    <3>3. QED
      BY <3>1, <3>2
  <2>7. \A j, k \in 1 .. Len(q) : j < k => h[j] < h[k]
    <3> SUFFICES ASSUME NEW j \in 1 .. Len(q), NEW k \in 1 .. Len(q), j < k
                 PROVE  h[j] < h[k]
      OBVIOUS
    <3>1. j \in 1 .. Len(r) /\ h[j] = g[j] /\ g[j] \in 1 .. n - 1
      BY <1>1, <2>1, <2>2, <2>4
    <3>2. CASE k = Len(q)
      BY <1>1, <2>2, <3>1, <3>2
    <3>3. CASE k \in 1 .. Len(r)
      BY <1>2, <2>2, <3>1, <3>3
    <3>4. QED
      BY <2>3, <3>2, <3>3
  <2>8. \A k \in 1 .. Len(q) : s[h[k]] \notin S /\ q[k] = s[h[k]]
    BY <1>2, <1>4, <2>1, <2>2, <2>3
  <2>9. \A i \in 1 .. n : s[i] \notin S => \E k \in 1 .. Len(q) : h[k] = i
    <3> SUFFICES ASSUME NEW i \in 1 .. n, s[i] \notin S
                 PROVE  \E k \in 1 .. Len(q) : h[k] = i
      OBVIOUS
    <3>1. CASE i = n
      <4>1. Len(q) \in 1 .. Len(q)
        BY <1>1, <2>1
      <4>2. QED
        BY <2>2, <3>1, <4>1
    <3>2. CASE i # n
      <4>1. PICK k \in 1 .. Len(r) : g[k] = i
        BY <1>1, <1>2, <3>2
      <4>2. k \in 1 .. Len(q)
        BY <1>1, <2>1
      <4>3. QED
        BY <2>2, <4>1, <4>2
    <3>3. QED
      BY <3>1, <3>2
  <2>10. Numbers(s, S, n, q, h)
    BY <2>5, <2>6, <2>7, <2>8, <2>9 DEF Numbers
  <2>11. QED
    BY <2>1, <2>10
<1>5. QED
  BY <1>3, <1>4

LEMMA WithoutFacts ==
    ASSUME NEW A, NEW s \in Seq(A), NEW S
    PROVE  Without(s, S) \in Seq(A) /\ \E g : Numbers(s, S, Len(s), Without(s, S), g)
<1>1. Len(s) \in Nat
  OBVIOUS
<1>2. PICK f : Kept(s, S, f) /\ Without(s, S) = f[Len(s)]
  BY <1>1, WithoutIsKept
<1> DEFINE Bad == {n \in Nat : n <= Len(s) /\ ~(f[n] \in Seq(A) /\ \E g : Numbers(s, S, n, f[n], g))}
<1>3. SUFFICES ASSUME Bad # {} PROVE FALSE
  BY <1>1, <1>2
<1>4. PICK m \in Bad : \A n \in Bad : m <= n
  <2>1. Bad \in SUBSET Nat
    OBVIOUS
  <2> HIDE DEF Bad
  <2>2. QED
    BY <1>3, <2>1, LeastNumber
<1>5. m \in Nat /\ m <= Len(s) /\ ~(f[m] \in Seq(A) /\ \E g : Numbers(s, S, m, f[m], g))
  OBVIOUS
<1>6. \A n \in 0 .. Len(s) :
        f[n] = IF n = 0 THEN <<>> ELSE IF s[n] \in S THEN f[n - 1] ELSE Append(f[n - 1], s[n])
  BY <1>2 DEF Kept
<1>7. m # 0
  <2>1. f[0] = <<>>
    BY <1>1, <1>6
  <2>2. <<>> \in Seq(A) /\ Len(<<>>) = 0
    OBVIOUS
  <2>3. Numbers(s, S, 0, <<>>, [k \in 1 .. 0 |-> 1])
    BY <2>2 DEF Numbers
  <2>4. QED
    BY <1>5, <2>1, <2>2, <2>3
<1>8. m - 1 \in Nat /\ m - 1 <= Len(s) /\ m - 1 \notin Bad
  <2> HIDE DEF Bad
  <2>1. QED
    BY <1>1, <1>4, <1>5, <1>7
<1>9. PICK g : f[m - 1] \in Seq(A) /\ Numbers(s, S, m - 1, f[m - 1], g)
  BY <1>8
<1>10. m \in 1 .. Len(s) /\ m \in 0 .. Len(s)
  BY <1>1, <1>5, <1>7
<1>11. f[m] = IF s[m] \in S THEN f[m - 1] ELSE Append(f[m - 1], s[m])
  BY <1>6, <1>7, <1>10
<1>12. f[m] \in Seq(A) /\ \E h : Numbers(s, S, m, f[m], h)
  <2> HIDE DEF Bad
  <2>1. QED
    BY <1>9, <1>10, <1>11, NumbersStep
<1>13. QED
  BY <1>5, <1>12

\* The elements of the result are those of s that are not in S.
LEMMA WithoutKeeps ==
    ASSUME NEW A, NEW s \in Seq(A), NEW S
    PROVE  ToSet(Without(s, S)) = ToSet(s) \ S
<1> DEFINE r == Without(s, S)
<1>1. PICK g : r \in Seq(A) /\ Numbers(s, S, Len(s), r, g)
  BY WithoutFacts
<1> HIDE DEF r
<1>2. DOMAIN r = 1 .. Len(r) /\ DOMAIN s = 1 .. Len(s)
  BY <1>1
<1>3. ASSUME NEW x \in ToSet(r) PROVE x \in ToSet(s) \ S
  <2>1. PICK k \in 1 .. Len(r) : x = r[k]
    BY <1>2, <1>3 DEF ToSet
  <2>2. g[k] \in 1 .. Len(s) /\ s[g[k]] \notin S /\ r[k] = s[g[k]]
    BY <1>1 DEF Numbers
  <2>3. QED
    BY <1>2, <2>1, <2>2 DEF ToSet
<1>4. ASSUME NEW x \in ToSet(s) \ S PROVE x \in ToSet(r)
  <2>1. PICK i \in 1 .. Len(s) : x = s[i]
    BY <1>2, <1>4 DEF ToSet
  <2>2. PICK k \in 1 .. Len(r) : g[k] = i
    BY <1>1, <1>4, <2>1 DEF Numbers
  <2>3. r[k] = x
    BY <1>1, <2>1, <2>2 DEF Numbers
  <2>4. QED
    BY <1>2, <2>3 DEF ToSet
<1>5. QED
  BY <1>3, <1>4 DEF r

LEMMA WithoutDistinct ==
    ASSUME NEW A, NEW s \in Seq(A), NEW S, Distinct(s)
    PROVE  Distinct(Without(s, S))
<1> DEFINE r == Without(s, S)
<1>1. PICK g : r \in Seq(A) /\ Numbers(s, S, Len(s), r, g)
  BY WithoutFacts
<1> HIDE DEF r
<1>2. DOMAIN r = 1 .. Len(r) /\ DOMAIN s = 1 .. Len(s) /\ Len(r) \in Nat
  BY <1>1
<1>3. ASSUME NEW j \in DOMAIN r, NEW k \in DOMAIN r, r[j].id = r[k].id PROVE j = k
  <2>1. g[j] \in 1 .. Len(s) /\ g[k] \in 1 .. Len(s) /\ r[j] = s[g[j]] /\ r[k] = s[g[k]]
    BY <1>1, <1>2 DEF Numbers
  <2>2. g[j] = g[k]
    BY <1>2, <1>3, <2>1 DEF Distinct
  <2>3. ~(j < k) /\ ~(k < j)
    BY <1>1, <1>2, <2>1, <2>2 DEF Numbers
  <2>4. QED
    BY <1>2, <2>3
<1>4. QED
  BY <1>3 DEF Distinct, r

-----------------------------------------------------------------------------
(* Lookups.                                                                *)

LEMMA ToSetFacts ==
    ASSUME NEW A, NEW s \in Seq(A)
    PROVE  /\ DOMAIN s = 1 .. Len(s) /\ Len(s) \in Nat
           /\ ToSet(s) \in SUBSET A
           /\ \A x : x \in ToSet(s) <=> \E k \in 1 .. Len(s) : x = s[k]
           /\ \A k \in 1 .. Len(s) : s[k] \in A /\ s[k] \in ToSet(s)
  BY DEF ToSet

LEMMA IdsOfFacts ==
    ASSUME NEW A, NEW s \in Seq(A)
    PROVE  /\ \A x : x \in IdsOf(s) <=> \E k \in 1 .. Len(s) : x = s[k].id
           /\ \A k \in 1 .. Len(s) : s[k].id \in IdsOf(s)
  BY ToSetFacts DEF IdsOf

LEMMA IdsFinite ==
    ASSUME NEW A, NEW s \in Seq(A)
    PROVE  IsFiniteSet(IdsOf(s)) /\ Cardinality(IdsOf(s)) \in Nat
<1> DEFINE f == [k \in 1 .. Len(s) |-> s[k].id]
<1>1. Len(s) \in Nat /\ 1 \in Int /\ Len(s) \in Int
  OBVIOUS
<1>2. IsFiniteSet(1 .. Len(s))
  BY <1>1, FS_Interval
<1>3. f \in Surjection(1 .. Len(s), IdsOf(s))
  BY IdsOfFacts DEF Surjection
<1>4. IsFiniteSet(IdsOf(s))
  BY <1>2, <1>3, FS_Surjection
<1>5. QED
  BY <1>4, FS_CardinalityType

\* The first bus of a type, by its id.
FirstBus(buses, type) == First(buses, LAMBDA b : b.type = type, IdOf)

LEMMA FirstBusFacts ==
    ASSUME NEW A, NEW buses \in Seq(A), NEW type
    PROVE  LET at == FirstBus(buses, type) IN
           \/ \E k \in 1 .. Len(buses) : at = buses[k].id /\ buses[k].type = type
           \/ at = None /\ \A k \in 1 .. Len(buses) : buses[k].type # type
<1> DEFINE I == {i \in 1 .. Len(buses) : buses[i].type = type}
           k == FirstOf(I)
<1>1. FirstBus(buses, type) = IF k = 0 THEN None ELSE buses[k].id
  BY DEF FirstBus, First, SelectInSeq, FirstOf, IdOf
<1>2. I \in SUBSET (Nat \ {0})
  OBVIOUS
<1>3. (k = 0 <=> I = {}) /\ (I # {} => k \in I)
  <2> HIDE DEF I
  <2>1. QED
    BY <1>2, FirstOfFacts
<1>4. CASE I = {}
  BY <1>1, <1>3, <1>4
<1>5. CASE I # {}
  <2>1. k \in I /\ k # 0
    BY <1>3, <1>5
  <2> HIDE DEF k
  <2>2. k \in 1 .. Len(buses) /\ buses[k].type = type
    BY <2>1
  <2>3. QED
    BY <1>1, <2>1, <2>2
<1>6. QED
  BY <1>4, <1>5

LEMMA ByIdFacts ==
    ASSUME NEW A, NEW s \in Seq(A), NEW id \in IdsOf(s)
    PROVE  ById(s, id) \in ToSet(s) /\ ById(s, id).id = id
<1> DEFINE I == {i \in 1 .. Len(s) : s[i].id = id}
           k == FirstOf(I)
<1>1. ById(s, id) = s[k]
  BY DEF ById, SelectInSeq, FirstOf
<1>2. I \in SUBSET (Nat \ {0}) /\ I # {}
  BY IdsOfFacts
<1>3. k \in I
  <2> HIDE DEF I
  <2>1. QED
    BY <1>2, FirstOfFacts
<1> HIDE DEF k
<1>4. k \in 1 .. Len(s) /\ s[k].id = id
  BY <1>3
<1>5. QED
  BY <1>1, <1>4, ToSetFacts

LEMMA DistinctIds ==
    ASSUME NEW A, NEW s \in Seq(A), Distinct(s), NEW e \in ToSet(s), NEW f \in ToSet(s),
           e.id = f.id
    PROVE  e = f
  BY ToSetFacts DEF Distinct

\* The kind of the first pin of a library component with a role.
PinKindIn(lib, role) == First(LibPins[lib], LAMBDA p : p.role = role, LAMBDA p : p.kind)

LEMMA KindOfRoleFacts ==
    ASSUME NEW A, NEW d, d.components \in Seq(A), Distinct(d.components), NEW c
    PROVE  /\ \A e \in ToSet(d.components) :
                 e.id = c.owner => KindOfRole(d, c) = PinKindIn(e.lib, c.role)
           /\ c.owner \notin IdsOf(d.components) => KindOfRole(d, c) = None
<1>1. ASSUME NEW e \in ToSet(d.components), e.id = c.owner
      PROVE  KindOfRole(d, c) = PinKindIn(e.lib, c.role)
  <2>1. c.owner \in IdsOf(d.components)
    BY <1>1 DEF IdsOf
  <2>2. ById(d.components, c.owner) = e
    BY <1>1, <2>1, ByIdFacts, DistinctIds
  <2>3. QED
    BY <2>1, <2>2 DEF KindOfRole, PinKindIn
<1>2. QED
  BY <1>1 DEF KindOfRole

\* No library component has two pins of a role.
LEMMA PinKindFacts ==
    ASSUME NEW lib \in Libraries, NEW k \in DOMAIN LibPins[lib]
    PROVE  PinKindIn(lib, LibPins[lib][k].role) = LibPins[lib][k].kind
<1> DEFINE pins == LibPins[lib]
           I == {i \in 1 .. Len(pins) : pins[i].role = pins[k].role}
           j == FirstOf(I)
<1>1. PinKindIn(lib, pins[k].role) = IF j = 0 THEN None ELSE pins[j].kind
  BY DEF PinKindIn, First, SelectInSeq, FirstOf
<1>2. DOMAIN pins = 1 .. Len(pins) /\ \A i \in DOMAIN pins : pins[i].role = pins[k].role => i = k
  BY LibraryAssumption
<1>3. I = {k} /\ I \in SUBSET (Nat \ {0})
  BY <1>2
<1>4. j = k /\ k # 0
  <2> HIDE DEF I
  <2>1. j \in I
    BY <1>3, FirstOfFacts
  <2>2. QED
    BY <1>3, <2>1
<1>5. QED
  BY <1>1, <1>4

-----------------------------------------------------------------------------
(* Fresh ids.                                                              *)

\* Among one number more than there are ids, one is free.
LEMMA FreshIsFree ==
    ASSUME NEW used, IsFiniteSet(used), NEW from \in Nat, NEW x, NEW z
    PROVE  LET Id(n) == <<x, n, z>>
               n == Fresh(used, from, Id)
           IN  n \in Nat /\ <<x, n, z>> \notin used
<1> DEFINE last == from + Cardinality(used)
           free == {n \in from .. last : <<x, n, z>> \notin used}
           f == [n \in from .. last |-> <<x, n, z>>]
<1>1. Cardinality(used) \in Nat
  BY FS_CardinalityType
<1>2. IsFiniteSet(from .. last) /\ Cardinality(from .. last) = Cardinality(used) + 1
  <2>1. from \in Int /\ last \in Int /\ ~(from > last) /\ last - from + 1 = Cardinality(used) + 1
    BY <1>1
  <2> HIDE DEF last
  <2>2. QED
    BY <2>1, FS_Interval
<1>3. free # {}
  <2> SUFFICES ASSUME free = {} PROVE FALSE
    OBVIOUS
  <2>1. f \in [from .. last -> used]
    OBVIOUS
  <2>2. Cardinality(used) < Cardinality(from .. last)
    BY <1>1, <1>2
  <2> DEFINE S == from .. last
  <2>3. f \in [S -> used] /\ IsFiniteSet(S) /\ IsFiniteSet(used)
        /\ Cardinality(used) < Cardinality(S)
    BY <1>2, <2>1, <2>2
  <2>4. PICK m \in S, n \in S : m # n /\ f[m] = f[n]
    <3> HIDE DEF f, S
    <3>1. \A T : IsFiniteSet(T) /\ Cardinality(T) < Cardinality(S) => \A g \in [S -> T] :
             \E m, n \in S : m # n /\ g[m] = g[n]
      BY <2>3, FS_PigeonHole
    <3>2. QED
      BY <2>3, <3>1
  <2>5. QED
    BY <2>4
<1>4. free \in SUBSET Nat
  OBVIOUS
<1>5. Min(free) \in free
  <2> HIDE DEF free
  <2>1. QED
    BY <1>3, <1>4, MinFacts
<1>6. LET Id(n) == <<x, n, z>> IN Fresh(used, from, Id) = Min(free)
  BY DEF Fresh
<1>7. QED
  BY <1>4, <1>5, <1>6

LEMMA InstanceIdFacts ==
    ASSUME NEW A, NEW d, d.components \in Seq(A), NEW lib \in Libraries,
           NEW hint \in Hints \cup {None}
    PROVE  InstanceId(d, lib, hint) \in ComponentIds \ IdsOf(d.components)
<1> DEFINE used == IdsOf(d.components)
           n == Min({m \in 1 .. 1 + Cardinality(used) : <<lib, m, "_">> \notin used})
<1>1. IsFiniteSet(used)
  BY IdsFinite
<1>2. n \in Nat /\ <<lib, n, "_">> \notin used
  <2> HIDE DEF used
  <2>1. 1 \in Nat
    OBVIOUS
  <2>2. QED
    BY <1>1, <2>1, FreshIsFree DEF Fresh
<1>3. InstanceId(d, lib, hint) = IF hint # None /\ hint \notin used THEN hint ELSE <<lib, n, "_">>
  BY DEF InstanceId, Fresh
<1> HIDE DEF n
<1>4. <<lib, n, "_">> \in Libraries \X Nat \X {"_"}
  BY <1>2
<1>5. CASE hint # None /\ hint \notin used
  BY <1>3, <1>5 DEF ComponentIds
<1>6. CASE ~(hint # None /\ hint \notin used)
  <2>1. InstanceId(d, lib, hint) = <<lib, n, "_">>
    BY <1>3, <1>6
  <2>2. QED
    BY <1>2, <1>4, <2>1 DEF ComponentIds
<1>7. QED
  BY <1>5, <1>6

LEMMA NextBusIdFacts ==
    ASSUME NEW A, NEW buses \in Seq(A), NEW type, NEW from \in Nat, NEW z
    PROVE  LET n == Min({m \in from .. from + Cardinality(IdsOf(buses)) :
                            <<type, m, z>> \notin IdsOf(buses)})
           IN  n \in Nat /\ <<type, n, z>> \notin IdsOf(buses)
  BY IdsFinite, FreshIsFree DEF Fresh

-----------------------------------------------------------------------------
(* Bus types and the buses that a library component needs.                 *)

LEMMA KindFacts ==
    /\ \A kind : WantedBus(kind) = BusTypeOf(kind)
    /\ \A kind : BusTypeOf(kind) \in BusTypes \cup {None}
    /\ \A type \in BusTypes : \A kind : kind \in KindsOfType(type) <=> BusTypeOf(kind) = type
    /\ None \notin BusTypes
    /\ BusTypeOf(None) = None
<1>1. None \notin BusTypes /\ None \notin DOMAIN BusKindToType
  BY LibraryAssumption
<1>2. /\ BusTypeOf("i2c_sda") = "i2c" /\ BusTypeOf("i2c_scl") = "i2c"
      /\ BusTypeOf("spi_clk") = "spi" /\ BusTypeOf("spi_miso") = "spi"
      /\ BusTypeOf("spi_mosi") = "spi"
      /\ BusTypeOf("i2s_lrclk") = "i2s" /\ BusTypeOf("i2s_bclk") = "i2s"
      /\ BusTypeOf("uart_rx") = "uart" /\ BusTypeOf("uart_tx") = "uart"
      /\ BusTypeOf("onewire_data") = "1wire"
  BY DEF BusTypeOf, BusKindToType
<1> DEFINE K == {"i2c_sda", "i2c_scl", "spi_clk", "spi_miso", "spi_mosi", "i2s_lrclk",
                 "i2s_bclk", "uart_rx", "uart_tx", "onewire_data"}
<1>3. DOMAIN BusKindToType = K
  BY DEF BusKindToType
<1>4. \A kind : kind \notin K => BusTypeOf(kind) = None
  BY <1>3 DEF BusTypeOf
<1>5. \A kind \in K : WantedBus(kind) = BusTypeOf(kind)
  BY <1>2 DEF WantedBus
<1>6. \A kind : kind \notin K => WantedBus(kind) = None
  BY DEF WantedBus
<1>7. \A kind \in K : BusTypeOf(kind) \in BusTypes
  BY <1>2 DEF BusTypes
<1>8. \A type \in BusTypes : \A kind : kind \in KindsOfType(type) <=> BusTypeOf(kind) = type
  <2> SUFFICES ASSUME NEW type \in BusTypes, NEW kind
               PROVE  kind \in KindsOfType(type) <=> BusTypeOf(kind) = type
    OBVIOUS
  <2>1. CASE kind \in K
    BY <1>2, <2>1 DEF KindsOfType, BusTypes
  <2>2. CASE kind \notin K
    <3>1. kind \notin KindsOfType(type)
      BY <2>2 DEF KindsOfType, BusTypes
    <3>2. BusTypeOf(kind) # type
      BY <1>1, <1>4, <2>2
    <3>3. QED
      BY <3>1, <3>2
  <2>3. QED
    BY <2>1, <2>2
<1>9. BusTypeOf(None) = None
  BY <1>1 DEF BusTypeOf
<1>10. \A kind : WantedBus(kind) = BusTypeOf(kind)
  BY <1>4, <1>5, <1>6
<1>11. \A kind : BusTypeOf(kind) \in BusTypes \cup {None}
  BY <1>4, <1>7
<1>12. QED
  BY <1>1, <1>8, <1>9, <1>10, <1>11

\* The tools and the browser want the same buses for a component.
LEMMA NeededFacts ==
    ASSUME NEW lib \in Libraries
    PROVE  /\ NeededBusTypes(lib) \in SUBSET BusTypes
           /\ NeededBusTypesUi(lib) = NeededBusTypes(lib)
           /\ \A k \in DOMAIN LibPins[lib] :
                 BusTypeOf(LibPins[lib][k].kind) \in NeededBusTypes(lib) \cup {None}
<1>1. NeededBusTypes(lib) \in SUBSET BusTypes
  BY KindFacts DEF NeededBusTypes
<1>2. \A type : type \in NeededBusTypesUi(lib) <=> type \in NeededBusTypes(lib)
  BY KindFacts DEF NeededBusTypes, NeededBusTypesUi
<1>3. \A k \in DOMAIN LibPins[lib] : LibPins[lib][k] \in ToSet(LibPins[lib])
  BY DEF ToSet
<1>4. QED
  BY <1>1, <1>2, <1>3 DEF NeededBusTypes

LEMMA BusTypesFinite ==
    ASSUME NEW S \in SUBSET BusTypes
    PROVE  IsFiniteSet(S)
<1>1. BusTypes = ((({"i2c"} \cup {"spi"}) \cup {"uart"}) \cup {"i2s"}) \cup {"1wire"}
  BY DEF BusTypes
<1>2. IsFiniteSet({"i2c"} \cup {"spi"})
  BY FS_Singleton, FS_AddElement
<1>3. IsFiniteSet(({"i2c"} \cup {"spi"}) \cup {"uart"})
  BY <1>2, FS_AddElement
<1>4. IsFiniteSet((({"i2c"} \cup {"spi"}) \cup {"uart"}) \cup {"i2s"})
  BY <1>3, FS_AddElement
<1>5. IsFiniteSet(BusTypes)
  BY <1>1, <1>4, FS_AddElement
<1>6. QED
  BY <1>5, FS_Subset

\* SetToSeq lists the elements of a finite set, each once.
LEMMA SetToSeqFacts ==
    ASSUME NEW S, IsFiniteSet(S)
    PROVE  /\ SetToSeq(S) \in Seq(S)
           /\ \A j, k \in 1 .. Len(SetToSeq(S)) : SetToSeq(S)[j] = SetToSeq(S)[k] => j = k
           /\ \A x \in S : \E k \in 1 .. Len(SetToSeq(S)) : SetToSeq(S)[k] = x
<1> DEFINE n == Cardinality(S)
           f == SetToSeq(S)
<1>1. n \in Nat /\ ExistsBijection(1 .. n, S)
  BY FS_CardinalityType
<1>2. \E g \in [1 .. n -> S] : IsInjective(g)
  BY <1>1 DEF ExistsBijection, Bijection, Injection
<1>3. f \in [1 .. n -> S] /\ IsInjective(f)
  BY <1>2 DEF SetToSeq
<1>4. IsFiniteSet(1 .. n) /\ Cardinality(1 .. n) = n
  <2>1. 1 \in Int /\ n \in Int /\ (IF 1 > n THEN 0 ELSE n - 1 + 1) = n
    BY <1>1
  <2> HIDE DEF n
  <2>2. QED
    BY <2>1, FS_Interval
<1>5. f \in Surjection(1 .. n, S)
  <2>1. f \in Injection(1 .. n, S)
    BY <1>3 DEF Injection
  <2>2. Cardinality(1 .. n) = Cardinality(S)
    BY <1>4
  <2> HIDE DEF n, f
  <2>3. QED
    BY <2>1, <2>2, FS_Injection
<1>6. Len(f) = n /\ f \in Seq(S)
  <2> HIDE DEF f, n
  <2>1. QED
    BY <1>1, <1>3
<1>7. \A j, k \in 1 .. n : f[j] = f[k] => j = k
  <2> HIDE DEF f, n
  <2>1. QED
    BY <1>3 DEF IsInjective
<1>8. \A x \in S : \E k \in 1 .. n : f[k] = x
  <2> HIDE DEF f, n
  <2>1. QED
    BY <1>5 DEF Surjection
<1>9. QED
  BY <1>6, <1>7, <1>8

LEMMA ConcatFacts ==
    ASSUME NEW A, NEW s \in Seq(A), NEW t \in Seq(A)
    PROVE  /\ s \o t \in Seq(A)
           /\ Len(s \o t) = Len(s) + Len(t) /\ Len(s) \in Nat /\ Len(t) \in Nat
           /\ \A k \in 1 .. Len(s) : (s \o t)[k] = s[k]
           /\ \A k \in 1 .. Len(t) : (s \o t)[Len(s) + k] = t[k]
           /\ \A k \in 1 .. Len(s \o t) :
                 k \in 1 .. Len(s) \/ (k - Len(s) \in 1 .. Len(t) /\ (s \o t)[k] = t[k - Len(s)])
  OBVIOUS

LEMMA AppendFacts ==
    ASSUME NEW A, NEW s \in Seq(A), NEW x \in A
    PROVE  /\ Append(s, x) \in Seq(A) /\ Len(Append(s, x)) = Len(s) + 1 /\ Len(s) \in Nat
           /\ \A k \in 1 .. Len(s) : Append(s, x)[k] = s[k]
           /\ Append(s, x)[Len(s) + 1] = x
           /\ \A k \in 1 .. Len(s) + 1 : k \in 1 .. Len(s) \/ k = Len(s) + 1
  OBVIOUS

LEMMA NewBusFacts ==
    ASSUME NEW id \in AllBusIds, NEW type \in BusTypes, NEW b
    PROVE  /\ NewBus(id, type, b) \in Bus
           /\ NewBus(id, type, b).id = id /\ NewBus(id, type, b).type = type
  BY DEF NewBus, Bus

ToolSeparator == "_"
UiSeparator   == ""

LEMMA SeparatorFacts == ToolSeparator \in Separators /\ UiSeparator \in Separators
  BY Zenon DEF ToolSeparator, UiSeparator, Separators

\* The buses of a document after a seeder added those of some types: a seeder
\* numbers them from a start and has a separator of its own.
FreeId(buses, type, from, z) ==
    <<type, Min({m \in from .. from + Cardinality(IdsOf(buses)) :
                    <<type, m, z>> \notin IdsOf(buses)}), z>>

Missing(buses, types) == SetToSeq(types \ TypesOf(buses))

More(buses, types, from, z, b) ==
    [k \in DOMAIN Missing(buses, types) |->
        NewBus(FreeId(buses, Missing(buses, types)[k], from, z), Missing(buses, types)[k], b)]

Grown(buses, types, from, z, b) == buses \o More(buses, types, from, z, b)

LEMMA FreeIdFacts ==
    ASSUME NEW A, NEW buses \in Seq(A), NEW type \in BusTypes, NEW from \in Nat,
           NEW z \in Separators
    PROVE  /\ FreeId(buses, type, from, z) \in AllBusIds \ IdsOf(buses)
           /\ FreeId(buses, type, from, z)[1] = type
<1> DEFINE n == Min({m \in from .. from + Cardinality(IdsOf(buses)) :
                        <<type, m, z>> \notin IdsOf(buses)})
<1>1. n \in Nat /\ <<type, n, z>> \notin IdsOf(buses)
  BY NextBusIdFacts
<1>2. FreeId(buses, type, from, z) = <<type, n, z>>
  BY DEF FreeId
<1> HIDE DEF n
<1>3. <<type, n, z>> \in BusTypes \X Nat \X Separators
  BY <1>1
<1>4. <<type, n, z>> \in AllBusIds /\ <<type, n, z>>[1] = type
  BY <1>3 DEF AllBusIds
<1>5. <<type, n, z>> \in AllBusIds \ IdsOf(buses)
  BY <1>1, <1>4
<1>6. QED
  BY <1>2, <1>4, <1>5

LEMMA MissingFacts ==
    ASSUME NEW A, NEW buses \in Seq(A), NEW types \in SUBSET BusTypes
    PROVE  LET need == Missing(buses, types) IN
           /\ need \in Seq(BusTypes) /\ DOMAIN need = 1 .. Len(need) /\ Len(need) \in Nat
           /\ \A j, k \in 1 .. Len(need) : need[j] = need[k] => j = k
           /\ \A k \in 1 .. Len(need) :
                 need[k] \in types /\ \A j \in 1 .. Len(buses) : buses[j].type # need[k]
           /\ \A type \in types :
                 \/ \E j \in 1 .. Len(buses) : buses[j].type = type
                 \/ \E k \in 1 .. Len(need) : need[k] = type
<1> DEFINE S == types \ TypesOf(buses)
           need == Missing(buses, types)
<1>1. S \in SUBSET BusTypes /\ IsFiniteSet(S)
  BY BusTypesFinite
<1>2. \A type : type \in TypesOf(buses) <=> \E j \in 1 .. Len(buses) : buses[j].type = type
  BY ToSetFacts DEF TypesOf
<1>3. /\ need \in Seq(S)
      /\ \A j, k \in 1 .. Len(need) : need[j] = need[k] => j = k
      /\ \A x \in S : \E k \in 1 .. Len(need) : need[k] = x
  <2> HIDE DEF S
  <2>1. need = SetToSeq(S)
    BY DEF Missing, S
  <2> HIDE DEF need
  <2>2. QED
    BY <1>1, <2>1, SetToSeqFacts
<1> HIDE DEF need
<1>4. need \in Seq(BusTypes) /\ DOMAIN need = 1 .. Len(need) /\ Len(need) \in Nat
      /\ \A k \in 1 .. Len(need) : need[k] \in S
  BY <1>1, <1>3
<1>5. QED
  BY <1>2, <1>3, <1>4 DEF need

\* One bus list is another with more at its end.
Extends(old, new) ==
    /\ new \in Seq(Bus) /\ Distinct(new)
    /\ Len(old) \in Nat /\ Len(new) \in Nat /\ Len(old) <= Len(new)
    /\ \A k \in 1 .. Len(old) : new[k] = old[k]

LEMMA GrownFacts ==
    ASSUME NEW buses \in Seq(Bus), Distinct(buses), NEW types \in SUBSET BusTypes,
           NEW from \in Nat, NEW z \in Separators, NEW b
    PROVE  LET all  == Grown(buses, types, from, z, b)
               need == Missing(buses, types)
           IN
           /\ Extends(buses, all)
           /\ Len(all) = Len(buses) + Len(need) /\ Len(need) \in Nat
           /\ \A k \in 1 .. Len(need) :
                 /\ all[Len(buses) + k] = NewBus(FreeId(buses, need[k], from, z), need[k], b)
                 /\ all[Len(buses) + k].id \notin IdsOf(buses)
                 /\ all[Len(buses) + k].type = need[k]
           /\ \A k \in 1 .. Len(all) : k \in 1 .. Len(buses) \/ k - Len(buses) \in 1 .. Len(need)
<1> DEFINE need == Missing(buses, types)
           more == More(buses, types, from, z, b)
           all  == Grown(buses, types, from, z, b)
<1>1. /\ need \in Seq(BusTypes) /\ DOMAIN need = 1 .. Len(need) /\ Len(need) \in Nat
      /\ \A j, k \in 1 .. Len(need) : need[j] = need[k] => j = k
  <2> HIDE DEF need
  <2>1. QED
    BY MissingFacts DEF need
<1>2. more = [k \in DOMAIN need |-> NewBus(FreeId(buses, need[k], from, z), need[k], b)]
  BY DEF More
<1>3. all = buses \o more
  BY DEF Grown
<1> HIDE DEF need, more, all
<1>4. ASSUME NEW k \in 1 .. Len(need)
      PROVE  /\ need[k] \in BusTypes
             /\ FreeId(buses, need[k], from, z) \in AllBusIds \ IdsOf(buses)
             /\ FreeId(buses, need[k], from, z)[1] = need[k]
  <2>1. need[k] \in BusTypes
    BY <1>1
  <2>2. QED
    BY <2>1, FreeIdFacts
<1>5. ASSUME NEW k \in 1 .. Len(need)
      PROVE  /\ more[k] = NewBus(FreeId(buses, need[k], from, z), need[k], b)
             /\ more[k] \in Bus
             /\ more[k].id = FreeId(buses, need[k], from, z)
             /\ more[k].type = need[k]
  <2>1. more[k] = NewBus(FreeId(buses, need[k], from, z), need[k], b)
    BY <1>1, <1>2
  <2>2. need[k] \in BusTypes /\ FreeId(buses, need[k], from, z) \in AllBusIds
    BY <1>4
  <2>3. QED
    BY <2>1, <2>2, NewBusFacts
<1>6. more \in Seq(Bus) /\ Len(more) = Len(need)
  <2>1. DOMAIN more = 1 .. Len(need) /\ more = [k \in 1 .. Len(need) |-> more[k]]
    BY <1>1, <1>2
  <2>2. more \in [1 .. Len(need) -> Bus]
    BY <1>5, <2>1
  <2>3. QED
    BY <1>1, <2>2
<1>7. /\ all \in Seq(Bus)
      /\ Len(all) = Len(buses) + Len(need) /\ Len(buses) \in Nat
      /\ \A k \in 1 .. Len(buses) : all[k] = buses[k]
      /\ \A k \in 1 .. Len(need) : all[Len(buses) + k] = more[k]
      /\ \A k \in 1 .. Len(all) : k \in 1 .. Len(buses)
            \/ (k - Len(buses) \in 1 .. Len(need) /\ all[k] = more[k - Len(buses)])
  <2>1. buses \in Seq(Bus)
    OBVIOUS
  <2>2. /\ buses \o more \in Seq(Bus)
        /\ Len(buses \o more) = Len(buses) + Len(more) /\ Len(buses) \in Nat
        /\ \A k \in 1 .. Len(buses) : (buses \o more)[k] = buses[k]
        /\ \A k \in 1 .. Len(more) : (buses \o more)[Len(buses) + k] = more[k]
        /\ \A k \in 1 .. Len(buses \o more) : k \in 1 .. Len(buses)
              \/ (k - Len(buses) \in 1 .. Len(more) /\ (buses \o more)[k] = more[k - Len(buses)])
    BY <1>6, <2>1
  <2>3. QED
    BY <1>3, <1>6, <2>2
<1>8. \A k \in 1 .. Len(need) : more[k].id \notin IdsOf(buses)
  BY <1>4, <1>5
<1>9. \A k \in 1 .. Len(buses) : buses[k].id \in IdsOf(buses)
  BY IdsOfFacts
<1>10. Distinct(all)
  <2>1. DOMAIN all = 1 .. Len(all) /\ DOMAIN buses = 1 .. Len(buses) /\ Len(all) \in Nat
    BY <1>7, ToSetFacts
  <2> SUFFICES ASSUME NEW j \in 1 .. Len(all), NEW k \in 1 .. Len(all), all[j].id = all[k].id
               PROVE  j = k
    BY <2>1 DEF Distinct
  <2>2. CASE j \in 1 .. Len(buses) /\ k \in 1 .. Len(buses)
    BY <1>7, <2>1, <2>2 DEF Distinct
  <2>3. CASE j \in 1 .. Len(buses) /\ k \notin 1 .. Len(buses)
    <3>1. all[j] = buses[j] /\ all[j].id \in IdsOf(buses)
      BY <1>7, <1>9, <2>3
    <3>2. all[k].id \notin IdsOf(buses)
      BY <1>7, <1>8, <2>3
    <3>3. QED
      BY <3>1, <3>2
  <2>4. CASE j \notin 1 .. Len(buses) /\ k \in 1 .. Len(buses)
    <3>1. all[k] = buses[k] /\ all[k].id \in IdsOf(buses)
      BY <1>7, <1>9, <2>4
    <3>2. all[j].id \notin IdsOf(buses)
      BY <1>7, <1>8, <2>4
    <3>3. QED
      BY <3>1, <3>2
  <2>5. CASE j \notin 1 .. Len(buses) /\ k \notin 1 .. Len(buses)
    <3> DEFINE p == j - Len(buses)
               q == k - Len(buses)
    <3>1. p \in 1 .. Len(need) /\ q \in 1 .. Len(need) /\ all[j] = more[p] /\ all[k] = more[q]
      BY <1>7, <2>5
    <3>2. p = q => j = k
      BY <1>7, <2>1
    <3> HIDE DEF p, q
    <3>3. more[p].id = more[q].id
      BY <3>1
    <3>4. FreeId(buses, need[p], from, z) = FreeId(buses, need[q], from, z)
      BY <1>5, <3>1, <3>3
    <3>5. need[p] = need[q]
      BY <1>4, <3>1, <3>4
    <3>6. QED
      BY <1>1, <3>1, <3>2, <3>5
  <2>6. QED
    BY <2>2, <2>3, <2>4, <2>5
<1>11. Extends(buses, all)
  <2>1. Len(buses) <= Len(all) /\ Len(all) \in Nat
    BY <1>1, <1>7
  <2>2. QED
    BY <1>7, <1>10, <2>1 DEF Extends
<1>12. QED
  BY <1>1, <1>5, <1>7, <1>8, <1>11 DEF all, need

LEMMA PreparedBuses ==
    ASSUME NEW d, NEW lib \in Libraries, NEW b
    PROVE  /\ PrepareBuses(d, lib) =
                [d EXCEPT !.buses = Grown(d.buses, NeededBusTypes(lib), 1, ToolSeparator, d.board)]
           /\ PrepareBusesForLib(d, lib, b) =
                [d EXCEPT !.buses = Grown(d.buses, NeededBusTypes(lib), 0, UiSeparator, b)]
<1>1. PrepareBuses(d, lib) =
        [d EXCEPT !.buses = Grown(d.buses, NeededBusTypes(lib), 1, ToolSeparator, d.board)]
  BY DEF PrepareBuses, Grown, More, Missing, FreeId, Fresh,
     ToolSeparator
<1>2. PrepareBusesForLib(d, lib, b) =
        [d EXCEPT !.buses = Grown(d.buses, NeededBusTypes(lib), 0, UiSeparator, b)]
  BY NeededFacts DEF PrepareBusesForLib, NextBusIdUi, Grown, More, Missing, FreeId, Fresh,
     UiSeparator
<1>3. QED
  BY <1>1, <1>2

-----------------------------------------------------------------------------
(* The target of a new connection.                                         *)

LEMMA RailsFacts ==
    ASSUME NEW b
    PROVE  /\ DOMAIN RailsOf(b) \in SUBSET Nat
           /\ \A k \in DOMAIN RailsOf(b) : RailsOf(b)[k].name \in RailNames
<1>1. CASE b \in Boards
  <2>1. Rails[b] \in Seq(ToSet(Rails[b])) /\ RailsOf(b) = Rails[b]
    BY <1>1, LibraryAssumption DEF RailsOf
  <2>2. \A k \in DOMAIN Rails[b] : Rails[b][k] \in ToSet(Rails[b])
    BY DEF ToSet
  <2>3. \A k \in DOMAIN Rails[b] : Rails[b][k].name \in RailNames
    BY <1>1, <2>2 DEF RailNames
  <2>4. QED
    BY <2>1, <2>3
<1>2. CASE b \notin Boards
  BY <1>2 DEF RailsOf
<1>3. QED
  BY <1>1, <1>2

LEMMA FirstRailFacts ==
    ASSUME NEW b, NEW tried \in Seq(SUBSET DOMAIN RailsOf(b)), NEW default \in RailNames
    PROVE  FirstRail(RailsOf(b), tried, default) \in RailNames
<1> DEFINE rails == RailsOf(b)
           I == {i \in 1 .. Len(tried) : tried[i] # {}}
           k == FirstOf(I)
<1>1. FirstRail(rails, tried, default) = IF k = 0 THEN default ELSE rails[Min(tried[k])].name
  BY DEF FirstRail, SelectInSeq, FirstOf
<1>2. I \in SUBSET (Nat \ {0})
  OBVIOUS
<1>3. k = 0 \/ k \in I
  <2> HIDE DEF I
  <2>1. QED
    BY <1>2, FirstOfFacts
<1> HIDE DEF k
<1>4. CASE k \in I
  <2>1. tried[k] \in SUBSET DOMAIN rails /\ tried[k] # {}
    BY <1>4
  <2>2. tried[k] \in SUBSET Nat
    BY <2>1, RailsFacts
  <2>3. Min(tried[k]) \in DOMAIN rails
    BY <2>1, <2>2, MinFacts
  <2>4. rails[Min(tried[k])].name \in RailNames
    BY <2>3, RailsFacts
  <2>5. QED
    BY <1>1, <2>4
<1>5. QED
  BY <1>1, <1>3, <1>4

LEMMA PowerAndGround ==
    ASSUME NEW b, NEW lib
    PROVE  PowerRail(lib, RailsOf(b)) \in RailNames /\ GroundRail(RailsOf(b)) \in RailNames
<1> DEFINE rails  == RailsOf(b)
           fits   == {k \in DOMAIN rails : rails[k].volts \in Band[lib].min .. Band[lib].max}
           lowest == {k \in fits : \A j \in fits : rails[k].volts <= rails[j].volts}
           named  == {k \in DOMAIN rails : rails[k].name = Rail3V3}
           live   == {k \in DOMAIN rails : rails[k].volts > 0}
           zero   == {k \in DOMAIN rails : rails[k].volts = 0}
           gnd    == {k \in DOMAIN rails : rails[k].name \in GndNames}
           tried  == <<lowest, named, live, DOMAIN rails>>
           tried2 == <<zero, gnd>>
<1>1. Rail3V3 \in RailNames /\ RailGND \in RailNames
  BY DEF RailNames
<1>2. PowerRail(lib, rails) = FirstRail(rails, tried, Rail3V3)
  BY DEF PowerRail
<1>3. GroundRail(rails) = FirstRail(rails, tried2, RailGND)
  BY DEF GroundRail
<1>4. tried \in Seq(SUBSET DOMAIN rails)
  <2>1. lowest \in SUBSET DOMAIN rails /\ named \in SUBSET DOMAIN rails /\ live \in SUBSET DOMAIN rails
    OBVIOUS
  <2> HIDE DEF lowest, named, live
  <2>2. QED
    BY <2>1
<1>5. tried2 \in Seq(SUBSET DOMAIN rails)
  <2>1. zero \in SUBSET DOMAIN rails /\ gnd \in SUBSET DOMAIN rails
    OBVIOUS
  <2> HIDE DEF zero, gnd
  <2>2. QED
    BY <2>1
<1>6. QED
  <2> HIDE DEF tried, tried2
  <2>1. QED
    BY <1>1, <1>2, <1>3, <1>4, <1>5, FirstRailFacts

\* The default target of a pin is a rail, a placeholder, or the first bus of
\* the type that the pin needs, if there is one.
LEMMA DefaultTargetFacts ==
    ASSUME NEW kind, NEW lib, NEW b, NEW buses \in Seq(Bus)
    PROVE  LET t == DefaultTarget(kind, lib, RailsOf(b), buses) IN
           /\ t \in Target
           /\ t.kind \in {"rail", "gpio", "bus"}
           /\ t.kind = "bus" =>
                 \/ t.at = None /\ \A k \in 1 .. Len(buses) : buses[k].type # BusTypeOf(kind)
                 \/ \E k \in 1 .. Len(buses) : t.at = buses[k].id /\ buses[k].type = BusTypeOf(kind)
<1> DEFINE at == FirstBus(buses, BusTypeOf(kind))
           t  == DefaultTarget(kind, lib, RailsOf(b), buses)
<1>1. \/ t = [kind |-> "rail", at |-> PowerRail(lib, RailsOf(b))]
      \/ t = [kind |-> "rail", at |-> GroundRail(RailsOf(b))]
      \/ t = [kind |-> "bus", at |-> at]
      \/ t = [kind |-> "gpio", at |-> None]
  BY DEF DefaultTarget, FirstBus
<1>2. \/ at = None /\ \A k \in 1 .. Len(buses) : buses[k].type # BusTypeOf(kind)
      \/ \E k \in 1 .. Len(buses) : at = buses[k].id /\ buses[k].type = BusTypeOf(kind)
  BY FirstBusFacts
<1>3. \A k \in 1 .. Len(buses) : buses[k].id \in AllBusIds
  <2>1. \A k \in 1 .. Len(buses) : buses[k] \in Bus
    OBVIOUS
  <2>2. \A x \in Bus : x.id \in AllBusIds
    BY DEF Bus
  <2>3. QED
    BY <2>1, <2>2
<1>4. PowerRail(lib, RailsOf(b)) \in RailNames /\ GroundRail(RailsOf(b)) \in RailNames
  BY PowerAndGround
<1>5. at \in {None} \cup AllBusIds
  <2> HIDE DEF at
  <2>1. QED
    BY <1>2, <1>3
<1> HIDE DEF at, t
<1>6. t \in Target /\ t.kind \in {"rail", "gpio", "bus"} /\ (t.kind = "bus" => t.at = at)
  BY <1>1, <1>4, <1>5 DEF Target, TargetKinds
<1>7. QED
  BY <1>2, <1>6 DEF t, at

-----------------------------------------------------------------------------
(* A document with a new component.                                        *)

Document == [board : BoardNames \cup Boards, components : Seq(Component),
             buses : Seq(Bus), connections : Seq(Connection)]

Seeded(id, lib, b, buses) ==
    [k \in DOMAIN LibPins[lib] |->
        [owner |-> id, role |-> LibPins[lib][k].role,
         target |-> DefaultTarget(LibPins[lib][k].kind, lib, RailsOf(b), buses)]]

Placed(d, id, lib, buses, b) ==
    [board |-> d.board, components |-> Append(d.components, [id |-> id, lib |-> lib]),
     buses |-> buses, connections |-> d.connections \o Seeded(id, lib, b, buses)]

ToolBuses(d, lib) ==
    IF d.board \in Boards
    THEN Grown(d.buses, NeededBusTypes(lib), 1, ToolSeparator, d.board) ELSE d.buses

UiBuses(d, lib, b) == Grown(d.buses, NeededBusTypes(lib), 0, UiSeparator, b)

LEMMA BusesExtend ==
    ASSUME NEW d \in Document, Distinct(d.buses), NEW lib \in Libraries, NEW b
    PROVE  Extends(d.buses, ToolBuses(d, lib)) /\ Extends(d.buses, UiBuses(d, lib, b))
<1>1. d.buses \in Seq(Bus) /\ NeededBusTypes(lib) \in SUBSET BusTypes
  BY NeededFacts DEF Document
<1>2. Extends(d.buses, UiBuses(d, lib, b))
  <2>1. d.buses \in Seq(Bus) /\ 0 \in Nat /\ UiSeparator \in Separators
    BY <1>1, SeparatorFacts
  <2>2. QED
    BY <1>1, <2>1, GrownFacts DEF UiBuses
<1>3. Extends(d.buses, d.buses)
  BY <1>1 DEF Extends
<1>4. Extends(d.buses, Grown(d.buses, NeededBusTypes(lib), 1, ToolSeparator, d.board))
  <2>1. d.buses \in Seq(Bus) /\ 1 \in Nat /\ ToolSeparator \in Separators
    BY <1>1, SeparatorFacts
  <2>2. QED
    BY <1>1, <2>1, GrownFacts
<1>5. QED
  BY <1>2, <1>3, <1>4 DEF ToolBuses

LEMMA ToolAdds ==
    ASSUME NEW d \in Document, NEW lib \in Libraries, NEW hint
    PROVE  AddWithConnections(d, lib, hint) =
             Placed(d, InstanceId(d, lib, hint), lib, ToolBuses(d, lib), d.board)
<1> DEFINE id     == InstanceId(d, lib, hint)
           placed == [d EXCEPT !.components = Append(@, [id |-> id, lib |-> lib])]
           ready  == IF d.board \in Boards THEN PrepareBuses(placed, lib) ELSE placed
<1>1. d = [board |-> d.board, components |-> d.components, buses |-> d.buses,
           connections |-> d.connections]
  BY DEF Document
<1>2. placed = [board |-> d.board, components |-> Append(d.components, [id |-> id, lib |-> lib]),
                buses |-> d.buses, connections |-> d.connections]
  <2> DEFINE more == Append(d.components, [id |-> id, lib |-> lib])
  <2>1. placed = [d EXCEPT !.components = more]
    OBVIOUS
  <2> HIDE DEF placed, more
  <2>2. placed = [board |-> d.board, components |-> more, buses |-> d.buses,
                  connections |-> d.connections]
    BY <1>1, <2>1
  <2>3. QED
    BY <2>2 DEF more
<1>3. ready = [board |-> d.board, components |-> Append(d.components, [id |-> id, lib |-> lib]),
               buses |-> ToolBuses(d, lib), connections |-> d.connections]
  <2>1. PrepareBuses(placed, lib) =
          [placed EXCEPT !.buses = Grown(d.buses, NeededBusTypes(lib), 1, ToolSeparator, d.board)]
    <3>1. placed.board = d.board /\ placed.buses = d.buses
      BY <1>2
    <3> HIDE DEF placed
    <3>2. QED
      BY <3>1, PreparedBuses
  <2> HIDE DEF id, placed
  <2>2. QED
    BY <1>2, <2>1 DEF ToolBuses
<1>4. AddWithConnections(d, lib, hint) =
        [ready EXCEPT !.connections = @ \o Seeded(id, lib, d.board, ready.buses)]
  BY DEF AddWithConnections, Seed, Seeded
<1> HIDE DEF id, placed, ready
<1>5. AddWithConnections(d, lib, hint) = Placed(d, id, lib, ToolBuses(d, lib), d.board)
  BY <1>3, <1>4 DEF Placed
<1>6. QED
  BY <1>5 DEF id

\* The document with other buses.
LEMMA WithBuses ==
    ASSUME NEW d \in Document, NEW buses
    PROVE  [d EXCEPT !.buses = buses] =
             [board |-> d.board, components |-> d.components, buses |-> buses,
              connections |-> d.connections]
<1>1. PICK board, components, old, connections :
         d = [board |-> board, components |-> components, buses |-> old,
              connections |-> connections]
  BY DEF Document
<1>2. [d EXCEPT !.buses = buses]
        = [board |-> board, components |-> components, buses |-> buses,
           connections |-> connections]
  BY <1>1
<1>3. board = d.board /\ components = d.components /\ connections = d.connections
  BY <1>1
<1>4. QED
  BY <1>2, <1>3

LEMMA StudioAdds ==
    ASSUME NEW d \in Document, NEW lib \in Libraries, NEW b
    PROVE  AddComponentUi(d, lib, b) =
             Placed(d, InstanceId(d, lib, None), lib, UiBuses(d, lib, b), b)
<1> DEFINE id     == InstanceId(d, lib, None)
           ready  == PrepareBusesForLib(d, lib, b)
           placed == [ready EXCEPT !.components = Append(@, [id |-> id, lib |-> lib])]
           ui     == [k \in DOMAIN LibPins[lib] |->
                        [owner |-> id, role |-> LibPins[lib][k].role,
                         target |-> DefaultTargetUi(LibPins[lib][k].kind, lib, RailsOf(b),
                                                    ready.buses)]]
<1>1. ready = [board |-> d.board, components |-> d.components,
               buses |-> UiBuses(d, lib, b), connections |-> d.connections]
  <2>1. ready = [d EXCEPT !.buses = UiBuses(d, lib, b)]
    BY PreparedBuses DEF UiBuses
  <2> HIDE DEF ready
  <2>2. QED
    BY <2>1, WithBuses
<1>2. AddComponentUi(d, lib, b) = [placed EXCEPT !.connections = @ \o ui]
  BY DEF AddComponentUi, Seed
<1> HIDE DEF id, ready
<1>3. placed = [board |-> d.board, components |-> Append(d.components, [id |-> id, lib |-> lib]),
                buses |-> UiBuses(d, lib, b), connections |-> d.connections]
  <2> DEFINE more == Append(d.components, [id |-> id, lib |-> lib])
  <2>1. ready.components = d.components
    BY <1>1
  <2>2. placed = [ready EXCEPT !.components = more]
    BY <2>1
  <2> HIDE DEF placed, more
  <2>3. placed = [board |-> d.board, components |-> more, buses |-> UiBuses(d, lib, b),
                  connections |-> d.connections]
    BY <1>1, <2>2
  <2>4. QED
    BY <2>3 DEF more
<1>4. ready.buses = UiBuses(d, lib, b)
  BY <1>1
<1>5. ui = Seeded(id, lib, b, UiBuses(d, lib, b))
  <2>1. \A kind, x, buses : DefaultTargetUi(kind, lib, RailsOf(x), buses) =
                            DefaultTarget(kind, lib, RailsOf(x), buses)
    <3> SUFFICES ASSUME NEW kind, NEW x, NEW buses
                 PROVE  DefaultTargetUi(kind, lib, RailsOf(x), buses) =
                        DefaultTarget(kind, lib, RailsOf(x), buses)
      OBVIOUS
    <3>1. WantedBus(kind) = BusTypeOf(kind)
      BY KindFacts
    <3>2. First(buses, LAMBDA y : y.type = WantedBus(kind), IdOf)
          = First(buses, LAMBDA y : y.type = BusTypeOf(kind), IdOf)
      BY <3>1 DEF First, SelectInSeq
    <3>3. QED
      BY <3>1, <3>2 DEF DefaultTargetUi, DefaultTarget
  <2>2. QED
    BY <1>4, <2>1 DEF Seeded
<1> HIDE DEF placed, ui
<1>6. AddComponentUi(d, lib, b) = Placed(d, id, lib, UiBuses(d, lib, b), b)
  BY <1>2, <1>3, <1>5 DEF Placed
<1>7. QED
  BY <1>6 DEF id

LEMMA SeededFacts ==
    ASSUME NEW id \in ComponentIds, NEW lib \in Libraries, NEW b, NEW buses \in Seq(Bus)
    PROVE  LET new == Seeded(id, lib, b, buses) IN
           /\ new \in Seq(Connection) /\ Len(new) = Len(LibPins[lib]) /\ Len(new) \in Nat
           /\ DOMAIN LibPins[lib] = 1 .. Len(LibPins[lib])
           /\ \A k \in 1 .. Len(new) :
                 /\ new[k].owner = id
                 /\ new[k].role = LibPins[lib][k].role
                 /\ new[k].target = DefaultTarget(LibPins[lib][k].kind, lib, RailsOf(b), buses)
<1> DEFINE pins == LibPins[lib]
           new  == Seeded(id, lib, b, buses)
<1>1. pins \in Seq(ToSet(pins))
  BY LibraryAssumption
<1>2. DOMAIN pins = 1 .. Len(pins) /\ Len(pins) \in Nat
  <2> HIDE DEF pins
  <2>1. QED
    BY <1>1
<1>3. \A k \in DOMAIN pins : pins[k].role \in PinRoles
  BY DEF PinRoles, ToSet
<1>4. \A k \in DOMAIN pins : DefaultTarget(pins[k].kind, lib, RailsOf(b), buses) \in Target
  BY DefaultTargetFacts
<1>5. new = [k \in DOMAIN pins |->
              [owner |-> id, role |-> pins[k].role,
               target |-> DefaultTarget(pins[k].kind, lib, RailsOf(b), buses)]]
  BY DEF Seeded
<1> HIDE DEF pins, new
<1>6. \A k \in 1 .. Len(pins) :
        /\ new[k] \in Connection
        /\ new[k].owner = id /\ new[k].role = pins[k].role
        /\ new[k].target = DefaultTarget(pins[k].kind, lib, RailsOf(b), buses)
  BY <1>2, <1>3, <1>4, <1>5 DEF Connection
<1>7. new \in Seq(Connection) /\ Len(new) = Len(pins)
  <2>1. new \in [1 .. Len(pins) -> Connection]
    BY <1>2, <1>5, <1>6
  <2>2. QED
    BY <1>2, <2>1
<1>8. QED
  BY <1>2, <1>6, <1>7 DEF new, pins

-----------------------------------------------------------------------------
(* Every edit makes a document of a document, with ids as unique as before. *)

Valid(d) == d \in Document /\ Distinct(d.components) /\ Distinct(d.buses)

LEMMA ValidFields ==
    ASSUME NEW d, Valid(d)
    PROVE  /\ d = [board |-> d.board, components |-> d.components, buses |-> d.buses,
                   connections |-> d.connections]
           /\ d.board \in BoardNames \cup Boards
           /\ d.components \in Seq(Component) /\ Distinct(d.components)
           /\ d.buses \in Seq(Bus) /\ Distinct(d.buses)
           /\ d.connections \in Seq(Connection)
  BY DEF Valid, Document

\* A new element at the end is distinct from the others if its id is new.
LEMMA AppendDistinct ==
    ASSUME NEW A, NEW s \in Seq(A), NEW x \in A, Distinct(s), x.id \notin IdsOf(s)
    PROVE  Distinct(Append(s, x))
<1> DEFINE r == Append(s, x)
<1>1. /\ Len(r) = Len(s) + 1 /\ Len(s) \in Nat /\ DOMAIN r = 1 .. Len(r) /\ DOMAIN s = 1 .. Len(s)
      /\ \A k \in 1 .. Len(s) : r[k] = s[k]
      /\ r[Len(s) + 1] = x
  OBVIOUS
<1>2. \A k \in 1 .. Len(s) : s[k].id # x.id
  BY IdsOfFacts
<1> HIDE DEF r
<1>3. \A k \in 1 .. Len(r) : k \in 1 .. Len(s) \/ k = Len(s) + 1
  BY <1>1
<1>4. Distinct(r)
  BY <1>1, <1>2, <1>3 DEF Distinct
<1>5. QED
  BY <1>4 DEF r

LEMMA PlacedValid ==
    ASSUME NEW d, Valid(d), NEW lib \in Libraries,
           NEW id \in ComponentIds \ IdsOf(d.components),
           NEW buses, Extends(d.buses, buses), NEW b
    PROVE  Valid(Placed(d, id, lib, buses, b))
<1> DEFINE e   == [id |-> id, lib |-> lib]
           new == Seeded(id, lib, b, buses)
<1>1. buses \in Seq(Bus) /\ Distinct(buses)
  BY DEF Extends
<1>2. new \in Seq(Connection)
  BY <1>1, SeededFacts
<1>3. e \in Component /\ e.id \notin IdsOf(d.components)
  BY DEF Component
<1>4. Placed(d, id, lib, buses, b) =
        [board |-> d.board, components |-> Append(d.components, e), buses |-> buses,
         connections |-> d.connections \o new]
  BY DEF Placed
<1> HIDE DEF e, new
<1>5. Append(d.components, e) \in Seq(Component) /\ Distinct(Append(d.components, e))
  BY <1>3, ValidFields, AppendDistinct
<1>6. d.connections \o new \in Seq(Connection)
  BY <1>2, ValidFields
<1>7. QED
  BY <1>1, <1>4, <1>5, <1>6, ValidFields DEF Valid, Document

LEMMA RemovedValid ==
    ASSUME NEW d, Valid(d), NEW S, NEW T, NEW U
    PROVE  /\ Valid([d EXCEPT !.components = Without(@, S), !.connections = Without(@, T)])
           /\ Valid([d EXCEPT !.buses = Without(@, U)])
<1>1. Without(d.components, S) \in Seq(Component) /\ Distinct(Without(d.components, S))
  BY ValidFields, WithoutFacts, WithoutDistinct
<1>2. Without(d.connections, T) \in Seq(Connection)
  BY ValidFields, WithoutFacts
<1>3. Without(d.buses, U) \in Seq(Bus) /\ Distinct(Without(d.buses, U))
  BY ValidFields, WithoutFacts, WithoutDistinct
<1>4. QED
  BY <1>1, <1>2, <1>3, ValidFields DEF Valid, Document

\* An edit that changes the connections only.
LEMMA RewiredValid ==
    ASSUME NEW d, Valid(d), NEW conns \in Seq(Connection)
    PROVE  Valid([d EXCEPT !.connections = conns])
  BY ValidFields DEF Valid, Document

LEMMA RetargetFacts ==
    ASSUME NEW d, Valid(d), NEW i \in DOMAIN d.connections, NEW t \in Target
    PROVE  LET c == [d.connections EXCEPT ![i].target = t] IN
           /\ Retarget(d, i, t) = [d EXCEPT !.connections = c]
           /\ c \in Seq(Connection) /\ Len(c) = Len(d.connections)
           /\ c[i] = [d.connections[i] EXCEPT !.target = t]
           /\ \A k \in 1 .. Len(c) : k # i => c[k] = d.connections[k]
<1> DEFINE s == d.connections
           c == [s EXCEPT ![i].target = t]
<1>1. Retarget(d, i, t) = [d EXCEPT !.connections = c]
  BY ValidFields DEF Retarget
<1>2. s \in Seq(Connection)
  BY ValidFields
<1> HIDE DEF s
<1>3. s[i] \in Connection /\ DOMAIN s = 1 .. Len(s)
  BY <1>2 DEF s
<1>4. [s[i] EXCEPT !.target = t] \in Connection
  BY <1>3 DEF Connection
<1>5. c = [s EXCEPT ![i] = [s[i] EXCEPT !.target = t]]
  OBVIOUS
<1>6. c \in Seq(Connection) /\ Len(c) = Len(s)
  BY <1>2, <1>3, <1>4, <1>5 DEF s
<1>7. c[i] = [s[i] EXCEPT !.target = t] /\ \A k \in 1 .. Len(s) : k # i => c[k] = s[k]
  BY <1>3, <1>5 DEF s
<1>8. QED
  BY <1>1, <1>6, <1>7 DEF s

LEMMA BusAddedValid ==
    ASSUME NEW d, Valid(d), NEW id \in AllBusIds \ IdsOf(d.buses), NEW type \in BusTypes, NEW b
    PROVE  LET more == Append(d.buses, NewBus(id, type, b)) IN
           Extends(d.buses, more) /\ Valid([d EXCEPT !.buses = more])
<1> DEFINE x    == NewBus(id, type, b)
           more == Append(d.buses, x)
<1>1. x \in Bus /\ x.id \notin IdsOf(d.buses)
  BY NewBusFacts
<1>2. d.buses \in Seq(Bus) /\ Distinct(d.buses)
  BY ValidFields
<1> HIDE DEF x
<1>3. more \in Seq(Bus) /\ Distinct(more)
  BY <1>1, <1>2, AppendDistinct
<1>4. /\ Len(more) = Len(d.buses) + 1 /\ Len(d.buses) \in Nat
      /\ \A k \in 1 .. Len(d.buses) : more[k] = d.buses[k]
  BY <1>1, <1>2
<1> HIDE DEF more
<1>5. Extends(d.buses, more)
  BY <1>3, <1>4 DEF Extends
<1>6. Valid([d EXCEPT !.buses = more])
  BY <1>3, ValidFields DEF Valid, Document
<1>7. QED
  BY <1>5, <1>6 DEF more, x

\* The buses after a bus was given other pins, or another id.
WithoutPins(buses, id) == Patch(buses, id, LAMBDA b : [b EXCEPT !.pins = None])
WithId(buses, old, new) == Patch(buses, old, LAMBDA b : [b EXCEPT !.id = new])

LEMMA PinsFacts ==
    ASSUME NEW buses \in Seq(Bus), NEW id
    PROVE  LET p == WithoutPins(buses, id) IN
           /\ p \in Seq(Bus) /\ Len(p) = Len(buses)
           /\ \A k \in 1 .. Len(buses) : p[k].id = buses[k].id /\ p[k].type = buses[k].type
<1> DEFINE p == WithoutPins(buses, id)
<1>1. /\ DOMAIN buses = 1 .. Len(buses) /\ Len(buses) \in Nat
      /\ \A k \in 1 .. Len(buses) : buses[k] \in Bus
  OBVIOUS
<1>2. p = [k \in 1 .. Len(buses) |->
             IF buses[k].id = id THEN [buses[k] EXCEPT !.pins = None] ELSE buses[k]]
  BY <1>1 DEF WithoutPins, Patch
<1>3. \A x \in Bus :
        /\ [x EXCEPT !.pins = None] \in Bus /\ [x EXCEPT !.pins = None].id = x.id
        /\ [x EXCEPT !.pins = None].type = x.type
  BY DEF Bus
<1> HIDE DEF p
<1>4. \A k \in 1 .. Len(buses) :
        p[k] \in Bus /\ p[k].id = buses[k].id /\ p[k].type = buses[k].type
  BY <1>1, <1>2, <1>3
<1>5. p \in [1 .. Len(buses) -> Bus]
  BY <1>2, <1>4
<1>6. p \in Seq(Bus) /\ Len(p) = Len(buses)
  BY <1>1, <1>5
<1>7. QED
  BY <1>4, <1>6 DEF p

LEMMA PatchFacts ==
    ASSUME NEW buses \in Seq(Bus), NEW old, NEW new \in AllBusIds
    PROVE  LET q == WithId(buses, old, new) IN
           /\ q \in Seq(Bus) /\ Len(q) = Len(buses)
           /\ \A k \in 1 .. Len(buses) :
                 /\ q[k].id = IF buses[k].id = old THEN new ELSE buses[k].id
                 /\ q[k].type = buses[k].type
<1> DEFINE q == WithId(buses, old, new)
<1>1. /\ DOMAIN buses = 1 .. Len(buses) /\ Len(buses) \in Nat
      /\ \A k \in 1 .. Len(buses) : buses[k] \in Bus
  OBVIOUS
<1>2. q = [k \in 1 .. Len(buses) |->
             IF buses[k].id = old THEN [buses[k] EXCEPT !.id = new] ELSE buses[k]]
  BY <1>1 DEF WithId, Patch
<1>3. \A x \in Bus :
        /\ [x EXCEPT !.id = new] \in Bus /\ [x EXCEPT !.id = new].id = new
        /\ [x EXCEPT !.id = new].type = x.type
  BY DEF Bus
<1> HIDE DEF q
<1>4. \A k \in 1 .. Len(buses) :
        /\ q[k] \in Bus /\ q[k].type = buses[k].type
        /\ q[k].id = IF buses[k].id = old THEN new ELSE buses[k].id
  BY <1>1, <1>2, <1>3
<1>5. q \in [1 .. Len(buses) -> Bus]
  BY <1>2, <1>4
<1>6. q \in Seq(Bus) /\ Len(q) = Len(buses)
  BY <1>1, <1>5
<1>7. QED
  BY <1>4, <1>6 DEF q

LEMMA PatchedValid ==
    ASSUME NEW d, Valid(d), NEW id
    PROVE  Valid([d EXCEPT !.buses = WithoutPins(d.buses, id)])
<1> DEFINE p == WithoutPins(d.buses, id)
<1>1. d.buses \in Seq(Bus) /\ Distinct(d.buses)
  BY ValidFields
<1>2. /\ p \in Seq(Bus) /\ Len(p) = Len(d.buses)
      /\ \A k \in 1 .. Len(d.buses) : p[k].id = d.buses[k].id
  BY <1>1, PinsFacts
<1> HIDE DEF p
<1>3. DOMAIN p = 1 .. Len(d.buses) /\ DOMAIN d.buses = 1 .. Len(d.buses)
  BY <1>1, <1>2
<1>4. Distinct(p)
  BY <1>1, <1>2, <1>3 DEF Distinct
<1>5. QED
  BY <1>2, <1>4, ValidFields DEF Valid, Document, p

\* The connections after a bus was renamed.
Followed(c, old, new) ==
    IF c.target.kind = "bus" /\ c.target.at = old THEN [c EXCEPT !.target.at = new] ELSE c

LEMMA FollowedConnection ==
    ASSUME NEW c \in Connection, NEW old, NEW new \in AllBusIds
    PROVE  LET f == Followed(c, old, new) IN
           /\ f \in Connection
           /\ f.owner = c.owner /\ f.role = c.role /\ f.target.kind = c.target.kind
           /\ f.target.at = IF c.target.kind = "bus" /\ c.target.at = old
                            THEN new ELSE c.target.at
<1>1. c.target \in Target /\ c = [owner |-> c.owner, role |-> c.role, target |-> c.target]
  BY DEF Connection
<1>2. [c.target EXCEPT !.at = new] \in Target
      /\ [c.target EXCEPT !.at = new].kind = c.target.kind
      /\ [c.target EXCEPT !.at = new].at = new
  BY <1>1 DEF Target
<1>3. [c EXCEPT !.target.at = new] = [c EXCEPT !.target = [c.target EXCEPT !.at = new]]
  OBVIOUS
<1>4. QED
  BY <1>1, <1>2, <1>3 DEF Followed, Connection

AllFollowed(conns, old, new) == [i \in DOMAIN conns |-> Followed(conns[i], old, new)]

LEMMA FollowedFacts ==
    ASSUME NEW d, Valid(d), NEW old, NEW new \in AllBusIds
    PROVE  LET conns == AllFollowed(d.connections, old, new) IN
           /\ Renamed(d, old, new) =
                 [board |-> d.board, components |-> d.components,
                  buses |-> WithId(d.buses, old, new), connections |-> conns]
           /\ conns \in Seq(Connection) /\ Len(conns) = Len(d.connections)
           /\ \A k \in 1 .. Len(conns) : conns[k] = Followed(d.connections[k], old, new)
<1> DEFINE s == d.connections
           conns == AllFollowed(s, old, new)
<1>1. Renamed(d, old, new) =
        [board |-> d.board, components |-> d.components,
         buses |-> WithId(d.buses, old, new), connections |-> conns]
  <2>1. Renamed(d, old, new) =
          [d EXCEPT !.buses = WithId(d.buses, old, new), !.connections = conns]
    BY ValidFields DEF Renamed, WithId, AllFollowed, Followed
  <2>2. d = [board |-> d.board, components |-> d.components, buses |-> d.buses,
             connections |-> d.connections]
    BY ValidFields
  <2> HIDE DEF conns, s
  <2>3. QED
    BY <2>1, <2>2
<1>2. \A c \in Connection : Followed(c, old, new) \in Connection
  BY FollowedConnection
<1>3. s \in Seq(Connection)
  BY ValidFields
<1>4. DOMAIN s = 1 .. Len(s) /\ Len(s) \in Nat /\ \A k \in 1 .. Len(s) : s[k] \in Connection
  <2> HIDE DEF s
  <2>1. QED
    BY <1>3
<1>5. conns \in [1 .. Len(s) -> Connection]
  BY <1>2, <1>4 DEF AllFollowed
<1>6. conns \in Seq(Connection) /\ Len(conns) = Len(s)
  <2> HIDE DEF conns, s
  <2>1. QED
    BY <1>4, <1>5
<1>7. \A k \in 1 .. Len(s) : conns[k] = Followed(s[k], old, new)
  BY <1>4 DEF AllFollowed
<1>8. QED
  BY <1>1, <1>2, <1>6, <1>7

LEMMA RenamedValid ==
    ASSUME NEW d, Valid(d), NEW old, NEW new \in AllBusIds \ IdsOf(d.buses)
    PROVE  Valid(Renamed(d, old, new))
<1> DEFINE q == WithId(d.buses, old, new)
           conns == AllFollowed(d.connections, old, new)
<1>1. d.buses \in Seq(Bus) /\ Distinct(d.buses)
  BY ValidFields
<1>2. /\ q \in Seq(Bus) /\ Len(q) = Len(d.buses)
      /\ \A k \in 1 .. Len(d.buses) : q[k].id = IF d.buses[k].id = old THEN new ELSE d.buses[k].id
  BY <1>1, PatchFacts
<1>3. \A k \in 1 .. Len(d.buses) : d.buses[k].id # new
  BY <1>1, IdsOfFacts
<1>4. conns \in Seq(Connection)
      /\ Renamed(d, old, new) = [board |-> d.board, components |-> d.components,
                                  buses |-> q, connections |-> conns]
  <2>1. new \in AllBusIds
    OBVIOUS
  <2>2. conns \in Seq(Connection)
    BY <2>1, FollowedFacts
  <2>3. Renamed(d, old, new) = [board |-> d.board, components |-> d.components,
                                buses |-> q, connections |-> conns]
    BY <2>1, FollowedFacts
  <2>4. QED
    BY <2>2, <2>3
<1> HIDE DEF q, conns
<1>5. DOMAIN q = 1 .. Len(d.buses) /\ DOMAIN d.buses = 1 .. Len(d.buses)
  BY <1>1, <1>2
<1>6. Distinct(q)
  BY <1>1, <1>2, <1>3, <1>5 DEF Distinct
<1>7. QED
  BY <1>2, <1>4, <1>6, ValidFields DEF Valid, Document

-----------------------------------------------------------------------------
(* What solve_pins picks.                                                  *)

\* The id at the first of some positions.
FirstAt(s, I) == IF I = {} THEN None ELSE s[Min(I)].id

LEMMA FirstAtFacts ==
    ASSUME NEW A, NEW s \in Seq(A), NEW I \in SUBSET (1 .. Len(s))
    PROVE  \/ I = {} /\ FirstAt(s, I) = None
           \/ I # {} /\ \E k \in I : FirstAt(s, I) = s[k].id
<1>1. I \in SUBSET Nat
  OBVIOUS
<1>2. I # {} => Min(I) \in I
  BY <1>1, MinFacts
<1>3. QED
  BY <1>2 DEF FirstAt

FirstExpander(s)        == First(s, LAMBDA e : e.lib \in ExpanderLibs, IdOf)
FirstHub(s, lib, owner) == First(s, LAMBDA e : e.lib = lib /\ e.id # owner, IdOf)
FirstId(s)              == First(s, LAMBDA e : TRUE, IdOf)

HubsAt(s, lib, owner) == {k \in 1 .. Len(s) : s[k].lib = lib /\ s[k].id # owner}

LEMMA FirstMatches ==
    ASSUME NEW A, NEW s \in Seq(A), NEW lib, NEW owner
    PROVE  /\ FirstExpander(s) = FirstAt(s, {k \in 1 .. Len(s) : s[k].lib \in ExpanderLibs})
           /\ FirstHub(s, lib, owner) = FirstAt(s, HubsAt(s, lib, owner))
           /\ FirstId(s) = FirstAt(s, 1 .. Len(s))
<1>1. ASSUME NEW I \in SUBSET (1 .. Len(s))
      PROVE  (IF FirstOf(I) = 0 THEN None ELSE s[FirstOf(I)].id) = FirstAt(s, I)
  <2>1. I \in SUBSET (Nat \ {0})
    OBVIOUS
  <2>2. FirstOf(I) = 0 <=> I = {}
    BY <2>1, FirstOfFacts
  <2>3. I # {} => FirstOf(I) = Min(I)
    BY DEF FirstOf
  <2>4. QED
    BY <2>2, <2>3 DEF FirstAt
<1> DEFINE I1 == {k \in 1 .. Len(s) : s[k].lib \in ExpanderLibs}
           I2 == HubsAt(s, lib, owner)
           I3 == {k \in 1 .. Len(s) : TRUE}
<1>2. FirstExpander(s) = IF FirstOf(I1) = 0 THEN None ELSE s[FirstOf(I1)].id
  BY DEF FirstExpander, First, SelectInSeq, FirstOf, IdOf
<1>3. FirstHub(s, lib, owner) = IF FirstOf(I2) = 0 THEN None ELSE s[FirstOf(I2)].id
  BY DEF FirstHub, HubsAt, First, SelectInSeq, FirstOf, IdOf
<1>4. FirstId(s) = IF FirstOf(I3) = 0 THEN None ELSE s[FirstOf(I3)].id
  BY DEF FirstId, First, SelectInSeq, FirstOf, IdOf
<1>5. /\ I1 \in SUBSET (1 .. Len(s)) /\ I2 \in SUBSET (1 .. Len(s)) /\ I3 \in SUBSET (1 .. Len(s))
      /\ I3 = 1 .. Len(s)
  BY DEF HubsAt
<1> HIDE DEF I1, I2, I3
<1>6. /\ FirstExpander(s) = FirstAt(s, I1)
      /\ FirstHub(s, lib, owner) = FirstAt(s, I2)
      /\ FirstId(s) = FirstAt(s, I3)
  BY <1>1, <1>2, <1>3, <1>4, <1>5
<1>7. QED
  BY <1>5, <1>6 DEF I1, I2

\* It leaves a connection alone, or gives it something that its pin can take.
LEMMA SolvedFacts ==
    ASSUME NEW d, Valid(d), NEW c \in Connection
    PROVE  LET t == SolvedTarget(d, c) IN
           /\ t \in Target /\ t.kind = c.target.kind
           /\ t = c.target \/ Fits(d, [c EXCEPT !.target = t])
<1> DEFINE t    == c.target
           kind == KindOfRole(d, c)
           lib  == ById(d.components, c.owner).lib
           bus  == FirstBus(d.buses, BusTypeOf(kind))
           exp  == FirstExpander(d.components)
           hub  == FirstHub(d.components, Parent[lib], c.owner)
           I1   == {k \in 1 .. Len(d.components) : d.components[k].lib \in ExpanderLibs}
           I2   == HubsAt(d.components, Parent[lib], c.owner)
           new  == SolvedTarget(d, c)
<1>1. d.components \in Seq(Component) /\ d.buses \in Seq(Bus)
  BY ValidFields
<1>2. /\ \A k \in 1 .. Len(d.components) :
            d.components[k].id \in ComponentIds /\ d.components[k] \in ToSet(d.components)
      /\ \A k \in 1 .. Len(d.buses) : d.buses[k].id \in AllBusIds /\ d.buses[k] \in ToSet(d.buses)
  <2>1. \A k \in 1 .. Len(d.components) : d.components[k] \in Component
    BY <1>1
  <2>2. \A k \in 1 .. Len(d.buses) : d.buses[k] \in Bus
    BY <1>1
  <2>3. \A x \in Component : x.id \in ComponentIds
    BY DEF Component
  <2>4. \A x \in Bus : x.id \in AllBusIds
    BY DEF Bus
  <2>5. /\ \A k \in 1 .. Len(d.components) : d.components[k] \in ToSet(d.components)
        /\ \A k \in 1 .. Len(d.buses) : d.buses[k] \in ToSet(d.buses)
    BY <1>1, ToSetFacts
  <2>6. QED
    BY <2>1, <2>2, <2>3, <2>4, <2>5
<1>3. \/ bus = None
      \/ \E b \in ToSet(d.buses) : b.id = bus /\ b.type = BusTypeOf(kind) /\ bus \in AllBusIds
  <2>1. \/ bus = None
        \/ \E k \in 1 .. Len(d.buses) : bus = d.buses[k].id /\ d.buses[k].type = BusTypeOf(kind)
    BY <1>1, FirstBusFacts
  <2> HIDE DEF bus
  <2>2. QED
    BY <1>2, <2>1
<1>4. \/ exp = None
      \/ \E e \in ToSet(d.components) : e.id = exp /\ e.lib \in ExpanderLibs /\ exp \in ComponentIds
  <2>1. exp = FirstAt(d.components, I1)
    BY <1>1, FirstMatches
  <2>2. \/ FirstAt(d.components, I1) = None
        \/ \E k \in I1 : FirstAt(d.components, I1) = d.components[k].id
    <3>1. I1 \in SUBSET (1 .. Len(d.components))
      OBVIOUS
    <3> HIDE DEF I1
    <3>2. QED
      BY <1>1, <3>1, FirstAtFacts
  <2> HIDE DEF exp
  <2>3. QED
    BY <1>2, <2>1, <2>2
<1>5. hub = None \/ \E e \in ToSet(d.components) : e.id = hub /\ hub \in ComponentIds
  <2>1. hub = FirstAt(d.components, I2)
    <3> HIDE DEF lib
    <3>1. QED
      BY <1>1, FirstMatches
  <2>2. \/ FirstAt(d.components, I2) = None
        \/ \E k \in I2 : FirstAt(d.components, I2) = d.components[k].id
    <3>1. I2 \in SUBSET (1 .. Len(d.components))
      BY DEF HubsAt
    <3> HIDE DEF I2
    <3>2. QED
      BY <1>1, <3>1, FirstAtFacts
  <2> HIDE DEF hub
  <2>3. I2 \in SUBSET (1 .. Len(d.components))
    BY DEF HubsAt
  <2> HIDE DEF I2
  <2>4. QED
    BY <1>2, <2>1, <2>2, <2>3
<1>6. t \in Target /\ t.kind \in TargetKinds /\ t = [kind |-> t.kind, at |-> t.at]
  BY DEF Connection, Target
<1>7. c = [owner |-> c.owner, role |-> c.role, target |-> t]
  BY DEF Connection
<1>8. CASE t.kind = "rail" \/ t.at # None \/ kind = None
  <2>1. new = t
    BY <1>8 DEF SolvedTarget
  <2>2. QED
    BY <1>6, <2>1
<1>9. CASE ~(t.kind = "rail" \/ t.at # None \/ kind = None)
  <2> DEFINE at == CASE t.kind = "gpio" -> Pin
                     [] t.kind = "bus" -> bus
                     [] t.kind = "expander_pin" -> exp
                     [] t.kind = "component" -> IF lib \in DOMAIN Parent THEN hub ELSE None
  <2>1. new = [t EXCEPT !.at = at]
    BY <1>9 DEF SolvedTarget, FirstBus, FirstExpander, FirstHub
  <2>2. new = [kind |-> t.kind, at |-> at]
    <3> HIDE DEF at, t, new
    <3>1. QED
      BY <1>6, <2>1
  <2>3. \A b : KindOfRole(d, [c EXCEPT !.target = b]) = kind
    <3> SUFFICES ASSUME NEW b PROVE KindOfRole(d, [c EXCEPT !.target = b]) = kind
      OBVIOUS
    <3>1. [c EXCEPT !.target = b].owner = c.owner /\ [c EXCEPT !.target = b].role = c.role
      BY <1>7
    <3>2. QED
      BY <3>1 DEF KindOfRole
  <2>4. [c EXCEPT !.target = new].target = new
    BY <1>7
  <2> DEFINE r == [c EXCEPT !.target = new]
  <2>5. r.target = new /\ KindOfRole(d, r) = kind
    BY <2>3, <2>4
  <2> HIDE DEF bus, exp, hub, t, kind, new, r, lib
  <2>6. CASE t.kind = "gpio"
    <3>1. new = [kind |-> "gpio", at |-> Pin]
      BY <2>2, <2>6
    <3>2. new \in Target /\ new.kind = "gpio"
      BY <3>1 DEF Target, TargetKinds
    <3>3. Fits(d, r)
      BY <2>5, <3>2 DEF Fits
    <3>4. QED
      BY <2>6, <3>2, <3>3 DEF t, new, r
  <2>7. CASE t.kind = "bus"
    <3>1. new = [kind |-> "bus", at |-> bus]
      BY <2>2, <2>7
    <3>2. new \in Target /\ new.kind = "bus" /\ new.at = bus
      BY <1>3, <3>1 DEF Target, TargetKinds
    <3>3. Fits(d, r)
      BY <1>3, <2>5, <3>2 DEF Fits
    <3>4. QED
      BY <2>7, <3>2, <3>3 DEF t, new, r
  <2>8. CASE t.kind = "expander_pin"
    <3>1. new = [kind |-> "expander_pin", at |-> exp]
      BY <2>2, <2>8
    <3>2. new \in Target /\ new.kind = "expander_pin" /\ new.at = exp
      BY <1>4, <3>1 DEF Target, TargetKinds
    <3>3. Fits(d, r)
      BY <1>4, <2>5, <3>2 DEF Fits
    <3>4. QED
      BY <2>8, <3>2, <3>3 DEF t, new, r
  <2>9. CASE t.kind = "component"
    <3>1. new = [kind |-> "component", at |-> IF lib \in DOMAIN Parent THEN hub ELSE None]
      BY <2>2, <2>9
    <3>2. new \in Target /\ new.kind = "component" /\ (new.at = hub \/ new.at = None)
      BY <1>5, <3>1 DEF Target, TargetKinds
    <3>3. Fits(d, r)
      BY <1>5, <2>5, <3>2 DEF Fits
    <3>4. QED
      BY <2>9, <3>2, <3>3 DEF t, new, r
  <2>10. t.kind \in {"gpio", "bus", "expander_pin", "component"}
    BY <1>6, <1>9 DEF TargetKinds
  <2>11. QED
    BY <2>6, <2>7, <2>8, <2>9, <2>10
<1>10. QED
  BY <1>8, <1>9

-----------------------------------------------------------------------------
(* Types and unique ids.                                                   *)

TypedInv == TypeOK /\ UniqueIds

LEMMA TypedInvMeans ==
    TypedInv <=> Valid(design) /\ shown \in Boards \cup {None} /\ astray \subseteq ComponentIds
  BY DEF TypedInv, TypeOK, UniqueIds, Valid, Document

LEMMA TypedInvNext ==
    (Valid(design) /\ shown \in Boards \cup {None} /\ astray \subseteq ComponentIds)' => TypedInv'
  BY DEF TypedInv, TypeOK, UniqueIds, Valid, Document

LEMMA IdsTyped ==
    ASSUME NEW d, Valid(d)
    PROVE  IdsOf(d.components) \in SUBSET ComponentIds /\ IdsOf(d.buses) \in SUBSET AllBusIds
<1>1. \A x \in Component : x.id \in ComponentIds
  BY DEF Component
<1>2. \A x \in Bus : x.id \in AllBusIds
  BY DEF Bus
<1>3. d.components \in Seq(Component) /\ d.buses \in Seq(Bus)
  BY ValidFields
<1>4. ToSet(d.components) \in SUBSET Component /\ ToSet(d.buses) \in SUBSET Bus
  BY <1>3, ToSetFacts
<1>5. QED
  BY <1>1, <1>2, <1>4 DEF IdsOf

LEMMA ToolTargetsTyped ==
    ASSUME NEW d, Valid(d), d = design, NEW kind \in TargetKinds, NEW t \in ToolTargets(kind)
    PROVE  t \in Target
<1>1. Hints \in SUBSET ComponentIds /\ BusIds \in SUBSET AllBusIds
  BY DEF ComponentIds, AllBusIds
<1>2. IdsOf(design.components) \in SUBSET ComponentIds /\ IdsOf(design.buses) \in SUBSET AllBusIds
  BY IdsTyped
<1> DEFINE at == CASE kind = "bus"  -> BusIds \cup IdsOf(design.buses)
                   [] kind = "gpio" -> {None, Pin}
                   [] kind = "rail" -> RailNames
                   [] OTHER         -> Hints \cup IdsOf(design.components)
<1>3. at \in SUBSET ({None, Pin} \cup RailNames \cup AllBusIds \cup ComponentIds)
  BY <1>1, <1>2
<1>4. ToolTargets(kind) = [kind : {kind}, at : at]
  BY DEF ToolTargets
<1> HIDE DEF at
<1>5. QED
  BY <1>3, <1>4 DEF Target

LEMMA FormTargetsTyped ==
    ASSUME NEW d, Valid(d), d = design, NEW kind \in TargetKinds, NEW owner,
           NEW t \in FormTargets(kind, owner)
    PROVE  t \in Target
<1> DEFINE first == FirstId(design.components)
           exps  == {e.id : e \in {x \in ToSet(design.components) : x.lib \in ExpanderLibs}}
           names == {r.name : r \in ToSet(RailsOf(shown))}
           rails == IF names = {} THEN {RailGND} ELSE names
           offered ==
             CASE kind = "bus"  -> IdsOf(design.buses)
               [] kind = "gpio" -> {Pin : b \in {shown} \ {None}}
               [] kind = "rail" -> rails
               [] kind = "expander_pin" -> exps
               [] kind = "component" -> (IdsOf(design.components) \ {owner}) \cup {first}
           at == IF offered = {} THEN {None} ELSE offered
           any == {None, Pin} \cup RailNames \cup AllBusIds \cup ComponentIds
<1>1. IdsOf(design.components) \in SUBSET ComponentIds /\ IdsOf(design.buses) \in SUBSET AllBusIds
  BY IdsTyped
<1>2. exps \in SUBSET ComponentIds
  BY <1>1 DEF IdsOf
<1>3. first \in ComponentIds \cup {None}
  <2>1. design.components \in Seq(Component)
    BY ValidFields
  <2>2. first = FirstAt(design.components, 1 .. Len(design.components))
    BY <2>1, FirstMatches
  <2> DEFINE I == 1 .. Len(design.components)
  <2>3. I \in SUBSET (1 .. Len(design.components))
    OBVIOUS
  <2> HIDE DEF first, I
  <2>4. first = None \/ \E k \in I : first = design.components[k].id
    BY <2>1, <2>2, <2>3, FirstAtFacts DEF I
  <2>5. \A k \in I : design.components[k].id \in IdsOf(design.components)
    BY <2>1, IdsOfFacts DEF I
  <2>6. QED
    BY <1>1, <2>4, <2>5
<1>4. rails \in SUBSET RailNames
  <2>1. names \in SUBSET RailNames
    BY RailsFacts DEF ToSet
  <2>2. RailGND \in RailNames
    BY DEF RailNames
  <2> HIDE DEF names
  <2>3. QED
    BY <2>1, <2>2
<1> HIDE DEF first, exps, rails
<1>5. at \in SUBSET any
  <2>1. kind \in {"rail", "bus", "gpio", "expander_pin", "component"}
    BY DEF TargetKinds
  <2>2. QED
    BY <1>1, <1>2, <1>3, <1>4, <2>1
<1>6. FormTargets(kind, owner) = [kind : {kind}, at : at]
  BY DEF FormTargets, first, exps, rails, FirstId
<1> HIDE DEF at, any
<1>7. QED
  BY <1>5, <1>6 DEF Target, any

SolvedAll(d) ==
    [i \in DOMAIN d.connections |->
        [d.connections[i] EXCEPT !.target = SolvedTarget(d, d.connections[i])]]

LEMMA SolvedAllFacts ==
    ASSUME NEW d, Valid(d)
    PROVE  /\ SolvedAll(d) \in Seq(Connection) /\ Len(SolvedAll(d)) = Len(d.connections)
           /\ \A k \in 1 .. Len(d.connections) :
                 LET c == d.connections[k]
                     n == SolvedAll(d)[k] IN
                 /\ n.owner = c.owner /\ n.role = c.role
                 /\ n = c \/ Fits(d, n)
<1> DEFINE s == d.connections
<1>1. s \in Seq(Connection)
  BY ValidFields
<1>2. /\ DOMAIN s = 1 .. Len(s) /\ Len(s) \in Nat
      /\ \A k \in 1 .. Len(s) : s[k] \in Connection
  <2> HIDE DEF s
  <2>1. QED
    BY <1>1
<1>3. ASSUME NEW c \in Connection
      PROVE  LET n == [c EXCEPT !.target = SolvedTarget(d, c)] IN
             /\ n \in Connection /\ n.owner = c.owner /\ n.role = c.role
             /\ n = c \/ Fits(d, n)
  <2> DEFINE t == SolvedTarget(d, c)
  <2>1. t \in Target /\ (t = c.target \/ Fits(d, [c EXCEPT !.target = t]))
    BY SolvedFacts
  <2> HIDE DEF t
  <2>2. /\ [c EXCEPT !.target = t] \in Connection
        /\ [c EXCEPT !.target = t].owner = c.owner /\ [c EXCEPT !.target = t].role = c.role
        /\ t = c.target => [c EXCEPT !.target = t] = c
    BY <2>1 DEF Connection
  <2>3. QED
    BY <2>1, <2>2 DEF t
<1>4. \A k \in 1 .. Len(s) : SolvedAll(d)[k] = [s[k] EXCEPT !.target = SolvedTarget(d, s[k])]
  BY <1>2 DEF SolvedAll
<1>5. SolvedAll(d) \in [1 .. Len(s) -> Connection]
  BY <1>2, <1>3, <1>4 DEF SolvedAll
<1>6. SolvedAll(d) \in Seq(Connection) /\ Len(SolvedAll(d)) = Len(s)
  <2> HIDE DEF s
  <2>1. QED
    BY <1>2, <1>5
<1>7. \A k \in 1 .. Len(s) :
        LET n == SolvedAll(d)[k] IN
        n.owner = s[k].owner /\ n.role = s[k].role /\ (n = s[k] \/ Fits(d, n))
  <2> HIDE DEF s
  <2> SUFFICES ASSUME NEW k \in 1 .. Len(s)
               PROVE  LET n == SolvedAll(d)[k] IN
                      n.owner = s[k].owner /\ n.role = s[k].role /\ (n = s[k] \/ Fits(d, n))
    OBVIOUS
  <2>1. s[k] \in Connection
    BY <1>2
  <2>2. QED
    BY <1>3, <1>4, <2>1
<1>8. QED
  BY <1>6, <1>7

\* The inductive invariant of all edits: the document has the shape of the
\* schema, and ids are unique, without which a lookup would find another bus
\* or component than the one that was named.
THEOREM TypedInvHolds == Spec => []TypedInv
<1>1. Init => TypedInv
  <2> SUFFICES ASSUME Init PROVE TypedInv
    OBVIOUS
  <2>1. design \in [board : BoardNames, components : {<<>>}, buses : {<<>>},
                    connections : {<<>>}] /\ shown = None /\ astray = {}
    BY DEF Init
  <2>2. \A A : <<>> \in Seq(A)
    OBVIOUS
  <2>3. design \in Document /\ design.components = <<>> /\ design.buses = <<>>
    BY <2>1, <2>2 DEF Document
  <2>4. Distinct(<<>>)
    BY DEF Distinct
  <2>5. QED
    BY <2>1, <2>3, <2>4, TypedInvMeans DEF Valid
<1>2. TypedInv /\ [Next]_vars => TypedInv'
  <2> SUFFICES ASSUME TypedInv, [Next]_vars PROVE TypedInv'
    OBVIOUS
  <2>1. Valid(design) /\ shown \in Boards \cup {None} /\ astray \subseteq ComponentIds
    BY TypedInvMeans
  <2>2. /\ design.components \in Seq(Component) /\ design.buses \in Seq(Bus)
        /\ design.connections \in Seq(Connection)
        /\ Distinct(design.components) /\ Distinct(design.buses) /\ design \in Document
    BY <2>1, ValidFields DEF Valid
  <2>3. ASSUME NEW d, Valid(d), Edit(d), astray' \subseteq ComponentIds PROVE TypedInv'
    <3>1. design' = d /\ shown' = shown
      BY <2>3 DEF Edit
    <3>2. QED
      BY <2>1, <2>3, <3>1, TypedInvNext
  <2>4. ASSUME NEW lib \in Libraries, NEW hint \in Hints \cup {None}, AddComponentTool(lib, hint)
        PROVE  TypedInv'
    <3>1. InstanceId(design, lib, hint) \in ComponentIds \ IdsOf(design.components)
      BY <2>2, InstanceIdFacts
    <3>2. Extends(design.buses, ToolBuses(design, lib))
      BY <2>2, BusesExtend
    <3>3. Valid(AddWithConnections(design, lib, hint))
      BY <2>1, <2>2, <3>1, <3>2, ToolAdds, PlacedValid
    <3>4. Edit(AddWithConnections(design, lib, hint)) /\ astray' \subseteq ComponentIds
      BY <2>1, <2>4 DEF AddComponentTool, Note
    <3>5. QED
      BY <2>3, <3>3, <3>4
  <2>5. ASSUME NEW lib \in Libraries, AddComponentStudio(lib) PROVE TypedInv'
    <3>1. InstanceId(design, lib, None) \in ComponentIds \ IdsOf(design.components)
      BY <2>2, InstanceIdFacts
    <3>2. Extends(design.buses, UiBuses(design, lib, shown))
      BY <2>2, BusesExtend
    <3>3. Valid(AddComponentUi(design, lib, shown))
      BY <2>1, <2>2, <3>1, <3>2, StudioAdds, PlacedValid
    <3>4. Edit(AddComponentUi(design, lib, shown)) /\ astray' \subseteq ComponentIds
      BY <2>1, <2>5 DEF AddComponentStudio, Note
    <3>5. QED
      BY <2>3, <3>3, <3>4
  <2>6. ASSUME NEW id \in IdsOf(design.components), RemoveComponent(id) PROVE TypedInv'
    <3> DEFINE S == {e \in ToSet(design.components) : e.id = id}
               T == {c \in ToSet(design.connections) : c.owner = id}
               d == [design EXCEPT !.components = Without(@, S), !.connections = Without(@, T)]
    <3>1. Edit(d) /\ astray' \subseteq ComponentIds
      BY <2>1, <2>6 DEF RemoveComponent, Note
    <3> HIDE DEF S, T
    <3>2. Valid(d)
      BY <2>1, RemovedValid
    <3> HIDE DEF d
    <3>3. QED
      BY <2>3, <3>1, <3>2
  <2>7. ASSUME NEW owner \in Hints \cup IdsOf(design.components), NEW pick \in Picks,
               NEW t \in ToolTargets(pick[2]), SetConnection(owner, pick[1], t)
        PROVE  TypedInv'
    <3> DEFINE c == [owner |-> owner, role |-> pick[1], target |-> t]
               I == {k \in 1 .. Len(design.connections) :
                        design.connections[k].owner = owner /\ design.connections[k].role = pick[1]}
               i == FirstOf(I)
    <3>1. t \in Target
      BY <2>1, PickAssumption, ToolTargetsTyped
    <3>2. owner \in ComponentIds
      BY <2>1, IdsTyped DEF ComponentIds
    <3>3. c \in Connection
      BY <3>1, <3>2 DEF Connection
    <3>4. \/ i # 0 /\ Edit(Retarget(design, i, t)) /\ astray' = astray
          \/ Edit([design EXCEPT !.connections = Append(@, c)]) /\ astray' = astray \cup {owner}
      BY <2>7 DEF SetConnection, Note, SelectInSeq, FirstOf
    <3>5. i = 0 \/ i \in DOMAIN design.connections
      <4>1. I \in SUBSET (Nat \ {0}) /\ I \in SUBSET DOMAIN design.connections
        BY <2>2
      <4> HIDE DEF I
      <4>2. QED
        BY <4>1, FirstOfFacts
    <3> HIDE DEF c, i
    <3>6. CASE i # 0 /\ Edit(Retarget(design, i, t)) /\ astray' = astray
      <4> DEFINE conns == [design.connections EXCEPT ![i].target = t]
      <4>1. /\ Retarget(design, i, t) = [design EXCEPT !.connections = conns]
            /\ conns \in Seq(Connection)
        BY <2>1, <3>1, <3>5, <3>6, RetargetFacts
      <4> HIDE DEF conns
      <4>2. Valid(Retarget(design, i, t))
        BY <2>1, <4>1, RewiredValid
      <4>3. QED
        BY <2>1, <2>3, <3>6, <4>2
    <3>7. CASE Edit([design EXCEPT !.connections = Append(@, c)]) /\ astray' = astray \cup {owner}
      <4>1. Append(design.connections, c) \in Seq(Connection)
        BY <2>2, <3>3
      <4>2. Valid([design EXCEPT !.connections = Append(@, c)])
        BY <2>1, <4>1, RewiredValid
      <4>3. QED
        BY <2>1, <2>3, <3>2, <3>7, <4>2
    <3>8. QED
      BY <3>4, <3>6, <3>7
  <2>8. ASSUME NEW i \in DOMAIN design.connections, NEW pick \in Picks,
               NEW t \in FormTargets(pick[2], design.connections[i].owner),
               UpdateConnectionTarget(i, t)
        PROVE  TypedInv'
    <3>1. t \in Target
      BY <2>1, PickAssumption, FormTargetsTyped
    <3>2. Retarget(design, i, t)
            = [design EXCEPT !.connections = [design.connections EXCEPT ![i].target = t]]
          /\ [design.connections EXCEPT ![i].target = t] \in Seq(Connection)
      BY <2>1, <3>1, RetargetFacts
    <3>3. Valid(Retarget(design, i, t))
      <4> DEFINE r == [design.connections EXCEPT ![i].target = t]
      <4>1. Retarget(design, i, t) = [design EXCEPT !.connections = r] /\ r \in Seq(Connection)
        BY <3>2
      <4> HIDE DEF r
      <4>2. QED
        BY <2>1, <4>1, RewiredValid
    <3>4. Edit(Retarget(design, i, t)) /\ astray' \subseteq ComponentIds
      BY <2>1, <2>8 DEF UpdateConnectionTarget, Note
    <3>5. QED
      BY <2>3, <3>3, <3>4
  <2>9. ASSUME NEW lib \in Libraries, NEW type \in NeededBusTypes(lib), AddBus(type) PROVE TypedInv'
    <3> DEFINE id == NextBusIdUi(design, type)
    <3>1. type \in BusTypes
      BY NeededFacts
    <3>2. id \in AllBusIds \ IdsOf(design.buses)
      <4>1. id = FreeId(design.buses, type, 0, UiSeparator)
        BY DEF NextBusIdUi, FreeId, Fresh, UiSeparator
      <4>2. 0 \in Nat
        OBVIOUS
      <4> HIDE DEF id
      <4>3. QED
        BY <2>2, <3>1, <4>1, <4>2, SeparatorFacts, FreeIdFacts
    <3>3. Edit([design EXCEPT !.buses = Append(@, NewBus(id, type, shown))])
          /\ astray' \subseteq ComponentIds
      BY <2>1, <2>9 DEF AddBus, Note
    <3> HIDE DEF id
    <3>4. Valid([design EXCEPT !.buses = Append(@, NewBus(id, type, shown))])
      BY <2>1, <3>1, <3>2, BusAddedValid
    <3>5. QED
      BY <2>3, <3>3, <3>4
  <2>10. ASSUME NEW lib \in Libraries, NEW type \in NeededBusTypes(lib), NEW id \in BusIds,
                AddBusTool(id, type)
         PROVE  TypedInv'
    <3>1. type \in BusTypes
      BY NeededFacts
    <3>2. /\ id \in AllBusIds \ IdsOf(design.buses)
          /\ Edit([design EXCEPT !.buses = Append(@, NewBus(id, type, design.board))])
          /\ astray' \subseteq ComponentIds
      BY <2>1, <2>10 DEF AddBusTool, Note, AllBusIds
    <3>3. Valid([design EXCEPT !.buses = Append(@, NewBus(id, type, design.board))])
      BY <2>1, <3>1, <3>2, BusAddedValid
    <3>4. QED
      BY <2>3, <3>2, <3>3
  <2>11. ASSUME NEW id \in IdsOf(design.buses), UpdateBus(id) PROVE TypedInv'
    <3>1. /\ Edit([design EXCEPT !.buses = WithoutPins(design.buses, id)])
          /\ astray' \subseteq ComponentIds
      BY <2>1, <2>11 DEF UpdateBus, Note, WithoutPins
    <3>2. QED
      BY <2>1, <2>3, <3>1, PatchedValid
  <2>12. ASSUME NEW id \in IdsOf(design.buses), RemoveBus(id) PROVE TypedInv'
    <3> DEFINE S == {b \in ToSet(design.buses) : b.id = id}
               d == [design EXCEPT !.buses = Without(@, S)]
    <3>1. Edit(d) /\ astray' \subseteq ComponentIds
      BY <2>1, <2>12 DEF RemoveBus, Note
    <3> HIDE DEF S
    <3>2. Valid(d)
      BY <2>1, RemovedValid
    <3> HIDE DEF d
    <3>3. QED
      BY <2>3, <3>1, <3>2
  <2>13. ASSUME NEW id \in IdsOf(design.buses), NEW new \in BusIds, RenameBus(id, new)
         PROVE  TypedInv'
    <3>1. /\ new \in AllBusIds \ IdsOf(design.buses)
          /\ Edit(Renamed(design, id, new))
          /\ astray' \subseteq ComponentIds
      BY <2>1, <2>13 DEF RenameBus, Note, AllBusIds
    <3>2. QED
      BY <2>1, <2>3, <3>1, RenamedValid
  <2>14. ASSUME NEW b \in Boards, SetBoard(b) PROVE TypedInv'
    <3>1. Edit([design EXCEPT !.board = b]) /\ astray' \subseteq ComponentIds
      BY <2>1, <2>14 DEF SetBoard, Note
    <3>2. Valid([design EXCEPT !.board = b])
      BY <2>1, ValidFields DEF Valid, Document
    <3>3. QED
      BY <2>3, <3>1, <3>2
  <2>15. CASE BoardArrives
    <3>1. design' = design /\ shown' \in Boards /\ astray' = astray
      BY <2>15 DEF BoardArrives
    <3>2. QED
      BY <2>1, <3>1, TypedInvNext
  <2>16. CASE SolvePins
    <3> DEFINE conns == [i \in DOMAIN design.connections |->
                 [design.connections[i] EXCEPT !.target = SolvedTarget(design, design.connections[i])]]
               d == [design EXCEPT !.connections = conns]
    <3>1. Edit(d) /\ astray' \subseteq ComponentIds
      BY <2>1, <2>16 DEF SolvePins, Note
    <3>2. conns \in Seq(Connection)
      BY <2>1, SolvedAllFacts DEF SolvedAll
    <3> HIDE DEF conns
    <3>3. Valid(d)
      BY <2>1, <3>2, RewiredValid
    <3> HIDE DEF d
    <3>4. QED
      BY <2>3, <3>1, <3>3
  <2>17. CASE UNCHANGED vars
    BY <2>1, <2>17, TypedInvNext DEF vars
  <2>18. QED
    BY <2>4, <2>5, <2>6, <2>7, <2>8, <2>9, <2>10, <2>11, <2>12, <2>13, <2>14, <2>15, <2>16, <2>17
       DEF Next
<1>3. QED
  BY <1>1, <1>2, PTL DEF Spec

\* The document keeps the shape of the schema.
THEOREM DocumentTypeCorrect == Spec => []TypeOK
<1>1. TypedInv => TypeOK
  BY DEF TypedInv
<1>2. QED
  BY <1>1, TypedInvHolds, PTL

\* Ids stay unique for any library and any number of edits (UniqueIds): a new
\* id is free when it is handed out, and a hint, a typed id and a new name are
\* looked up before they are taken.
THEOREM IdsStayUnique == Spec => []UniqueIds
<1>1. TypedInv => UniqueIds
  BY DEF TypedInv
<1>2. QED
  BY <1>1, TypedInvHolds, PTL

-----------------------------------------------------------------------------
(* References.                                                             *)

Sound(d, L) == \A c \in ToSet(d.connections) : Fits(d, c) \/ c.target.at \in L

\* A connection fits as long as its owner and what it names stay.
LEMMA FitsStays ==
    ASSUME NEW d, Valid(d), NEW e, Valid(e), NEW c, Fits(d, c),
           \A x \in ToSet(d.components) :
              x.id \in {c.owner, c.target.at} => x \in ToSet(e.components),
           c.target.kind = "bus" => \A b \in ToSet(d.buses) :
              b.id = c.target.at => \E a \in ToSet(e.buses) : a.id = b.id /\ a.type = b.type
    PROVE  Fits(e, c)
<1>1. CASE c.target.kind \in {"rail", "gpio"} \/ c.target.at = None
  BY <1>1 DEF Fits
<1>2. CASE /\ c.target.kind = "bus"
           /\ \E b \in ToSet(d.buses) :
                 b.id = c.target.at /\ b.type = BusTypeOf(KindOfRole(d, c))
  <2>1. PICK b \in ToSet(d.buses) : b.id = c.target.at /\ b.type = BusTypeOf(KindOfRole(d, c))
    BY <1>2
  <2>2. /\ d.components \in Seq(Component) /\ e.components \in Seq(Component)
        /\ Distinct(d.components) /\ Distinct(e.components)
        /\ d.buses \in Seq(Bus)
    BY ValidFields
  <2>3. b.type \in BusTypes
    <3>1. b \in Bus
      BY <2>1, <2>2, ToSetFacts
    <3>2. QED
      BY <3>1 DEF Bus
  <2>4. c.owner \in IdsOf(d.components)
    <3>1. b.type # None
      BY <2>3, KindFacts
    <3>2. KindOfRole(d, c) # None
      BY <2>1, <3>1, KindFacts
    <3>3. QED
      BY <3>2 DEF KindOfRole
  <2>5. PICK x \in ToSet(d.components) : x.id = c.owner
    BY <2>4 DEF IdsOf
  <2>6. x \in ToSet(e.components)
    BY <2>5
  <2>7. KindOfRole(d, c) = PinKindIn(x.lib, c.role)
    BY <2>2, <2>5, KindOfRoleFacts
  <2>8. KindOfRole(e, c) = PinKindIn(x.lib, c.role)
    BY <2>2, <2>5, <2>6, KindOfRoleFacts
  <2>9. PICK a \in ToSet(e.buses) : a.id = b.id /\ a.type = b.type
    BY <1>2, <2>1
  <2>10. QED
    BY <1>2, <2>1, <2>7, <2>8, <2>9 DEF Fits
<1>3. CASE /\ c.target.kind = "expander_pin"
           /\ \E x \in ToSet(d.components) : x.id = c.target.at /\ x.lib \in ExpanderLibs
  BY <1>3 DEF Fits
<1>4. CASE /\ c.target.kind = "component"
           /\ \E x \in ToSet(d.components) : x.id = c.target.at
  BY <1>4 DEF Fits
<1>5. QED
  BY <1>1, <1>2, <1>3, <1>4 DEF Fits

\* The buses of e are those of d or replace them, id by id.
LEMMA RebusedFits ==
    ASSUME NEW d, Valid(d), NEW e, Valid(e), e.components = d.components,
           \A k \in 1 .. Len(d.buses) : \E j \in 1 .. Len(e.buses) :
              e.buses[j].id = d.buses[k].id /\ e.buses[j].type = d.buses[k].type,
           NEW c, Fits(d, c)
    PROVE  Fits(e, c)
<1>1. d.buses \in Seq(Bus) /\ e.buses \in Seq(Bus)
  BY ValidFields
<1>2. \A b \in ToSet(d.buses) : \E a \in ToSet(e.buses) : a.id = b.id /\ a.type = b.type
  <2>1. \A b \in ToSet(d.buses) : \E k \in 1 .. Len(d.buses) : b = d.buses[k]
    BY <1>1, ToSetFacts
  <2>2. \A j \in 1 .. Len(e.buses) : e.buses[j] \in ToSet(e.buses)
    BY <1>1, ToSetFacts
  <2> SUFFICES ASSUME NEW b \in ToSet(d.buses)
               PROVE  \E a \in ToSet(e.buses) : a.id = b.id /\ a.type = b.type
    OBVIOUS
  <2>3. PICK k \in 1 .. Len(d.buses) : b = d.buses[k]
    BY <2>1
  <2>4. PICK j \in 1 .. Len(e.buses) :
           e.buses[j].id = d.buses[k].id /\ e.buses[j].type = d.buses[k].type
    OBVIOUS
  <2>5. QED
    BY <2>2, <2>3, <2>4
<1>3. QED
  BY <1>2, FitsStays

LEMMA RewiredFits ==
    ASSUME NEW d, Valid(d), NEW conns \in Seq(Connection), NEW c, Fits(d, c)
    PROVE  Fits([d EXCEPT !.connections = conns], c)
<1> DEFINE e == [d EXCEPT !.connections = conns]
<1>1. Valid(e) /\ e.components = d.components /\ e.buses = d.buses
  BY RewiredValid, ValidFields
<1> HIDE DEF e
<1>2. Fits(e, c)
  BY <1>1, RebusedFits
<1>3. QED
  BY <1>2 DEF e

LEMMA PlacedSound ==
    ASSUME NEW d, Valid(d), NEW L, Sound(d, L), NEW lib \in Libraries,
           NEW id \in ComponentIds \ IdsOf(d.components),
           NEW buses, Extends(d.buses, buses), NEW b
    PROVE  Sound(Placed(d, id, lib, buses, b), L)
<1> DEFINE p   == Placed(d, id, lib, buses, b)
           x   == [id |-> id, lib |-> lib]
           new == Seeded(id, lib, b, buses)
<1>1. Valid(p)
  BY PlacedValid
<1>2. /\ p.components = Append(d.components, x) /\ p.buses = buses
      /\ p.connections = d.connections \o new
  BY DEF Placed
<1>3. /\ d.components \in Seq(Component) /\ d.buses \in Seq(Bus)
      /\ d.connections \in Seq(Connection) /\ buses \in Seq(Bus) /\ x \in Component
  BY ValidFields DEF Extends, Component
<1>4. /\ new \in Seq(Connection) /\ DOMAIN LibPins[lib] = 1 .. Len(new)
      /\ \A k \in 1 .. Len(new) :
            /\ new[k].owner = id /\ new[k].role = LibPins[lib][k].role
            /\ new[k].target = DefaultTarget(LibPins[lib][k].kind, lib, RailsOf(b), buses)
  BY <1>3, SeededFacts
<1>5. x.id = id /\ x.lib = lib
  OBVIOUS
<1> HIDE DEF p, x, new
<1>6. x \in ToSet(p.components) /\ ToSet(d.components) \in SUBSET ToSet(p.components)
  <2>1. /\ Len(p.components) = Len(d.components) + 1 /\ Len(d.components) \in Nat
        /\ p.components[Len(d.components) + 1] = x
        /\ \A k \in 1 .. Len(d.components) : p.components[k] = d.components[k]
        /\ p.components \in Seq(Component)
    BY <1>2, <1>3
  <2>2. \A k \in 1 .. Len(p.components) : p.components[k] \in ToSet(p.components)
    BY <2>1, ToSetFacts
  <2>3. x \in ToSet(p.components)
    BY <2>1, <2>2
  <2>4. \A y \in ToSet(d.components) : \E k \in 1 .. Len(d.components) : y = d.components[k]
    BY <1>3, ToSetFacts
  <2>5. QED
    BY <2>1, <2>2, <2>3, <2>4
<1>7. \A a \in ToSet(d.buses) : a \in ToSet(p.buses)
  <2>1. \A k \in 1 .. Len(d.buses) : d.buses[k] \in ToSet(buses)
    <3>1. \A j \in 1 .. Len(buses) : buses[j] \in ToSet(buses)
      BY <1>3, ToSetFacts
    <3>2. QED
      BY <3>1 DEF Extends
  <2>2. \A a \in ToSet(d.buses) : \E k \in 1 .. Len(d.buses) : a = d.buses[k]
    BY <1>3, ToSetFacts
  <2>3. QED
    BY <1>2, <2>1, <2>2
<1>8. ASSUME NEW c \in ToSet(d.connections) PROVE Fits(p, c) \/ c.target.at \in L
  <2>1. CASE c.target.at \in L
    BY <2>1
  <2>2. CASE Fits(d, c)
    BY <1>1, <1>6, <1>7, <2>2, FitsStays
  <2>3. QED
    BY <2>1, <2>2 DEF Sound
<1>9. ASSUME NEW k \in 1 .. Len(new) PROVE Fits(p, new[k])
  <2> DEFINE kind == LibPins[lib][k].kind
             t    == DefaultTarget(kind, lib, RailsOf(b), buses)
  <2>1. KindOfRole(p, new[k]) = kind
    <3>1. p.components \in Seq(Component) /\ Distinct(p.components)
      BY <1>1, ValidFields
    <3>2. \A c : x.id = c.owner => KindOfRole(p, c) = PinKindIn(x.lib, c.role)
      BY <1>6, <3>1, KindOfRoleFacts
    <3>3. KindOfRole(p, new[k]) = PinKindIn(lib, LibPins[lib][k].role)
      BY <1>4, <1>5, <3>2
    <3>4. QED
      BY <1>4, <3>3, PinKindFacts
  <2>2. /\ t.kind \in {"rail", "gpio", "bus"}
        /\ t.kind = "bus" =>
              \/ t.at = None
              \/ \E j \in 1 .. Len(buses) : t.at = buses[j].id /\ buses[j].type = BusTypeOf(kind)
    BY <1>3, DefaultTargetFacts
  <2>3. \A j \in 1 .. Len(buses) : buses[j] \in ToSet(p.buses)
    BY <1>2, <1>3, ToSetFacts
  <2>4. new[k].target = t
    BY <1>4
  <2> HIDE DEF t, kind
  <2>5. QED
    BY <2>1, <2>2, <2>3, <2>4 DEF Fits
<1>10. ASSUME NEW c \in ToSet(p.connections)
       PROVE  c \in ToSet(d.connections) \/ \E k \in 1 .. Len(new) : c = new[k]
  <2>1. p.connections \in Seq(Connection)
    BY <1>1, ValidFields
  <2>2. PICK j \in 1 .. Len(p.connections) : c = p.connections[j]
    BY <1>10, <2>1, ToSetFacts
  <2>3. \/ j \in 1 .. Len(d.connections) /\ p.connections[j] = d.connections[j]
        \/ \E k \in 1 .. Len(new) : p.connections[j] = new[k]
    <3>1. new \in Seq(Connection) /\ d.connections \in Seq(Connection)
      BY <1>3, <1>4
    <3> DEFINE s == d.connections
    <3> HIDE DEF s
    <3>2. \A i \in 1 .. Len(s \o new) :
             \/ i \in 1 .. Len(s) /\ (s \o new)[i] = s[i]
             \/ i - Len(s) \in 1 .. Len(new) /\ (s \o new)[i] = new[i - Len(s)]
      BY <3>1 DEF s
    <3>3. QED
      BY <1>2, <3>2 DEF s
  <2>4. QED
    BY <1>3, <2>2, <2>3, ToSetFacts
<1>11. Sound(p, L)
  BY <1>8, <1>9, <1>10 DEF Sound
<1>12. QED
  BY <1>11 DEF p

\* e is d without what is called id, and L2 has L and the id if something refers to it.
Lacks(d, L, id, e, L2) ==
    /\ L \subseteq L2
    /\ (\E c \in ToSet(d.connections) : c.target.at = id) => id \in L2
    /\ \A x \in ToSet(d.components) : x.id # id => x \in ToSet(e.components)
    /\ \A b \in ToSet(d.buses) : b.id # id => b \in ToSet(e.buses)
    /\ \A c \in ToSet(e.connections) :
          /\ c \in ToSet(d.connections)
          /\ c.owner # id \/ ToSet(d.components) \subseteq ToSet(e.components)

\* The connections that name something that is removed are noted.
LEMMA RemovedSound ==
    ASSUME NEW d, Valid(d), NEW L, Sound(d, L), NEW e, Valid(e), NEW id, NEW L2,
           Lacks(d, L, id, e, L2)
    PROVE  Sound(e, L2)
<1> USE DEF Lacks
<1> SUFFICES ASSUME NEW c \in ToSet(e.connections) PROVE Fits(e, c) \/ c.target.at \in L2
  BY DEF Sound
<1>1. c \in ToSet(d.connections)
  OBVIOUS
<1>2. CASE c.target.at \in L \/ c.target.at = id
  BY <1>1, <1>2
<1>3. CASE Fits(d, c) /\ c.target.at # id
  <2>1. \A x \in ToSet(d.components) : x.id \in {c.owner, c.target.at} => x \in ToSet(e.components)
    BY <1>3
  <2>2. \A b \in ToSet(d.buses) :
           b.id = c.target.at => \E a \in ToSet(e.buses) : a.id = b.id /\ a.type = b.type
    BY <1>3
  <2>3. QED
    BY <1>3, <2>1, <2>2, FitsStays
<1>4. QED
  BY <1>1, <1>2, <1>3 DEF Sound

LEMMA RewiredSound ==
    ASSUME NEW d, Valid(d), NEW L, Sound(d, L), NEW conns \in Seq(Connection), NEW L2,
           L \subseteq L2,
           \A c \in ToSet(conns) :
              c \in ToSet(d.connections) \/ Fits(d, c) \/ c.target.at \in L2
    PROVE  Sound([d EXCEPT !.connections = conns], L2)
<1> DEFINE e == [d EXCEPT !.connections = conns]
<1>1. e.connections = conns
  BY ValidFields
<1>2. \A c : Fits(d, c) => Fits(e, c)
  BY RewiredFits
<1> HIDE DEF e
<1>3. Sound(e, L2)
  BY <1>1, <1>2 DEF Sound
<1>4. QED
  BY <1>3 DEF e

\* Other buses for those there are, of the same ids and types, and more.
LEMMA RebusedSound ==
    ASSUME NEW d, Valid(d), NEW L, Sound(d, L), NEW buses,
           Valid([d EXCEPT !.buses = buses]),
           \A k \in 1 .. Len(d.buses) : \E j \in 1 .. Len(buses) :
              buses[j].id = d.buses[k].id /\ buses[j].type = d.buses[k].type
    PROVE  Sound([d EXCEPT !.buses = buses], L)
<1> DEFINE e == [d EXCEPT !.buses = buses]
<1>1. /\ Valid(e) /\ e.connections = d.connections /\ e.components = d.components
      /\ e.buses = buses
  BY ValidFields
<1> HIDE DEF e
<1>2. \A c : Fits(d, c) => Fits(e, c)
  BY <1>1, RebusedFits
<1>3. Sound(e, L)
  BY <1>1, <1>2 DEF Sound
<1>4. QED
  BY <1>3 DEF e

\* A bus that was in use under its old name is in use under its new one.
LEMMA RenamedSound ==
    ASSUME NEW d, Valid(d), NEW L, Sound(d, L), NEW old \in IdsOf(d.buses),
           NEW new \in AllBusIds \ IdsOf(d.buses)
    PROVE  Sound(Renamed(d, old, new), L \cup (IF old \in L THEN {new} ELSE {}))
<1> DEFINE e == Renamed(d, old, new)
           M == L \cup (IF old \in L THEN {new} ELSE {})
<1>1. Valid(e)
  BY RenamedValid
<1>2. new \in AllBusIds
  OBVIOUS
<1>3. /\ e.components = d.components /\ e.buses = WithId(d.buses, old, new)
      /\ e.connections = AllFollowed(d.connections, old, new)
  BY <1>2, FollowedFacts
<1>4. /\ d.components \in Seq(Component) /\ Distinct(d.components) /\ d.buses \in Seq(Bus)
      /\ d.connections \in Seq(Connection) /\ e.buses \in Seq(Bus)
      /\ e.connections \in Seq(Connection)
  BY <1>1, ValidFields
<1>5. /\ Len(e.buses) = Len(d.buses)
      /\ \A k \in 1 .. Len(d.buses) :
            /\ e.buses[k].id = IF d.buses[k].id = old THEN new ELSE d.buses[k].id
            /\ e.buses[k].type = d.buses[k].type
  BY <1>2, <1>3, <1>4, PatchFacts
<1>6. /\ Len(e.connections) = Len(d.connections)
      /\ \A k \in 1 .. Len(d.connections) :
            e.connections[k] = Followed(d.connections[k], old, new)
  BY <1>2, <1>3, FollowedFacts
<1>7. old # None
  <2>1. old \in AllBusIds
    BY IdsTyped
  <2>2. QED
    BY <2>1, LibraryAssumption
<1> HIDE DEF e
<1>8. \A b \in ToSet(d.buses) : \E a \in ToSet(e.buses) :
         a.type = b.type /\ a.id = IF b.id = old THEN new ELSE b.id
  <2> SUFFICES ASSUME NEW b \in ToSet(d.buses)
               PROVE  \E a \in ToSet(e.buses) :
                         a.type = b.type /\ a.id = IF b.id = old THEN new ELSE b.id
    OBVIOUS
  <2>1. PICK k \in 1 .. Len(d.buses) : b = d.buses[k]
    BY <1>4, ToSetFacts
  <2>2. e.buses[k] \in ToSet(e.buses)
    BY <1>4, <1>5, ToSetFacts
  <2>3. QED
    BY <1>5, <2>1, <2>2
<1>9. ASSUME NEW f \in ToSet(e.connections) PROVE Fits(e, f) \/ f.target.at \in M
  <2>1. PICK k \in 1 .. Len(d.connections) : f = Followed(d.connections[k], old, new)
    <3>1. PICK k \in 1 .. Len(e.connections) : f = e.connections[k]
      BY <1>4, ToSetFacts
    <3>2. QED
      BY <1>6, <3>1
  <2> DEFINE c == d.connections[k]
  <2>2. c \in Connection /\ c \in ToSet(d.connections)
    BY <1>4, ToSetFacts
  <2>3. f = Followed(c, old, new)
    BY <2>1
  <2> HIDE DEF c
  <2>4. Fits(d, c) \/ c.target.at \in L
    BY <2>2 DEF Sound
  <2>5. CASE c.target.kind = "bus" /\ c.target.at = old
    <3>1. f.owner = c.owner /\ f.role = c.role /\ f.target.kind = "bus" /\ f.target.at = new
      BY <1>2, <2>2, <2>3, <2>5, FollowedConnection
    <3>2. CASE c.target.at \in L
      BY <2>5, <3>1, <3>2
    <3>3. CASE Fits(d, c)
      <4>1. PICK b \in ToSet(d.buses) : b.id = old /\ b.type = BusTypeOf(KindOfRole(d, c))
        BY <1>7, <2>5, <3>3 DEF Fits
      <4>2. KindOfRole(e, f) = KindOfRole(d, c)
        BY <1>3, <3>1 DEF KindOfRole
      <4>3. \E a \in ToSet(e.buses) : a.id = new /\ a.type = b.type
        BY <1>8, <4>1
      <4>4. QED
        BY <3>1, <4>1, <4>2, <4>3 DEF Fits
    <3>4. QED
      BY <2>4, <3>2, <3>3
  <2>6. CASE ~(c.target.kind = "bus" /\ c.target.at = old)
    <3>1. f = c
      BY <2>3, <2>6 DEF Followed
    <3>2. CASE c.target.at \in L
      BY <3>1, <3>2
    <3>3. CASE Fits(d, c)
      <4>1. c.target.kind = "bus" => \A b \in ToSet(d.buses) :
               b.id = c.target.at => \E a \in ToSet(e.buses) : a.id = b.id /\ a.type = b.type
        BY <1>8, <2>6
      <4>2. \A x \in ToSet(d.components) :
               x.id \in {c.owner, c.target.at} => x \in ToSet(e.components)
        BY <1>3
      <4>3. QED
        BY <1>1, <3>1, <3>3, <4>1, <4>2, FitsStays
    <3>4. QED
      BY <2>4, <3>2, <3>3
  <2>7. QED
    BY <2>5, <2>6
<1>10. Sound(e, M)
  BY <1>9 DEF Sound
<1>11. QED
  BY <1>10 DEF e

LEMMA BusAddedSound ==
    ASSUME NEW d, Valid(d), NEW L, Sound(d, L), NEW x,
           Valid([d EXCEPT !.buses = Append(@, x)])
    PROVE  Sound([d EXCEPT !.buses = Append(@, x)], L)
<1> DEFINE more == Append(d.buses, x)
<1>1. d.buses \in Seq(Bus)
  BY ValidFields
<1>2. /\ Len(d.buses) \in Nat /\ Len(more) = Len(d.buses) + 1
      /\ \A k \in 1 .. Len(d.buses) : more[k] = d.buses[k]
  BY <1>1
<1>3. [d EXCEPT !.buses = Append(@, x)] = [d EXCEPT !.buses = more]
  BY ValidFields
<1> HIDE DEF more
<1>4. \A k \in 1 .. Len(d.buses) : k \in 1 .. Len(more)
  BY <1>2
<1>5. QED
  BY <1>2, <1>3, <1>4, RebusedSound

\* What the connections of a document with a changed or a new connection are.
LEMMA RetargetedSound ==
    ASSUME NEW d, Valid(d), NEW L, Sound(d, L), NEW i \in DOMAIN d.connections, NEW t \in Target,
           NEW L2, L \subseteq L2,
           Fits(d, [d.connections[i] EXCEPT !.target = t]) \/ t.at \in L2
    PROVE  Sound(Retarget(d, i, t), L2)
<1> DEFINE s     == d.connections
           conns == [d.connections EXCEPT ![i].target = t]
           r     == [s[i] EXCEPT !.target = t]
<1>1. /\ Retarget(d, i, t) = [d EXCEPT !.connections = conns]
      /\ conns \in Seq(Connection) /\ Len(conns) = Len(s)
      /\ conns[i] = r
      /\ \A k \in 1 .. Len(conns) : k # i => conns[k] = s[k]
  BY RetargetFacts
<1>2. s \in Seq(Connection)
  BY ValidFields
<1>3. r.target = t
  <2>1. s[i] \in Connection
    BY <1>2
  <2>2. QED
    BY <2>1 DEF Connection
<1> HIDE DEF conns, r
<1>4. ASSUME NEW c \in ToSet(conns)
      PROVE  c \in ToSet(d.connections) \/ Fits(d, c) \/ c.target.at \in L2
  <2>1. PICK k \in 1 .. Len(conns) : c = conns[k]
    BY <1>1, <1>4, ToSetFacts
  <2>2. CASE k = i
    <3>1. c = r
      BY <1>1, <2>1, <2>2
    <3>2. QED
      BY <1>3, <3>1 DEF r
  <2>3. CASE k # i
    BY <1>1, <1>2, <2>1, <2>3, ToSetFacts
  <2>4. QED
    BY <2>2, <2>3
<1>5. QED
  BY <1>1, <1>4, RewiredSound

LEMMA ConnectedSound ==
    ASSUME NEW d, Valid(d), NEW L, Sound(d, L), NEW c \in Connection, NEW L2, L \subseteq L2,
           Fits(d, c) \/ c.target.at \in L2
    PROVE  Sound([d EXCEPT !.connections = Append(@, c)], L2)
<1> DEFINE s     == d.connections
           conns == Append(s, c)
<1>1. s \in Seq(Connection)
  BY ValidFields
<1>2. /\ conns \in Seq(Connection) /\ Len(conns) = Len(s) + 1 /\ Len(s) \in Nat
      /\ \A k \in 1 .. Len(s) : conns[k] = s[k]
      /\ conns[Len(s) + 1] = c
  <2> HIDE DEF s
  <2>1. QED
    BY <1>1
<1>3. [d EXCEPT !.connections = Append(@, c)] = [d EXCEPT !.connections = conns]
  BY ValidFields
<1> HIDE DEF conns
<1>4. ASSUME NEW x \in ToSet(conns)
      PROVE  x \in ToSet(d.connections) \/ Fits(d, x) \/ x.target.at \in L2
  <2>1. PICK k \in 1 .. Len(conns) : x = conns[k]
    BY <1>2, <1>4, ToSetFacts
  <2>2. CASE k = Len(s) + 1
    BY <1>2, <2>1, <2>2
  <2>3. CASE k # Len(s) + 1
    <3>1. k \in 1 .. Len(s)
      BY <1>2, <2>3
    <3>2. QED
      BY <1>1, <1>2, <2>1, <3>1, ToSetFacts
  <2>4. QED
    BY <2>2, <2>3
<1>5. QED
  BY <1>2, <1>3, <1>4, RewiredSound

\* Every edit keeps references sound.
LEMMA SoundNext ==
    ASSUME TypedInv, Sound(design, loose), [Next]_vars, TypedInv'
    PROVE  Sound(design', loose')
<1>1. Valid(design) /\ shown \in Boards \cup {None} /\ astray \subseteq ComponentIds
  BY TypedInvMeans
<1>2. /\ design.components \in Seq(Component) /\ design.buses \in Seq(Bus)
      /\ design.connections \in Seq(Connection)
      /\ Distinct(design.components) /\ Distinct(design.buses) /\ design \in Document
  BY <1>1, ValidFields DEF Valid
<1>3. Valid(design')
  BY DEF TypedInv, TypeOK, UniqueIds, Valid, Document
<1>4. ASSUME NEW lib \in Libraries, NEW hint \in Hints \cup {None}, AddComponentTool(lib, hint)
      PROVE  Sound(design', loose')
  <2>1. InstanceId(design, lib, hint) \in ComponentIds \ IdsOf(design.components)
    BY <1>2, InstanceIdFacts
  <2>2. Extends(design.buses, ToolBuses(design, lib))
    BY <1>2, BusesExtend
  <2>3. design' = AddWithConnections(design, lib, hint) /\ loose' = loose
    BY <1>4 DEF AddComponentTool, Edit, Note
  <2>4. QED
    BY <1>1, <1>2, <2>1, <2>2, <2>3, ToolAdds, PlacedSound
<1>5. ASSUME NEW lib \in Libraries, AddComponentStudio(lib) PROVE Sound(design', loose')
  <2>1. InstanceId(design, lib, None) \in ComponentIds \ IdsOf(design.components)
    BY <1>2, InstanceIdFacts
  <2>2. Extends(design.buses, UiBuses(design, lib, shown))
    BY <1>2, BusesExtend
  <2>3. design' = AddComponentUi(design, lib, shown) /\ loose' = loose
    BY <1>5 DEF AddComponentStudio, Edit, Note
  <2>4. QED
    BY <1>1, <1>2, <2>1, <2>2, <2>3, StudioAdds, PlacedSound
<1>6. ASSUME NEW id \in IdsOf(design.components), RemoveComponent(id) PROVE Sound(design', loose')
  <2> DEFINE S == {e \in ToSet(design.components) : e.id = id}
             T == {c \in ToSet(design.connections) : c.owner = id}
  <2>1. /\ design' = [design EXCEPT !.components = Without(@, S), !.connections = Without(@, T)]
        /\ loose' = loose \cup Orphaned(id)
    BY <1>6 DEF RemoveComponent, Edit, Note
  <2>2. /\ design'.components = Without(design.components, S)
        /\ design'.connections = Without(design.connections, T)
        /\ design'.buses = design.buses
    <3> HIDE DEF S, T
    <3>1. QED
      BY <1>1, <2>1, ValidFields
  <2>3. /\ ToSet(design'.components) = ToSet(design.components) \ S
        /\ ToSet(design'.connections) = ToSet(design.connections) \ T
    <3> HIDE DEF S, T
    <3>1. QED
      BY <1>2, <2>2, WithoutKeeps
  <2>4. loose \subseteq loose'
        /\ ((\E c \in ToSet(design.connections) : c.target.at = id) => id \in loose')
    BY <2>1 DEF Orphaned
  <2>5. \A x \in ToSet(design.components) : x.id # id => x \in ToSet(design'.components)
    BY <2>3
  <2>6. \A b \in ToSet(design.buses) : b.id # id => b \in ToSet(design'.buses)
    BY <2>2
  <2>7. \A c \in ToSet(design'.connections) :
           /\ c \in ToSet(design.connections)
           /\ c.owner # id \/ ToSet(design.components) \subseteq ToSet(design'.components)
    BY <2>3
  <2> HIDE DEF S, T
  <2>8. Valid(design') /\ Valid(design) /\ Sound(design, loose)
    BY <1>1, <1>3
  <2>9. Lacks(design, loose, id, design', loose')
    BY <2>4, <2>5, <2>6, <2>7 DEF Lacks
  <2>10. QED
    BY <2>8, <2>9, RemovedSound
<1>7. ASSUME NEW owner \in Hints \cup IdsOf(design.components), NEW pick \in Picks,
             NEW t \in ToolTargets(pick[2]), SetConnection(owner, pick[1], t)
      PROVE  Sound(design', loose')
  <2> DEFINE c == [owner |-> owner, role |-> pick[1], target |-> t]
             I == {k \in 1 .. Len(design.connections) :
                      design.connections[k].owner = owner /\ design.connections[k].role = pick[1]}
             i == FirstOf(I)
  <2>1. t \in Target
    BY <1>1, PickAssumption, ToolTargetsTyped
  <2>2. owner \in ComponentIds
    BY <1>1, IdsTyped DEF ComponentIds
  <2>3. c \in Connection /\ c.target = t
    BY <2>1, <2>2 DEF Connection
  <2>4. /\ loose' = loose \cup Misfit(c)
        /\ \/ i # 0 /\ design' = Retarget(design, i, t)
           \/ design' = [design EXCEPT !.connections = Append(@, c)]
    BY <1>7 DEF SetConnection, Note, Edit, SelectInSeq, FirstOf
  <2>5. loose \subseteq loose' /\ (Fits(design, c) \/ t.at \in loose')
    BY <2>3, <2>4 DEF Misfit
  <2>6. i = 0 \/ i \in I
    <3>1. I \in SUBSET (Nat \ {0})
      OBVIOUS
    <3> HIDE DEF I
    <3>2. QED
      BY <3>1, FirstOfFacts
  <2> HIDE DEF i
  <2>7. CASE i # 0 /\ design' = Retarget(design, i, t)
    <3>1. /\ i \in 1 .. Len(design.connections) /\ i \in DOMAIN design.connections
          /\ design.connections[i].owner = owner /\ design.connections[i].role = pick[1]
      BY <1>2, <2>6, <2>7
    <3>2. design.connections[i] \in Connection
      BY <1>2, <3>1
    <3>3. [design.connections[i] EXCEPT !.target = t] = c
      BY <3>1, <3>2 DEF Connection
    <3> HIDE DEF c
    <3>4. QED
      BY <1>1, <2>1, <2>5, <2>7, <3>1, <3>3, RetargetedSound
  <2>8. CASE design' = [design EXCEPT !.connections = Append(@, c)]
    <3> HIDE DEF c
    <3>1. Fits(design, c) \/ c.target.at \in loose'
      BY <2>3, <2>5
    <3>2. QED
      BY <1>1, <2>3, <2>5, <2>8, <3>1, ConnectedSound
  <2>9. QED
    BY <2>4, <2>7, <2>8
<1>8. ASSUME NEW i \in DOMAIN design.connections, NEW pick \in Picks,
             NEW t \in FormTargets(pick[2], design.connections[i].owner),
             UpdateConnectionTarget(i, t)
      PROVE  Sound(design', loose')
  <2>1. t \in Target
    BY <1>1, PickAssumption, FormTargetsTyped
  <2> DEFINE c == [design.connections[i] EXCEPT !.target = t]
  <2>2. design' = Retarget(design, i, t) /\ loose' = loose \cup Misfit(c)
    BY <1>8 DEF UpdateConnectionTarget, Edit, Note
  <2>3. design.connections[i] \in Connection
    BY <1>2
  <2>4. c.target = t
    BY <2>3 DEF Connection
  <2>5. loose \subseteq loose' /\ (Fits(design, c) \/ t.at \in loose')
    <3> HIDE DEF c
    <3>1. QED
      BY <2>2, <2>4 DEF Misfit
  <2>6. QED
    BY <1>1, <2>1, <2>2, <2>5, RetargetedSound
<1>9. ASSUME NEW type, AddBus(type) PROVE Sound(design', loose')
  <2> DEFINE x == NewBus(NextBusIdUi(design, type), type, shown)
  <2>1. design' = [design EXCEPT !.buses = Append(@, x)] /\ loose' = loose
    BY <1>9 DEF AddBus, Edit, Note
  <2>2. QED
    BY <1>1, <1>2, <1>3, <2>1, BusAddedSound DEF x
<1>10. ASSUME NEW type, NEW id, AddBusTool(id, type) PROVE Sound(design', loose')
  <2> DEFINE x == NewBus(id, type, design.board)
  <2>1. design' = [design EXCEPT !.buses = Append(@, x)] /\ loose' = loose
    BY <1>10 DEF AddBusTool, Edit, Note
  <2>2. QED
    BY <1>1, <1>2, <1>3, <2>1, BusAddedSound DEF x
<1>11. ASSUME NEW id \in IdsOf(design.buses), UpdateBus(id) PROVE Sound(design', loose')
  <2> DEFINE p == WithoutPins(design.buses, id)
  <2>1. design' = [design EXCEPT !.buses = p] /\ loose' = loose
    BY <1>11 DEF UpdateBus, Edit, Note, WithoutPins
  <2>2. /\ Len(p) = Len(design.buses)
        /\ \A k \in 1 .. Len(design.buses) :
              p[k].id = design.buses[k].id /\ p[k].type = design.buses[k].type
    BY <1>2, PinsFacts
  <2> HIDE DEF p
  <2>3. QED
    BY <1>1, <1>3, <2>1, <2>2, RebusedSound
<1>12. ASSUME NEW id \in IdsOf(design.buses), RemoveBus(id) PROVE Sound(design', loose')
  <2> DEFINE S == {b \in ToSet(design.buses) : b.id = id}
  <2>1. design' = [design EXCEPT !.buses = Without(@, S)] /\ loose' = loose \cup Orphaned(id)
    BY <1>12 DEF RemoveBus, Edit, Note
  <2>2. /\ design'.components = design.components
        /\ design'.connections = design.connections
        /\ design'.buses = Without(design.buses, S)
    <3> HIDE DEF S
    <3>1. QED
      BY <1>1, <2>1, ValidFields
  <2>3. ToSet(design'.buses) = ToSet(design.buses) \ S
    <3> HIDE DEF S
    <3>1. QED
      BY <1>2, <2>2, WithoutKeeps
  <2>4. loose \subseteq loose'
        /\ ((\E c \in ToSet(design.connections) : c.target.at = id) => id \in loose')
    BY <2>1 DEF Orphaned
  <2>5. \A b \in ToSet(design.buses) : b.id # id => b \in ToSet(design'.buses)
    BY <2>3
  <2> HIDE DEF S
  <2>6. Lacks(design, loose, id, design', loose')
    BY <2>2, <2>4, <2>5 DEF Lacks
  <2>7. Valid(design') /\ Valid(design) /\ Sound(design, loose)
    BY <1>1, <1>3
  <2>8. QED
    BY <2>6, <2>7, RemovedSound
<1>13. ASSUME NEW id \in IdsOf(design.buses), NEW new \in BusIds, RenameBus(id, new)
       PROVE  Sound(design', loose')
  <2>1. /\ new \in AllBusIds \ IdsOf(design.buses)
        /\ design' = Renamed(design, id, new)
        /\ loose' = loose \cup (IF id \in loose THEN {new} ELSE {})
    BY <1>13 DEF RenameBus, Note, Edit, AllBusIds
  <2>2. QED
    BY <1>1, <2>1, RenamedSound
<1>14. ASSUME NEW b \in Boards, SetBoard(b) PROVE Sound(design', loose')
  <2>1. design' = [design EXCEPT !.board = b] /\ loose' = loose
    BY <1>14 DEF SetBoard, Edit, Note
  <2>2. /\ design'.components = design.components /\ design'.buses = design.buses
        /\ design'.connections = design.connections
    BY <1>1, <2>1, ValidFields
  <2>3. \A c : Fits(design, c) => Fits(design', c)
    BY <1>1, <1>3, <2>2, RebusedFits
  <2>4. QED
    BY <2>1, <2>2, <2>3 DEF Sound
<1>15. CASE BoardArrives
  BY <1>15 DEF BoardArrives
<1>16. CASE SolvePins
  <2> DEFINE conns == SolvedAll(design)
  <2>1. design' = [design EXCEPT !.connections = conns] /\ loose' = loose
    BY <1>16 DEF SolvePins, Edit, Note, SolvedAll
  <2>2. /\ conns \in Seq(Connection) /\ Len(conns) = Len(design.connections)
        /\ \A k \in 1 .. Len(design.connections) :
              conns[k] = design.connections[k] \/ Fits(design, conns[k])
    BY <1>1, SolvedAllFacts
  <2> HIDE DEF conns
  <2>3. \A c \in ToSet(conns) : c \in ToSet(design.connections) \/ Fits(design, c)
    <3> SUFFICES ASSUME NEW c \in ToSet(conns)
                 PROVE  c \in ToSet(design.connections) \/ Fits(design, c)
      OBVIOUS
    <3>1. PICK k \in 1 .. Len(conns) : c = conns[k]
      BY <2>2, ToSetFacts
    <3>2. QED
      BY <1>2, <2>2, <3>1, ToSetFacts
  <2>4. QED
    BY <1>1, <2>1, <2>2, <2>3, RewiredSound
<1>17. CASE UNCHANGED vars
  BY <1>17 DEF vars
<1>18. QED
  BY <1>4, <1>5, <1>6, <1>7, <1>8, <1>9, <1>10, <1>11, <1>12, <1>13, <1>14, <1>15, <1>16, <1>17
     DEF Next

\* Whatever was edited in what order, a connection names something that its
\* pin can take, or an id that was removed under it or named wrongly by the one
\* who set it (ReferencesAreSound): no default, no answer of the solver, no
\* rename and no id that is used again makes it name something else.
THEOREM ReferencesStaySound == Spec => []ReferencesAreSound
<1>1. Init => Sound(design, loose)
  <2> SUFFICES ASSUME Init PROVE Sound(design, loose)
    OBVIOUS
  <2>1. design.connections = <<>>
    BY DEF Init
  <2>2. ToSet(design.connections) = {}
    BY <2>1 DEF ToSet
  <2>3. QED
    BY <2>2 DEF Sound
<1>2. TypedInv /\ TypedInv' /\ Sound(design, loose) /\ [Next]_vars => Sound(design', loose')
  BY SoundNext
<1>3. Sound(design, loose) <=> ReferencesAreSound
  BY DEF Sound, ReferencesAreSound
<1>4. TypedInv /\ TypedInv' /\ ReferencesAreSound /\ [Next]_vars => ReferencesAreSound'
  BY <1>2, <1>3 DEF Sound, ReferencesAreSound
<1>5. Init => ReferencesAreSound
  BY <1>1, <1>3
<1>6. QED
  BY <1>4, <1>5, TypedInvHolds, PTL DEF Spec

-----------------------------------------------------------------------------
(* Bindings: the bus that a connection is on, by its position.             *)

LEMMA BusOfFacts ==
    ASSUME NEW d, Valid(d), NEW c
    PROVE  /\ \/ BusOf(d, c) = 0
              \/ /\ c.target.kind = "bus" /\ BusOf(d, c) \in 1 .. Len(d.buses)
                 /\ d.buses[BusOf(d, c)].id = c.target.at
           /\ \A k \in 1 .. Len(d.buses) :
                 c.target.kind = "bus" /\ d.buses[k].id = c.target.at => BusOf(d, c) = k
<1> DEFINE I == {k \in 1 .. Len(d.buses) : d.buses[k].id = c.target.at}
           j == FirstOf(I)
<1>1. BusOf(d, c) = IF c.target.kind = "bus" THEN j ELSE 0
  BY DEF BusOf, SelectInSeq, FirstOf
<1>2. I \in SUBSET (Nat \ {0})
  OBVIOUS
<1>3. (j = 0 <=> I = {}) /\ (I # {} => j \in I)
  <2> HIDE DEF I
  <2>1. QED
    BY <1>2, FirstOfFacts
<1>4. d.buses \in Seq(Bus) /\ Distinct(d.buses)
  BY ValidFields
<1>5. DOMAIN d.buses = 1 .. Len(d.buses)
  BY <1>4, ToSetFacts
<1> HIDE DEF j
<1>6. \A k \in 1 .. Len(d.buses) : d.buses[k].id = c.target.at => j = k
  BY <1>3, <1>4, <1>5 DEF Distinct
<1>7. QED
  BY <1>1, <1>3, <1>6

\* A connection of one document is on the bus that a connection of another is on.
LEMMA BindingStays ==
    ASSUME NEW d, Valid(d), NEW e, Valid(e), NEW c, NEW f, BusOf(d, c) # 0,
           f.target.kind = c.target.kind, BusOf(d, c) \in 1 .. Len(e.buses),
           e.buses[BusOf(d, c)].id = f.target.at
    PROVE  BusOf(e, f) = BusOf(d, c)
<1>1. c.target.kind = "bus"
  BY BusOfFacts
<1>2. QED
  BY <1>1, BusOfFacts

Survive(d, e) ==
    \A i \in DOMAIN d.connections :
        BusOf(d, d.connections[i]) # 0 =>
           BusOf(e, e.connections[i]) = BusOf(d, d.connections[i])

LEMMA ExtendedSurvives ==
    ASSUME NEW d, Valid(d), NEW e, Valid(e), Extends(d.buses, e.buses),
           \A i \in DOMAIN d.connections : e.connections[i] = d.connections[i]
    PROVE  Survive(d, e)
<1> SUFFICES ASSUME NEW i \in DOMAIN d.connections, BusOf(d, d.connections[i]) # 0
             PROVE  BusOf(e, e.connections[i]) = BusOf(d, d.connections[i])
  BY DEF Survive
<1> DEFINE c == d.connections[i]
           k == BusOf(d, c)
<1>1. k \in 1 .. Len(d.buses) /\ d.buses[k].id = c.target.at
  BY BusOfFacts
<1>2. k \in 1 .. Len(e.buses) /\ e.buses[k] = d.buses[k]
  <2> HIDE DEF k
  <2>1. QED
    BY <1>1 DEF Extends
<1>3. e.connections[i] = c
  OBVIOUS
<1> HIDE DEF c
<1>4. QED
  BY <1>1, <1>2, <1>3, BindingStays DEF c

LEMMA PlacedSurvives ==
    ASSUME NEW d, Valid(d), NEW lib \in Libraries,
           NEW id \in ComponentIds \ IdsOf(d.components),
           NEW buses, Extends(d.buses, buses), NEW b
    PROVE  Survive(d, Placed(d, id, lib, buses, b))
<1> DEFINE p   == Placed(d, id, lib, buses, b)
           new == Seeded(id, lib, b, buses)
<1>1. Valid(p)
  BY PlacedValid
<1>2. p.buses = buses /\ p.connections = d.connections \o new
  BY DEF Placed
<1>3. new \in Seq(Connection) /\ d.connections \in Seq(Connection)
  <2>1. buses \in Seq(Bus)
    BY DEF Extends
  <2>2. QED
    BY <2>1, SeededFacts, ValidFields
<1> HIDE DEF p, new
<1>4. \A i \in DOMAIN d.connections : p.connections[i] = d.connections[i]
  BY <1>2, <1>3
<1>5. Survive(d, p)
  BY <1>1, <1>2, <1>4, ExtendedSurvives
<1>6. QED
  BY <1>5 DEF p

LEMMA RenamedSurvives ==
    ASSUME NEW d, Valid(d), NEW old \in IdsOf(d.buses), NEW new \in AllBusIds \ IdsOf(d.buses)
    PROVE  Survive(d, Renamed(d, old, new))
<1> DEFINE e == Renamed(d, old, new)
<1>1. Valid(e)
  BY RenamedValid
<1>2. new \in AllBusIds /\ d.buses \in Seq(Bus) /\ d.connections \in Seq(Connection)
  BY ValidFields
<1>3. /\ e.buses = WithId(d.buses, old, new)
      /\ e.connections = AllFollowed(d.connections, old, new)
  BY <1>2, FollowedFacts
<1>4. /\ Len(e.buses) = Len(d.buses)
      /\ \A k \in 1 .. Len(d.buses) :
            e.buses[k].id = IF d.buses[k].id = old THEN new ELSE d.buses[k].id
  BY <1>2, <1>3, PatchFacts
<1>5. \A i \in DOMAIN d.connections :
         /\ d.connections[i] \in Connection
         /\ e.connections[i] = Followed(d.connections[i], old, new)
  BY <1>2, <1>3 DEF AllFollowed
<1> HIDE DEF e
<1>6. ASSUME NEW i \in DOMAIN d.connections, BusOf(d, d.connections[i]) # 0
      PROVE  BusOf(e, e.connections[i]) = BusOf(d, d.connections[i])
  <2> DEFINE c == d.connections[i]
             k == BusOf(d, c)
  <2>1. k \in 1 .. Len(d.buses) /\ d.buses[k].id = c.target.at /\ c.target.kind = "bus" /\ k # 0
    BY <1>6, BusOfFacts
  <2>2. c \in Connection /\ e.connections[i] = Followed(c, old, new)
    BY <1>5
  <2> HIDE DEF c
  <2>3. /\ Followed(c, old, new).target.kind = c.target.kind
        /\ Followed(c, old, new).target.at = IF c.target.at = old THEN new ELSE c.target.at
    BY <1>2, <2>1, <2>2, FollowedConnection
  <2>4. k \in 1 .. Len(e.buses) /\ e.buses[k].id = Followed(c, old, new).target.at
    <3> HIDE DEF k
    <3>1. QED
      BY <1>4, <2>1, <2>3
  <2>5. BusOf(e, Followed(c, old, new)) = BusOf(d, c)
    BY <1>1, <2>1, <2>3, <2>4, BindingStays
  <2>6. QED
    BY <2>2, <2>5 DEF c
<1>7. Survive(d, e)
  BY <1>6 DEF Survive
<1>8. QED
  BY <1>7 DEF e

\* Adding, patching and renaming buses leaves every connection on the bus it
\* was on (BindingsSurvive).
THEOREM BindingsAlwaysSurvive == Spec => BindingsSurvive
<1>1. ASSUME TypedInv, TypedInv', [Next]_vars, design'.buses # design.buses,
             Len(design'.buses) >= Len(design.buses)
      PROVE  Survive(design, design')
  <2>1. Valid(design) /\ shown \in Boards \cup {None}
    BY <1>1, TypedInvMeans
  <2>2. /\ design.components \in Seq(Component) /\ design.buses \in Seq(Bus)
        /\ design.connections \in Seq(Connection)
        /\ Distinct(design.components) /\ Distinct(design.buses) /\ design \in Document
    BY <2>1, ValidFields DEF Valid
  <2>3. Valid(design')
    BY <1>1 DEF TypedInv, TypeOK, UniqueIds, Valid, Document
  <2>4. ASSUME NEW lib \in Libraries, NEW hint \in Hints \cup {None}, AddComponentTool(lib, hint)
        PROVE  Survive(design, design')
    <3>1. InstanceId(design, lib, hint) \in ComponentIds \ IdsOf(design.components)
      BY <2>2, InstanceIdFacts
    <3>2. Extends(design.buses, ToolBuses(design, lib))
      BY <2>2, BusesExtend
    <3>3. design' = AddWithConnections(design, lib, hint)
      BY <2>4 DEF AddComponentTool, Edit
    <3>4. QED
      BY <2>1, <2>2, <3>1, <3>2, <3>3, ToolAdds, PlacedSurvives
  <2>5. ASSUME NEW lib \in Libraries, AddComponentStudio(lib) PROVE Survive(design, design')
    <3>1. InstanceId(design, lib, None) \in ComponentIds \ IdsOf(design.components)
      BY <2>2, InstanceIdFacts
    <3>2. Extends(design.buses, UiBuses(design, lib, shown))
      BY <2>2, BusesExtend
    <3>3. design' = AddComponentUi(design, lib, shown)
      BY <2>5 DEF AddComponentStudio, Edit
    <3>4. QED
      BY <2>1, <2>2, <3>1, <3>2, <3>3, StudioAdds, PlacedSurvives
  <2>6. ASSUME NEW x, design' = [design EXCEPT !.buses = Append(@, x)]
        PROVE  Survive(design, design')
    <3>1. design'.buses = Append(design.buses, x) /\ design'.connections = design.connections
      BY <2>1, <2>6, ValidFields
    <3>2. design'.buses \in Seq(Bus) /\ Distinct(design'.buses)
      BY <2>3, ValidFields
    <3>3. /\ Len(design.buses) \in Nat /\ Len(design'.buses) = Len(design.buses) + 1
          /\ \A k \in 1 .. Len(design.buses) : design'.buses[k] = design.buses[k]
      BY <2>2, <3>1
    <3>4. Extends(design.buses, design'.buses)
      BY <3>2, <3>3 DEF Extends
    <3>5. QED
      BY <2>1, <2>3, <3>1, <3>4, ExtendedSurvives
  <2>7. ASSUME NEW id \in IdsOf(design.buses), UpdateBus(id) PROVE Survive(design, design')
    <3> DEFINE p == WithoutPins(design.buses, id)
    <3>1. design' = [design EXCEPT !.buses = p]
      BY <2>7 DEF UpdateBus, Edit, WithoutPins
    <3>2. Len(p) = Len(design.buses) /\ \A k \in 1 .. Len(design.buses) : p[k].id = design.buses[k].id
      BY <2>2, PinsFacts
    <3> HIDE DEF p
    <3>3. design'.buses = p /\ design'.connections = design.connections
      BY <2>1, <3>1, ValidFields
    <3>4. ASSUME NEW c, BusOf(design, c) # 0 PROVE BusOf(design', c) = BusOf(design, c)
      <4> DEFINE k == BusOf(design, c)
      <4>1. k \in 1 .. Len(design.buses) /\ design.buses[k].id = c.target.at
        BY <2>1, <3>4, BusOfFacts
      <4>2. k \in 1 .. Len(design'.buses) /\ design'.buses[k].id = c.target.at
        BY <3>2, <3>3, <4>1
      <4>3. QED
        BY <2>1, <2>3, <3>4, <4>2, BindingStays
    <3>5. QED
      BY <3>3, <3>4 DEF Survive
  <2>8. ASSUME NEW id \in IdsOf(design.buses), RemoveBus(id) PROVE FALSE
    <3> DEFINE S == {b \in ToSet(design.buses) : b.id = id}
               r == Without(design.buses, S)
    <3>1. design' = [design EXCEPT !.buses = Without(@, S)]
      BY <2>8 DEF RemoveBus, Edit
    <3>2. design'.buses = r
      <4> HIDE DEF S
      <4>1. QED
        BY <2>1, <3>1, ValidFields
    <3>3. PICK k \in 1 .. Len(design.buses) : design.buses[k].id = id
      BY <2>2, IdsOfFacts
    <3>4. design.buses[k] \in S
      BY <2>2, <3>3, ToSetFacts
    <3> HIDE DEF S, r
    <3>5. PICK g : r \in Seq(Bus) /\ Numbers(design.buses, S, Len(design.buses), r, g)
      BY <2>2, WithoutFacts DEF r
    <3>6. Len(r) < Len(design.buses)
      BY <3>3, <3>4, <3>5 DEF Numbers
    <3>7. Len(r) \in Nat /\ Len(design.buses) \in Nat
      BY <2>2, <3>5
    <3>8. QED
      BY <1>1, <3>2, <3>6, <3>7
  <2>9. ASSUME NEW id \in IdsOf(design.buses), NEW new \in BusIds, RenameBus(id, new)
        PROVE  Survive(design, design')
    <3>1. new \in AllBusIds \ IdsOf(design.buses) /\ design' = Renamed(design, id, new)
      BY <2>9 DEF RenameBus, Edit, AllBusIds
    <3>2. QED
      BY <2>1, <3>1, RenamedSurvives
  <2>10. ASSUME NEW conns, NEW comps,
                design' = [design EXCEPT !.components = comps, !.connections = conns]
         PROVE  FALSE
    BY <1>1, <2>1, <2>10, ValidFields
  <2>11. ASSUME NEW conns, design' = [design EXCEPT !.connections = conns] PROVE FALSE
    BY <1>1, <2>1, <2>11, ValidFields
  <2>12. ASSUME NEW id, RemoveComponent(id) PROVE FALSE
    BY <2>10, <2>12 DEF RemoveComponent, Edit
  <2>13. ASSUME NEW i, NEW t, design' = Retarget(design, i, t) PROVE FALSE
    <3>1. design'.buses = design.buses
      BY <2>1, <2>13, ValidFields DEF Retarget
    <3>2. QED
      BY <1>1, <3>1
  <2>14. ASSUME NEW owner, NEW role, NEW t, SetConnection(owner, role, t) PROVE FALSE
    <3> DEFINE c == [owner |-> owner, role |-> role, target |-> t]
    <3>1. \/ \E i : design' = Retarget(design, i, t)
          \/ design' = [design EXCEPT !.connections = Append(@, c)]
      BY <2>14 DEF SetConnection, Edit
    <3> HIDE DEF c
    <3>2. QED
      BY <2>11, <2>13, <3>1
  <2>15. ASSUME NEW i, NEW t, UpdateConnectionTarget(i, t) PROVE FALSE
    BY <2>13, <2>15 DEF UpdateConnectionTarget, Edit
  <2>16. ASSUME NEW type, AddBus(type) PROVE Survive(design, design')
    BY <2>6, <2>16 DEF AddBus, Edit
  <2>17. ASSUME NEW type, NEW id, AddBusTool(id, type) PROVE Survive(design, design')
    BY <2>6, <2>17 DEF AddBusTool, Edit
  <2>18. ASSUME NEW b, SetBoard(b) PROVE FALSE
    <3>1. design' = [design EXCEPT !.board = b]
      BY <2>18 DEF SetBoard, Edit
    <3>2. design'.buses = design.buses
      BY <2>1, <3>1, ValidFields
    <3>3. QED
      BY <1>1, <3>2
  <2>19. ~BoardArrives
    BY <1>1 DEF BoardArrives
  <2>20. ~SolvePins
    <3> SUFFICES ASSUME SolvePins PROVE FALSE
      OBVIOUS
    <3>1. design' = [design EXCEPT !.connections = SolvedAll(design)]
      BY DEF SolvePins, Edit, SolvedAll
    <3>2. QED
      BY <2>11, <3>1
  <2>21. ~UNCHANGED vars
    BY <1>1 DEF vars
  <2>22. QED
    BY <1>1, <2>4, <2>5, <2>7, <2>8, <2>9, <2>12, <2>14, <2>15, <2>16, <2>17, <2>18, <2>19, <2>20,
       <2>21 DEF Next
<1>2. TypedInv /\ TypedInv' /\ [Next]_vars =>
        [ /\ design'.buses # design.buses
          /\ Len(design'.buses) >= Len(design.buses)
          => \A i \in DOMAIN design.connections :
                BusOf(design, design.connections[i]) # 0 =>
                   BusOf(design', design'.connections[i]) = BusOf(design, design.connections[i])
        ]_vars
  BY <1>1 DEF Survive
<1>3. QED
  BY <1>2, TypedInvHolds, PTL DEF Spec, BindingsSurvive

-----------------------------------------------------------------------------
(* Wiring: the connections of each component are those of its pins.        *)

OwnedIn(conns, id) == {i \in 1 .. Len(conns) : conns[i].owner = id}

WiredIn(conns, id, pins) ==
    \E at \in [DOMAIN pins -> OwnedIn(conns, id)] :
        /\ \A i \in OwnedIn(conns, id) : \E k \in DOMAIN pins : at[k] = i
        /\ \A j, k \in DOMAIN pins : j < k => at[j] < at[k]
        /\ \A k \in DOMAIN pins : conns[at[k]].role = pins[k].role

AllWired(d, A) ==
    /\ \A e \in ToSet(d.components) : e.id \in A \/ WiredIn(d.connections, e.id, LibPins[e.lib])
    /\ \A c \in ToSet(d.connections) : c.owner \in A \cup IdsOf(d.components)

LEMMA WiredMeans ==
    ASSUME Valid(design)
    PROVE  FullyWired <=> AllWired(design, astray)
<1>1. DOMAIN design.connections = 1 .. Len(design.connections)
  BY ValidFields
<1>2. \A id : OwnedAt(id) = OwnedIn(design.connections, id)
  BY <1>1 DEF OwnedAt, OwnedIn
<1>3. \A id, pins : WiredAs(id, pins) <=> WiredIn(design.connections, id, pins)
  BY <1>2 DEF WiredAs, WiredIn
<1>4. QED
  BY <1>3 DEF FullyWired, AllWired

\* Other targets for the same pins, and connections of others at the end.
LEMMA WiredGrows ==
    ASSUME NEW s \in Seq(Connection), NEW t \in Seq(Connection), Len(s) <= Len(t), NEW id,
           \A k \in 1 .. Len(s) : t[k].owner = s[k].owner /\ t[k].role = s[k].role,
           \A k \in 1 .. Len(t) : k \in 1 .. Len(s) \/ t[k].owner # id,
           NEW pins, WiredIn(s, id, pins)
    PROVE  WiredIn(t, id, pins)
<1>1. Len(s) \in Nat /\ Len(t) \in Nat
  OBVIOUS
<1>2. OwnedIn(t, id) = OwnedIn(s, id)
  BY <1>1 DEF OwnedIn
<1>3. PICK at \in [DOMAIN pins -> OwnedIn(s, id)] :
        /\ \A i \in OwnedIn(s, id) : \E k \in DOMAIN pins : at[k] = i
        /\ \A j, k \in DOMAIN pins : j < k => at[j] < at[k]
        /\ \A k \in DOMAIN pins : s[at[k]].role = pins[k].role
  BY DEF WiredIn
<1>4. \A k \in DOMAIN pins : at[k] \in 1 .. Len(s)
  BY DEF OwnedIn
<1>5. \A k \in DOMAIN pins : t[at[k]].role = pins[k].role
  BY <1>3, <1>4
<1>6. /\ at \in [DOMAIN pins -> OwnedIn(t, id)]
      /\ \A i \in OwnedIn(t, id) : \E k \in DOMAIN pins : at[k] = i
  BY <1>2, <1>3
<1>7. \A j, k \in DOMAIN pins : j < k => at[j] < at[k]
  BY <1>3
<1>8. QED
  BY <1>5, <1>6, <1>7 DEF WiredIn

\* The connections that a seeder appends for an id that owns none yet.
LEMMA WiredNew ==
    ASSUME NEW s \in Seq(Connection), NEW x \in Seq(Connection), NEW id,
           \A k \in 1 .. Len(s) : s[k].owner # id,
           NEW pins, DOMAIN pins = 1 .. Len(x),
           \A k \in 1 .. Len(x) : x[k].owner = id /\ x[k].role = pins[k].role
    PROVE  WiredIn(s \o x, id, pins)
<1> DEFINE t  == s \o x
           at == [k \in DOMAIN pins |-> Len(s) + k]
<1>1. /\ Len(t) = Len(s) + Len(x) /\ Len(s) \in Nat /\ Len(x) \in Nat
      /\ \A k \in 1 .. Len(s) : t[k] = s[k]
      /\ \A k \in 1 .. Len(x) : t[Len(s) + k] = x[k]
  BY ConcatFacts
<1> HIDE DEF t
<1>2. \A k \in 1 .. Len(x) : Len(s) + k \in OwnedIn(t, id)
  BY <1>1 DEF OwnedIn
<1>3. at \in [DOMAIN pins -> OwnedIn(t, id)]
  BY <1>2
<1>4. ASSUME NEW i \in OwnedIn(t, id) PROVE \E k \in DOMAIN pins : at[k] = i
  <2>1. i \in 1 .. Len(t) /\ t[i].owner = id
    BY DEF OwnedIn
  <2>2. i \notin 1 .. Len(s)
    BY <1>1, <2>1
  <2>3. i - Len(s) \in 1 .. Len(x) /\ Len(s) + (i - Len(s)) = i
    BY <1>1, <2>1, <2>2
  <2>4. QED
    BY <2>3
<1>5. \A j, k \in DOMAIN pins : j < k => at[j] < at[k]
  BY <1>1
<1>6. \A k \in DOMAIN pins : t[at[k]].role = pins[k].role
  BY <1>1
<1> HIDE DEF at
<1>7. QED
  BY <1>3, <1>4, <1>5, <1>6 DEF WiredIn, t

\* What another component owned is gone.
LEMMA WiredWithout ==
    ASSUME NEW s \in Seq(Connection), NEW gone, NEW id, id # gone, NEW pins,
           WiredIn(s, id, pins)
    PROVE  WiredIn(Without(s, {c \in ToSet(s) : c.owner = gone}), id, pins)
<1> DEFINE S == {c \in ToSet(s) : c.owner = gone}
           r == Without(s, S)
<1>1. PICK g : r \in Seq(Connection) /\ Numbers(s, S, Len(s), r, g)
  BY WithoutFacts
<1>2. PICK at \in [DOMAIN pins -> OwnedIn(s, id)] :
        /\ \A i \in OwnedIn(s, id) : \E k \in DOMAIN pins : at[k] = i
        /\ \A j, k \in DOMAIN pins : j < k => at[j] < at[k]
        /\ \A k \in DOMAIN pins : s[at[k]].role = pins[k].role
  BY DEF WiredIn
<1>3. \A i \in OwnedIn(s, id) : i \in 1 .. Len(s) /\ s[i].owner = id /\ s[i] \notin S
  BY DEF OwnedIn
<1> HIDE DEF S, r
<1>4. /\ Len(r) \in Nat /\ Len(s) \in Nat
      /\ g \in [1 .. Len(r) -> 1 .. Len(s)]
      /\ \A j, k \in 1 .. Len(r) : j < k => g[j] < g[k]
      /\ \A k \in 1 .. Len(r) : s[g[k]] \notin S /\ r[k] = s[g[k]]
      /\ \A i \in 1 .. Len(s) : s[i] \notin S => \E k \in 1 .. Len(r) : g[k] = i
  BY <1>1 DEF Numbers
<1>5. \A j, k \in 1 .. Len(r) : g[j] = g[k] => j = k
  <2>1. \A j, k \in 1 .. Len(r) : j < k \/ k < j \/ j = k
    BY <1>4
  <2>2. \A j \in 1 .. Len(r) : g[j] \in Nat
    BY <1>4
  <2>3. \A j, k \in 1 .. Len(r) : j < k => g[j] # g[k]
    BY <1>4, <2>2
  <2>4. QED
    BY <2>1, <2>3
<1> DEFINE now == [k \in DOMAIN pins |-> CHOOSE m \in 1 .. Len(r) : g[m] = at[k]]
<1>6. \A k \in DOMAIN pins : now[k] \in 1 .. Len(r) /\ g[now[k]] = at[k]
  <2> SUFFICES ASSUME NEW k \in DOMAIN pins PROVE now[k] \in 1 .. Len(r) /\ g[now[k]] = at[k]
    OBVIOUS
  <2>1. \E m \in 1 .. Len(r) : g[m] = at[k]
    BY <1>3, <1>4
  <2>2. QED
    BY <2>1
<1> HIDE DEF now
<1>7. \A i \in 1 .. Len(r) : i \in OwnedIn(r, id) <=> g[i] \in OwnedIn(s, id)
  BY <1>4 DEF OwnedIn
<1>8. now \in [DOMAIN pins -> OwnedIn(r, id)]
  <2>1. \A k \in DOMAIN pins : now[k] \in OwnedIn(r, id)
    BY <1>6, <1>7
  <2>2. QED
    BY <2>1 DEF now
<1>9. \A i \in OwnedIn(r, id) : \E k \in DOMAIN pins : now[k] = i
  <2> SUFFICES ASSUME NEW i \in OwnedIn(r, id) PROVE \E k \in DOMAIN pins : now[k] = i
    OBVIOUS
  <2>1. i \in 1 .. Len(r) /\ g[i] \in OwnedIn(s, id)
    BY <1>7 DEF OwnedIn
  <2>2. PICK k \in DOMAIN pins : at[k] = g[i]
    BY <1>2, <2>1
  <2>3. QED
    BY <1>5, <1>6, <2>1, <2>2
<1>10. \A j, k \in DOMAIN pins : j < k => now[j] < now[k]
  <2> SUFFICES ASSUME NEW j \in DOMAIN pins, NEW k \in DOMAIN pins, j < k
               PROVE  now[j] < now[k]
    OBVIOUS
  <2>1. at[j] < at[k] /\ at[j] \in Nat /\ at[k] \in Nat
    BY <1>2, <1>3
  <2>2. now[j] \in 1 .. Len(r) /\ now[k] \in 1 .. Len(r) /\ g[now[j]] = at[j] /\ g[now[k]] = at[k]
    BY <1>6
  <2>3. now[j] # now[k] /\ ~(now[k] < now[j])
    BY <1>4, <2>1, <2>2
  <2>4. QED
    BY <1>4, <2>2, <2>3
<1>11. \A k \in DOMAIN pins : r[now[k]].role = pins[k].role
  BY <1>2, <1>4, <1>6
<1>12. WiredIn(r, id, pins)
  BY <1>8, <1>9, <1>10, <1>11 DEF WiredIn
<1>13. QED
  BY <1>12 DEF r, S

LEMMA PlacedWired ==
    ASSUME NEW d, Valid(d), NEW lib \in Libraries,
           NEW id \in ComponentIds \ IdsOf(d.components),
           NEW buses, Extends(d.buses, buses), NEW b, NEW A, AllWired(d, A)
    PROVE  AllWired(Placed(d, id, lib, buses, b), A)
<1> DEFINE e   == [id |-> id, lib |-> lib]
           new == Seeded(id, lib, b, buses)
           s   == d.connections
           t   == s \o new
           p   == Placed(d, id, lib, buses, b)
<1>1. buses \in Seq(Bus)
  BY DEF Extends
<1>2. /\ new \in Seq(Connection) /\ DOMAIN LibPins[lib] = 1 .. Len(new)
      /\ \A k \in 1 .. Len(new) : new[k].owner = id /\ new[k].role = LibPins[lib][k].role
  BY <1>1, SeededFacts
<1>3. s \in Seq(Connection) /\ d.components \in Seq(Component)
  BY ValidFields
<1>4. p.connections = t /\ p.components = Append(d.components, e)
  BY DEF Placed
<1>5. e \in Component /\ e.id = id /\ e.lib = lib
  BY DEF Component
<1> HIDE DEF e, new, s, p
<1>6. /\ t \in Seq(Connection)
      /\ Len(t) = Len(s) + Len(new) /\ Len(s) \in Nat /\ Len(new) \in Nat
      /\ \A k \in 1 .. Len(s) : t[k] = s[k]
      /\ \A k \in 1 .. Len(t) :
            k \in 1 .. Len(s) \/ (k - Len(s) \in 1 .. Len(new) /\ t[k] = new[k - Len(s)])
  BY <1>2, <1>3, ConcatFacts
<1>7. \A k \in 1 .. Len(t) : k \in 1 .. Len(s) \/ t[k].owner = id
  BY <1>2, <1>6
<1>8. ToSet(Append(d.components, e)) = ToSet(d.components) \cup {e}
  <2> DEFINE q == Append(d.components, e)
  <2>1. /\ q \in Seq(Component) /\ Len(q) = Len(d.components) + 1 /\ Len(d.components) \in Nat
        /\ \A k \in 1 .. Len(d.components) : q[k] = d.components[k]
        /\ q[Len(d.components) + 1] = e
        /\ \A k \in 1 .. Len(d.components) + 1 :
              k \in 1 .. Len(d.components) \/ k = Len(d.components) + 1
    BY <1>3, <1>5, AppendFacts
  <2> HIDE DEF q
  <2>2. \A x : x \in ToSet(q) <=> \E k \in 1 .. Len(q) : x = q[k]
    BY <2>1, ToSetFacts
  <2>3. \A x : x \in ToSet(d.components) <=> \E k \in 1 .. Len(d.components) : x = d.components[k]
    BY <1>3, ToSetFacts
  <2>4. \A x \in ToSet(q) : x \in ToSet(d.components) \cup {e}
    BY <2>1, <2>2, <2>3
  <2>5. \A k \in 1 .. Len(d.components) : k \in 1 .. Len(q)
    BY <2>1
  <2>6. Len(d.components) + 1 \in 1 .. Len(q)
    BY <2>1
  <2>7. \A x \in ToSet(d.components) \cup {e} : x \in ToSet(q)
    BY <2>1, <2>2, <2>3, <2>5, <2>6
  <2>8. ToSet(q) = ToSet(d.components) \cup {e}
    BY <2>4, <2>7
  <2>9. QED
    BY <2>8 DEF q
<1>9. \A x \in ToSet(s) : x.owner \in A \cup IdsOf(d.components)
  BY DEF AllWired, s
<1>10. id \in A \/ \A k \in 1 .. Len(s) : s[k].owner # id
  BY <1>3, <1>9, ToSetFacts
<1>11. ASSUME NEW x \in ToSet(d.components) \cup {e}
       PROVE  x.id \in A \/ WiredIn(t, x.id, LibPins[x.lib])
  <2>1. CASE x = e
    <3>1. id \notin A => WiredIn(t, id, LibPins[lib])
      BY <1>2, <1>3, <1>10, WiredNew
    <3>2. QED
      BY <1>5, <2>1, <3>1
  <2>2. CASE x \in ToSet(d.components)
    <3>1. x.id \in IdsOf(d.components)
      BY <2>2 DEF IdsOf
    <3>2. x.id # id
      BY <3>1
    <3>3. x.id \in A \/ WiredIn(s, x.id, LibPins[x.lib])
      BY <2>2 DEF AllWired, s
    <3>4. /\ Len(s) <= Len(t)
          /\ \A k \in 1 .. Len(s) : t[k].owner = s[k].owner /\ t[k].role = s[k].role
          /\ \A k \in 1 .. Len(t) : k \in 1 .. Len(s) \/ t[k].owner # x.id
      BY <1>6, <1>7, <3>2
    <3> HIDE DEF t
    <3>5. QED
      BY <1>3, <1>6, <3>3, <3>4, WiredGrows
  <2>3. QED
    BY <1>11, <2>1, <2>2
<1> HIDE DEF t
<1>12. ASSUME NEW c \in ToSet(t) PROVE c.owner \in A \cup IdsOf(Append(d.components, e))
  <2>1. PICK k \in 1 .. Len(t) : c = t[k]
    BY <1>6, ToSetFacts
  <2>2. c.owner = id \/ c \in ToSet(s)
    BY <1>3, <1>6, <1>7, <2>1, ToSetFacts
  <2>3. IdsOf(d.components) \subseteq IdsOf(Append(d.components, e))
        /\ id \in IdsOf(Append(d.components, e))
    BY <1>5, <1>8 DEF IdsOf
  <2>4. QED
    BY <1>9, <2>2, <2>3
<1>13. AllWired(p, A)
  BY <1>4, <1>8, <1>11, <1>12 DEF AllWired
<1>14. QED
  BY <1>13 DEF p

\* Edits that leave the components, the owners and the roles alone.
LEMMA KeptWired ==
    ASSUME NEW d, NEW e, Valid(d), Valid(e), e.components = d.components,
           Len(e.connections) = Len(d.connections),
           \A k \in 1 .. Len(d.connections) :
              /\ e.connections[k].owner = d.connections[k].owner
              /\ e.connections[k].role = d.connections[k].role,
           NEW A, AllWired(d, A)
    PROVE  AllWired(e, A)
<1> DEFINE s == d.connections
           t == e.connections
<1>1. s \in Seq(Connection) /\ t \in Seq(Connection) /\ Len(s) \in Nat
  BY ValidFields
<1> HIDE DEF s, t
<1>2. Len(t) = Len(s) /\ \A k \in 1 .. Len(s) : t[k].owner = s[k].owner /\ t[k].role = s[k].role
  BY DEF s, t
<1>3. \A id, pins : WiredIn(s, id, pins) => WiredIn(t, id, pins)
  <2> SUFFICES ASSUME NEW id, NEW pins, WiredIn(s, id, pins) PROVE WiredIn(t, id, pins)
    OBVIOUS
  <2>1. Len(s) <= Len(t) /\ \A k \in 1 .. Len(t) : k \in 1 .. Len(s) \/ t[k].owner # id
    BY <1>1, <1>2
  <2>2. QED
    BY <1>1, <1>2, <2>1, WiredGrows
<1>4. ASSUME NEW c \in ToSet(t) PROVE c.owner \in A \cup IdsOf(d.components)
  <2>1. PICK k \in 1 .. Len(t) : c = t[k]
    BY <1>1, ToSetFacts
  <2>2. s[k] \in ToSet(s) /\ c.owner = s[k].owner
    BY <1>1, <1>2, <2>1, ToSetFacts
  <2>3. QED
    BY <2>2 DEF AllWired, s
<1>5. QED
  BY <1>3, <1>4 DEF AllWired, s, t

\* set_connection makes up a connection, and notes its owner.
LEMMA ConnectedWired ==
    ASSUME NEW d, Valid(d), NEW c \in Connection, NEW A, AllWired(d, A)
    PROVE  AllWired([d EXCEPT !.connections = Append(@, c)], A \cup {c.owner})
<1> DEFINE s == d.connections
           t == Append(s, c)
           e == [d EXCEPT !.connections = Append(@, c)]
<1>1. e.connections = t /\ e.components = d.components /\ s \in Seq(Connection)
  BY ValidFields
<1> HIDE DEF s, e
<1>2. /\ t \in Seq(Connection) /\ Len(t) = Len(s) + 1 /\ Len(s) \in Nat
      /\ \A k \in 1 .. Len(s) : t[k] = s[k]
      /\ t[Len(s) + 1] = c
      /\ \A k \in 1 .. Len(s) + 1 : k \in 1 .. Len(s) \/ k = Len(s) + 1
  BY <1>1, AppendFacts
<1> HIDE DEF t
<1>3. ASSUME NEW x \in ToSet(d.components)
      PROVE  x.id \in A \cup {c.owner} \/ WiredIn(t, x.id, LibPins[x.lib])
  <2>1. CASE x.id = c.owner
    BY <2>1
  <2>2. CASE x.id # c.owner
    <3>1. x.id \in A \/ WiredIn(s, x.id, LibPins[x.lib])
      BY DEF AllWired, s
    <3>2. /\ Len(s) <= Len(t)
          /\ \A k \in 1 .. Len(s) : t[k].owner = s[k].owner /\ t[k].role = s[k].role
          /\ \A k \in 1 .. Len(t) : k \in 1 .. Len(s) \/ t[k].owner # x.id
      BY <1>2, <2>2
    <3>3. QED
      BY <1>1, <1>2, <3>1, <3>2, WiredGrows
  <2>3. QED
    BY <2>1, <2>2
<1>4. ASSUME NEW x \in ToSet(t) PROVE x.owner \in (A \cup {c.owner}) \cup IdsOf(d.components)
  <2>1. x = c \/ x \in ToSet(s)
    BY <1>1, <1>2, ToSetFacts
  <2>2. QED
    BY <2>1 DEF AllWired, s
<1>5. AllWired(e, A \cup {c.owner})
  BY <1>1, <1>3, <1>4 DEF AllWired
<1>6. QED
  BY <1>5 DEF e

LEMMA RemovedWired ==
    ASSUME NEW d, Valid(d), NEW id, NEW A, AllWired(d, A)
    PROVE  AllWired([d EXCEPT !.components = Without(@, {e \in ToSet(@) : e.id = id}),
                           !.connections = Without(@, {c \in ToSet(@) : c.owner = id})],
                 A \ {id})
<1> DEFINE S == {e \in ToSet(d.components) : e.id = id}
           T == {c \in ToSet(d.connections) : c.owner = id}
           r == [d EXCEPT !.components = Without(@, S), !.connections = Without(@, T)]
<1>1. d.components \in Seq(Component) /\ d.connections \in Seq(Connection)
  BY ValidFields
<1>2. r.components = Without(d.components, S) /\ r.connections = Without(d.connections, T)
  <2> HIDE DEF S, T
  <2>1. QED
    BY ValidFields
<1>3. /\ ToSet(r.components) = ToSet(d.components) \ S
      /\ ToSet(r.connections) = ToSet(d.connections) \ T
  <2> HIDE DEF S, T, r
  <2>1. QED
    BY <1>1, <1>2, WithoutKeeps
<1>4. ASSUME NEW e \in ToSet(r.components)
      PROVE  e.id \in A \ {id} \/ WiredIn(r.connections, e.id, LibPins[e.lib])
  <2>1. e \in ToSet(d.components) /\ e.id # id
    BY <1>3
  <2>2. e.id \in A \/ WiredIn(d.connections, e.id, LibPins[e.lib])
    BY <2>1 DEF AllWired
  <2>3. WiredIn(d.connections, e.id, LibPins[e.lib]) =>
           WiredIn(Without(d.connections, T), e.id, LibPins[e.lib])
    BY <1>1, <2>1, WiredWithout
  <2> HIDE DEF r, T
  <2>4. QED
    BY <1>2, <2>1, <2>2, <2>3
<1>5. ASSUME NEW c \in ToSet(r.connections) PROVE c.owner \in (A \ {id}) \cup IdsOf(r.components)
  <2>1. c \in ToSet(d.connections) /\ c.owner # id
    BY <1>3
  <2>2. c.owner \in A \/ c.owner \in IdsOf(d.components)
    BY <2>1 DEF AllWired
  <2>3. CASE c.owner \in IdsOf(d.components)
    <3>1. PICK e \in ToSet(d.components) : e.id = c.owner
      BY <2>3 DEF IdsOf
    <3>2. e \in ToSet(r.components)
      BY <1>3, <2>1, <3>1
    <3>3. QED
      BY <3>1, <3>2 DEF IdsOf
  <2>4. QED
    BY <2>1, <2>2, <2>3
<1>6. AllWired(r, A \ {id})
  <2> HIDE DEF r
  <2>1. QED
    BY <1>4, <1>5 DEF AllWired
<1>7. QED
  BY <1>6

\* Every edit keeps components wired.
LEMMA WiredNext ==
    ASSUME TypedInv, AllWired(design, astray), [Next]_vars, TypedInv'
    PROVE  AllWired(design', astray')
<1>1. Valid(design) /\ shown \in Boards \cup {None}
  BY TypedInvMeans
<1>2. /\ design.components \in Seq(Component) /\ design.buses \in Seq(Bus)
      /\ design.connections \in Seq(Connection)
      /\ Distinct(design.buses) /\ design \in Document
  BY <1>1, ValidFields DEF Valid
<1>3. Valid(design')
  BY DEF TypedInv, TypeOK, UniqueIds, Valid, Document
<1>4. ASSUME NEW lib \in Libraries, NEW hint \in Hints \cup {None}, AddComponentTool(lib, hint)
      PROVE  AllWired(design', astray')
  <2>1. InstanceId(design, lib, hint) \in ComponentIds \ IdsOf(design.components)
    BY <1>2, InstanceIdFacts
  <2>2. Extends(design.buses, ToolBuses(design, lib))
    BY <1>2, BusesExtend
  <2>3. design' = AddWithConnections(design, lib, hint) /\ astray' = astray
    BY <1>4 DEF AddComponentTool, Edit, Note
  <2>4. QED
    BY <1>1, <1>2, <2>1, <2>2, <2>3, ToolAdds, PlacedWired
<1>5. ASSUME NEW lib \in Libraries, AddComponentStudio(lib) PROVE AllWired(design', astray')
  <2>1. InstanceId(design, lib, None) \in ComponentIds \ IdsOf(design.components)
    BY <1>2, InstanceIdFacts
  <2>2. Extends(design.buses, UiBuses(design, lib, shown))
    BY <1>2, BusesExtend
  <2>3. design' = AddComponentUi(design, lib, shown) /\ astray' = astray
    BY <1>5 DEF AddComponentStudio, Edit, Note
  <2>4. QED
    BY <1>1, <1>2, <2>1, <2>2, <2>3, StudioAdds, PlacedWired
<1>6. ASSUME NEW id \in IdsOf(design.components), RemoveComponent(id)
      PROVE  AllWired(design', astray')
  BY <1>1, <1>6, RemovedWired DEF RemoveComponent, Edit, Note
<1>7. ASSUME NEW i \in DOMAIN design.connections, NEW t \in Target,
             design' = Retarget(design, i, t), astray' = astray
      PROVE  AllWired(design', astray')
  <2> DEFINE c == [design.connections EXCEPT ![i].target = t]
  <2>1. /\ design' = [design EXCEPT !.connections = c]
        /\ c \in Seq(Connection) /\ Len(c) = Len(design.connections)
        /\ c[i] = [design.connections[i] EXCEPT !.target = t]
        /\ \A k \in 1 .. Len(c) : k # i => c[k] = design.connections[k]
    BY <1>1, <1>7, RetargetFacts
  <2>2. design.connections[i] \in Connection
    BY <1>2
  <2>3. [design.connections[i] EXCEPT !.target = t].owner = design.connections[i].owner
        /\ [design.connections[i] EXCEPT !.target = t].role = design.connections[i].role
    BY <2>2 DEF Connection
  <2> HIDE DEF c
  <2>4. \A k \in 1 .. Len(design.connections) :
           c[k].owner = design.connections[k].owner /\ c[k].role = design.connections[k].role
    BY <2>1, <2>3
  <2>5. design'.components = design.components /\ design'.connections = c
    BY <1>1, <2>1, ValidFields
  <2>6. QED
    BY <1>1, <1>3, <1>7, <2>1, <2>4, <2>5, KeptWired
<1>8. ASSUME NEW owner \in Hints \cup IdsOf(design.components), NEW pick \in Picks,
             NEW t \in ToolTargets(pick[2]), SetConnection(owner, pick[1], t)
      PROVE  AllWired(design', astray')
  <2> DEFINE c == [owner |-> owner, role |-> pick[1], target |-> t]
             I == {k \in 1 .. Len(design.connections) :
                      design.connections[k].owner = owner /\ design.connections[k].role = pick[1]}
             i == FirstOf(I)
  <2>1. t \in Target
    BY <1>1, PickAssumption, ToolTargetsTyped
  <2>2. owner \in ComponentIds
    BY <1>1, IdsTyped DEF ComponentIds
  <2>3. c \in Connection /\ c.owner = owner
    BY <2>1, <2>2 DEF Connection
  <2>4. \/ i # 0 /\ design' = Retarget(design, i, t) /\ astray' = astray
        \/ design' = [design EXCEPT !.connections = Append(@, c)] /\ astray' = astray \cup {owner}
    BY <1>8 DEF SetConnection, Note, Edit, SelectInSeq, FirstOf
  <2>5. i = 0 \/ i \in I
    <3>1. I \in SUBSET (Nat \ {0})
      OBVIOUS
    <3> HIDE DEF I
    <3>2. QED
      BY <3>1, FirstOfFacts
  <2>6. i # 0 => i \in DOMAIN design.connections
    <3>1. I \subseteq DOMAIN design.connections
      BY <1>2
    <3> HIDE DEF I, i
    <3>2. QED
      BY <2>5, <3>1
  <2> HIDE DEF i, c
  <2>7. CASE i # 0 /\ design' = Retarget(design, i, t) /\ astray' = astray
    BY <1>7, <2>1, <2>6, <2>7
  <2>8. CASE /\ design' = [design EXCEPT !.connections = Append(@, c)]
             /\ astray' = astray \cup {owner}
    BY <1>1, <2>3, <2>8, ConnectedWired
  <2>9. QED
    BY <2>4, <2>7, <2>8
<1>9. ASSUME NEW i \in DOMAIN design.connections, NEW pick \in Picks,
             NEW t \in FormTargets(pick[2], design.connections[i].owner),
             UpdateConnectionTarget(i, t)
      PROVE  AllWired(design', astray')
  <2>1. t \in Target
    BY <1>1, PickAssumption, FormTargetsTyped
  <2>2. design' = Retarget(design, i, t) /\ astray' = astray
    BY <1>9 DEF UpdateConnectionTarget, Edit, Note
  <2>3. QED
    BY <1>7, <2>1, <2>2
<1>10. ASSUME design'.components = design.components,
              design'.connections = design.connections, astray' = astray
       PROVE  AllWired(design', astray')
  BY <1>10 DEF AllWired
<1>11. \A buses, b : /\ [design EXCEPT !.buses = buses].components = design.components
                     /\ [design EXCEPT !.buses = buses].connections = design.connections
                     /\ [design EXCEPT !.board = b].components = design.components
                     /\ [design EXCEPT !.board = b].connections = design.connections
  BY <1>1, ValidFields
<1>12. ASSUME NEW type, AddBus(type) \/ \E id \in BusIds : AddBusTool(id, type)
       PROVE  AllWired(design', astray')
  <2>1. (\E buses : design' = [design EXCEPT !.buses = buses]) /\ astray' = astray
    BY <1>12 DEF AddBus, AddBusTool, Edit, Note
  <2>2. QED
    BY <1>10, <1>11, <2>1
<1>13. ASSUME NEW id, UpdateBus(id) \/ RemoveBus(id) PROVE AllWired(design', astray')
  <2>1. (\E buses : design' = [design EXCEPT !.buses = buses]) /\ astray' = astray
    BY <1>13 DEF UpdateBus, RemoveBus, Edit, Note
  <2>2. QED
    BY <1>10, <1>11, <2>1
<1>14. ASSUME NEW id, NEW new \in BusIds, RenameBus(id, new) PROVE AllWired(design', astray')
  <2> DEFINE conns == AllFollowed(design.connections, id, new)
  <2>1. design' = Renamed(design, id, new) /\ astray' = astray /\ new \in AllBusIds
    BY <1>14 DEF RenameBus, Note, Edit, AllBusIds
  <2>2. /\ design' = [board |-> design.board, components |-> design.components,
                      buses |-> WithId(design.buses, id, new), connections |-> conns]
        /\ conns \in Seq(Connection) /\ Len(conns) = Len(design.connections)
        /\ \A k \in 1 .. Len(conns) : conns[k] = Followed(design.connections[k], id, new)
    BY <1>1, <2>1, FollowedFacts
  <2> HIDE DEF conns
  <2>3. \A k \in 1 .. Len(design.connections) :
           conns[k].owner = design.connections[k].owner /\ conns[k].role = design.connections[k].role
    <3> SUFFICES ASSUME NEW k \in 1 .. Len(design.connections)
                 PROVE  /\ conns[k].owner = design.connections[k].owner
                        /\ conns[k].role = design.connections[k].role
      OBVIOUS
    <3>1. design.connections[k] \in Connection
      BY <1>2
    <3>2. QED
      BY <2>1, <2>2, <3>1, FollowedConnection
  <2>4. design'.components = design.components /\ design'.connections = conns
    BY <2>2
  <2>5. QED
    BY <1>1, <1>3, <2>1, <2>2, <2>3, <2>4, KeptWired
<1>15. ASSUME NEW b, SetBoard(b) PROVE AllWired(design', astray')
  BY <1>10, <1>11, <1>15 DEF SetBoard, Edit, Note
<1>16. CASE BoardArrives
  BY <1>16 DEF BoardArrives
<1>17. CASE SolvePins
  <2> DEFINE conns == SolvedAll(design)
  <2>1. design' = [design EXCEPT !.connections = conns] /\ astray' = astray
    BY <1>17 DEF SolvePins, Edit, Note, SolvedAll
  <2>2. /\ Len(conns) = Len(design.connections)
        /\ \A k \in 1 .. Len(design.connections) :
              /\ conns[k].owner = design.connections[k].owner
              /\ conns[k].role = design.connections[k].role
    BY <1>1, SolvedAllFacts
  <2> HIDE DEF conns
  <2>3. design'.components = design.components /\ design'.connections = conns
    BY <1>1, <2>1, ValidFields
  <2>4. QED
    BY <1>1, <1>3, <2>1, <2>2, <2>3, KeptWired
<1>18. CASE UNCHANGED vars
  BY <1>18 DEF vars
<1>19. QED
  BY <1>4, <1>5, <1>6, <1>8, <1>9, <1>12, <1>13, <1>14, <1>15, <1>16, <1>17, <1>18 DEF Next

\* Whoever adds and removes components in what order, each owns one connection
\* per pin of its library entry, in the order of the pins, and no connection
\* belongs to a component that is gone (FullyWired); the only exceptions are
\* the owners for whom set_connection of the agent made a connection up.
THEOREM ComponentsStayWired == Spec => []FullyWired
<1>1. Init => AllWired(design, astray)
  <2> SUFFICES ASSUME Init PROVE AllWired(design, astray)
    OBVIOUS
  <2>1. design.connections = <<>> /\ design.components = <<>>
    BY DEF Init
  <2>2. ToSet(design.connections) = {} /\ ToSet(design.components) = {}
    BY <2>1 DEF ToSet
  <2>3. QED
    BY <2>2 DEF AllWired
<1>2. TypedInv /\ TypedInv' /\ AllWired(design, astray) /\ [Next]_vars => AllWired(design', astray')
  BY WiredNext
<1> DEFINE W == AllWired(design, astray)
<1>3. W' <=> AllWired(design', astray')
  BY DEF AllWired
<1>4. TypedInv /\ TypedInv' /\ W /\ [Next]_vars => W'
  BY <1>2, <1>3
<1>5. TypedInv => (W <=> FullyWired)
  BY TypedInvMeans, WiredMeans
<1>6. Init => W
  BY <1>1
<1> HIDE DEF W
<1>7. Spec => []W
  BY <1>4, <1>6, TypedInvHolds, PTL DEF Spec
<1>8. QED
  BY <1>5, <1>7, TypedInvHolds, PTL

-----------------------------------------------------------------------------
(* The two seeders: their new buses differ in nothing but the ids.         *)

Alike(p, q) ==
    /\ Len(p) = Len(q)
    /\ \A k \in 1 .. Len(p) : p[k].type = q[k].type /\ p[k].pins = q[k].pins

LEMMA AlikeSymmetric == \A p, q : Alike(p, q) => Alike(q, p)
  BY DEF Alike

LEMMA GrownAlike ==
    ASSUME NEW buses \in Seq(Bus), Distinct(buses), NEW types \in SUBSET BusTypes, NEW b,
           NEW m \in Nat, NEW y \in Separators, NEW n \in Nat, NEW z \in Separators
    PROVE  Alike(Grown(buses, types, m, y, b), Grown(buses, types, n, z, b))
<1> DEFINE p    == Grown(buses, types, m, y, b)
           q    == Grown(buses, types, n, z, b)
           need == Missing(buses, types)
<1>1. /\ Extends(buses, p) /\ Len(p) = Len(buses) + Len(need) /\ Len(need) \in Nat
      /\ \A k \in 1 .. Len(need) :
            p[Len(buses) + k] = NewBus(FreeId(buses, need[k], m, y), need[k], b)
  BY GrownFacts
<1>2. /\ Extends(buses, q) /\ Len(q) = Len(buses) + Len(need)
      /\ \A k \in 1 .. Len(need) :
            q[Len(buses) + k] = NewBus(FreeId(buses, need[k], n, z), need[k], b)
  <2>1. Extends(buses, q) /\ Len(q) = Len(buses) + Len(need)
    BY GrownFacts
  <2>2. \A k \in 1 .. Len(need) :
           q[Len(buses) + k] = NewBus(FreeId(buses, need[k], n, z), need[k], b)
    BY GrownFacts
  <2>3. QED
    BY <2>1, <2>2
<1>3. \A i, j, type : /\ NewBus(i, type, b).type = NewBus(j, type, b).type
                      /\ NewBus(i, type, b).pins = NewBus(j, type, b).pins
  BY DEF NewBus
<1>4. Len(buses) \in Nat
  OBVIOUS
<1> HIDE DEF p, q, need
<1>5. ASSUME NEW k \in 1 .. Len(p) PROVE p[k].type = q[k].type /\ p[k].pins = q[k].pins
  <2>1. CASE k \in 1 .. Len(buses)
    BY <1>1, <1>2, <2>1 DEF Extends
  <2>2. CASE k - Len(buses) \in 1 .. Len(need)
    <3> DEFINE h == k - Len(buses)
    <3>1. h \in 1 .. Len(need) /\ Len(buses) + h = k
      BY <1>1, <1>4, <2>2
    <3> HIDE DEF h
    <3>2. /\ p[k] = NewBus(FreeId(buses, need[h], m, y), need[h], b)
          /\ q[k] = NewBus(FreeId(buses, need[h], n, z), need[h], b)
      BY <1>1, <1>2, <3>1
    <3>3. QED
      BY <1>3, <3>2
  <2>3. k \in 1 .. Len(buses) \/ k - Len(buses) \in 1 .. Len(need)
    BY <1>1, <1>4
  <2>4. QED
    BY <2>1, <2>2, <2>3
<1>6. Alike(p, q)
  BY <1>1, <1>2, <1>5 DEF Alike
<1>7. QED
  BY <1>6 DEF p, q

\* The first bus of a type is at the same place in both.
LEMMA FirstAlike ==
    ASSUME NEW p \in Seq(Bus), NEW q \in Seq(Bus), Alike(p, q), NEW type
    PROVE  \/ FirstBus(p, type) = None /\ FirstBus(q, type) = None
           \/ \E k \in 1 .. Len(p) : FirstBus(p, type) = p[k].id /\ FirstBus(q, type) = q[k].id
<1> DEFINE I == {i \in 1 .. Len(p) : p[i].type = type}
           J == {i \in 1 .. Len(q) : q[i].type = type}
           k == FirstOf(I)
<1>1. FirstBus(p, type) = IF k = 0 THEN None ELSE p[k].id
  BY DEF FirstBus, First, SelectInSeq, FirstOf, IdOf
<1>2. J = I
  BY DEF Alike
<1>3. FirstBus(q, type) = IF FirstOf(J) = 0 THEN None ELSE q[FirstOf(J)].id
  BY DEF FirstBus, First, SelectInSeq, FirstOf, IdOf
<1>4. I \in SUBSET (Nat \ {0}) /\ I \in SUBSET (1 .. Len(p))
  OBVIOUS
<1> HIDE DEF I, J
<1>5. k = 0 \/ k \in 1 .. Len(p)
  BY <1>4, FirstOfFacts
<1>6. FirstBus(q, type) = IF k = 0 THEN None ELSE q[k].id
  BY <1>2, <1>3
<1> HIDE DEF k
<1>7. QED
  BY <1>1, <1>5, <1>6

ReachOf(d, c) ==
    <<c.owner, c.role, c.target.kind,
      IF c.target.kind = "bus" THEN BusOf(d, c) ELSE c.target.at>>

LEMMA NoneIsNoBus ==
    ASSUME NEW d, Valid(d), NEW c, c.target.at = None
    PROVE  BusOf(d, c) = 0
<1>1. d.buses \in Seq(Bus)
  BY ValidFields
<1>2. \A k \in 1 .. Len(d.buses) : d.buses[k] \in Bus
  BY <1>1
<1>3. \A x \in Bus : x.id # None
  BY LibraryAssumption DEF Bus
<1>4. \A k \in 1 .. Len(d.buses) : d.buses[k].id # None
  BY <1>2, <1>3
<1>5. QED
  BY <1>4, BusOfFacts

LEMMA SameReach ==
    ASSUME NEW d, Valid(d), NEW e, Valid(e), Alike(d.buses, e.buses),
           NEW c, NEW f, c.owner = f.owner, c.role = f.role, NEW kind, NEW lib, NEW b,
           c.target = DefaultTarget(kind, lib, RailsOf(b), d.buses),
           f.target = DefaultTarget(kind, lib, RailsOf(b), e.buses)
    PROVE  ReachOf(d, c) = ReachOf(e, f)
<1> DEFINE p == d.buses
           q == e.buses
           type == BusTypeOf(kind)
<1>1. p \in Seq(Bus) /\ q \in Seq(Bus)
  BY ValidFields
<1>2. \/ c.target = f.target /\ c.target.kind # "bus"
      \/ /\ c.target = [kind |-> "bus", at |-> FirstBus(p, type)]
         /\ f.target = [kind |-> "bus", at |-> FirstBus(q, type)]
  BY DEF DefaultTarget, FirstBus
<1>3. CASE c.target = f.target /\ c.target.kind # "bus"
  BY <1>3 DEF ReachOf
<1>4. CASE /\ c.target = [kind |-> "bus", at |-> FirstBus(p, type)]
           /\ f.target = [kind |-> "bus", at |-> FirstBus(q, type)]
  <2> HIDE DEF type
  <2>1. /\ c.target.kind = "bus" /\ f.target.kind = "bus"
        /\ c.target.at = FirstBus(p, type) /\ f.target.at = FirstBus(q, type)
    BY <1>4
  <2>2. CASE FirstBus(p, type) = None /\ FirstBus(q, type) = None
    <3>1. BusOf(d, c) = 0 /\ BusOf(e, f) = 0
      BY <2>1, <2>2, NoneIsNoBus
    <3>2. QED
      BY <2>1, <3>1 DEF ReachOf
  <2>3. CASE \E k \in 1 .. Len(p) : FirstBus(p, type) = p[k].id /\ FirstBus(q, type) = q[k].id
    <3>1. PICK k \in 1 .. Len(p) : FirstBus(p, type) = p[k].id /\ FirstBus(q, type) = q[k].id
      BY <2>3
    <3>2. k \in 1 .. Len(q)
      BY DEF Alike
    <3>3. BusOf(d, c) = k
      BY <2>1, <3>1, BusOfFacts
    <3>4. BusOf(e, f) = k
      BY <2>1, <3>1, <3>2, BusOfFacts
    <3>5. QED
      BY <2>1, <3>3, <3>4 DEF ReachOf
  <2>4. QED
    BY <1>1, <2>2, <2>3, FirstAlike
<1>5. QED
  BY <1>2, <1>3, <1>4

LEMMA PairsAlike ==
    ASSUME NEW p \in Seq(Bus), NEW q \in Seq(Bus), Alike(p, q), NEW b \in ToSet(p)
    PROVE  \E x \in ToSet(q) : b.type = x.type /\ b.pins = x.pins
<1>1. PICK k \in 1 .. Len(p) : b = p[k]
  BY ToSetFacts
<1>2. q[k] \in ToSet(q) /\ b.type = q[k].type /\ b.pins = q[k].pins
  BY <1>1, ToSetFacts DEF Alike
<1>3. QED
  BY <1>2

\* Two ways to place the same component make the same of the document, up to
\* the ids of the buses that are new.
LEMMA PlacedAlike ==
    ASSUME NEW d, Valid(d), d = design, NEW lib \in Libraries,
           NEW id \in ComponentIds \ IdsOf(d.components), NEW b,
           NEW p, NEW q, Extends(d.buses, p), Extends(d.buses, q), Alike(p, q)
    PROVE  Added(Placed(d, id, lib, p, b)) = Added(Placed(d, id, lib, q, b))
<1> DEFINE s == d.connections
           m == Placed(d, id, lib, p, b)
           n == Placed(d, id, lib, q, b)
           x == Seeded(id, lib, b, p)
           y == Seeded(id, lib, b, q)
<1>1. p \in Seq(Bus) /\ q \in Seq(Bus) /\ s \in Seq(Connection)
  BY ValidFields DEF Extends
<1>2. Valid(m) /\ Valid(n)
  BY PlacedValid
<1>3. /\ m.components = n.components /\ m.buses = p /\ n.buses = q
      /\ m.connections = s \o x /\ n.connections = s \o y
  BY DEF Placed
<1>4. /\ x \in Seq(Connection) /\ Len(x) = Len(LibPins[lib])
      /\ \A k \in 1 .. Len(x) :
            /\ x[k].owner = id
            /\ x[k].role = LibPins[lib][k].role
            /\ x[k].target = DefaultTarget(LibPins[lib][k].kind, lib, RailsOf(b), p)
  BY <1>1, SeededFacts
<1>5. /\ y \in Seq(Connection) /\ Len(y) = Len(LibPins[lib])
      /\ \A k \in 1 .. Len(y) :
            /\ y[k].owner = id
            /\ y[k].role = LibPins[lib][k].role
            /\ y[k].target = DefaultTarget(LibPins[lib][k].kind, lib, RailsOf(b), q)
  BY <1>1, SeededFacts
<1> HIDE DEF s, m, n, x, y
<1>6. /\ Len(m.connections) = Len(s) + Len(x) /\ Len(s) \in Nat /\ Len(x) \in Nat
      /\ \A k \in 1 .. Len(x) : m.connections[Len(s) + k] = x[k]
  <2>1. /\ Len(s \o x) = Len(s) + Len(x) /\ Len(s) \in Nat /\ Len(x) \in Nat
        /\ \A k \in 1 .. Len(x) : (s \o x)[Len(s) + k] = x[k]
    <3>1. s \in Seq(Connection) /\ x \in Seq(Connection)
      BY <1>1, <1>4
    <3>2. QED
      BY <3>1, ConcatFacts
  <2>2. QED
    BY <1>3, <2>1
<1>7. /\ Len(n.connections) = Len(s) + Len(y)
      /\ \A k \in 1 .. Len(y) : n.connections[Len(s) + k] = y[k]
  <2>1. /\ Len(s \o y) = Len(s) + Len(y)
        /\ \A k \in 1 .. Len(y) : (s \o y)[Len(s) + k] = y[k]
    <3>1. s \in Seq(Connection) /\ y \in Seq(Connection)
      BY <1>1, <1>5
    <3>2. QED
      BY <3>1, ConcatFacts
  <2>2. QED
    BY <1>3, <2>1
<1>8. \A k \in 1 .. Len(x) : ReachOf(m, x[k]) = ReachOf(n, y[k])
  <2> SUFFICES ASSUME NEW k \in 1 .. Len(x) PROVE ReachOf(m, x[k]) = ReachOf(n, y[k])
    OBVIOUS
  <2>1. x[k].owner = y[k].owner /\ x[k].role = y[k].role
    BY <1>4, <1>5
  <2>2. /\ x[k].target = DefaultTarget(LibPins[lib][k].kind, lib, RailsOf(b), m.buses)
        /\ y[k].target = DefaultTarget(LibPins[lib][k].kind, lib, RailsOf(b), n.buses)
    BY <1>3, <1>4, <1>5
  <2>3. Alike(m.buses, n.buses)
    BY <1>3
  <2> DEFINE c    == x[k]
             f    == y[k]
             kind == LibPins[lib][k].kind
  <2>4. /\ c.owner = f.owner /\ c.role = f.role
        /\ c.target = DefaultTarget(kind, lib, RailsOf(b), m.buses)
        /\ f.target = DefaultTarget(kind, lib, RailsOf(b), n.buses)
    BY <2>1, <2>2
  <2> HIDE DEF c, f, kind
  <2>5. ReachOf(m, c) = ReachOf(n, f)
    BY <1>2, <2>3, <2>4, SameReach
  <2>6. QED
    BY <2>5 DEF c, f
<1>9. \A i \in Len(s) + 1 .. Len(m.connections) :
         ReachOf(m, m.connections[i]) = ReachOf(n, n.connections[i])
  <2> SUFFICES ASSUME NEW i \in Len(s) + 1 .. Len(m.connections)
               PROVE  ReachOf(m, m.connections[i]) = ReachOf(n, n.connections[i])
    OBVIOUS
  <2> DEFINE k == i - Len(s)
  <2>1. k \in 1 .. Len(x) /\ k \in 1 .. Len(y) /\ Len(s) + k = i
    BY <1>4, <1>5, <1>6
  <2> HIDE DEF k
  <2>2. m.connections[i] = x[k] /\ n.connections[i] = y[k]
    BY <1>6, <1>7, <2>1
  <2>3. QED
    BY <1>8, <2>1, <2>2
<1>10. Len(m.connections) = Len(n.connections)
  BY <1>4, <1>5, <1>6, <1>7
<1>11. {<<z.type, z.pins>> : z \in ToSet(p)} = {<<z.type, z.pins>> : z \in ToSet(q)}
  <2>1. \A y1 \in ToSet(p) : \E y2 \in ToSet(q) : y1.type = y2.type /\ y1.pins = y2.pins
    BY <1>1, PairsAlike
  <2>2. Alike(q, p)
    BY AlikeSymmetric
  <2>3. \A y1 \in ToSet(q) : \E y2 \in ToSet(p) : y1.type = y2.type /\ y1.pins = y2.pins
    BY <1>1, <2>2, PairsAlike
  <2> DEFINE P == {<<z.type, z.pins>> : z \in ToSet(p)}
             Q == {<<z.type, z.pins>> : z \in ToSet(q)}
  <2>4. \A pair \in P : pair \in Q
    BY <2>1
  <2>5. \A pair \in Q : pair \in P
    BY <2>3
  <2> HIDE DEF P, Q
  <2>6. P = Q
    BY <2>4, <2>5
  <2>7. QED
    BY <2>6 DEF P, Q
<1>12. {<<i, ReachOf(m, m.connections[i])>> : i \in Len(s) + 1 .. Len(m.connections)}
       = {<<i, ReachOf(n, n.connections[i])>> : i \in Len(s) + 1 .. Len(n.connections)}
  BY <1>9, <1>10
<1>13. \A e : Added(e) =
         [components |-> e.components,
          buses |-> {<<z.type, z.pins>> : z \in ToSet(e.buses)},
          connections |-> {<<i, ReachOf(e, e.connections[i])>> :
                              i \in Len(s) + 1 .. Len(e.connections)}]
  BY DEF Added, ReachOf, s
<1>14. Added(m) = Added(n)
  BY <1>3, <1>11, <1>12, <1>13
<1>15. QED
  BY <1>14 DEF m, n

\* While the browser shows the board of the design, adding a component there
\* and by the tool is the same edit, in every document that edits lead to
\* (SeedersAgree): the same component, the same connections in the same order,
\* on the same rails and buses, and new buses that differ in their ids only.
THEOREM SeedersAlwaysAgree == Spec => []SeedersAgree
<1>1. TypedInv => SeedersAgree
  <2> SUFFICES ASSUME TypedInv, design.board \in Boards, shown = design.board,
                      NEW lib \in Libraries
               PROVE  Added(AddWithConnections(design, lib, None))
                      = Added(AddComponentUi(design, lib, shown))
    BY DEF SeedersAgree
  <2> DEFINE id == InstanceId(design, lib, None)
             p  == ToolBuses(design, lib)
             q  == UiBuses(design, lib, shown)
  <2>1. Valid(design) /\ design \in Document
    BY TypedInvMeans DEF Valid
  <2>2. design.components \in Seq(Component) /\ design.buses \in Seq(Bus) /\ Distinct(design.buses)
    BY <2>1, ValidFields
  <2>3. id \in ComponentIds \ IdsOf(design.components)
    BY <2>2, InstanceIdFacts
  <2>4. Extends(design.buses, p) /\ Extends(design.buses, q)
    BY <2>1, <2>2, BusesExtend
  <2>5. Alike(p, q)
    <3>1. NeededBusTypes(lib) \in SUBSET BusTypes /\ 0 \in Nat /\ 1 \in Nat
      BY NeededFacts
    <3>2. ToolSeparator \in Separators /\ UiSeparator \in Separators
      BY SeparatorFacts
    <3>3. QED
      BY <2>2, <3>1, <3>2, GrownAlike DEF ToolBuses, UiBuses
  <2>6. AddWithConnections(design, lib, None) = Placed(design, id, lib, p, shown)
    BY <2>1, ToolAdds
  <2>7. AddComponentUi(design, lib, shown) = Placed(design, id, lib, q, shown)
    BY <2>1, StudioAdds
  <2> HIDE DEF id, p, q
  <2>8. QED
    BY <2>1, <2>3, <2>4, <2>5, <2>6, <2>7, PlacedAlike
<1>2. QED
  BY <1>1, TypedInvHolds, PTL

-----------------------------------------------------------------------------
(* The YAML that a document renders to.                                    *)

LEMMA FirstTargetFacts ==
    ASSUME NEW A, NEW s \in Seq(A), NEW I \in SUBSET (1 .. Len(s))
    PROVE  LET k  == FirstOf(I)
               at == IF k = 0 THEN None ELSE s[k].target.at
           IN  (I = {} => at = None) /\ (I # {} => \E i \in I : at = s[i].target.at)
<1>1. I \in SUBSET (Nat \ {0})
  OBVIOUS
<1>2. (FirstOf(I) = 0 <=> I = {}) /\ (I # {} => FirstOf(I) \in I)
  BY <1>1, FirstOfFacts
<1>3. QED
  BY <1>2

\* What BusFor and ParentFor find is named by a connection and there.
LEMMA BusForFacts ==
    ASSUME NEW d, Valid(d), NEW id
    PROVE  /\ BusFor(d, id) # None =>
                 \E c \in ToSet(d.connections) :
                    /\ c.owner = id /\ c.target.kind = "bus"
                    /\ c.target.at \in IdsOf(d.buses) /\ BusFor(d, id) = c.target.at
           /\ \A c \in ToSet(d.connections) :
                 c.owner = id /\ c.target.kind = "bus" /\ c.target.at \in IdsOf(d.buses)
                    => BusFor(d, id) \in IdsOf(d.buses)
<1> DEFINE s == d.connections
           I == {i \in 1 .. Len(s) : /\ s[i].owner = id /\ s[i].target.kind = "bus"
                                     /\ s[i].target.at \in IdsOf(d.buses)}
<1>1. BusFor(d, id) = IF FirstOf(I) = 0 THEN None ELSE s[FirstOf(I)].target.at
  BY DEF BusFor, First, SelectInSeq, FirstOf
<1>2. s \in Seq(Connection)
  BY ValidFields
<1>3. I \in SUBSET (1 .. Len(s))
  OBVIOUS
<1>4. \A i \in I : /\ s[i].owner = id /\ s[i].target.kind = "bus"
                   /\ s[i].target.at \in IdsOf(d.buses) /\ i \in 1 .. Len(s)
  OBVIOUS
<1>5. \A c \in ToSet(s) :
         c.owner = id /\ c.target.kind = "bus" /\ c.target.at \in IdsOf(d.buses) => I # {}
  BY <1>2, ToSetFacts
<1> HIDE DEF I, s
<1>6. /\ I = {} => BusFor(d, id) = None
      /\ I # {} => \E i \in I : BusFor(d, id) = s[i].target.at
  BY <1>1, <1>2, <1>3, FirstTargetFacts
<1>7. \A i \in I : s[i] \in ToSet(s)
  BY <1>2, <1>4, ToSetFacts
<1>8. QED
  BY <1>4, <1>5, <1>6, <1>7 DEF s

LEMMA ParentForFacts ==
    ASSUME NEW d, Valid(d), NEW id
    PROVE  /\ ParentFor(d, id) # None => ParentFor(d, id) \in IdsOf(d.components)
           /\ \A c \in ToSet(d.connections) :
                 c.owner = id /\ c.target.kind = "component" /\ c.target.at \in IdsOf(d.components)
                    => ParentFor(d, id) \in IdsOf(d.components)
<1> DEFINE s == d.connections
           I == {i \in 1 .. Len(s) : /\ s[i].owner = id /\ s[i].target.kind = "component"
                                     /\ s[i].target.at \in IdsOf(d.components)}
<1>1. ParentFor(d, id) = IF FirstOf(I) = 0 THEN None ELSE s[FirstOf(I)].target.at
  BY DEF ParentFor, First, SelectInSeq, FirstOf
<1>2. s \in Seq(Connection)
  BY ValidFields
<1>3. I \in SUBSET (1 .. Len(s))
  OBVIOUS
<1>4. \A i \in I : s[i].target.at \in IdsOf(d.components)
  OBVIOUS
<1>5. \A c \in ToSet(s) :
         c.owner = id /\ c.target.kind = "component" /\ c.target.at \in IdsOf(d.components)
            => I # {}
  BY <1>2, ToSetFacts
<1> HIDE DEF I, s
<1>6. /\ I = {} => ParentFor(d, id) = None
      /\ I # {} => \E i \in I : ParentFor(d, id) = s[i].target.at
  BY <1>1, <1>2, <1>3, FirstTargetFacts
<1>7. QED
  BY <1>4, <1>5, <1>6 DEF s

LEMMA NoneIsNoId ==
    ASSUME NEW d, Valid(d)
    PROVE  None \notin IdsOf(d.components) /\ None \notin IdsOf(d.buses)
  BY IdsTyped, LibraryAssumption

\* A template is given a bus or a parent only if there is one.
LEMMA ProvidedFacts ==
    ASSUME NEW d, Valid(d), NEW id
    PROVE  /\ "bus" \in Provided(d, id) => BusFor(d, id) # None
           /\ "parent" \in Provided(d, id) => ParentFor(d, id) \in IdsOf(d.components)
<1>1. \A c \in Connection : c.role # "bus" /\ c.role # "parent"
  BY TemplateAssumption DEF Connection
<1>2. ToSet(d.connections) \in SUBSET Connection
  BY ValidFields, ToSetFacts
<1>3. \A c \in PinsFor(d, id) : c.role # "bus" /\ c.role # "parent"
  BY <1>1, <1>2 DEF PinsFor
<1>4. "bus" \in Provided(d, id) => BusFor(d, id) # None
  BY <1>3 DEF Provided
<1>5. "parent" \in Provided(d, id) => ParentFor(d, id) # None
  BY <1>3 DEF Provided
<1>6. QED
  BY <1>4, <1>5, ParentForFacts

\* A component without an error has what its template reads.
LEMMA NoErrorFacts ==
    ASSUME NEW d, NEW e, e.lib \in DOMAIN TemplateUses
    PROVE  ComponentError(d, e) = None <=>
              LostExpanders(d, e.id) = {} /\ TemplateUses[e.lib] \subseteq Provided(d, e.id)
  BY TemplateAssumption DEF ComponentError

LEMMA YamlFacts ==
    ASSUME NEW d, Valid(d)
    PROVE  /\ Yaml(d).err = None <=>
                 d.board \in Boards /\ \A e \in ToSet(d.components) : ComponentError(d, e) = None
           /\ Yaml(d).err = None =>
                 /\ Yaml(d).buses = {b.id : b \in {x \in ToSet(d.buses) : x.type # "i2s"}}
                 /\ Yaml(d).names = UNION {NamesIn(d, e) : e \in Rendered(d)}
<1> DEFINE s   == d.components
           I   == {i \in 1 .. Len(s) : ComponentError(d, s[i]) # None}
           bad == FirstOf(I)
<1>1. s \in Seq(Component)
  BY ValidFields
<1>2. I \in SUBSET (Nat \ {0})
  OBVIOUS
<1>3. (bad = 0 <=> I = {}) /\ (I # {} => bad \in I)
  <2> HIDE DEF I
  <2>1. QED
    BY <1>2, FirstOfFacts
<1>4. I = {} <=> \A e \in ToSet(s) : ComponentError(d, e) = None
  BY <1>1, ToSetFacts
<1>5. bad # 0 => ComponentError(d, s[bad]) # None
  BY <1>3
<1>6. Yaml(d) =
        CASE d.board \notin Boards -> [err |-> "unknown_board"]
          [] d.board \in Boards /\ bad # 0 -> [err |-> ComponentError(d, s[bad])]
          [] OTHER ->
                [err   |-> None,
                 buses |-> {b.id : b \in {x \in ToSet(d.buses) : x.type # "i2s"}},
                 names |-> UNION {NamesIn(d, e) : e \in Rendered(d)}]
  BY DEF Yaml, SelectInSeq, FirstOf
<1> HIDE DEF I, bad
<1>7. CASE d.board \notin Boards
  <2>1. Yaml(d).err = "unknown_board"
    BY <1>6, <1>7
  <2>2. QED
    BY <1>7, <2>1, TemplateAssumption
<1>8. CASE d.board \in Boards /\ bad # 0
  <2>1. Yaml(d).err = ComponentError(d, s[bad])
    BY <1>6, <1>8
  <2>2. QED
    BY <1>3, <1>4, <1>5, <1>8, <2>1
<1>9. CASE d.board \in Boards /\ bad = 0
  BY <1>3, <1>4, <1>6, <1>9
<1>10. QED
  BY <1>7, <1>8, <1>9

LEMMA NamesFacts ==
    ASSUME NEW d, Valid(d), Yaml(d).err = None, NEW n \in Yaml(d).names
    PROVE  n[2] \in IF n[1] = "bus" THEN IdsOf(d.buses) ELSE IdsOf(d.components)
<1>1. PICK e \in Rendered(d) : n \in NamesIn(d, e)
  BY YamlFacts
<1>2. e.lib \in DOMAIN TemplateUses /\ e \in ToSet(d.components)
  BY DEF Rendered
<1>3. LostExpanders(d, e.id) = {} /\ TemplateUses[e.lib] \subseteq Provided(d, e.id)
  BY <1>2, YamlFacts, NoErrorFacts
<1>4. CASE n = <<"bus", BusFor(d, e.id)>> /\ "bus" \in TemplateUses[e.lib]
  <2>1. BusFor(d, e.id) # None
    BY <1>3, <1>4, ProvidedFacts
  <2>2. BusFor(d, e.id) \in IdsOf(d.buses)
    BY <2>1, BusForFacts
  <2>3. QED
    BY <1>4, <2>2
<1>5. CASE n = <<"component", ParentFor(d, e.id)>> /\ "parent" \in TemplateUses[e.lib]
  <2>1. ParentFor(d, e.id) \in IdsOf(d.components)
    BY <1>3, <1>5, ProvidedFacts
  <2>2. QED
    BY <1>5, <2>1
<1>6. CASE \E c \in PinsFor(d, e.id) :
              c.target.kind = "expander_pin" /\ n = <<"component", c.target.at>>
  <2>1. PICK c \in PinsFor(d, e.id) :
          c.target.kind = "expander_pin" /\ n = <<"component", c.target.at>>
    BY <1>6
  <2>2. c.target.at \in IdsOf(d.components)
    BY <1>3, <2>1 DEF LostExpanders
  <2>3. QED
    BY <2>1, <2>2
<1>7. QED
  BY <1>1, <1>4, <1>5, <1>6 DEF NamesIn

LEMMA BusTypeInFacts ==
    ASSUME NEW d, Valid(d), NEW b \in ToSet(d.buses)
    PROVE  BusTypeIn(d, b.id) = b.type
<1> DEFINE s == d.buses
           I == {i \in 1 .. Len(s) : s[i].id = b.id}
           k == FirstOf(I)
<1>1. BusTypeIn(d, b.id) = IF k = 0 THEN None ELSE s[k].type
  BY DEF BusTypeIn, First, SelectInSeq, FirstOf
<1>2. s \in Seq(Bus) /\ Distinct(s)
  BY ValidFields
<1>3. I \in SUBSET (Nat \ {0}) /\ I # {}
  BY <1>2, ToSetFacts
<1>4. k \in I
  <2> HIDE DEF I
  <2>1. QED
    BY <1>3, FirstOfFacts
<1> HIDE DEF k
<1>5. k \in 1 .. Len(s) /\ s[k].id = b.id /\ k # 0
  BY <1>4
<1>6. s[k] = b
  <2>1. s[k] \in ToSet(s)
    BY <1>2, <1>5, ToSetFacts
  <2>2. QED
    BY <1>2, <1>5, <2>1, DistinctIds
<1>7. QED
  BY <1>1, <1>5, <1>6

LEMMA PinKindIsOfAPin ==
    ASSUME NEW lib \in Libraries, NEW role
    PROVE  \/ PinKindIn(lib, role) = None
           \/ \E k \in DOMAIN LibPins[lib] : PinKindIn(lib, role) = LibPins[lib][k].kind
<1> DEFINE pins == LibPins[lib]
           I == {i \in 1 .. Len(pins) : pins[i].role = role}
           j == FirstOf(I)
<1>1. PinKindIn(lib, role) = IF j = 0 THEN None ELSE pins[j].kind
  BY DEF PinKindIn, First, SelectInSeq, FirstOf
<1>2. DOMAIN pins = 1 .. Len(pins)
  BY LibraryAssumption
<1>3. I \in SUBSET (Nat \ {0}) /\ I \in SUBSET (DOMAIN pins)
  BY <1>2
<1> HIDE DEF I
<1>4. j = 0 \/ j \in DOMAIN pins
  BY <1>3, FirstOfFacts
<1> HIDE DEF j, pins
<1>5. QED
  BY <1>1, <1>4 DEF pins

\* A bus that fits the pin of a component is of a type that the component needs.
LEMMA FittingBus ==
    ASSUME NEW d, Valid(d), NEW e \in ToSet(d.components), NEW c, c.owner = e.id,
           c.target.kind = "bus", c.target.at # None, Fits(d, c)
    PROVE  \E b \in ToSet(d.buses) : b.id = c.target.at /\ b.type \in NeededBusTypes(e.lib)
<1>1. PICK b \in ToSet(d.buses) : b.id = c.target.at /\ b.type = BusTypeOf(KindOfRole(d, c))
  BY DEF Fits
<1>2. b.type \in BusTypes /\ e.lib \in Libraries
  <2>1. ToSet(d.buses) \in SUBSET Bus /\ ToSet(d.components) \in SUBSET Component
    BY ValidFields, ToSetFacts
  <2>2. QED
    BY <2>1 DEF Bus, Component
<1>3. KindOfRole(d, c) = PinKindIn(e.lib, c.role)
  BY ValidFields, KindOfRoleFacts
<1>4. b.type # None
  BY <1>2, KindFacts
<1>5. PICK k \in DOMAIN LibPins[e.lib] : KindOfRole(d, c) = LibPins[e.lib][k].kind
  <2>1. KindOfRole(d, c) # None
    BY <1>1, <1>4, KindFacts
  <2>2. QED
    BY <1>2, <1>3, <2>1, PinKindIsOfAPin
<1>6. b.type \in NeededBusTypes(e.lib)
  BY <1>1, <1>4, <1>5 DEF NeededBusTypes, ToSet
<1>7. QED
  BY <1>1, <1>6

\* Whatever was edited in what order, a YAML that renders names only buses and
\* components of the design, and gives a component the block of a bus that its
\* pins need, unless somebody named that bus wrongly (YamlIsClosed).
THEOREM RenderedYamlIsClosed == Spec => []YamlIsClosed
<1>1. TypedInv /\ ReferencesAreSound => YamlIsClosed
  <2> SUFFICES ASSUME TypedInv, ReferencesAreSound, Yaml(design).err = None
               PROVE  YamlIsClosed
    BY DEF YamlIsClosed
  <2>1. Valid(design)
    BY TypedInvMeans
  <2>2. \A n \in Yaml(design).names :
           n[2] \in IF n[1] = "bus" THEN IdsOf(design.buses) ELSE IdsOf(design.components)
    BY <2>1, NamesFacts
  <2>3. ASSUME NEW e \in Rendered(design), "bus" \in TemplateUses[e.lib]
        PROVE  LET b == BusFor(design, e.id) IN
               \/ b \in Yaml(design).buses /\ BusTypeIn(design, b) \in NeededBusTypes(e.lib)
               \/ b \in loose
    <3>1. e.lib \in DOMAIN TemplateUses /\ e \in ToSet(design.components)
      BY DEF Rendered
    <3>2. TemplateUses[e.lib] \subseteq Provided(design, e.id)
      BY <2>1, <3>1, YamlFacts, NoErrorFacts
    <3>3. BusFor(design, e.id) # None
      BY <2>1, <2>3, <3>2, ProvidedFacts
    <3>4. PICK c \in ToSet(design.connections) :
            /\ c.owner = e.id /\ c.target.kind = "bus"
            /\ c.target.at \in IdsOf(design.buses) /\ BusFor(design, e.id) = c.target.at
      BY <2>1, <3>3, BusForFacts
    <3>5. Fits(design, c) \/ c.target.at \in loose
      BY DEF ReferencesAreSound
    <3>6. CASE Fits(design, c)
      <4>1. PICK b \in ToSet(design.buses) :
              b.id = c.target.at /\ b.type \in NeededBusTypes(e.lib)
        BY <2>1, <3>1, <3>3, <3>4, <3>6, FittingBus
      <4>2. b.type # "i2s"
        BY <2>3, <3>1, <4>1, TemplateAssumption
      <4>3. BusTypeIn(design, b.id) = b.type
        BY <2>1, BusTypeInFacts
      <4>4. b.id \in Yaml(design).buses
        BY <2>1, <4>2, YamlFacts
      <4>5. QED
        BY <3>4, <4>1, <4>3, <4>4
    <3>7. QED
      BY <3>4, <3>5, <3>6
  <2>4. QED
    BY <2>2, <2>3 DEF YamlIsClosed
<1>2. QED
  BY <1>1, TypedInvHolds, ReferencesStaySound, PTL

-----------------------------------------------------------------------------
(* What sound designs are good for.                                        *)

\* A wired component has a connection for each of its pins.
LEMMA WiredPin ==
    ASSUME NEW d, Valid(d), NEW e \in ToSet(d.components),
           WiredIn(d.connections, e.id, LibPins[e.lib]), NEW k \in DOMAIN LibPins[e.lib]
    PROVE  \E c \in ToSet(d.connections) :
              /\ c.owner = e.id /\ c.role = LibPins[e.lib][k].role
              /\ KindOfRole(d, c) = LibPins[e.lib][k].kind
<1> DEFINE pins == LibPins[e.lib]
           s    == d.connections
<1>1. PICK at \in [DOMAIN pins -> OwnedIn(s, e.id)] :
        \A j \in DOMAIN pins : s[at[j]].role = pins[j].role
  BY DEF WiredIn
<1>2. at[k] \in 1 .. Len(s) /\ s[at[k]].owner = e.id /\ s[at[k]].role = pins[k].role
  BY <1>1 DEF OwnedIn
<1>3. s[at[k]] \in ToSet(s)
  BY <1>2, ValidFields, ToSetFacts
<1>4. e.lib \in Libraries
  <2>1. ToSet(d.components) \in SUBSET Component
    BY ValidFields, ToSetFacts
  <2>2. QED
    BY <2>1 DEF Component
<1>5. KindOfRole(d, s[at[k]]) = PinKindIn(e.lib, pins[k].role)
  BY <1>2, ValidFields, KindOfRoleFacts
<1>6. PinKindIn(e.lib, pins[k].role) = pins[k].kind
  BY <1>4, PinKindFacts
<1>7. QED
  BY <1>2, <1>3, <1>5, <1>6

\* The template of a complete component is given what it reads.
LEMMA CompleteProvides ==
    ASSUME Valid(design), FullyWired, NEW e \in ToSet(design.components), Complete(design, e),
           NEW u \in Given(e.lib)
    PROVE  u \in Provided(design, e.id)
<1> DEFINE pins == LibPins[e.lib]
<1>1. e.id \notin astray /\ \A c \in ToSet(design.connections) : c.owner = e.id =>
         LET kind == KindOfRole(design, c) IN
         /\ Fits(design, c)
         /\ BusTypeOf(kind) # None <=> c.target.kind = "bus"
         /\ kind = "hub_ref" => c.target.kind = "component"
         /\ IsSignal(kind) => c.target.kind \in {"gpio", "expander_pin"}
         /\ c.target.kind # "gpio" => c.target.at # None
  BY DEF Complete
<1>2. WiredIn(design.connections, e.id, pins)
  BY <1>1, WiredMeans DEF AllWired
<1>3. \A k \in DOMAIN pins : \E c \in ToSet(design.connections) :
         /\ c.owner = e.id /\ c.role = pins[k].role /\ KindOfRole(design, c) = pins[k].kind
  BY <1>2, WiredPin
<1>4. \A p \in ToSet(pins) : \E c \in ToSet(design.connections) :
         c.owner = e.id /\ c.role = p.role /\ KindOfRole(design, c) = p.kind
  BY <1>3 DEF ToSet
<1>5. None \notin IdsOf(design.components) /\ None \notin IdsOf(design.buses)
  BY NoneIsNoId
<1>6. ASSUME NEW p \in ToSet(pins), IsSignal(p.kind), u = p.role PROVE u \in Provided(design, e.id)
  <2>1. PICK c \in ToSet(design.connections) :
          c.owner = e.id /\ c.role = p.role /\ KindOfRole(design, c) = p.kind
    BY <1>4
  <2>2. c \in PinsFor(design, e.id)
    BY <1>1, <1>6, <2>1 DEF PinsFor
  <2>3. QED
    BY <1>6, <2>1, <2>2 DEF Provided
<1>7. ASSUME NEW type \in NeededBusTypes(e.lib), u = "bus" PROVE u \in Provided(design, e.id)
  <2>1. PICK p \in ToSet(pins) : BusTypeOf(p.kind) # None
    BY DEF NeededBusTypes
  <2>2. PICK c \in ToSet(design.connections) :
          c.owner = e.id /\ c.role = p.role /\ KindOfRole(design, c) = p.kind
    BY <1>4
  <2>3. c.target.kind = "bus" /\ c.target.at # None /\ Fits(design, c)
    BY <1>1, <2>1, <2>2
  <2>4. c.target.at \in IdsOf(design.buses)
    BY <2>3 DEF Fits, IdsOf
  <2>5. BusFor(design, e.id) \in IdsOf(design.buses)
    BY <2>2, <2>3, <2>4, BusForFacts
  <2>6. BusFor(design, e.id) # None
    BY <1>5, <2>5
  <2>7. QED
    BY <1>7, <2>6 DEF Provided
<1>8. ASSUME NEW p \in ToSet(pins), p.kind = "hub_ref", u = "parent"
      PROVE  u \in Provided(design, e.id)
  <2>1. PICK c \in ToSet(design.connections) :
          c.owner = e.id /\ c.role = p.role /\ KindOfRole(design, c) = p.kind
    BY <1>4
  <2>2. c.target.kind = "component" /\ c.target.at # None /\ Fits(design, c)
    BY <1>1, <1>8, <2>1
  <2>3. c.target.at \in IdsOf(design.components)
    BY <2>2 DEF Fits, IdsOf
  <2>4. ParentFor(design, e.id) \in IdsOf(design.components)
    BY <2>1, <2>2, <2>3, ParentForFacts
  <2>5. ParentFor(design, e.id) # None
    BY <1>5, <2>4
  <2>6. QED
    BY <1>8, <2>5 DEF Provided
<1>9. \/ \E p \in ToSet(pins) : IsSignal(p.kind) /\ u = p.role
      \/ u = "bus" /\ \E type \in NeededBusTypes(e.lib) : TRUE
      \/ u = "parent" /\ \E p \in ToSet(pins) : p.kind = "hub_ref"
  BY DEF Given
<1>10. QED
  BY <1>6, <1>7, <1>8, <1>9

LEMMA CompleteRenders ==
    ASSUME Valid(design), FullyWired, NEW e \in ToSet(design.components), Complete(design, e)
    PROVE  ComponentError(design, e) = None
<1>1. CASE e.lib \notin DOMAIN TemplateUses
  BY <1>1 DEF ComponentError
<1>2. CASE e.lib \in DOMAIN TemplateUses
  <2>1. TemplateUses[e.lib] \subseteq Given(e.lib)
    BY <1>2 DEF Complete
  <2>2. TemplateUses[e.lib] \subseteq Provided(design, e.id)
    BY <2>1, CompleteProvides
  <2>3. ASSUME NEW c \in LostExpanders(design, e.id) PROVE FALSE
    <3>1. /\ c \in ToSet(design.connections) /\ c.owner = e.id
          /\ c.target.kind = "expander_pin" /\ c.target.at \notin IdsOf(design.components)
      BY <2>3 DEF LostExpanders, PinsFor
    <3>2. Fits(design, c) /\ c.target.at # None
      BY <3>1 DEF Complete
    <3>3. QED
      BY <3>1, <3>2 DEF Fits, IdsOf
  <2>4. QED
    BY <1>2, <2>2, <2>3, NoErrorFacts
<1>3. QED
  BY <1>1, <1>2

\* A complete component has the roles of its library entry and no others, so its
\* part has a pin for each of its connections if it has one for each role.
LEMMA CompletePins ==
    ASSUME Valid(design), FullyWired, NEW e \in ToSet(design.components), Complete(design, e),
           Mapped(e.lib), NEW c \in ToSet(design.connections), c.owner = e.id
    PROVE  HasPin(design, c)
<1> DEFINE pins == LibPins[e.lib]
<1>1. ById(design.components, c.owner) = e
  <2>1. design.components \in Seq(Component) /\ Distinct(design.components)
    BY ValidFields
  <2>2. c.owner \in IdsOf(design.components)
    BY DEF IdsOf
  <2>3. QED
    BY <2>1, <2>2, ByIdFacts, DistinctIds
<1>2. PICK at \in [DOMAIN pins -> OwnedAt(e.id)] :
        /\ \A i \in OwnedAt(e.id) : \E k \in DOMAIN pins : at[k] = i
        /\ \A k \in DOMAIN pins : design.connections[at[k]].role = pins[k].role
  <2>1. e.id \notin astray
    BY DEF Complete
  <2>2. QED
    BY <2>1 DEF FullyWired, WiredAs
<1>3. PICK i \in DOMAIN design.connections : design.connections[i] = c
  BY DEF ToSet
<1>4. PICK k \in DOMAIN pins : at[k] = i
  BY <1>2, <1>3 DEF OwnedAt
<1>5. c.role = pins[k].role /\ pins[k] \in ToSet(pins)
  BY <1>2, <1>3, <1>4 DEF ToSet
<1>6. PinName(e.lib, c.role) \in PartPins(e.lib)
  BY <1>5 DEF Mapped
<1>7. QED
  BY <1>1, <1>6 DEF HasPin

\* The script of a design of complete components, each with its pins, runs.
LEMMA CompleteScript ==
    ASSUME Valid(design), FullyWired,
           \A e \in ToSet(design.components) : Complete(design, e) /\ Mapped(e.lib)
    PROVE  ScriptRuns(design)
<1> SUFFICES ASSUME NEW c \in Wired(design) PROVE HasNet(design, c) /\ HasPin(design, c)
  BY DEF ScriptRuns
<1>1. c \in ToSet(design.connections) /\ c.owner \in IdsOf(design.components)
  BY DEF Wired
<1>2. PICK e \in ToSet(design.components) : e.id = c.owner
  BY <1>1 DEF IdsOf
<1>3. Fits(design, c) /\ (c.target.kind # "gpio" => c.target.at # None)
  BY <1>1, <1>2 DEF Complete
<1>4. HasNet(design, c)
  <2>1. c.target.kind = "rail" => c.target.at \in RailNets(design)
    BY <1>1 DEF RailNets
  <2>2. c.target.kind = "bus" => c.target.at \in BusNets(design)
    BY <1>3 DEF Fits, BusNets, IdsOf
  <2>3. QED
    BY <2>1, <2>2 DEF HasNet
<1>5. HasPin(design, c)
  BY <1>1, <1>2, CompletePins
<1>6. QED
  BY <1>4, <1>5

\* The steps of a picture that are in trouble.
Met(runs, format, trouble) ==
    ({trouble} \ IF format = "svg" THEN ConverterTroubles ELSE {})
    \cup (IF runs THEN {} ELSE {"script_fails"})

MetAt(runs, format, trouble) ==
    {i \in 1 .. Len(RenderSteps) : RenderSteps[i].trouble \in Met(runs, format, trouble)}

\* Nothing is in trouble while every program works and the script runs.
LEMMA PictureDrawn ==
    ASSUME NEW f \in Formats
    PROVE  PictureEndpoint(TRUE, f, None) = 200
<1> DEFINE raised == RenderSchematic[TRUE][f][None]
<1>1. RenderSchematic =
        [r \in BOOLEAN |-> [g \in Formats |-> [x \in Troubles \cup {None} |->
            IF FirstOf(MetAt(r, g, x)) = 0 THEN None
            ELSE RenderSteps[FirstOf(MetAt(r, g, x))].raises]]]
  BY DEF RenderSchematic, MetAt, Met, SelectInSeq, FirstOf
<1>2. Met(TRUE, f, None) \in SUBSET {None}
  BY DEF Met
<1>3. DOMAIN RenderSteps = 1 .. Len(RenderSteps)
  BY DEF RenderSteps
<1>4. MetAt(TRUE, f, None) = {}
  BY <1>2, <1>3, TroubleAssumption DEF MetAt, Troubles
<1>5. FirstOf(MetAt(TRUE, f, None)) = 0
  BY <1>4, FirstOfFacts
<1>6. raised = None
  BY <1>1, <1>5
<1>7. PictureEndpoint(TRUE, f, None) =
        CASE raised = None -> 200 [] raised = "RenderUnavailable" -> 503 [] OTHER -> 500
  BY DEF PictureEndpoint
<1>8. None # "RenderUnavailable"
  <2>1. 1 \in DOMAIN RenderSteps /\ RenderSteps[1].raises = "RenderUnavailable"
    BY DEF RenderSteps, Unavailable
  <2>2. QED
    BY <2>1, TroubleAssumption
<1> HIDE DEF raised
<1>9. QED
  BY <1>6, <1>7, <1>8

\* Whatever was edited in what order, a design of complete components renders for
\* the endpoint and the tools, and if the part of each has a pin for each role, its
\* script runs and its picture is drawn unless a program fails (SoundDesignsRender).
THEOREM CompleteDesignsRender == Spec => []SoundDesignsRender
<1>1. TypedInv /\ FullyWired => SoundDesignsRender
  <2> SUFFICES ASSUME TypedInv, FullyWired, design.board \in Boards,
                      \A e \in ToSet(design.components) : Complete(design, e)
               PROVE  /\ RenderEndpoint(design) = 200
                      /\ RenderTool(design).ok /\ ValidateTool(design).ok
                      /\ (\A e \in ToSet(design.components) : Mapped(e.lib)) =>
                            \A f \in Formats : PictureEndpoint(ScriptRuns(design), f, None) = 200
    BY DEF SoundDesignsRender
  <2>1. Valid(design)
    BY TypedInvMeans
  <2>2. Yaml(design).err = None
    <3>1. \A e \in ToSet(design.components) : ComponentError(design, e) = None
      BY <2>1, CompleteRenders
    <3>2. QED
      BY <2>1, <3>1, YamlFacts
  <2>3. RenderEndpoint(design) = 200 /\ RenderTool(design).ok /\ ValidateTool(design).ok
    BY <2>2 DEF RenderEndpoint, RenderTool, ValidateTool
  <2>4. ASSUME \A e \in ToSet(design.components) : Mapped(e.lib), NEW f \in Formats
        PROVE  PictureEndpoint(ScriptRuns(design), f, None) = 200
    <3>1. ScriptRuns(design)
      BY <2>1, <2>4, CompleteScript
    <3>2. ScriptRuns(design) = TRUE
      BY <3>1 DEF ScriptRuns
    <3>3. QED
      BY <3>2, PictureDrawn
  <2>5. QED
    BY <2>3, <2>4
<1>2. QED
  BY <1>1, TypedInvHolds, ComponentsStayWired, PTL

-----------------------------------------------------------------------------
(* The bill of materials.                                                  *)

\* SumFunction folds over the sets of positions.
Sums(f, g) ==
    g = [s \in SUBSET DOMAIN f |->
           IF s = {} THEN 0 ELSE f[CHOOSE x \in s : TRUE] + g[s \ {CHOOSE x \in s : TRUE}]]

LEMMA SumIsFold ==
    ASSUME NEW f
    PROVE  SumFunction(f) = (CHOOSE g : Sums(f, g))[DOMAIN f]
  BY DEF SumFunction, SumFunctionOnSet, FoldFunctionOnSet, MapThenFoldSet, Sums

\* Two folds of the same function are the same: take the least set on which they
\* differ.
LEMMA SumsUnique ==
    ASSUME NEW f, IsFiniteSet(DOMAIN f), NEW g, Sums(f, g), NEW h, Sums(f, h),
           NEW S \in SUBSET DOMAIN f
    PROVE  g[S] = h[S]
<1> DEFINE Bad == {Cardinality(s) : s \in {t \in SUBSET DOMAIN f : g[t] # h[t]}}
<1>1. \A s \in SUBSET DOMAIN f : IsFiniteSet(s) /\ Cardinality(s) \in Nat
  BY FS_Subset, FS_CardinalityType
<1>2. SUFFICES ASSUME Bad # {} PROVE FALSE
  OBVIOUS
<1>3. PICK m \in Bad : \A n \in Bad : m <= n
  <2>1. Bad \in SUBSET Nat
    BY <1>1
  <2> HIDE DEF Bad
  <2>2. QED
    BY <1>2, <2>1, LeastNumber
<1>4. PICK s \in SUBSET DOMAIN f : g[s] # h[s] /\ m = Cardinality(s)
  OBVIOUS
<1> DEFINE x == CHOOSE y \in s : TRUE
<1>5. /\ g[s] = IF s = {} THEN 0 ELSE f[x] + g[s \ {x}]
      /\ h[s] = IF s = {} THEN 0 ELSE f[x] + h[s \ {x}]
  BY DEF Sums
<1>6. s # {} /\ x \in s
  BY <1>4, <1>5
<1>7. Cardinality(s \ {x}) = Cardinality(s) - 1 /\ s \ {x} \in SUBSET DOMAIN f
  BY <1>1, <1>6, FS_RemoveElement
<1> HIDE DEF x
<1>8. g[s \ {x}] # h[s \ {x}]
  BY <1>4, <1>5, <1>6
<1>9. Cardinality(s \ {x}) \in Bad
  BY <1>7, <1>8
<1>10. m \in Nat /\ m <= m - 1
  <2> HIDE DEF Bad
  <2>1. QED
    BY <1>1, <1>3, <1>4, <1>7, <1>9
<1>11. QED
  BY <1>10

\* The sizes of disjoint sets add up to that of their union.
LEMMA SumOfParts ==
    ASSUME NEW m \in Nat, NEW P, \A i \in 1 .. m : IsFiniteSet(P[i]),
           \A i, j \in 1 .. m : i # j => P[i] \cap P[j] = {}
    PROVE  SumFunction([i \in 1 .. m |-> Cardinality(P[i])]) = Cardinality(UNION {P[i] : i \in 1 .. m})
<1> DEFINE f == [i \in 1 .. m |-> Cardinality(P[i])]
           U(s) == UNION {P[i] : i \in s}
           h == [s \in SUBSET (1 .. m) |-> Cardinality(U(s))]
<1>1. IsFiniteSet(1 .. m)
  BY FS_Interval
<1>2. ASSUME NEW s \in SUBSET (1 .. m) PROVE IsFiniteSet(U(s))
  <2>1. IsFiniteSet({P[i] : i \in s})
    <3>1. IsFiniteSet(s)
      BY <1>1, FS_Subset
    <3> DEFINE e == [i \in s |-> P[i]]
    <3>2. e \in Surjection(s, {P[i] : i \in s})
      BY DEF Surjection
    <3>3. QED
      BY <3>1, <3>2, FS_Surjection
  <2>2. QED
    BY <2>1, FS_UNION
<1>3. ASSUME NEW s \in SUBSET (1 .. m), NEW x \in s
      PROVE  Cardinality(U(s)) = Cardinality(P[x]) + Cardinality(U(s \ {x}))
  <2>1. U(s) = P[x] \cup U(s \ {x}) /\ P[x] \cap U(s \ {x}) = {}
    OBVIOUS
  <2>2. IsFiniteSet(P[x]) /\ IsFiniteSet(U(s \ {x}))
    BY <1>2
  <2> HIDE DEF U
  <2>3. /\ Cardinality(P[x]) \in Nat /\ Cardinality(U(s \ {x})) \in Nat
        /\ Cardinality(P[x] \cap U(s \ {x})) = 0
    BY <2>1, <2>2, FS_EmptySet, FS_CardinalityType
  <2>4. Cardinality(P[x] \cup U(s \ {x})) =
           Cardinality(P[x]) + Cardinality(U(s \ {x})) - Cardinality(P[x] \cap U(s \ {x}))
    BY <2>2, FS_Union
  <2>5. QED
    BY <2>1, <2>3, <2>4
<1>4. Cardinality(U({})) = 0
  BY FS_EmptySet
<1>5. DOMAIN f = 1 .. m /\ \A i \in 1 .. m : f[i] = Cardinality(P[i])
  OBVIOUS
<1>6. Sums(f, h)
  <2> HIDE DEF U, f
  <2>1. ASSUME NEW s \in SUBSET (1 .. m), s # {}, NEW x, x = CHOOSE y \in s : TRUE
        PROVE  h[s] = f[x] + h[s \ {x}]
    <3>1. x \in s
      BY <2>1
    <3>2. QED
      BY <1>3, <1>5, <3>1
  <2>2. h[{}] = 0
    BY <1>4
  <2>3. \A s \in SUBSET DOMAIN f :
           h[s] = IF s = {} THEN 0 ELSE f[CHOOSE x \in s : TRUE] + h[s \ {CHOOSE x \in s : TRUE}]
    <3> SUFFICES ASSUME NEW s \in SUBSET (1 .. m), NEW x, x = CHOOSE y \in s : TRUE
                 PROVE  h[s] = IF s = {} THEN 0 ELSE f[x] + h[s \ {x}]
      BY <1>5
    <3> HIDE DEF h
    <3>1. QED
      BY <2>1, <2>2
  <2>4. DOMAIN h = SUBSET DOMAIN f /\ h = [s \in DOMAIN h |-> h[s]]
    BY <1>5
  <2> HIDE DEF h
  <2>5. QED
    BY <2>3, <2>4 DEF Sums
<1> HIDE DEF f, h
<1>7. Sums(f, CHOOSE g : Sums(f, g))
  BY <1>6
<1>8. SumFunction(f) = h[1 .. m]
  <2>1. 1 .. m \in SUBSET DOMAIN f
    BY <1>5
  <2>2. QED
    BY <1>1, <1>5, <1>6, <1>7, <2>1, SumIsFold, SumsUnique
<1>9. h[1 .. m] = Cardinality(UNION {P[i] : i \in 1 .. m})
  BY DEF h
<1>10. QED
  BY <1>8, <1>9 DEF f

\* The lines of the bill: each library id once.
LEMMA BomOrderFacts ==
    ASSUME NEW d, Valid(d)
    PROVE  LET order == BomOrder(d)
               lib(k) == d.components[k].lib
           IN  /\ DOMAIN order = 1 .. Len(order) /\ Len(order) \in Nat
               /\ \A i, j \in 1 .. Len(order) : i # j => order[i] # order[j]
               /\ \A i \in 1 .. Len(order) : \E k \in 1 .. Len(d.components) : order[i] = lib(k)
               /\ \A k \in 1 .. Len(d.components) : \E i \in 1 .. Len(order) : order[i] = lib(k)
<1> DEFINE n      == Len(d.components)
           lib(k) == d.components[k].lib
           again  == {k \in DOMAIN d.components : \E j \in 1 .. k - 1 : lib(j) = lib(k)}
           pos    == [k \in DOMAIN d.components |-> k]
           firsts == Without(pos, again)
           order  == [i \in DOMAIN firsts |-> lib(firsts[i])]
<1>1. BomOrder(d) = order
  BY DEF BomOrder
<1>2. n \in Nat /\ DOMAIN d.components = 1 .. n
  BY ValidFields
<1>3. pos \in Seq(Nat) /\ Len(pos) = n /\ \A k \in 1 .. n : pos[k] = k
  BY <1>2
<1>4. \A k : k \in again <=> k \in 1 .. n /\ \E j \in 1 .. k - 1 : lib(j) = lib(k)
  BY <1>2
<1> HIDE DEF pos, again
<1>5. PICK g : firsts \in Seq(Nat) /\ Numbers(pos, again, n, firsts, g)
  BY <1>3, WithoutFacts
<1> HIDE DEF firsts
<1>6. DOMAIN firsts = 1 .. Len(firsts) /\ Len(firsts) \in Nat
  BY <1>5
<1>7. /\ \A i \in 1 .. Len(firsts) : g[i] \in 1 .. n /\ g[i] \notin again /\ firsts[i] = g[i]
      /\ \A i, j \in 1 .. Len(firsts) : i < j => g[i] < g[j]
      /\ \A k \in 1 .. n : k \notin again => \E i \in 1 .. Len(firsts) : firsts[i] = k
  BY <1>3, <1>5 DEF Numbers
<1>8. /\ DOMAIN order = 1 .. Len(firsts) /\ Len(order) = Len(firsts)
      /\ \A i \in 1 .. Len(firsts) : order[i] = lib(firsts[i])
  BY <1>6
<1> HIDE DEF order, lib
<1>9. ASSUME NEW i \in 1 .. Len(firsts), NEW j \in 1 .. Len(firsts), i < j
      PROVE  order[i] # order[j]
  <2>1. g[i] \in 1 .. n /\ g[j] \in 1 .. n /\ g[i] < g[j] /\ g[j] \notin again
    BY <1>7, <1>9
  <2>2. g[i] \in 1 .. g[j] - 1
    BY <1>2, <2>1
  <2>3. lib(g[i]) # lib(g[j])
    BY <1>4, <2>1, <2>2
  <2>4. QED
    BY <1>7, <1>8, <2>3
<1>10. \A i, j \in 1 .. Len(firsts) : i # j => order[i] # order[j]
  <2> SUFFICES ASSUME NEW i \in 1 .. Len(firsts), NEW j \in 1 .. Len(firsts), i # j
               PROVE  order[i] # order[j]
    OBVIOUS
  <2>1. i < j \/ j < i
    BY <1>6
  <2>2. QED
    BY <1>9, <2>1
<1>11. \A i \in 1 .. Len(firsts) : \E k \in 1 .. n : order[i] = lib(k)
  BY <1>7, <1>8
<1>12. ASSUME NEW k \in 1 .. n PROVE \E i \in 1 .. Len(firsts) : order[i] = lib(k)
  <2> DEFINE Same == {j \in 1 .. n : lib(j) = lib(k)}
  <2>1. Same \in SUBSET Nat /\ Same # {}
    BY <1>2
  <2>2. PICK m \in Same : \A j \in Same : m <= j
    BY <2>1, LeastNumber
  <2>3. m \in 1 .. n /\ lib(m) = lib(k)
    OBVIOUS
  <2>4. m \notin again
    <3>1. ASSUME NEW j \in 1 .. m - 1, lib(j) = lib(m) PROVE FALSE
      <4>1. j \in Same /\ j < m
        BY <1>2, <2>3, <3>1
      <4>2. QED
        BY <1>2, <2>2, <2>3, <4>1
    <3>2. QED
      BY <1>4, <3>1
  <2>5. QED
    BY <1>7, <1>8, <2>3, <2>4
<1>13. QED
  BY <1>1, <1>2, <1>6, <1>8, <1>10, <1>11, <1>12 DEF lib

\* Every component is counted in one line.
LEMMA QuantitiesAddUp ==
    ASSUME NEW d, Valid(d)
    PROVE  SumFunction([i \in 1 .. Len(BomOrder(d)) |-> Quantity(d, BomOrder(d)[i])]) = Len(d.components)
<1> DEFINE order == BomOrder(d)
           n     == Len(d.components)
           P     == [i \in 1 .. Len(order) |-> {k \in 1 .. n : d.components[k].lib = order[i]}]
<1>1. n \in Nat /\ DOMAIN d.components = 1 .. n
  BY ValidFields
<1>2. /\ Len(order) \in Nat
      /\ \A i, j \in 1 .. Len(order) : i # j => order[i] # order[j]
      /\ \A k \in 1 .. n : \E i \in 1 .. Len(order) : order[i] = d.components[k].lib
  BY BomOrderFacts
<1>3. IsFiniteSet(1 .. n) /\ Cardinality(1 .. n) = n
  BY <1>1, FS_Interval
<1>4. \A i \in 1 .. Len(order) : Quantity(d, order[i]) = Cardinality(P[i])
  BY <1>1 DEF Quantity
<1> HIDE DEF order
<1>5. \A i \in 1 .. Len(order) : IsFiniteSet(P[i])
  BY <1>3, FS_Subset
<1>6. \A i, j \in 1 .. Len(order) : i # j => P[i] \cap P[j] = {}
  BY <1>2
<1>7. UNION {P[i] : i \in 1 .. Len(order)} = 1 .. n
  BY <1>2
<1> HIDE DEF P
<1>8. SumFunction([i \in 1 .. Len(order) |-> Cardinality(P[i])]) = n
  <2>1. Cardinality(UNION {P[i] : i \in 1 .. Len(order)}) = n
    BY <1>3, <1>7
  <2>2. Len(order) \in Nat
    BY <1>2
  <2> DEFINE m == Len(order)
  <2> HIDE DEF m, n
  <2>3. m \in Nat /\ (\A i \in 1 .. m : IsFiniteSet(P[i])) /\ (\A i, j \in 1 .. m : i # j => P[i] \cap P[j] = {})
    BY <1>5, <1>6, <2>2 DEF m
  <2>4. SumFunction([i \in 1 .. m |-> Cardinality(P[i])]) = Cardinality(UNION {P[i] : i \in 1 .. m})
    BY <2>3, SumOfParts
  <2>5. QED
    BY <2>1, <2>4 DEF m
<1>9. [i \in 1 .. Len(order) |-> Quantity(d, order[i])] = [i \in 1 .. Len(order) |-> Cardinality(P[i])]
  BY <1>4
<1>10. QED
  BY <1>8, <1>9 DEF order

\* Where a report ends.
Down(order, market) == {i \in 1 .. Len(order) : market[order[i]] = "down"}

LEMMA CheckBomFacts ==
    ASSUME NEW d, Valid(d), NEW market
    PROVE  LET order == BomOrder(d)
               down  == Down(order, market)
               last  == IF down = {} THEN Len(order) ELSE FirstOf(down) - 1
               r     == CheckBom(d, market)
           IN  /\ r.available <=> down = {}
               /\ r.lines = [i \in 1 .. last |-> BomLine(d, order[i], market)]
               /\ last \in 0 .. Len(order)
               /\ \A i \in 1 .. last : i \notin down
<1> DEFINE order == BomOrder(d)
           down  == Down(order, market)
           first == FirstOf(down)
           done  == IF first = 0 THEN order ELSE SubSeq(order, 1, first - 1)
           last  == IF down = {} THEN Len(order) ELSE first - 1
<1>1. Len(order) \in Nat /\ DOMAIN order = 1 .. Len(order)
  BY BomOrderFacts
<1>2. SelectInSeq(order, LAMBDA lib : market[lib] = "down") = first
  BY DEF SelectInSeq, FirstOf, Down
<1>3. CheckBom(d, market) =
        [available |-> first = 0, lines |-> [i \in DOMAIN done |-> BomLine(d, done[i], market)]]
  BY <1>2 DEF CheckBom
<1>4. /\ first = 0 <=> down = {}
      /\ down # {} => first \in 1 .. Len(order) /\ \A i \in down : first <= i
  <2>1. down \in SUBSET (Nat \ {0}) /\ down \subseteq 1 .. Len(order)
    BY <1>1 DEF Down
  <2> HIDE DEF down
  <2>2. QED
    BY <2>1, FirstOfFacts
<1> HIDE DEF first, down, order
<1>5. last \in 0 .. Len(order)
  BY <1>1, <1>4
<1>6. DOMAIN done = 1 .. last /\ \A i \in 1 .. last : done[i] = order[i]
  <2>1. CASE first = 0
    BY <1>1, <1>4, <2>1
  <2>2. CASE first # 0
    BY <1>1, <1>4, <2>2
  <2>3. QED
    BY <2>1, <2>2
<1>7. \A i \in 1 .. last : i \notin down
  <2>1. CASE down = {}
    BY <2>1
  <2>2. CASE down # {}
    <3>1. first \in 1 .. Len(order) /\ last = first - 1
      BY <1>4, <2>2
    <3>2. \A i \in 1 .. last : i < first
      BY <1>1, <3>1
    <3>3. \A i \in down : i \in Nat
      BY <1>1 DEF down, Down
    <3>4. QED
      BY <1>1, <1>4, <2>2, <3>1, <3>2, <3>3
  <2>3. QED
    BY <2>1, <2>2
<1> HIDE DEF done, last
<1>8. [i \in DOMAIN done |-> BomLine(d, done[i], market)] = [i \in 1 .. last |-> BomLine(d, order[i], market)]
  BY <1>6
<1>9. (CheckBom(d, market)).available = (first = 0)
  BY <1>3
<1>10. (CheckBom(d, market)).lines = [i \in 1 .. last |-> BomLine(d, order[i], market)]
  BY <1>3, <1>8
<1>11. /\ (CheckBom(d, market)).available <=> down = {}
       /\ (CheckBom(d, market)).lines = [i \in 1 .. last |-> BomLine(d, order[i], market)]
       /\ last \in 0 .. Len(order)
       /\ \A i \in 1 .. last : i \notin down
  BY <1>4, <1>5, <1>7, <1>9, <1>10
<1>12. QED
  BY <1>11 DEF last, first, order, down

\* The report of a valid document, for every state of the market.
LEMMA ReportIsWhole ==
    ASSUME NEW d, Valid(d),
           NEW market \in [{e.lib : e \in ToSet(d.components)} -> MarketStates]
    PROVE  LET used  == {e.lib : e \in ToSet(d.components)}
               r     == CheckBom(d, market)
               whole == CheckBom(d, [lib \in used |-> IF market[lib] = "down" THEN "none" ELSE market[lib]])
           IN  /\ r.available =>
                     /\ {r.lines[i].lib : i \in DOMAIN r.lines} = used
                     /\ SumFunction([i \in DOMAIN r.lines |-> r.lines[i].quantity]) = Len(d.components)
               /\ r.lines = SubSeq(whole.lines, 1, Len(r.lines))
               /\ r.available <=> \A lib \in used : market[lib] # "down"
<1> DEFINE used  == {e.lib : e \in ToSet(d.components)}
           up    == [lib \in used |-> IF market[lib] = "down" THEN "none" ELSE market[lib]]
           order == BomOrder(d)
           n     == Len(order)
           r     == CheckBom(d, market)
           whole == CheckBom(d, up)
           down  == Down(order, market)
           last  == IF down = {} THEN n ELSE FirstOf(down) - 1
<1>1. /\ n \in Nat /\ DOMAIN order = 1 .. n
      /\ {order[i] : i \in 1 .. n} = used
  <2>1. ToSet(d.components) = {d.components[k] : k \in 1 .. Len(d.components)}
    BY ValidFields DEF ToSet
  <2>2. /\ n \in Nat /\ DOMAIN order = 1 .. n
        /\ \A i \in 1 .. n : \E k \in 1 .. Len(d.components) : order[i] = d.components[k].lib
        /\ \A k \in 1 .. Len(d.components) : \E i \in 1 .. n : order[i] = d.components[k].lib
    BY BomOrderFacts
  <2>3. used = {d.components[k].lib : k \in 1 .. Len(d.components)}
    BY <2>1
  <2> HIDE DEF order, n, used
  <2>4. \A i \in 1 .. n : order[i] \in used
    BY <2>2, <2>3
  <2>5. ASSUME NEW lib \in used PROVE \E i \in 1 .. n : order[i] = lib
    <3>1. PICK k \in 1 .. Len(d.components) : lib = d.components[k].lib
      BY <2>3
    <3>2. QED
      BY <2>2, <3>1
  <2>6. {order[i] : i \in 1 .. n} = used
    BY <2>4, <2>5
  <2>7. QED
    BY <2>2, <2>6
<1>2. /\ r.available <=> down = {}
      /\ r.lines = [i \in 1 .. last |-> BomLine(d, order[i], market)]
      /\ last \in 0 .. n
      /\ \A i \in 1 .. last : i \notin down
  BY CheckBomFacts
<1>3. Down(order, up) = {}
  <2> SUFFICES ASSUME NEW i \in 1 .. n PROVE up[order[i]] # "down"
    BY DEF Down
  <2> HIDE DEF order, n
  <2>1. order[i] \in used
    BY <1>1
  <2>2. QED
    BY <2>1
<1>4. whole.lines = [i \in 1 .. n |-> BomLine(d, order[i], up)]
  BY <1>3, CheckBomFacts
<1> HIDE DEF r, whole, last, order, n
<1>5. ASSUME NEW i \in 1 .. last PROVE BomLine(d, order[i], up) = BomLine(d, order[i], market)
  <2>0. i \in 1 .. n
    BY <1>1, <1>2
  <2>1. i \in 1 .. n /\ order[i] \in used
    <3> HIDE DEF used, up
    <3>1. QED
      BY <1>1, <2>0
  <2>2. market[order[i]] # "down"
    BY <1>2, <2>1 DEF Down, n
  <2>3. up[order[i]] = market[order[i]]
    BY <2>1, <2>2
  <2> HIDE DEF up
  <2>4. QED
    BY <2>3 DEF BomLine
<1> HIDE DEF up, down, used
<1>6. r.lines = SubSeq(whole.lines, 1, Len(r.lines))
  <2>1. Len(r.lines) = last
    BY <1>1, <1>2
  <2>2. SubSeq(whole.lines, 1, last) = [i \in 1 .. last |-> whole.lines[i]]
    BY <1>1, <1>2, <1>4
  <2>3. \A i \in 1 .. last : whole.lines[i] = BomLine(d, order[i], market)
    BY <1>1, <1>2, <1>4, <1>5
  <2>4. QED
    BY <1>2, <2>1, <2>2, <2>3
<1>7. ASSUME r.available
      PROVE  /\ {r.lines[i].lib : i \in DOMAIN r.lines} = used
             /\ SumFunction([i \in DOMAIN r.lines |-> r.lines[i].quantity]) = Len(d.components)
  <2>1. down = {} /\ last = n
    BY <1>2, <1>7 DEF last
  <2>2. DOMAIN r.lines = 1 .. n /\ \A i \in 1 .. n : r.lines[i] = BomLine(d, order[i], market)
    BY <1>2, <2>1
  <2>3. ASSUME NEW i \in 1 .. n
        PROVE  r.lines[i].lib = order[i] /\ r.lines[i].quantity = Quantity(d, order[i])
    <3>1. r.lines[i] = BomLine(d, order[i], market)
      BY <2>2
    <3>2. /\ BomLine(d, order[i], market).lib = order[i]
          /\ BomLine(d, order[i], market).quantity = Quantity(d, order[i])
      BY DEF BomLine
    <3>3. QED
      BY <3>1, <3>2
  <2>4. {r.lines[i].lib : i \in DOMAIN r.lines} = used
    BY <1>1, <2>2, <2>3
  <2>5. [i \in DOMAIN r.lines |-> r.lines[i].quantity] = [i \in 1 .. n |-> Quantity(d, order[i])]
    BY <2>2, <2>3
  <2>6. SumFunction([i \in 1 .. n |-> Quantity(d, order[i])]) = Len(d.components)
    BY QuantitiesAddUp DEF n, order
  <2>7. QED
    BY <2>4, <2>5, <2>6
<1>8. r.available <=> \A lib \in used : market[lib] # "down"
  BY <1>1, <1>2 DEF down, Down, n
<1>9. QED
  BY <1>6, <1>7, <1>8 DEF r, whole, used, up

\* A report that is available counts every component once, one that is not is
\* the beginning of the report that a working search would have given, and only
\* a search that fails makes it unavailable: check_bom.
THEOREM BillsAreWhole == Spec => []BomIsWhole
<1>1. TypedInv => BomIsWhole
  <2> SUFFICES ASSUME TypedInv PROVE BomIsWhole
    OBVIOUS
  <2>1. Valid(design)
    BY TypedInvMeans
  <2>2. QED
    BY <2>1, ReportIsWhole DEF BomIsWhole
<1>2. QED
  BY <1>1, TypedInvHolds, PTL
===============================================================================
