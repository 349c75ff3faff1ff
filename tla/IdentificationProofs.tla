-------------------------- MODULE IdentificationProofs --------------------------
(***************************************************************************)
(* One record is one value and one text is one digest, for all values of   *)
(* the types the fields have, any widths, digest size and magic: the calls *)
(* of a value can be read back from what they append, whatever follows.    *)
(***************************************************************************)
EXTENDS Identification, SequenceTheorems, NaturalsInduction, WellFoundedInduction, TLAPS

-----------------------------------------------------------------------------
(* Counting and flattening *)

\* A non-empty set of naturals has a least element.
LEMMA LeastNatural ==
  ASSUME NEW T, T \subseteq Nat, T # {}
  PROVE  \E x \in T : \A y \in T : x <= y
<1>1. PICK x \in T : \A y \in T : <<y, x>> \notin OpToRel(<, Nat)
  BY NatLessThanWellFounded, WFMin, Zenon
<1>2. ASSUME NEW y \in T PROVE ~ (y < x)
  <2>1. x \in Nat /\ y \in Nat
    OBVIOUS
  <2>2. <<y, x>> \notin OpToRel(<, Nat)
    BY <1>1
  <2> QED
    BY <2>1, <2>2, Zenon DEF OpToRel
<1> QED
  BY <1>2

\* One sequence after another.
LEMMA ConcatFacts ==
  ASSUME NEW T, NEW p \in Seq(T), NEW q \in Seq(T)
  PROVE  /\ p \o q \in Seq(T) /\ Len(p) \in Nat /\ Len(q) \in Nat
         /\ Len(p \o q) = Len(p) + Len(q)
         /\ \A i \in 1..Len(p) : (p \o q)[i] = p[i]
         /\ \A i \in 1..Len(q) : (p \o q)[Len(p) + i] = q[i]
<1>1. PICK r : r = p \o q
  OBVIOUS
<1>2. /\ r \in Seq(T) /\ Len(p) \in Nat /\ Len(q) \in Nat
      /\ Len(r) = Len(p) + Len(q)
      /\ \A i \in 1..Len(p) : r[i] = p[i]
  BY <1>1
<1>3. ASSUME NEW i \in 1..Len(q) PROVE r[Len(p) + i] = q[i]
  <2>1. Len(p) + i \in 1..(Len(p) + Len(q)) /\ ~(Len(p) + i <= Len(p)) /\ (Len(p) + i) - Len(p) = i
    BY <1>2
  <2> QED
    BY <1>1, <2>1
<1> QED
  BY <1>1, <1>2, <1>3

\* What the i-th value of the recursion in FlattenSeq is made of.
Grown(f, codes, i) == IF i = 1 THEN codes[i] ELSE f[i - 1] \o codes[i]

Flattens(f, codes) == f = [i \in 1..Len(codes) |-> Grown(f, codes, i)]

\* The recursion in FlattenSeq has a solution: it is well defined.
LEMMA FlatteningExists ==
  ASSUME NEW codes, Len(codes) \in Nat
  PROVE  \E f : Flattens(f, codes)
<1> DEFINE n == Len(codes)
           Solves(f, m) == \A i \in 1..m : f[i] = Grown(f, codes, i)
<1>1. \E f : Solves(f, 0)
  OBVIOUS
<1>2. ASSUME NEW m \in Nat, NEW f, Solves(f, m)
      PROVE  \E g : Solves(g, m + 1)
  <2> DEFINE g == [i \in 1..(m + 1) |-> IF i <= m THEN f[i] ELSE Grown(f, codes, i)]
  <2>1. ASSUME NEW i \in 1..(m + 1) PROVE Grown(f, codes, i) = Grown(g, codes, i)
    <3>1. i # 1 => i - 1 \in 1..(m + 1) /\ i - 1 <= m
      OBVIOUS
    <3>2. i # 1 => g[i - 1] = f[i - 1]
      BY <3>1
    <3> QED
      BY <3>2 DEF Grown
  <2>2. \A i \in 1..(m + 1) : g[i] = Grown(f, codes, i)
    BY <1>2
  <2>3. Solves(g, m + 1)
    BY <2>1, <2>2
  <2> QED
    BY <2>3
<1> HIDE DEF Solves
<1>3. \E f : Solves(f, n)
  <2> DEFINE T == {m \in Nat : ~ \E f : Solves(f, m)}
  <2>1. SUFFICES ASSUME T # {} PROVE FALSE
    OBVIOUS
  <2>2. PICK m \in T : \A l \in T : m <= l
    BY <2>1, LeastNatural
  <2>3. m # 0
    BY <1>1
  <2>4. m - 1 \in Nat /\ m - 1 \notin T
    BY <2>2, <2>3
  <2>5. PICK f : Solves(f, m - 1)
    BY <2>4
  <2>6. \E g : Solves(g, (m - 1) + 1)
    BY <1>2, <2>4, <2>5
  <2>7. (m - 1) + 1 = m
    BY <2>2
  <2> QED
    BY <2>2, <2>6, <2>7
<1>4. PICK f : Solves(f, n)
  BY <1>3
<1> DEFINE g == [i \in 1..n |-> f[i]]
<1>5. ASSUME NEW i \in 1..n PROVE Grown(f, codes, i) = Grown(g, codes, i)
  <2>1. i # 1 => i - 1 \in 1..n
    OBVIOUS
  <2>2. i # 1 => g[i - 1] = f[i - 1]
    BY <2>1
  <2> QED
    BY <2>2 DEF Grown
<1>6. \A i \in 1..n : f[i] = Grown(f, codes, i)
  BY <1>4 DEF Solves
<1>7. g = [i \in 1..n |-> Grown(g, codes, i)]
  BY <1>5, <1>6
<1> QED
  BY <1>7 DEF Flattens

\* FlattenSeq grows by one sequence at a time.
LEMMA FlattenStep ==
  ASSUME NEW T, NEW codes \in Seq(Seq(T)), NEW code \in Seq(T)
  PROVE  /\ FlattenSeq(<<>>) = <<>>
         /\ FlattenSeq(codes) \in Seq(T)
         /\ FlattenSeq(Append(codes, code)) = FlattenSeq(codes) \o code
<1>1. FlattenSeq(<<>>) = <<>>
  BY DEF FlattenSeq
<1>2. ASSUME NEW cs \in Seq(Seq(T)), Len(cs) # 0
      PROVE  \E f : Flattens(f, cs) /\ FlattenSeq(cs) = f[Len(cs)]
  <2>1. \E f : Flattens(f, cs)
    BY FlatteningExists
  <2>2. FlattenSeq(cs) = (CHOOSE h : Flattens(h, cs))[Len(cs)]
    BY <1>2 DEF FlattenSeq, Grown, Flattens
  <2>3. Flattens(CHOOSE h : Flattens(h, cs), cs)
    BY <2>1
  <2> QED
    BY <2>2, <2>3
<1>3. ASSUME NEW cs \in Seq(Seq(T)), NEW f, Flattens(f, cs)
      PROVE  \A i \in 1..Len(cs) : f[i] \in Seq(T)
  <2> DEFINE Bad == {i \in 1..Len(cs) : f[i] \notin Seq(T)}
  <2>0. Bad \subseteq Nat /\ Len(cs) \in Nat
    OBVIOUS
  <2>1. SUFFICES ASSUME Bad # {} PROVE FALSE
    OBVIOUS
  <2>2. PICK i \in Bad : \A j \in Bad : i <= j
    BY <2>0, <2>1, LeastNatural
  <2>3. cs[i] \in Seq(T)
    BY ElementOfSeq
  <2>4. i # 1 => i - 1 \in 1..Len(cs) /\ f[i - 1] \in Seq(T)
    BY <2>0, <2>2
  <2>5. f[i] = Grown(f, cs, i)
    BY <1>3 DEF Flattens
  <2>6. f[i] \in Seq(T)
    BY <2>3, <2>4, <2>5 DEF Grown
  <2> QED
    BY <2>2, <2>6
<1>4. ASSUME NEW cs \in Seq(Seq(T)) PROVE FlattenSeq(cs) \in Seq(T)
  <2>1. CASE Len(cs) = 0
    <3>1. cs = <<>>
      BY <2>1
    <3>2. <<>> \in Seq(T)
      OBVIOUS
    <3> QED
      BY <1>1, <3>1, <3>2
  <2>2. CASE Len(cs) # 0
    <3>1. PICK f : Flattens(f, cs) /\ FlattenSeq(cs) = f[Len(cs)]
      BY <1>2, <2>2
    <3>2. Len(cs) \in 1..Len(cs)
      BY <2>2
    <3> QED
      BY <1>3, <3>1, <3>2
  <2> QED
    BY <2>1, <2>2
<1>5. PICK ds : ds = Append(codes, code)
  OBVIOUS
<1>6. /\ ds \in Seq(Seq(T)) /\ Len(ds) = Len(codes) + 1 /\ Len(codes) \in Nat
      /\ \A i \in 1..Len(codes) : ds[i] = codes[i]
      /\ ds[Len(codes) + 1] = code
  BY <1>5
<1>7. PICK g : Flattens(g, ds) /\ FlattenSeq(ds) = g[Len(ds)]
  <2>1. Len(ds) # 0
    BY <1>6
  <2> QED
    BY <1>2, <1>6, <2>1
<1>8. FlattenSeq(ds) = FlattenSeq(codes) \o code
  <2>1. CASE Len(codes) = 0
    <3>1. codes = <<>> /\ Len(ds) = 1 /\ ds[1] = code
      BY <1>6, <2>1
    <3>2. g[1] = code
      BY <1>7, <3>1 DEF Flattens, Grown
    <3> QED
      BY <1>1, <1>7, <3>1, <3>2
  <2>2. CASE Len(codes) # 0
    <3>1. PICK f : Flattens(f, codes) /\ FlattenSeq(codes) = f[Len(codes)]
      BY <1>2, <2>2
    <3>2. \A i \in 1..Len(codes) : f[i] = g[i]
      <4> DEFINE Bad == {i \in 1..Len(codes) : f[i] # g[i]}
      <4>0. Bad \subseteq Nat
        BY <1>6
      <4>1. SUFFICES ASSUME Bad # {} PROVE FALSE
        OBVIOUS
      <4>2. PICK i \in Bad : \A j \in Bad : i <= j
        BY <4>0, <4>1, LeastNatural
      <4>3. i # 1 => i - 1 \in 1..Len(codes) /\ f[i - 1] = g[i - 1]
        <5>1. i \in 1..Len(codes) /\ Len(codes) \in Nat
          BY <1>6, <4>2
        <5>2. i # 1 => i - 1 \in 1..Len(codes) /\ ~(i <= i - 1)
          BY <5>1
        <5>3. i - 1 \notin Bad \/ i <= i - 1
          BY <4>2
        <5> QED
          BY <5>2, <5>3
      <4>4. f[i] = Grown(f, codes, i)
        BY <3>1 DEF Flattens
      <4>5. g[i] = Grown(g, ds, i)
        <5>1. i \in 1..Len(ds)
          BY <1>6
        <5> QED
          BY <1>7, <5>1 DEF Flattens
      <4> QED
        BY <1>6, <4>2, <4>3, <4>4, <4>5 DEF Grown
    <3>3. g[Len(ds)] = g[Len(codes)] \o code
      <4>1. Len(ds) \in 1..Len(ds) /\ Len(ds) # 1 /\ Len(ds) - 1 = Len(codes)
        BY <1>6, <2>2
      <4>2. g[Len(ds)] = Grown(g, ds, Len(ds))
        BY <1>7, <4>1 DEF Flattens
      <4> QED
        BY <1>6, <4>1, <4>2 DEF Grown
    <3>4. Len(codes) \in 1..Len(codes)
      BY <1>6, <2>2
    <3> QED
      BY <1>7, <3>1, <3>2, <3>3, <3>4
  <2> QED
    BY <2>1, <2>2
<1> QED
  BY <1>1, <1>4, <1>5, <1>8

\* The first k sequences, one after another.
Flat(codes, k) == FlattenSeq(SubSeq(codes, 1, k))

\* Flattening goes one sequence at a time.
LEMMA FlatFacts ==
  ASSUME NEW T, NEW codes \in Seq(Seq(T))
  PROVE  /\ Flat(codes, 0) = <<>> /\ Flat(codes, Len(codes)) = FlattenSeq(codes)
         /\ \A k \in 0..Len(codes) : Flat(codes, k) \in Seq(T)
         /\ \A k \in 1..Len(codes) : Flat(codes, k) = Flat(codes, k - 1) \o codes[k]
<1>1. PICK U : U = Seq(T)
  OBVIOUS
<1>2. codes \in Seq(U) /\ Len(codes) \in Nat
  BY <1>1
<1>3. SubSeq(codes, 1, 0) = <<>> /\ SubSeq(codes, 1, Len(codes)) = codes
  BY <1>2
<1>4. ASSUME NEW k \in 0..Len(codes) PROVE SubSeq(codes, 1, k) \in Seq(U)
  BY <1>2
<1>5. ASSUME NEW k \in 1..Len(codes)
      PROVE  SubSeq(codes, 1, k) = Append(SubSeq(codes, 1, k - 1), codes[k]) /\ codes[k] \in U
  BY <1>2
<1>6. ASSUME NEW k \in 1..Len(codes) PROVE Flat(codes, k) = Flat(codes, k - 1) \o codes[k]
  <2>1. k - 1 \in 0..Len(codes)
    BY <1>2
  <2>2. SubSeq(codes, 1, k - 1) \in Seq(Seq(T)) /\ codes[k] \in Seq(T)
    BY <1>1, <1>4, <1>5, <2>1
  <2> QED
    BY <1>5, <2>2, FlattenStep DEF Flat
<1>7. ASSUME NEW k \in 0..Len(codes) PROVE Flat(codes, k) \in Seq(T)
  <2>1. SubSeq(codes, 1, k) \in Seq(Seq(T))
    BY <1>1, <1>4
  <2>2. <<>> \in Seq(T)
    OBVIOUS
  <2> QED
    BY <2>1, <2>2, FlattenStep DEF Flat
<1>8. Flat(codes, 0) = <<>>
  <2>1. <<>> \in Seq(T) /\ <<>> \in Seq(Seq(T))
    OBVIOUS
  <2> QED
    BY <1>3, <2>1, FlattenStep DEF Flat
<1> QED
  BY <1>3, <1>6, <1>7, <1>8 DEF Flat

\* Induction, with the set of the numbers that have the property.
LEMMA InductionInSet ==
  ASSUME NEW S, 0 \in S, \A k \in Nat : k \in S => k + 1 \in S
  PROVE  Nat \subseteq S
<1> DEFINE T == {k \in Nat : k \notin S}
<1>1. SUFFICES ASSUME T # {} PROVE FALSE
  OBVIOUS
<1>2. T \subseteq Nat
  OBVIOUS
<1>3. PICK m \in T : \A l \in T : m <= l
  BY <1>1, <1>2, LeastNatural
<1>4. m \in Nat /\ m \notin S
  OBVIOUS
<1>5. m # 0
  BY <1>4
<1>6. m - 1 \in Nat /\ ~(m <= m - 1) /\ (m - 1) + 1 = m
  BY <1>4, <1>5
<1>7. m - 1 \in S
  BY <1>3, <1>6
<1> QED
  BY <1>4, <1>6, <1>7

\* What r is when it is p and q behind it.
Joins(r, p, q) ==
  /\ Len(r) = Len(p) + Len(q)
  /\ \A i \in 1..Len(p) : r[i] = p[i]
  /\ \A i \in 1..Len(q) : r[Len(p) + i] = q[i]

\* What concatenation makes is joined from its two parts.
LEMMA ConcatJoins ==
  ASSUME NEW T, NEW p \in Seq(T), NEW q \in Seq(T)
  PROVE  Joins(p \o q, p, q)
  BY ConcatFacts DEF Joins

\* A sequence splits in one way at a given place.
LEMMA JoinsSplit ==
  ASSUME NEW T, NEW p \in Seq(T), NEW q \in Seq(T), NEW s \in Seq(T), NEW t \in Seq(T),
         NEW r, Joins(r, p, s), Joins(r, q, t), Len(p) = Len(q)
  PROVE  p = q /\ s = t
<1>1. PICK n \in Nat : n = Len(p) /\ n = Len(q)
  OBVIOUS
<1>2. Len(s) \in Nat /\ Len(t) \in Nat
  OBVIOUS
<1>3. /\ Len(r) = n + Len(s) /\ Len(r) = n + Len(t)
      /\ \A i \in 1..n : r[i] = p[i]
      /\ \A i \in 1..n : r[i] = q[i]
      /\ \A i \in 1..Len(s) : r[n + i] = s[i]
      /\ \A i \in 1..Len(t) : r[n + i] = t[i]
  BY <1>1, Zenon DEF Joins
<1>4. Len(s) = Len(t)
  BY <1>2, <1>3
<1>5. p = q
  BY <1>1, <1>2, <1>3, SeqEqual
<1>6. s = t
  BY <1>2, <1>3, <1>4, SeqEqual
<1> QED
  BY <1>5, <1>6

\* Sequences that begin with equally long ones.
LEMMA SplitsEqual ==
  ASSUME NEW T, NEW p \in Seq(T), NEW q \in Seq(T), NEW s \in Seq(T), NEW t \in Seq(T),
         Len(p) = Len(q), p \o s = q \o t
  PROVE  p = q /\ s = t
<1>1. Joins(p \o s, p, s) /\ Joins(q \o t, q, t)
  BY ConcatJoins, Zenon
<1>2. Joins(p \o s, q, t)
  BY <1>1, Zenon
<1> QED
  BY <1>1, <1>2, JoinsSplit, Zenon

\* Nothing, and one sequence after two.
LEMMA ConcatLaws ==
  ASSUME NEW T, NEW p \in Seq(T), NEW q \in Seq(T), NEW r \in Seq(T)
  PROVE  /\ p \o <<>> = p /\ <<>> \o p = p
         /\ (p \o q) \o r = p \o (q \o r)
<1>1. p \o <<>> = p /\ <<>> \o p = p
  BY ConcatEmptySeq
<1>2. (p \o q) \o r = p \o (q \o r)
  BY ConcatAssociative, SMTT(30)
<1> QED
  BY <1>1, <1>2

-----------------------------------------------------------------------------
(* Integers byte by byte *)

Shifts(f, n, k) == f = [i \in 0..k |-> IF i = 0 THEN n ELSE f[i - 1] \div 256]

\* The recursion in Shifted has a solution.
LEMMA ShiftsExist ==
  ASSUME NEW n \in Nat, NEW k \in Nat
  PROVE  \E f \in [0..k -> Nat] : Shifts(f, n, k)
<1> DEFINE S == {j \in Nat : \E f \in [0..j -> Nat] : Shifts(f, n, j)}
<1>1. 0 \in S
  <2> DEFINE f == [i \in 0..0 |-> n]
  <2>1. f \in [0..0 -> Nat]
    OBVIOUS
  <2>2. f = [i \in 0..0 |-> IF i = 0 THEN n ELSE f[i - 1] \div 256]
    OBVIOUS
  <2> QED
    BY <2>1, <2>2 DEF Shifts
<1>2. ASSUME NEW j \in Nat, j \in S PROVE j + 1 \in S
  <2>1. PICK f \in [0..j -> Nat] : Shifts(f, n, j)
    BY <1>2
  <2>2. \A i \in 0..j : f[i] = IF i = 0 THEN n ELSE f[i - 1] \div 256
    BY <2>1 DEF Shifts
  <2> DEFINE g == [i \in 0..(j + 1) |-> IF i <= j THEN f[i] ELSE f[j] \div 256]
  <2>3. \A i \in 0..j : g[i] = f[i]
    OBVIOUS
  <2>4. g[j + 1] = f[j] \div 256 /\ f[j] \in Nat /\ f[j] \div 256 \in Nat
    OBVIOUS
  <2>5. g \in [0..(j + 1) -> Nat]
    BY <2>4
  <2>6. ASSUME NEW i \in 0..(j + 1)
        PROVE  g[i] = IF i = 0 THEN n ELSE g[i - 1] \div 256
    <3>1. CASE i = 0
      BY <2>2, <2>3, <3>1
    <3>2. CASE i \in 1..j
      <4>1. i - 1 \in 0..j /\ i \in 0..j /\ i # 0
        BY <3>2
      <4> QED
        BY <2>2, <2>3, <4>1
    <3>3. CASE i = j + 1
      <4>1. i - 1 = j /\ j \in 0..j /\ i # 0
        BY <3>3
      <4> QED
        BY <2>3, <2>4, <3>3, <4>1
    <3>4. i = 0 \/ i \in 1..j \/ i = j + 1
      OBVIOUS
    <3> QED
      BY <3>1, <3>2, <3>3, <3>4
  <2>7. Shifts(g, n, j + 1)
    BY <2>6 DEF Shifts
  <2> QED
    BY <2>5, <2>7
<1>3. Nat \subseteq S
  <2> HIDE DEF S
  <2> QED
    BY <1>1, <1>2, InductionInSet
<1> QED
  BY <1>3

\* Solutions of the recursion agree wherever both are defined.
LEMMA ShiftsAgree ==
  ASSUME NEW n \in Nat, NEW k \in Nat, NEW l \in Nat, k <= l,
         NEW f, Shifts(f, n, k), NEW g, Shifts(g, n, l)
  PROVE  \A i \in 0..k : f[i] = g[i]
<1>1. /\ \A i \in 0..k : f[i] = IF i = 0 THEN n ELSE f[i - 1] \div 256
      /\ \A i \in 0..l : g[i] = IF i = 0 THEN n ELSE g[i - 1] \div 256
  BY DEF Shifts
<1> DEFINE S == {i \in Nat : i <= k => f[i] = g[i]}
<1>2. 0 \in S
  BY <1>1
<1>3. ASSUME NEW i \in Nat, i \in S PROVE i + 1 \in S
  <2>1. SUFFICES ASSUME i + 1 <= k PROVE f[i + 1] = g[i + 1]
    OBVIOUS
  <2>2. f[i] = g[i]
    BY <1>3, <2>1
  <2>3. i + 1 \in 0..k /\ i + 1 \in 0..l /\ i + 1 # 0 /\ (i + 1) - 1 = i
    BY <2>1
  <2> QED
    BY <1>1, <2>2, <2>3
<1>4. Nat \subseteq S
  <2> HIDE DEF S
  <2> QED
    BY <1>2, <1>3, InductionInSet
<1> QED
  BY <1>4

\* Nothing is shifted out at first, then one byte at a time.
LEMMA ShiftedFacts ==
  ASSUME NEW n \in Nat, NEW k \in Nat
  PROVE  /\ Shifted(n, k) \in Nat
         /\ Shifted(n, 0) = n
         /\ Shifted(n, k + 1) = Shifted(n, k) \div 256
<1>1. ASSUME NEW j \in Nat
      PROVE  \E f \in [0..j -> Nat] : Shifts(f, n, j) /\ Shifted(n, j) = f[j]
  <2>1. PICK f \in [0..j -> Nat] : Shifts(f, n, j)
    BY ShiftsExist
  <2> DEFINE h == CHOOSE g : Shifts(g, n, j)
  <2>2. Shifts(h, n, j)
    BY <2>1
  <2>3. Shifted(n, j) = h[j]
    BY DEF Shifted, Shifts
  <2> HIDE DEF h
  <2>4. h[j] = f[j]
    <3>1. \A i \in 0..j : h[i] = f[i]
      BY <2>1, <2>2, ShiftsAgree
    <3> QED
      BY <3>1
  <2> QED
    BY <2>1, <2>3, <2>4
<1>2. PICK f \in [0..k -> Nat] : Shifts(f, n, k) /\ Shifted(n, k) = f[k]
  BY <1>1
<1>3. PICK g \in [0..(k + 1) -> Nat] : Shifts(g, n, k + 1) /\ Shifted(n, k + 1) = g[k + 1]
  <2>1. k + 1 \in Nat
    OBVIOUS
  <2> QED
    BY <1>1, <2>1, Zenon
<1>4. PICK e \in [0..0 -> Nat] : Shifts(e, n, 0) /\ Shifted(n, 0) = e[0]
  BY <1>1
<1>5. Shifted(n, 0) = n
  BY <1>4 DEF Shifts
<1>6. f[k] = g[k]
  <2>1. \A i \in 0..k : f[i] = g[i]
    <3>1. k + 1 \in Nat /\ k <= k + 1
      OBVIOUS
    <3> QED
      BY <1>2, <1>3, <3>1, ShiftsAgree, SMTT(30)
  <2> QED
    BY <2>1
<1>7. g[k + 1] = g[k] \div 256
  <2>1. k + 1 \in 0..(k + 1) /\ k + 1 # 0 /\ (k + 1) - 1 = k
    OBVIOUS
  <2>2. \A i \in 0..(k + 1) : g[i] = IF i = 0 THEN n ELSE g[i - 1] \div 256
    BY <1>3 DEF Shifts
  <2> QED
    BY <2>1, <2>2
<1> QED
  BY <1>2, <1>3, <1>5, <1>6, <1>7

\* What is smaller than an integer of so many bytes has no more bytes.
LEMMA FewerBytes ==
  ASSUME NEW width \in Nat, NEW n \in Nat, NEW m \in Unsigned(width), n <= m
  PROVE  n \in Unsigned(width)
<1> DEFINE S == {k \in Nat : Shifted(n, k) <= Shifted(m, k)}
<1>1. m \in Nat /\ Shifted(m, width) = 0
  BY DEF Unsigned
<1>2. 0 \in S
  BY <1>1, ShiftedFacts
<1>3. ASSUME NEW k \in Nat, k \in S PROVE k + 1 \in S
  <2>1. PICK a \in Nat, b \in Nat : a = Shifted(n, k) /\ b = Shifted(m, k)
    BY <1>1, ShiftedFacts
  <2>2. a <= b
    BY <1>3, <2>1
  <2>3. a \div 256 <= b \div 256
    BY <2>2
  <2>4. Shifted(n, k + 1) = a \div 256 /\ Shifted(m, k + 1) = b \div 256
    BY <1>1, <2>1, ShiftedFacts
  <2> QED
    BY <2>3, <2>4
<1>4. Nat \subseteq S
  <2> HIDE DEF S
  <2> QED
    BY <1>2, <1>3, InductionInSet
<1>5. Shifted(n, width) <= 0 /\ Shifted(n, width) \in Nat
  BY <1>1, <1>4, ShiftedFacts
<1> QED
  BY <1>5 DEF Unsigned

\* An integer is written in so many bytes, and they tell it.
LEMMA BigEndianFacts ==
  ASSUME NEW width \in Nat, NEW n \in Unsigned(width)
  PROVE  /\ BigEndian(n, width) \in Seq(Octet)
         /\ Len(BigEndian(n, width)) = width
         /\ \A m \in Unsigned(width) : BigEndian(n, width) = BigEndian(m, width) => n = m
<1>1. ASSUME NEW m \in Unsigned(width), NEW i \in 1..width
      PROVE  /\ width - i \in Nat /\ Shifted(m, width - i) \in Nat
             /\ BigEndian(m, width)[i] = Shifted(m, width - i) % 256
             /\ Shifted(m, width - i) % 256 \in Octet
  <2>1. width - i \in Nat /\ m \in Nat
    BY DEF Unsigned
  <2>2. PICK a \in Nat : a = Shifted(m, width - i)
    BY <2>1, ShiftedFacts
  <2>3. a % 256 \in 0..255
    OBVIOUS
  <2> QED
    BY <2>1, <2>2, <2>3 DEF BigEndian, Octet
<1>2. BigEndian(n, width) \in [1..width -> Octet]
  BY <1>1 DEF BigEndian
<1>3. ASSUME NEW m \in Unsigned(width), BigEndian(n, width) = BigEndian(m, width)
      PROVE  n = m
  <2> DEFINE S == {k \in Nat : k <= width => Shifted(n, width - k) = Shifted(m, width - k)}
  <2>1. n \in Nat /\ m \in Nat /\ Shifted(n, width) = 0 /\ Shifted(m, width) = 0
    BY DEF Unsigned
  <2>2. 0 \in S
    BY <2>1
  <2>3. ASSUME NEW k \in Nat, k \in S PROVE k + 1 \in S
    <3>1. SUFFICES ASSUME k + 1 <= width
                   PROVE  Shifted(n, width - (k + 1)) = Shifted(m, width - (k + 1))
      OBVIOUS
    <3>2. PICK j \in Nat : j = width - (k + 1) /\ j + 1 = width - k
      BY <3>1
    <3>3. PICK a \in Nat, b \in Nat : a = Shifted(n, j) /\ b = Shifted(m, j)
      <4>1. Shifted(n, j) \in Nat /\ Shifted(m, j) \in Nat
        BY <2>1, ShiftedFacts, Zenon
      <4> QED
        BY <4>1
    <3>4. Shifted(n, j + 1) = a \div 256 /\ Shifted(m, j + 1) = b \div 256
      BY <2>1, <3>3, ShiftedFacts
    <3>5. Shifted(n, width - k) = Shifted(m, width - k)
      BY <2>3, <3>1
    <3>6. a \div 256 = b \div 256
      BY <3>2, <3>4, <3>5
    <3>7. a % 256 = b % 256
      <4>1. k + 1 \in 1..width
        BY <3>1
      <4>2. /\ BigEndian(n, width)[k + 1] = Shifted(n, width - (k + 1)) % 256
            /\ BigEndian(m, width)[k + 1] = Shifted(m, width - (k + 1)) % 256
        BY <1>1, <4>1
      <4> QED
        BY <1>3, <3>2, <3>3, <4>2
    <3>8. a = b
      BY <3>6, <3>7
    <3> QED
      BY <3>2, <3>3, <3>8
  <2>4. Nat \subseteq S
    <3> HIDE DEF S
    <3> QED
      BY <2>2, <2>3, InductionInSet
  <2>5. Shifted(n, 0) = Shifted(m, 0)
    <3>1. width \in S /\ width - width = 0 /\ width <= width
      BY <2>4
    <3> QED
      BY <3>1
  <2> QED
    BY <2>1, <2>5, ShiftedFacts
<1> QED
  BY <1>2, <1>3

-----------------------------------------------------------------------------
(* What a call appends *)

\* Framed bytes say where they end.
LEMMA FramedTells ==
  ASSUME NEW b \in Seq(Octet), Len(b) \in Unsigned(Width64)
  PROVE  /\ Framed(b) \in Seq(Octet) /\ Framed(b) # <<>>
         /\ Len(Framed(b)) = Width64 + Len(b)
         /\ \A c \in Seq(Octet), s \in Seq(Octet), t \in Seq(Octet) :
              Len(c) \in Unsigned(Width64) /\ Framed(b) \o s = Framed(c) \o t
                => b = c /\ s = t
<1>1. Width64 \in Nat /\ Width64 > 0
  BY WidthAssumption
<1>2. ASSUME NEW c \in Seq(Octet), Len(c) \in Unsigned(Width64)
      PROVE  /\ BigEndian(Len(c), Width64) \in Seq(Octet)
             /\ Len(BigEndian(Len(c), Width64)) = Width64
             /\ BigEndian(Len(c), Width64) = BigEndian(Len(b), Width64) => Len(b) = Len(c)
  BY <1>1, <1>2, BigEndianFacts
<1>3. PICK p \in Seq(Octet) : p = BigEndian(Len(b), Width64) /\ Len(p) = Width64
  BY <1>2
<1>4. Framed(b) = p \o b /\ p \o b \in Seq(Octet) /\ Len(p \o b) = Width64 + Len(b) /\ Len(b) \in Nat
  BY <1>3, ConcatFacts DEF Framed
<1>5. Framed(b) # <<>>
  <2>1. Len(Framed(b)) # 0
    BY <1>1, <1>4
  <2> QED
    BY <2>1
<1>6. ASSUME NEW c \in Seq(Octet), NEW s \in Seq(Octet), NEW t \in Seq(Octet),
             Len(c) \in Unsigned(Width64), Framed(b) \o s = Framed(c) \o t
      PROVE  b = c /\ s = t
  <2>1. PICK q \in Seq(Octet) : q = BigEndian(Len(c), Width64) /\ Len(q) = Width64
    BY <1>2, <1>6
  <2>2. (p \o b) \o s = p \o (b \o s) /\ (q \o c) \o t = q \o (c \o t)
    <3>1. p \in Seq(Octet) /\ q \in Seq(Octet)
      BY <1>3, <2>1
    <3>2. (p \o b) \o s = p \o (b \o s)
      BY <3>1, ConcatAssociative, SMTT(30)
    <3>3. (q \o c) \o t = q \o (c \o t)
      BY <3>1, ConcatAssociative, SMTT(30)
    <3> QED
      BY <3>2, <3>3
  <2>3. PICK x \in Seq(Octet), y \in Seq(Octet) : x = b \o s /\ y = c \o t
    <3>1. b \o s \in Seq(Octet) /\ c \o t \in Seq(Octet)
      BY ConcatFacts, Zenon
    <3> QED
      BY <3>1
  <2>4. p = q /\ b \o s = c \o t
    <3>1. p \o x = q \o y
      BY <1>3, <1>6, <2>1, <2>2, <2>3, Zenon DEF Framed
    <3>2. Len(p) = Len(q)
      BY <1>3, <2>1
    <3>3. p = q /\ x = y
      BY <3>1, <3>2, SplitsEqual, Zenon
    <3> QED
      BY <2>3, <3>3
  <2>5. Len(b) = Len(c)
    BY <1>2, <1>3, <1>6, <2>1, <2>4
  <2> QED
    BY <2>4, <2>5, SplitsEqual, Zenon
<1> QED
  BY <1>4, <1>5, <1>6

\* The bytes of a text are bytes, and they are the text.
LEMMA StringKeyFacts ==
  ASSUME NEW s \in Seq(Byte)
  PROVE  /\ StringKey(s) \in Seq(Octet) /\ Len(StringKey(s)) = Len(s)
         /\ \A t \in Seq(Byte) : StringKey(s) = StringKey(t) => s = t
<1> DEFINE Place(b) == CHOOSE n \in DOMAIN ByteOrder : ByteOrder[n] = b
<1>1. ASSUME NEW b \in Byte
      PROVE  Place(b) \in 1..13 /\ ByteOrder[Place(b)] = b
  <2>1. DOMAIN ByteOrder = 1..13
    BY DEF ByteOrder
  <2>2. \E n \in DOMAIN ByteOrder : ByteOrder[n] = b
    <3>1. ToSet(ByteOrder) = {ByteOrder[n] : n \in DOMAIN ByteOrder}
      BY DEF ToSet
    <3> QED
      BY <3>1 DEF Byte
  <2> QED
    BY <2>1, <2>2
<1> HIDE DEF Place
<1>2. ASSUME NEW t \in Seq(Byte)
      PROVE  /\ StringKey(t) = [i \in 1..Len(t) |-> Place(t[i])]
             /\ \A i \in 1..Len(t) : t[i] \in Byte
  <2>1. \A i \in 1..Len(t) : t[i] \in Byte
    OBVIOUS
  <2>2. ~IsDigest(t)
    <3>1. SUFFICES ASSUME t # <<>>, t[1] = "digest" PROVE FALSE
      BY DEF IsDigest
    <3>2. 1 \in 1..Len(t)
      BY <3>1
    <3> QED
      BY <2>1, <3>1, <3>2 DEF Byte
  <2>3. DOMAIN t = 1..Len(t)
    OBVIOUS
  <2> QED
    BY <2>1, <2>2, <2>3 DEF StringKey, Place
<1>3. StringKey(s) \in [1..Len(s) -> Octet]
  <2>1. \A i \in 1..Len(s) : Place(s[i]) \in Octet
    <3>1. \A i \in 1..Len(s) : Place(s[i]) \in 1..13
      BY <1>1, <1>2, Zenon
    <3>2. \A x \in 1..13 : x \in Octet
      BY DEF Octet
    <3> QED
      BY <3>1, <3>2, Zenon
  <2> QED
    BY <1>2, <2>1, Zenon
<1>4. StringKey(s) \in Seq(Octet) /\ Len(StringKey(s)) = Len(s)
  <2>1. Len(s) \in Nat
    OBVIOUS
  <2> QED
    BY <1>3, <2>1
<1>5. ASSUME NEW t \in Seq(Byte), StringKey(s) = StringKey(t) PROVE s = t
  <2>1. Len(s) = Len(t)
    <3>1. DOMAIN StringKey(s) = 1..Len(s) /\ DOMAIN StringKey(t) = 1..Len(t)
      BY <1>2
    <3>2. Len(s) \in Nat /\ Len(t) \in Nat
      OBVIOUS
    <3>3. 1..Len(s) = 1..Len(t)
      BY <1>5, <3>1
    <3> QED
      BY <3>2, <3>3
  <2>2. ASSUME NEW i \in 1..Len(s) PROVE s[i] = t[i]
    <3>1. StringKey(s)[i] = Place(s[i]) /\ s[i] \in Byte
      BY <1>2
    <3>2. StringKey(t)[i] = Place(t[i]) /\ t[i] \in Byte
      BY <1>2, <2>1
    <3> QED
      BY <1>1, <1>5, <3>1, <3>2
  <2> QED
    BY <2>1, <2>2, SeqEqual
<1> QED
  BY <1>4, <1>5

\* What each kind of call appends is bytes, and at least one.
LEMMA AppendedFacts ==
  /\ \A n \in Octet :
       /\ U8(n) \in Token /\ Appended(U8(n)) = <<n>>
       /\ Appended(U8(n)) \in Seq(Octet) /\ Len(Appended(U8(n))) = 1
  /\ \A n \in Unsigned(Width16) :
       /\ U16(n) \in Token /\ Appended(U16(n)) = BigEndian(n, Width16)
       /\ Appended(U16(n)) \in Seq(Octet) /\ Len(Appended(U16(n))) = Width16
  /\ \A n \in Unsigned(Width32) :
       /\ U32(n) \in Token /\ Appended(U32(n)) = BigEndian(n, Width32)
       /\ Appended(U32(n)) \in Seq(Octet) /\ Len(Appended(U32(n))) = Width32
  /\ \A n \in Unsigned(Width64) :
       /\ U64(n) \in Token /\ Appended(U64(n)) = BigEndian(n, Width64)
       /\ Appended(U64(n)) \in Seq(Octet) /\ Len(Appended(U64(n))) = Width64
<1>1. \A n \in Octet : U8(n) \in Token /\ Appended(U8(n)) = <<n>>
  BY DEF Appended, U8, Token
<1>2. \A n \in Unsigned(Width16) : U16(n) \in Token /\ Appended(U16(n)) = BigEndian(n, Width16)
  BY DEF Appended, U16, Token
<1>3. \A n \in Unsigned(Width32) : U32(n) \in Token /\ Appended(U32(n)) = BigEndian(n, Width32)
  BY DEF Appended, U32, Token
<1>4. \A n \in Unsigned(Width64) : U64(n) \in Token /\ Appended(U64(n)) = BigEndian(n, Width64)
  BY DEF Appended, U64, Token
<1>5. Width16 \in Nat /\ Width32 \in Nat /\ Width64 \in Nat
  BY WidthAssumption
<1>6. \A n \in Octet : <<n>> \in Seq(Octet) /\ Len(<<n>>) = 1
  OBVIOUS
<1>7. \A width \in {Width16, Width32, Width64} : \A n \in Unsigned(width) :
        BigEndian(n, width) \in Seq(Octet) /\ Len(BigEndian(n, width)) = width
  BY <1>5, BigEndianFacts
<1> QED
  BY <1>1, <1>2, <1>3, <1>4, <1>6, <1>7, Zenon

\* Texts and digests are framed; two small integers precede a digest.
LEMMA AppendedFrames ==
  /\ \A s \in Text :
       /\ Bytes(s) \in Token /\ Appended(Bytes(s)) = Framed(StringKey(s))
       /\ StringKey(s) \in Seq(Octet) /\ Len(StringKey(s)) \in Unsigned(Width64)
       /\ Appended(Bytes(s)) \in Seq(Octet) /\ Appended(Bytes(s)) # <<>>
  /\ \E p \in Seq(Octet) : \A d \in DigestValue :
       /\ Digest(d) \in Token /\ Appended(Digest(d)) = p \o Framed(d)
       /\ d \in Seq(Octet) /\ Len(d) \in Unsigned(Width64) /\ Framed(d) \in Seq(Octet)
       /\ Appended(Digest(d)) \in Seq(Octet) /\ Appended(Digest(d)) # <<>>
<1>1. ASSUME NEW s \in Text
      PROVE  /\ Bytes(s) \in Token /\ Appended(Bytes(s)) = Framed(StringKey(s))
             /\ StringKey(s) \in Seq(Octet) /\ Len(StringKey(s)) \in Unsigned(Width64)
             /\ Appended(Bytes(s)) \in Seq(Octet) /\ Appended(Bytes(s)) # <<>>
  <2>1. Bytes(s) \in Token /\ Appended(Bytes(s)) = Framed(StringKey(s))
    BY DEF Appended, Bytes, Token
  <2>2. s \in Seq(Byte) /\ Len(s) \in Unsigned(Width64)
    BY DEF Text
  <2>3. StringKey(s) \in Seq(Octet) /\ Len(StringKey(s)) \in Unsigned(Width64)
    BY <2>2, StringKeyFacts
  <2> QED
    BY <2>1, <2>3, FramedTells, Zenon
<1>2. PICK q \in Seq(Octet) : q = BigEndian(1, Width16)
  <2>1. Width16 \in Nat
    BY WidthAssumption
  <2> QED
    BY <2>1, WidthAssumption, BigEndianFacts
<1>3. PICK p \in Seq(Octet) : p = q \o q
  <2>1. q \o q \in Seq(Octet)
    BY <1>2
  <2> QED
    BY <2>1
<1>4. ASSUME NEW d \in DigestValue
      PROVE  /\ Digest(d) \in Token /\ Appended(Digest(d)) = p \o Framed(d)
             /\ d \in Seq(Octet) /\ Len(d) \in Unsigned(Width64) /\ Framed(d) \in Seq(Octet)
             /\ Appended(Digest(d)) \in Seq(Octet) /\ Appended(Digest(d)) # <<>>
  <2>1. Digest(d) \in Token /\ Appended(Digest(d)) = DigestBytes(d)
    BY DEF Appended, Digest, Token
  <2>2. d \in Seq(Octet) /\ Len(d) = DigestSize /\ Len(d) \in Unsigned(Width64)
    <3>1. DigestSize \in Nat /\ DigestSize \in Unsigned(Width64)
      BY DigestAssumption DEF Unsigned
    <3>2. d \in [1..DigestSize -> Octet]
      BY DEF DigestValue
    <3> QED
      BY <3>1, <3>2
  <2>3. Framed(d) \in Seq(Octet) /\ Framed(d) # <<>>
    BY <2>2, FramedTells, Zenon
  <2>4. PICK f \in Seq(Octet) : f = Framed(d) /\ f # <<>>
    BY <2>3
  <2>5. DigestBytes(d) = q \o q \o f
    BY <1>2, <2>4 DEF DigestBytes
  <2>6. p \in Seq(Octet) /\ q \o q \o f = p \o f
    BY <1>3
  <2>7. p \o f \in Seq(Octet) /\ Len(p \o f) = Len(p) + Len(f) /\ Len(f) # 0
        /\ Len(p) \in Nat /\ Len(f) \in Nat
    BY <1>3, <2>4
  <2>8. p \o f # <<>>
    <3>1. Len(p \o f) # 0
      BY <2>7
    <3>2. Len(<<>>) = 0
      OBVIOUS
    <3> QED
      BY <3>1, <3>2, Zenon
  <2> QED
    BY <2>1, <2>2, <2>4, <2>5, <2>6, <2>7, <2>8, Zenon
<1> QED
  BY <1>1, <1>4, Zenon

\* No call appends nothing.
LEMMA AppendsSomething ==
  ASSUME NEW x \in Token
  PROVE  Appended(x) \in Seq(Octet) /\ Appended(x) # <<>>
<1>1. \/ \E n \in Octet : x = U8(n)
      \/ \E n \in Unsigned(Width16) : x = U16(n)
      \/ \E n \in Unsigned(Width32) : x = U32(n)
      \/ \E n \in Unsigned(Width64) : x = U64(n)
      \/ \E s \in Text : x = Bytes(s)
      \/ \E d \in DigestValue : x = Digest(d)
  BY DEF Token, U8, U16, U32, U64, Bytes, Digest
<1>2. Width16 # 0 /\ Width32 # 0 /\ Width64 # 0 /\ 1 # 0 /\ Len(<<>>) = 0
  BY WidthAssumption
<1>3. CASE \/ \E n \in Octet : x = U8(n)
           \/ \E n \in Unsigned(Width16) : x = U16(n)
           \/ \E n \in Unsigned(Width32) : x = U32(n)
           \/ \E n \in Unsigned(Width64) : x = U64(n)
  <2>1. Appended(x) \in Seq(Octet) /\ Len(Appended(x)) \in {1, Width16, Width32, Width64}
    BY <1>3, AppendedFacts, Zenon
  <2>2. Len(Appended(x)) # 0
    BY <1>2, <2>1
  <2> QED
    BY <1>2, <2>1, <2>2, Zenon
<1>4. CASE (\E s \in Text : x = Bytes(s)) \/ (\E d \in DigestValue : x = Digest(d))
  BY <1>4, AppendedFrames, Zenon
<1> QED
  BY <1>1, <1>3, <1>4, Zenon

\* What a row of calls appends is one after another.
LEMMA CodedFacts ==
  ASSUME NEW c \in Seq(Token)
  PROVE  /\ Coded(<<>>) = <<>> /\ Coded(c) \in Seq(Octet)
         /\ \A x \in Token : Coded(Append(c, x)) = Coded(c) \o Appended(x)
         /\ \A x \in Token : <<x>> \in Seq(Token) /\ Coded(<<x>>) = Appended(x)
<1> DEFINE Codes(d) == [i \in DOMAIN d |-> Appended(d[i])]
<1>1. PICK U : U = Seq(Octet)
  OBVIOUS
<1>2. \A x \in Token : Appended(x) \in U
  BY <1>1, AppendsSomething
<1>3. ASSUME NEW d \in Seq(Token), NEW x \in Token
      PROVE  /\ Codes(d) \in Seq(U)
             /\ Codes(Append(d, x)) = Append(Codes(d), Appended(x))
  <2>1. PICK n \in Nat : n = Len(d) /\ DOMAIN d = 1..n
    OBVIOUS
  <2>2. \A i \in 1..n : d[i] \in Token
    BY <2>1
  <2>3. Codes(d) \in [1..n -> U]
    BY <1>2, <2>1, <2>2
  <2>4. Codes(d) \in Seq(U) /\ Len(Codes(d)) = n
    BY <2>3
  <2>5. PICK e : e = Append(d, x)
    OBVIOUS
  <2>6. e \in Seq(Token) /\ DOMAIN e = 1..(n + 1) /\ (\A i \in 1..n : e[i] = d[i]) /\ e[n + 1] = x
    BY <2>1, <2>5
  <2>7. Codes(e) = [i \in 1..(n + 1) |-> Appended(e[i])]
    BY <2>6
  <2>8. PICK b : b = Codes(d) /\ b \in Seq(U) /\ Len(b) = n /\ \A i \in 1..n : b[i] = Appended(d[i])
    <3>1. \A i \in 1..n : Codes(d)[i] = Appended(d[i])
      BY <2>1
    <3> HIDE DEF Codes
    <3> QED
      BY <2>4, <3>1, Zenon
  <2>9. Append(b, Appended(x)) = [i \in 1..(n + 1) |-> IF i <= n THEN b[i] ELSE Appended(x)]
    BY <2>8
  <2>10. \A i \in 1..(n + 1) : Appended(e[i]) = IF i <= n THEN b[i] ELSE Appended(x)
    <3>1. ASSUME NEW i \in 1..(n + 1)
          PROVE  Appended(e[i]) = IF i <= n THEN b[i] ELSE Appended(x)
      <4>1. CASE i <= n
        BY <2>6, <2>8, <4>1
      <4>2. CASE i = n + 1
        BY <2>6, <4>2
      <4> QED
        BY <4>1, <4>2
    <3> QED
      BY <3>1
  <2>11. Codes(e) = Append(b, Appended(x))
    BY <2>7, <2>9, <2>10
  <2> QED
    BY <2>4, <2>5, <2>8, <2>11
<1>4. ASSUME NEW d \in Seq(Token) PROVE Coded(d) = FlattenSeq(Codes(d))
  BY DEF Coded
<1> HIDE DEF Codes
<1>5. ASSUME NEW d \in Seq(Token), NEW x \in Token
      PROVE  Coded(d) \in Seq(Octet) /\ Coded(Append(d, x)) = Coded(d) \o Appended(x)
  <2>1. /\ Codes(d) \in Seq(Seq(Octet)) /\ Appended(x) \in Seq(Octet)
        /\ Codes(Append(d, x)) = Append(Codes(d), Appended(x))
    BY <1>1, <1>2, <1>3, Zenon
  <2>2. FlattenSeq(Append(Codes(d), Appended(x))) = FlattenSeq(Codes(d)) \o Appended(x)
        /\ FlattenSeq(Codes(d)) \in Seq(Octet)
    BY <2>1, FlattenStep, Zenon
  <2>3. Append(d, x) \in Seq(Token)
    OBVIOUS
  <2> QED
    BY <1>4, <2>1, <2>2, <2>3, Zenon
<1>6. <<>> \in Seq(Token) /\ Coded(<<>>) = <<>>
  <2>1. [i \in DOMAIN (<<>>) |-> Appended((<<>>)[i])] = <<>>
    OBVIOUS
  <2> QED
    BY <2>1 DEF Coded, FlattenSeq
<1>7. \E x : x \in Token
  <2>1. 0 \in Octet
    BY DEF Octet
  <2> QED
    BY <2>1, AppendedFacts
<1>8. ASSUME NEW x \in Token PROVE <<x>> \in Seq(Token) /\ Coded(<<x>>) = Appended(x)
  <2>1. Append(<<>>, x) = <<x>> /\ <<x>> \in Seq(Token)
    OBVIOUS
  <2>2. Coded(Append(<<>>, x)) = Coded(<<>>) \o Appended(x)
    BY <1>5, <1>6
  <2>3. <<>> \o Appended(x) = Appended(x)
    BY AppendsSomething, ConcatLaws
  <2> QED
    BY <1>6, <2>1, <2>2, <2>3, Zenon
<1> QED
  BY <1>5, <1>6, <1>7, <1>8, Zenon

\* The calls of two rows are those of the one, then those of the other.
LEMMA CodedTogether ==
  ASSUME NEW c \in Seq(Token), NEW d \in Seq(Token)
  PROVE  /\ c \o d \in Seq(Token) /\ Coded(c) \in Seq(Octet) /\ Coded(d) \in Seq(Octet)
         /\ Coded(c \o d) = Coded(c) \o Coded(d)
         /\ d # <<>> => Coded(d) # <<>>
<1> DEFINE D(k) == SubSeq(d, 1, k)
           S == {k \in Nat : k <= Len(d) => Coded(c \o D(k)) = Coded(c) \o Coded(D(k))}
<1>1. Len(d) \in Nat /\ D(0) = <<>> /\ D(Len(d)) = d
  OBVIOUS
<1>2. ASSUME NEW k \in Nat, k + 1 <= Len(d)
      PROVE  /\ D(k) \in Seq(Token) /\ d[k + 1] \in Token
             /\ D(k + 1) = Append(D(k), d[k + 1])
             /\ c \o D(k) \in Seq(Token)
             /\ c \o D(k + 1) = Append(c \o D(k), d[k + 1])
  <2>1. D(k) \in Seq(Token) /\ d[k + 1] \in Token /\ D(k + 1) = Append(D(k), d[k + 1])
    BY <1>1, <1>2
  <2>2. PICK e \in Seq(Token) : e = D(k)
    BY <2>1
  <2>3. PICK x \in Token : x = d[k + 1]
    BY <2>1
  <2>4. c \o e \in Seq(Token) /\ c \o Append(e, x) = Append(c \o e, x)
    OBVIOUS
  <2> HIDE DEF D
  <2> QED
    BY <2>1, <2>2, <2>3, <2>4
<1> HIDE DEF D
<1>3. Coded(c) \in Seq(Octet) /\ Coded(d) \in Seq(Octet) /\ Coded(<<>>) = <<>>
  BY CodedFacts
<1>4. 0 \in S
  <2>1. c \o <<>> = c /\ Coded(c) \o <<>> = Coded(c)
    BY <1>3, ConcatLaws
  <2> QED
    BY <1>1, <1>3, <2>1
<1>5. ASSUME NEW k \in Nat, k \in S PROVE k + 1 \in S
  <2>1. SUFFICES ASSUME k + 1 <= Len(d)
                 PROVE  Coded(c \o D(k + 1)) = Coded(c) \o Coded(D(k + 1))
    OBVIOUS
  <2>2. PICK e \in Seq(Token) : e = D(k)
    BY <1>2, <2>1
  <2>3. PICK x \in Token : x = d[k + 1]
    BY <1>2, <2>1
  <2>4. c \o e \in Seq(Token) /\ D(k + 1) = Append(e, x) /\ c \o D(k + 1) = Append(c \o e, x)
    BY <1>2, <2>1, <2>2, <2>3
  <2>5. Coded(Append(c \o e, x)) = Coded(c \o e) \o Appended(x)
    BY <2>4, CodedFacts
  <2>6. Coded(Append(e, x)) = Coded(e) \o Appended(x) /\ Coded(e) \in Seq(Octet)
    BY CodedFacts
  <2>7. Coded(c \o e) = Coded(c) \o Coded(e)
    <3>1. k <= Len(d)
      BY <1>1, <2>1
    <3> QED
      BY <1>5, <2>2, <3>1
  <2>8. Appended(x) \in Seq(Octet)
    BY AppendsSomething
  <2>9. (Coded(c) \o Coded(e)) \o Appended(x) = Coded(c) \o (Coded(e) \o Appended(x))
    <3>1. PICK a \in Seq(Octet) : a = Coded(c)
      BY <1>3
    <3>2. PICK b \in Seq(Octet) : b = Coded(e)
      BY <2>6
    <3>3. PICK h \in Seq(Octet) : h = Appended(x)
      BY <2>8
    <3>4. (a \o b) \o h = a \o (b \o h)
      BY ConcatAssociative, SMTT(30)
    <3> QED
      BY <3>1, <3>2, <3>3, <3>4, Zenon
  <2> QED
    BY <2>4, <2>5, <2>6, <2>7, <2>9, Zenon
<1>6. Nat \subseteq S
  <2> HIDE DEF S
  <2> QED
    BY <1>4, <1>5, InductionInSet
<1>7. Coded(c \o d) = Coded(c) \o Coded(d)
  <2>1. Len(d) \in S /\ Len(d) <= Len(d)
    <3> HIDE DEF S
    <3> QED
      BY <1>1, <1>6
  <2> QED
    BY <1>1, <2>1
<1>8. ASSUME d # <<>> PROVE Coded(d) # <<>>
  <2>1. Len(d) # 0
    BY <1>8
  <2>2. PICK k \in Nat : k + 1 = Len(d)
    <3>1. Len(d) - 1 \in Nat /\ (Len(d) - 1) + 1 = Len(d)
      BY <1>1, <2>1
    <3> QED
      BY <3>1
  <2>3. PICK e \in Seq(Token), x \in Token : d = Append(e, x)
    <3>1. D(k) \in Seq(Token) /\ d[k + 1] \in Token /\ d = Append(D(k), d[k + 1])
      <4>1. k + 1 <= Len(d)
        BY <1>1, <2>2
      <4> QED
        BY <1>1, <1>2, <2>2, <4>1
    <3> QED
      BY <3>1
  <2>4. PICK a \in Seq(Octet), b \in Seq(Octet) : a = Coded(e) /\ b = Appended(x) /\ b # <<>>
    BY CodedFacts, AppendsSomething
  <2>5. Coded(d) = a \o b
    <3>1. Coded(Append(e, x)) = Coded(e) \o Appended(x)
      BY CodedFacts
    <3> QED
      BY <2>3, <2>4, <3>1, Zenon
  <2>6. Len(a \o b) = Len(a) + Len(b) /\ Len(a) \in Nat /\ Len(b) \in Nat /\ Len(b) # 0
    BY <2>4
  <2>7. Len(a \o b) # 0 /\ Len(<<>>) = 0
    BY <2>6
  <2> QED
    BY <2>5, <2>7, Zenon
<1>9. c \o d \in Seq(Token)
  OBVIOUS
<1> QED
  BY <1>3, <1>7, <1>8, <1>9, Zenon

-----------------------------------------------------------------------------
(* Rows of calls that can be read back *)

\* The calls c and then the bytes s are the same bytes as d and then t.
Agree(c, s, d, t) == Coded(c) \o s = Coded(d) \o t

\* Whatever follows them, the calls c made for v and d made for w append the
\* same bytes only if v is w, and then the same follows.
Tells(c, v, d, w) ==
  /\ c \in Seq(Token) /\ d \in Seq(Token)
  /\ \A s, t \in Seq(Octet) : Agree(c, s, d, t) => v = w /\ s = t

\* What is read is what the bytes were appended for.
LEMMA TellsAs ==
  ASSUME NEW c, NEW v, NEW d, NEW w, NEW x, NEW y, Tells(c, v, d, w), v = w => x = y
  PROVE  Tells(c, x, d, y)
  BY DEF Tells

\* Parentheses do not matter.
LeftFirst(p, q, r) == (p \o q) \o r
RightFirst(p, q, r) == p \o (q \o r)

\* Concatenation is associative, whichever two are joined first.
LEMMA EitherFirst ==
  ASSUME NEW p \in Seq(Octet), NEW q \in Seq(Octet), NEW r \in Seq(Octet)
  PROVE  LeftFirst(p, q, r) = RightFirst(p, q, r)
  BY ConcatAssociative, SMTT(30) DEF LeftFirst, RightFirst

\* What comes first is read first.
LEMMA ReadsFirst ==
  ASSUME NEW c, NEW v, NEW d, NEW w, Tells(c, v, d, w),
         NEW a \in Seq(Token), NEW b \in Seq(Token)
  PROVE  \A s, t \in Seq(Octet) : Agree(c \o a, s, d \o b, t) => v = w /\ Agree(a, s, b, t)
<1> SUFFICES ASSUME NEW s \in Seq(Octet), NEW t \in Seq(Octet), Agree(c \o a, s, d \o b, t)
             PROVE  v = w /\ Agree(a, s, b, t)
  OBVIOUS
<1>1. /\ c \in Seq(Token) /\ d \in Seq(Token)
      /\ \A x, y \in Seq(Octet) : Agree(c, x, d, y) => v = w /\ x = y
  BY Zenon DEF Tells
<1>2. PICK p \in Seq(Octet), q \in Seq(Octet), h \in Seq(Octet), k \in Seq(Octet) :
        p = Coded(c) /\ q = Coded(d) /\ h = Coded(a) /\ k = Coded(b)
  BY <1>1, CodedTogether
<1>3. Coded(c \o a) = p \o h /\ Coded(d \o b) = q \o k
  BY <1>1, <1>2, CodedTogether, Zenon
<1>4. PICK e \in Seq(Octet), f \in Seq(Octet) : e = h \o s /\ f = k \o t
  <2>1. h \o s \in Seq(Octet) /\ k \o t \in Seq(Octet)
    BY <1>2
  <2> QED
    BY <2>1
<1>5. LeftFirst(p, h, s) = LeftFirst(q, k, t)
  BY <1>3, Zenon DEF LeftFirst, Agree
<1>6. RightFirst(p, h, s) = RightFirst(q, k, t)
  <2>1. p \in Seq(Octet) /\ h \in Seq(Octet) /\ q \in Seq(Octet) /\ k \in Seq(Octet)
    BY <1>2
  <2>2. LeftFirst(p, h, s) = RightFirst(p, h, s)
    BY <2>1, EitherFirst
  <2>3. LeftFirst(q, k, t) = RightFirst(q, k, t)
    BY <2>1, EitherFirst
  <2> QED
    BY <1>5, <2>2, <2>3, Zenon
<1>7. p \o e = q \o f
  BY <1>4, <1>6, Zenon DEF RightFirst
<1>8. Agree(c, e, d, f)
  BY <1>2, <1>7, Zenon DEF Agree
<1>9. v = w /\ e = f
  BY <1>1, <1>4, <1>8, Zenon
<1>10. Agree(a, s, b, t)
  BY <1>2, <1>4, <1>9, Zenon DEF Agree
<1> QED
  BY <1>9, <1>10

\* One thing is read, and then the other.
LEMMA TellsThen ==
  ASSUME NEW c, NEW v, NEW d, NEW w, Tells(c, v, d, w),
         NEW a, NEW x, NEW b, NEW y, Tells(a, x, b, y)
  PROVE  Tells(c \o a, <<v, x>>, d \o b, <<w, y>>)
<1>1. /\ c \in Seq(Token) /\ d \in Seq(Token) /\ a \in Seq(Token) /\ b \in Seq(Token)
      /\ \A s, t \in Seq(Octet) : Agree(a, s, b, t) => x = y /\ s = t
  BY Zenon DEF Tells
<1>2. c \o a \in Seq(Token) /\ d \o b \in Seq(Token)
  BY <1>1, CodedTogether, Zenon
<1>3. \A s, t \in Seq(Octet) : Agree(c \o a, s, d \o b, t) => v = w /\ Agree(a, s, b, t)
  BY <1>1, ReadsFirst, Zenon
<1>4. ASSUME NEW s \in Seq(Octet), NEW t \in Seq(Octet), Agree(c \o a, s, d \o b, t)
      PROVE  <<v, x>> = <<w, y>> /\ s = t
  BY <1>1, <1>3, <1>4, Zenon
<1> QED
  BY <1>2, <1>4, Zenon DEF Tells

\* Calls that are told apart are told apart whatever comes behind them.
LEMMA TellsApart ==
  ASSUME NEW c, NEW v, NEW d, NEW w, Tells(c, v, d, w), v # w,
         NEW a \in Seq(Token), NEW b \in Seq(Token), NEW x, NEW y
  PROVE  Tells(c \o a, x, d \o b, y)
<1>1. c \o a \in Seq(Token) /\ d \o b \in Seq(Token)
  <2>1. c \in Seq(Token) /\ d \in Seq(Token)
    BY Zenon DEF Tells
  <2> QED
    BY <2>1, CodedTogether, Zenon
<1>2. \A s, t \in Seq(Octet) : Agree(c \o a, s, d \o b, t) => v = w /\ Agree(a, s, b, t)
  BY ReadsFirst, Zenon
<1> QED
  BY <1>1, <1>2, Zenon DEF Tells

\* Nothing is read from nothing.
LEMMA TellsNothing ==
  ASSUME NEW v
  PROVE  Tells(<<>>, v, <<>>, v)
<1>1. <<>> \in Seq(Token) /\ Coded(<<>>) = <<>>
  <2>1. <<>> \in Seq(Token)
    OBVIOUS
  <2> QED
    BY <2>1, CodedFacts
<1>2. \A s \in Seq(Octet) : <<>> \o s = s
  BY ConcatEmptySeq
<1> QED
  BY <1>1, <1>2, Zenon DEF Tells, Agree

\* One call that tells what it was made for.
LEMMA CallTells ==
  ASSUME NEW x \in Token, NEW y \in Token, NEW v, NEW w,
         \A s, t \in Seq(Octet) : Appended(x) \o s = Appended(y) \o t => v = w /\ s = t
  PROVE  Tells(<<x>>, v, <<y>>, w)
<1>1. <<>> \in Seq(Token)
  OBVIOUS
<1>2. \A z \in Token : <<z>> \in Seq(Token) /\ Coded(<<z>>) = Appended(z)
  BY <1>1, CodedFacts
<1> QED
  BY <1>2, Zenon DEF Tells, Agree

\* append_u8, append_u16, append_u32 and append_u64 append as many bytes as the
\* type has, so that the integer can be read back.
LEMMA IntegersTell ==
  /\ \A n, m \in Octet : Tells(<<U8(n)>>, n, <<U8(m)>>, m)
  /\ \A n, m \in Unsigned(Width16) : Tells(<<U16(n)>>, n, <<U16(m)>>, m)
  /\ \A n, m \in Unsigned(Width32) : Tells(<<U32(n)>>, n, <<U32(m)>>, m)
  /\ \A n, m \in Unsigned(Width64) : Tells(<<U64(n)>>, n, <<U64(m)>>, m)
<1>1. ASSUME NEW x \in Token, NEW y \in Token, NEW v, NEW w, NEW p \in Seq(Octet), NEW q \in Seq(Octet),
             p = Appended(x), q = Appended(y), Len(p) = Len(q), p = q => v = w
      PROVE  Tells(<<x>>, v, <<y>>, w)
  <2>1. ASSUME NEW s \in Seq(Octet), NEW t \in Seq(Octet), Appended(x) \o s = Appended(y) \o t
        PROVE  v = w /\ s = t
    <3>1. p \o s = q \o t
      BY <1>1, <2>1, Zenon
    <3>2. p = q /\ s = t
      BY <1>1, <3>1, SplitsEqual, Zenon
    <3> QED
      BY <1>1, <3>2
  <2> QED
    BY <2>1, CallTells, Zenon
<1>2. Width16 \in Nat /\ Width32 \in Nat /\ Width64 \in Nat
  BY WidthAssumption
<1>3. ASSUME NEW n \in Octet, NEW m \in Octet PROVE Tells(<<U8(n)>>, n, <<U8(m)>>, m)
  <2>1. <<n>> = <<m>> => n = m
    OBVIOUS
  <2> QED
    BY <1>1, <2>1, AppendedFacts, Zenon
<1>4. \A width \in {Width16, Width32, Width64} : \A n, m \in Unsigned(width) :
        BigEndian(n, width) = BigEndian(m, width) => n = m
  BY <1>2, BigEndianFacts, Zenon
<1>5. ASSUME NEW n \in Unsigned(Width16), NEW m \in Unsigned(Width16)
      PROVE  Tells(<<U16(n)>>, n, <<U16(m)>>, m)
  BY <1>1, <1>4, AppendedFacts, Zenon
<1>6. ASSUME NEW n \in Unsigned(Width32), NEW m \in Unsigned(Width32)
      PROVE  Tells(<<U32(n)>>, n, <<U32(m)>>, m)
  BY <1>1, <1>4, AppendedFacts, Zenon
<1>7. ASSUME NEW n \in Unsigned(Width64), NEW m \in Unsigned(Width64)
      PROVE  Tells(<<U64(n)>>, n, <<U64(m)>>, m)
  BY <1>1, <1>4, AppendedFacts, Zenon
<1> QED
  BY <1>3, <1>5, <1>6, <1>7

\* append_bytes frames a text with its length.
LEMMA TextTells ==
  ASSUME NEW v \in Text, NEW w \in Text
  PROVE  Tells(<<Bytes(v)>>, v, <<Bytes(w)>>, w)
<1>1. PICK b \in Seq(Octet) :
        /\ b = StringKey(v) /\ Len(b) \in Unsigned(Width64)
        /\ Bytes(v) \in Token /\ Appended(Bytes(v)) = Framed(b)
  BY AppendedFrames, Zenon
<1>2. PICK c \in Seq(Octet) :
        /\ c = StringKey(w) /\ Len(c) \in Unsigned(Width64)
        /\ Bytes(w) \in Token /\ Appended(Bytes(w)) = Framed(c)
  BY AppendedFrames, Zenon
<1>3. b = c => v = w
  <2>1. v \in Seq(Byte) /\ w \in Seq(Byte)
    BY DEF Text
  <2> QED
    BY <1>1, <1>2, <2>1, StringKeyFacts, Zenon
<1>4. ASSUME NEW s \in Seq(Octet), NEW t \in Seq(Octet), Framed(b) \o s = Framed(c) \o t
      PROVE  v = w /\ s = t
  BY <1>1, <1>2, <1>3, <1>4, FramedTells, Zenon
<1> QED
  BY <1>1, <1>2, <1>4, CallTells, Zenon

\* append_digest frames the bytes of a digest.
LEMMA DigestTells ==
  ASSUME NEW v \in DigestValue, NEW w \in DigestValue
  PROVE  Tells(<<Digest(v)>>, v, <<Digest(w)>>, w)
<1>1. PICK p \in Seq(Octet) : \A d \in DigestValue :
        /\ Digest(d) \in Token /\ Appended(Digest(d)) = p \o Framed(d)
        /\ d \in Seq(Octet) /\ Len(d) \in Unsigned(Width64) /\ Framed(d) \in Seq(Octet)
  BY AppendedFrames, Zenon
<1>2. PICK f \in Seq(Octet) : f = Framed(v)
  BY <1>1, Zenon
<1>3. PICK g \in Seq(Octet) : g = Framed(w)
  BY <1>1, Zenon
<1>4. ASSUME NEW s \in Seq(Octet), NEW t \in Seq(Octet), (p \o f) \o s = (p \o g) \o t
      PROVE  v = w /\ s = t
  <2>1. PICK a \in Seq(Octet), b \in Seq(Octet) : a = f \o s /\ b = g \o t
    <3>1. f \o s \in Seq(Octet) /\ g \o t \in Seq(Octet)
      OBVIOUS
    <3> QED
      BY <3>1
  <2>2. LeftFirst(p, f, s) = LeftFirst(p, g, t)
    BY <1>4, Zenon DEF LeftFirst
  <2>3. RightFirst(p, f, s) = RightFirst(p, g, t)
    <3>1. f \in Seq(Octet) /\ g \in Seq(Octet) /\ p \in Seq(Octet) /\ s \in Seq(Octet) /\ t \in Seq(Octet)
      BY <1>1, <1>2, <1>3
    <3>2. LeftFirst(p, f, s) = RightFirst(p, f, s)
      BY <3>1, EitherFirst
    <3>3. LeftFirst(p, g, t) = RightFirst(p, g, t)
      BY <3>1, EitherFirst
    <3> QED
      BY <2>2, <3>2, <3>3, Zenon
  <2>4. p \o a = p \o b
    BY <2>1, <2>3, Zenon DEF RightFirst
  <2>5. a = b
    <3>1. Len(p) = Len(p)
      OBVIOUS
    <3> QED
      BY <2>4, <3>1, SplitsEqual, Zenon
  <2>6. Framed(v) \o s = Framed(w) \o t
    BY <1>2, <1>3, <2>1, <2>5, Zenon
  <2>7. /\ v \in Seq(Octet) /\ Len(v) \in Unsigned(Width64)
        /\ w \in Seq(Octet) /\ Len(w) \in Unsigned(Width64)
    BY <1>1
  <2>8. \A c \in Seq(Octet), x \in Seq(Octet), y \in Seq(Octet) :
          Len(c) \in Unsigned(Width64) /\ Framed(v) \o x = Framed(c) \o y => v = c /\ x = y
    BY <2>7, FramedTells, Zenon
  <2> QED
    BY <2>6, <2>7, <2>8, Zenon
<1> QED
  BY <1>1, <1>2, <1>3, <1>4, CallTells, Zenon

\* A call behind a row.
LEMMA RowGrows ==
  ASSUME NEW T, NEW c \in Seq(T), NEW x \in T, NEW e, e = c \o <<x>>
  PROVE  /\ e \in Seq(T) /\ Len(e) = Len(c) + 1 /\ Len(c) \in Nat
         /\ \A i \in 1..Len(c) : e[i] = c[i]
         /\ e[Len(c) + 1] = x
<1>1. e = Append(c, x)
  BY AppendIsConcat
<1> QED
  BY <1>1, AppendProperties

\* A row of two calls is one, then the other.
LEMMA RowOf2 ==
  ASSUME NEW T, NEW a1 \in T, NEW a2 \in T
  PROVE  <<a1>> \o <<a2>> = <<a1, a2>>
<1>1. PICK c : c = <<a1>> /\ c \in Seq(T) /\ Len(c) = 1
  <2>1. <<a1>> \in Seq(T) /\ Len(<<a1>>) = 1
    OBVIOUS
  <2> QED
    BY <2>1, Zenon
<1>3. c[1] = a1
  BY <1>1
<1>2. PICK d : d = <<a1, a2>> /\ d \in Seq(T) /\ Len(d) = 2
  <2>1. <<a1, a2>> \in Seq(T) /\ Len(<<a1, a2>>) = 2
    OBVIOUS
  <2> QED
    BY <2>1, Zenon
<1>4. d[1] = a1 /\ d[2] = a2
  BY <1>2
<1>5. PICK e : e = c \o <<a2>>
  OBVIOUS
<1>6. e \in Seq(T) /\ Len(e) = 2 /\ (\A i \in 1..1 : e[i] = c[i]) /\ e[2] = a2
  BY <1>1, <1>5, RowGrows
<1>7. e[1] = a1 /\ e[2] = a2
  BY <1>3, <1>6
<1>8. \A i \in 1..2 : i \in {1, 2}
  OBVIOUS
<1>9. \A i \in 1..2 : e[i] = d[i]
  BY <1>4, <1>7, <1>8
<1>10. e = d
  BY <1>2, <1>6, <1>9, SeqEqual
<1> QED
  BY <1>1, <1>2, <1>5, <1>10, Zenon

\* A row of three calls is a row of two, then the third.
LEMMA RowOf3 ==
  ASSUME NEW T, NEW a1 \in T, NEW a2 \in T, NEW a3 \in T
  PROVE  <<a1, a2>> \o <<a3>> = <<a1, a2, a3>>
<1>1. PICK c : c = <<a1, a2>> /\ c \in Seq(T) /\ Len(c) = 2
  <2>1. <<a1, a2>> \in Seq(T) /\ Len(<<a1, a2>>) = 2
    OBVIOUS
  <2> QED
    BY <2>1, Zenon
<1>3. c[1] = a1 /\ c[2] = a2
  BY <1>1
<1>2. PICK d : d = <<a1, a2, a3>> /\ d \in Seq(T) /\ Len(d) = 3
  <2>1. <<a1, a2, a3>> \in Seq(T) /\ Len(<<a1, a2, a3>>) = 3
    OBVIOUS
  <2> QED
    BY <2>1, Zenon
<1>4. d[1] = a1 /\ d[2] = a2 /\ d[3] = a3
  BY <1>2
<1>5. PICK e : e = c \o <<a3>>
  OBVIOUS
<1>6. e \in Seq(T) /\ Len(e) = 3 /\ (\A i \in 1..2 : e[i] = c[i]) /\ e[3] = a3
  BY <1>1, <1>5, RowGrows
<1>7. e[1] = a1 /\ e[2] = a2 /\ e[3] = a3
  BY <1>3, <1>6
<1>8. \A i \in 1..3 : i \in {1, 2, 3}
  OBVIOUS
<1>9. \A i \in 1..3 : e[i] = d[i]
  BY <1>4, <1>7, <1>8
<1>10. e = d
  BY <1>2, <1>6, <1>9, SeqEqual
<1> QED
  BY <1>1, <1>2, <1>5, <1>10, Zenon

\* A row of four calls is a row of three, then the fourth.
LEMMA RowOf4 ==
  ASSUME NEW T, NEW a1 \in T, NEW a2 \in T, NEW a3 \in T, NEW a4 \in T
  PROVE  <<a1, a2, a3>> \o <<a4>> = <<a1, a2, a3, a4>>
<1>1. PICK c : c = <<a1, a2, a3>> /\ c \in Seq(T) /\ Len(c) = 3
  <2>1. <<a1, a2, a3>> \in Seq(T) /\ Len(<<a1, a2, a3>>) = 3
    OBVIOUS
  <2> QED
    BY <2>1, Zenon
<1>3. c[1] = a1 /\ c[2] = a2 /\ c[3] = a3
  BY <1>1
<1>2. PICK d : d = <<a1, a2, a3, a4>> /\ d \in Seq(T) /\ Len(d) = 4
  <2>1. <<a1, a2, a3, a4>> \in Seq(T) /\ Len(<<a1, a2, a3, a4>>) = 4
    OBVIOUS
  <2> QED
    BY <2>1, Zenon
<1>4. d[1] = a1 /\ d[2] = a2 /\ d[3] = a3 /\ d[4] = a4
  BY <1>2
<1>5. PICK e : e = c \o <<a4>>
  OBVIOUS
<1>6. e \in Seq(T) /\ Len(e) = 4 /\ (\A i \in 1..3 : e[i] = c[i]) /\ e[4] = a4
  BY <1>1, <1>5, RowGrows
<1>7. e[1] = a1 /\ e[2] = a2 /\ e[3] = a3 /\ e[4] = a4
  BY <1>3, <1>6
<1>8. \A i \in 1..4 : i \in {1, 2, 3, 4}
  OBVIOUS
<1>9. \A i \in 1..4 : e[i] = d[i]
  BY <1>4, <1>7, <1>8
<1>10. e = d
  BY <1>2, <1>6, <1>9, SeqEqual
<1> QED
  BY <1>1, <1>2, <1>5, <1>10, Zenon

\* A row of five calls is a row of four, then the fifth.
LEMMA RowOf5 ==
  ASSUME NEW T, NEW a1 \in T, NEW a2 \in T, NEW a3 \in T, NEW a4 \in T, NEW a5 \in T
  PROVE  <<a1, a2, a3, a4>> \o <<a5>> = <<a1, a2, a3, a4, a5>>
<1>1. PICK c : c = <<a1, a2, a3, a4>> /\ c \in Seq(T) /\ Len(c) = 4
  <2>1. <<a1, a2, a3, a4>> \in Seq(T) /\ Len(<<a1, a2, a3, a4>>) = 4
    OBVIOUS
  <2> QED
    BY <2>1, Zenon
<1>3. c[1] = a1 /\ c[2] = a2 /\ c[3] = a3 /\ c[4] = a4
  BY <1>1
<1>2. PICK d : d = <<a1, a2, a3, a4, a5>> /\ d \in Seq(T) /\ Len(d) = 5
  <2>1. <<a1, a2, a3, a4, a5>> \in Seq(T) /\ Len(<<a1, a2, a3, a4, a5>>) = 5
    OBVIOUS
  <2> QED
    BY <2>1, Zenon
<1>4. d[1] = a1 /\ d[2] = a2 /\ d[3] = a3 /\ d[4] = a4 /\ d[5] = a5
  BY <1>2
<1>5. PICK e : e = c \o <<a5>>
  OBVIOUS
<1>6. e \in Seq(T) /\ Len(e) = 5 /\ (\A i \in 1..4 : e[i] = c[i]) /\ e[5] = a5
  BY <1>1, <1>5, RowGrows
<1>7. e[1] = a1 /\ e[2] = a2 /\ e[3] = a3 /\ e[4] = a4 /\ e[5] = a5
  BY <1>3, <1>6
<1>8. \A i \in 1..5 : i \in {1, 2, 3, 4, 5}
  OBVIOUS
<1>9. \A i \in 1..5 : e[i] = d[i]
  BY <1>4, <1>7, <1>8
<1>10. e = d
  BY <1>2, <1>6, <1>9, SeqEqual
<1> QED
  BY <1>1, <1>2, <1>5, <1>10, Zenon

\* What one call tells is a call.
LEMMA TellingCall ==
  ASSUME NEW x, NEW v, NEW y, NEW w, Tells(<<x>>, v, <<y>>, w)
  PROVE  x \in Token /\ y \in Token
<1>1. <<x>> \in Seq(Token) /\ <<y>> \in Seq(Token)
  BY Zenon DEF Tells
<1>2. \A z : <<z>> \in Seq(Token) => z \in Token
  OBVIOUS
<1> QED
  BY <1>1, <1>2, Zenon

\* Calls in a row tell what each tells.
LEMMA TellsBoth ==
  ASSUME NEW a1, NEW v1, NEW b1, NEW w1, Tells(<<a1>>, v1, <<b1>>, w1),
         NEW a2, NEW v2, NEW b2, NEW w2, Tells(<<a2>>, v2, <<b2>>, w2)
  PROVE  Tells(<<a1, a2>>, <<v1, v2>>,
               <<b1, b2>>, <<w1, w2>>)
<1>1. /\ a1 \in Token /\ b1 \in Token
      /\ a2 \in Token /\ b2 \in Token
  BY TellingCall, Zenon
<1>2. <<a1>> \o <<a2>> = <<a1, a2>> /\ <<b1>> \o <<b2>> = <<b1, b2>>
  BY <1>1, RowOf2, Zenon
<1>3. Tells(<<a1>> \o <<a2>>, <<v1, v2>>, <<b1>> \o <<b2>>, <<w1, w2>>)
  BY TellsThen, Zenon
<1> QED
  BY <1>2, <1>3, Zenon

\* A row of three calls that each tell their value.
LEMMA TellsThree ==
  ASSUME NEW a1, NEW v1, NEW b1, NEW w1, Tells(<<a1>>, v1, <<b1>>, w1),
         NEW a2, NEW v2, NEW b2, NEW w2, Tells(<<a2>>, v2, <<b2>>, w2),
         NEW a3, NEW v3, NEW b3, NEW w3, Tells(<<a3>>, v3, <<b3>>, w3)
  PROVE  Tells(<<a1, a2, a3>>, <<v1, v2, v3>>,
               <<b1, b2, b3>>, <<w1, w2, w3>>)
<1>1. /\ a1 \in Token /\ b1 \in Token
      /\ a2 \in Token /\ b2 \in Token
      /\ a3 \in Token /\ b3 \in Token
  BY TellingCall, Zenon
<1>2. <<a1, a2>> \o <<a3>> = <<a1, a2, a3>> /\ <<b1, b2>> \o <<b3>> = <<b1, b2, b3>>
  BY <1>1, RowOf3, Zenon
<1>3. Tells(<<a1, a2>>, <<v1, v2>>, <<b1, b2>>, <<w1, w2>>)
  BY TellsBoth, Zenon
<1>4. Tells(<<a1, a2>> \o <<a3>>, <<<<v1, v2>>, v3>>,
            <<b1, b2>> \o <<b3>>, <<<<w1, w2>>, w3>>)
  BY <1>3, TellsThen, Zenon
<1>5. <<<<v1, v2>>, v3>> = <<<<w1, w2>>, w3>> => <<v1, v2, v3>> = <<w1, w2, w3>>
  OBVIOUS
<1>6. Tells(<<a1, a2, a3>>, <<<<v1, v2>>, v3>>, <<b1, b2, b3>>, <<<<w1, w2>>, w3>>)
  BY <1>2, <1>4, Zenon
<1> QED
  BY <1>5, <1>6, Zenon DEF Tells

\* A row of four calls that each tell their value.
LEMMA TellsFour ==
  ASSUME NEW a1, NEW v1, NEW b1, NEW w1, Tells(<<a1>>, v1, <<b1>>, w1),
         NEW a2, NEW v2, NEW b2, NEW w2, Tells(<<a2>>, v2, <<b2>>, w2),
         NEW a3, NEW v3, NEW b3, NEW w3, Tells(<<a3>>, v3, <<b3>>, w3),
         NEW a4, NEW v4, NEW b4, NEW w4, Tells(<<a4>>, v4, <<b4>>, w4)
  PROVE  Tells(<<a1, a2, a3, a4>>, <<v1, v2, v3, v4>>,
               <<b1, b2, b3, b4>>, <<w1, w2, w3, w4>>)
<1>1. /\ a1 \in Token /\ b1 \in Token
      /\ a2 \in Token /\ b2 \in Token
      /\ a3 \in Token /\ b3 \in Token
      /\ a4 \in Token /\ b4 \in Token
  BY TellingCall, Zenon
<1>2. <<a1, a2, a3>> \o <<a4>> = <<a1, a2, a3, a4>> /\ <<b1, b2, b3>> \o <<b4>> = <<b1, b2, b3, b4>>
  <2>1. <<a1, a2, a3>> \o <<a4>> = <<a1, a2, a3, a4>>
    BY <1>1, RowOf4
  <2>2. <<b1, b2, b3>> \o <<b4>> = <<b1, b2, b3, b4>>
    BY <1>1, RowOf4
  <2> QED
    BY <2>1, <2>2
<1>3. Tells(<<a1, a2, a3>>, <<v1, v2, v3>>, <<b1, b2, b3>>, <<w1, w2, w3>>)
  BY TellsThree, Zenon
<1>4. Tells(<<a1, a2, a3>> \o <<a4>>, <<<<v1, v2, v3>>, v4>>,
            <<b1, b2, b3>> \o <<b4>>, <<<<w1, w2, w3>>, w4>>)
  BY <1>3, TellsThen, Zenon
<1>5. <<<<v1, v2, v3>>, v4>> = <<<<w1, w2, w3>>, w4>> => <<v1, v2, v3, v4>> = <<w1, w2, w3, w4>>
  OBVIOUS
<1>6. Tells(<<a1, a2, a3, a4>>, <<<<v1, v2, v3>>, v4>>, <<b1, b2, b3, b4>>, <<<<w1, w2, w3>>, w4>>)
  BY <1>2, <1>4, Zenon
<1> QED
  BY <1>5, <1>6, Zenon DEF Tells

\* A row of five calls that each tell their value.
LEMMA TellsFive ==
  ASSUME NEW a1, NEW v1, NEW b1, NEW w1, Tells(<<a1>>, v1, <<b1>>, w1),
         NEW a2, NEW v2, NEW b2, NEW w2, Tells(<<a2>>, v2, <<b2>>, w2),
         NEW a3, NEW v3, NEW b3, NEW w3, Tells(<<a3>>, v3, <<b3>>, w3),
         NEW a4, NEW v4, NEW b4, NEW w4, Tells(<<a4>>, v4, <<b4>>, w4),
         NEW a5, NEW v5, NEW b5, NEW w5, Tells(<<a5>>, v5, <<b5>>, w5)
  PROVE  Tells(<<a1, a2, a3, a4, a5>>, <<v1, v2, v3, v4, v5>>,
               <<b1, b2, b3, b4, b5>>, <<w1, w2, w3, w4, w5>>)
<1>1. /\ a1 \in Token /\ b1 \in Token
      /\ a2 \in Token /\ b2 \in Token
      /\ a3 \in Token /\ b3 \in Token
      /\ a4 \in Token /\ b4 \in Token
      /\ a5 \in Token /\ b5 \in Token
  BY TellingCall, Zenon
<1>2. <<a1, a2, a3, a4>> \o <<a5>> = <<a1, a2, a3, a4, a5>> /\ <<b1, b2, b3, b4>> \o <<b5>> = <<b1, b2, b3, b4, b5>>
  <2>1. <<a1, a2, a3, a4>> \o <<a5>> = <<a1, a2, a3, a4, a5>>
    BY <1>1, RowOf5
  <2>2. <<b1, b2, b3, b4>> \o <<b5>> = <<b1, b2, b3, b4, b5>>
    BY <1>1, RowOf5
  <2> QED
    BY <2>1, <2>2
<1>3. Tells(<<a1, a2, a3, a4>>, <<v1, v2, v3, v4>>, <<b1, b2, b3, b4>>, <<w1, w2, w3, w4>>)
  BY TellsFour, Zenon
<1>4. Tells(<<a1, a2, a3, a4>> \o <<a5>>, <<<<v1, v2, v3, v4>>, v5>>,
            <<b1, b2, b3, b4>> \o <<b5>>, <<<<w1, w2, w3, w4>>, w5>>)
  BY <1>3, TellsThen, Zenon
<1>5. <<<<v1, v2, v3, v4>>, v5>> = <<<<w1, w2, w3, w4>>, w5>> => <<v1, v2, v3, v4, v5>> = <<w1, w2, w3, w4, w5>>
  OBVIOUS
<1>6. Tells(<<a1, a2, a3, a4, a5>>, <<<<v1, v2, v3, v4>>, v5>>, <<b1, b2, b3, b4, b5>>, <<<<w1, w2, w3, w4>>, w5>>)
  BY <1>2, <1>4, Zenon
<1> QED
  BY <1>5, <1>6, Zenon DEF Tells

\* What Optional appends for v, when code is what it appends for its value.
Flagged(v, code) ==
  IF v = None THEN <<Boolean(FALSE)>> ELSE <<Boolean(TRUE)>> \o code

\* An optional value is told by its flag, then by its own calls.
LEMMA FlaggedTells ==
  ASSUME NEW c, NEW v, NEW d, NEW w,
         v # None => Tells(c, v, c, v), w # None => Tells(d, w, d, w),
         v # None /\ w # None => Tells(c, v, d, w)
  PROVE  Tells(Flagged(v, c), v, Flagged(w, d), w)
<1>1. Tells(<<Boolean(FALSE)>>, 0, <<Boolean(FALSE)>>, 0)
      /\ Tells(<<Boolean(TRUE)>>, 1, <<Boolean(TRUE)>>, 1)
      /\ Tells(<<Boolean(TRUE)>>, 1, <<Boolean(FALSE)>>, 0)
      /\ Tells(<<Boolean(FALSE)>>, 0, <<Boolean(TRUE)>>, 1)
  <2>1. 0 \in Octet /\ 1 \in Octet /\ Boolean(FALSE) = U8(0) /\ Boolean(TRUE) = U8(1)
    BY DEF Octet, Boolean
  <2> QED
    BY <2>1, IntegersTell, Zenon
<1>2. CASE v = None /\ w = None
  BY <1>1, <1>2, TellsAs, Zenon DEF Flagged
<1>3. CASE v # None /\ w # None
  <2>1. Tells(<<Boolean(TRUE)>> \o c, <<1, v>>, <<Boolean(TRUE)>> \o d, <<1, w>>)
    BY <1>1, <1>3, TellsThen, Zenon
  <2>2. <<1, v>> = <<1, w>> => v = w
    OBVIOUS
  <2>3. Tells(<<Boolean(TRUE)>> \o c, v, <<Boolean(TRUE)>> \o d, w)
    BY <2>1, <2>2, TellsAs, Zenon
  <2> QED
    BY <1>3, <2>3, Zenon DEF Flagged
<1>4. \A f : f \in Seq(Token) => f \o <<>> = f
  BY ConcatLaws
<1>5. CASE v = None /\ w # None
  <2>1. <<Boolean(FALSE)>> \in Seq(Token) /\ d \in Seq(Token) /\ <<>> \in Seq(Token)
    BY <1>1, <1>5, TellsNothing, Zenon DEF Tells
  <2>2. Tells(<<Boolean(FALSE)>> \o <<>>, v, <<Boolean(TRUE)>> \o d, w)
    <3>1. 0 # 1
      OBVIOUS
    <3> QED
      BY <1>1, <2>1, <3>1, TellsApart, Zenon
  <2> QED
    BY <1>4, <1>5, <2>1, <2>2, Zenon DEF Flagged
<1>6. CASE v # None /\ w = None
  <2>1. <<Boolean(FALSE)>> \in Seq(Token) /\ c \in Seq(Token) /\ <<>> \in Seq(Token)
    BY <1>1, <1>6, TellsNothing, Zenon DEF Tells
  <2>2. Tells(<<Boolean(TRUE)>> \o c, v, <<Boolean(FALSE)>> \o <<>>, w)
    <3>1. 0 # 1
      OBVIOUS
    <3> QED
      BY <1>1, <2>1, <3>1, TellsApart, Zenon
  <2> QED
    BY <1>4, <1>6, <2>1, <2>2, Zenon DEF Flagged
<1> QED
  BY <1>2, <1>3, <1>5, <1>6

\* append_i64: the sign, and a magnitude that fits.
LEMMA SignAndMagnitudeTells ==
  ASSUME NEW n \in MinI64..MaxI64, NEW m \in MinI64..MaxI64
  PROVE  Tells(SignAndMagnitude(n), n, SignAndMagnitude(m), m)
<1> DEFINE Sign(i) == IF i < 0 THEN 1 ELSE 0
           Magnitude(i) == IF i < 0 THEN -(i + 1) + 1 ELSE i
<1>1. ASSUME NEW i \in MinI64..MaxI64
      PROVE  Sign(i) \in Octet /\ Magnitude(i) \in Unsigned(Width64)
  <2>1. MaxI64 \in Nat /\ Width64 \in Nat /\ MaxI64 + 1 \in Unsigned(Width64)
    BY MaxAssumption, WidthAssumption
  <2>2. i \in Int /\ -MaxI64 - 1 <= i /\ i <= MaxI64
    BY <2>1 DEF MinI64
  <2>3. Magnitude(i) \in Nat /\ Magnitude(i) <= MaxI64 + 1
    BY <2>1, <2>2
  <2>4. Magnitude(i) \in Unsigned(Width64)
    <3> HIDE DEF Magnitude
    <3> QED
      BY <2>1, <2>3, FewerBytes
  <2>5. Sign(i) \in Octet
    BY DEF Octet
  <2> QED
    BY <2>4, <2>5
<1>2. \A i : SignAndMagnitude(i) = <<U8(Sign(i)), U64(Magnitude(i))>>
  BY DEF SignAndMagnitude, Boolean
<1>3. <<Sign(n), Magnitude(n)>> = <<Sign(m), Magnitude(m)>> => n = m
  <2>1. MaxI64 \in Nat
    BY MaxAssumption
  <2>2. n \in Int /\ m \in Int
    BY <2>1 DEF MinI64
  <2>3. Sign(n) = Sign(m) /\ Magnitude(n) = Magnitude(m) => n = m
    BY <2>2
  <2> HIDE DEF Sign, Magnitude
  <2> QED
    BY <2>3
<1> HIDE DEF Sign, Magnitude
<1>4. Tells(<<U8(Sign(n))>>, Sign(n), <<U8(Sign(m))>>, Sign(m))
      /\ Tells(<<U64(Magnitude(n))>>, Magnitude(n), <<U64(Magnitude(m))>>, Magnitude(m))
  BY <1>1, IntegersTell, Zenon
<1>5. Tells(<<U8(Sign(n)), U64(Magnitude(n))>>, <<Sign(n), Magnitude(n)>>,
            <<U8(Sign(m)), U64(Magnitude(m))>>, <<Sign(m), Magnitude(m)>>)
  BY <1>4, TellsBoth, Zenon
<1>6. Tells(SignAndMagnitude(n), <<Sign(n), Magnitude(n)>>,
            SignAndMagnitude(m), <<Sign(m), Magnitude(m)>>)
  BY <1>2, <1>5, Zenon
<1> QED
  BY <1>3, <1>6, TellsAs, Zenon

\* Parts that each tell, one after another.
LEMMA PartsTell ==
  ASSUME NEW n \in Nat, NEW p, NEW q, NEW c, NEW d, NEW v, NEW w,
         p[0] = <<>>, q[0] = <<>>,
         \A k \in 1..n : p[k] = p[k - 1] \o c[k] /\ q[k] = q[k - 1] \o d[k],
         \A k \in 1..n : Tells(c[k], v[k], d[k], w[k]),
         v = [i \in 1..n |-> v[i]], w = [i \in 1..n |-> w[i]]
  PROVE  Tells(p[n], v, q[n], w)
<1> DEFINE Upto(x, k) == [i \in 1..k |-> x[i]]
           S == {k \in Nat : k <= n => Tells(p[k], Upto(v, k), q[k], Upto(w, k))}
<1>1. 0 \in S
  <2>1. Upto(v, 0) = Upto(w, 0)
    OBVIOUS
  <2>2. Tells(p[0], Upto(v, 0), q[0], Upto(w, 0))
    <3> HIDE DEF Upto
    <3> QED
      BY <2>1, TellsNothing, Zenon
  <2> QED
    BY <2>2
<1>2. ASSUME NEW k \in Nat, k \in S PROVE k + 1 \in S
  <2>1. SUFFICES ASSUME k + 1 <= n
                 PROVE  Tells(p[k + 1], Upto(v, k + 1), q[k + 1], Upto(w, k + 1))
    OBVIOUS
  <2>2. k + 1 \in 1..n /\ (k + 1) - 1 = k /\ k <= n
    BY <2>1
  <2>3. p[k + 1] = p[k] \o c[k + 1] /\ q[k + 1] = q[k] \o d[k + 1]
    <3>1. p[k + 1] = p[(k + 1) - 1] \o c[k + 1] /\ q[k + 1] = q[(k + 1) - 1] \o d[k + 1]
      BY <2>2
    <3> QED
      BY <2>2, <3>1, Zenon
  <2>4. Tells(c[k + 1], v[k + 1], d[k + 1], w[k + 1])
    BY <2>2
  <2>5. Tells(p[k], Upto(v, k), q[k], Upto(w, k))
    BY <1>2, <2>2
  <2>6. Upto(v, k) = Upto(w, k) /\ v[k + 1] = w[k + 1] => Upto(v, k + 1) = Upto(w, k + 1)
    <3>1. SUFFICES ASSUME Upto(v, k) = Upto(w, k), v[k + 1] = w[k + 1], NEW i \in 1..(k + 1)
                   PROVE  v[i] = w[i]
      OBVIOUS
    <3>2. CASE i = k + 1
      BY <3>1, <3>2
    <3>3. CASE i \in 1..k
      <4>1. Upto(v, k)[i] = v[i] /\ Upto(w, k)[i] = w[i]
        BY <3>3
      <4> QED
        BY <3>1, <4>1
    <3>4. i = k + 1 \/ i \in 1..k
      OBVIOUS
    <3> QED
      BY <3>2, <3>3, <3>4
  <2> HIDE DEF Upto
  <2>7. Tells(p[k] \o c[k + 1], <<Upto(v, k), v[k + 1]>>, q[k] \o d[k + 1], <<Upto(w, k), w[k + 1]>>)
    BY <2>4, <2>5, TellsThen, Zenon
  <2>8. Tells(p[k] \o c[k + 1], Upto(v, k + 1), q[k] \o d[k + 1], Upto(w, k + 1))
    BY <2>6, <2>7, Zenon DEF Tells
  <2> QED
    BY <2>3, <2>8, Zenon
<1>3. Nat \subseteq S
  <2> HIDE DEF S
  <2> QED
    BY <1>1, <1>2, InductionInSet
<1>4. n \in S /\ n <= n
  <2> HIDE DEF S
  <2> QED
    BY <1>3
<1>5. Upto(v, n) = v /\ Upto(w, n) = w
  OBVIOUS
<1>6. Tells(p[n], Upto(v, n), q[n], Upto(w, n))
  BY <1>4
<1> HIDE DEF Upto
<1> QED
  BY <1>5, <1>6, Zenon

\* What EncodeAll appends, when each element's calls are a function of it.
Listed(seq, encode) ==
  <<U64(Len(seq))>> \o FlattenSeq([i \in DOMAIN seq |-> encode[seq[i]]])

\* A list whose elements tell, with its length before it.
LEMMA ListTells ==
  ASSUME NEW T, NEW encode, \A x, y \in T : Tells(encode[x], x, encode[y], y),
         NEW v \in ListOf(T), NEW w \in ListOf(T)
  PROVE  Tells(Listed(v, encode), v, Listed(w, encode), w)
<1> DEFINE Codes(u) == [i \in DOMAIN u |-> encode[u[i]]]
<1>1. PICK U : U = Seq(Token)
  OBVIOUS
<1>2. ASSUME NEW u \in ListOf(T)
      PROVE  /\ u \in Seq(T) /\ Len(u) \in Nat /\ Len(u) \in Unsigned(Width64)
             /\ Codes(u) \in Seq(Seq(Token)) /\ Len(Codes(u)) = Len(u)
             /\ \A i \in 1..Len(u) : u[i] \in T /\ Codes(u)[i] = encode[u[i]]
  <2>1. u \in Seq(T) /\ Len(u) \in Unsigned(Width64)
    BY DEF ListOf
  <2>2. PICK n \in Nat : n = Len(u) /\ DOMAIN u = 1..n /\ \A i \in 1..n : u[i] \in T
    BY <2>1
  <2>3. \A x \in T : encode[x] \in U
    BY <1>1, Zenon DEF Tells
  <2>4. Codes(u) \in [1..n -> U]
    BY <2>2, <2>3
  <2>5. Codes(u) \in Seq(U) /\ Len(Codes(u)) = n
    <3> HIDE DEF Codes
    <3> QED
      BY <2>4
  <2>6. \A i \in 1..n : Codes(u)[i] = encode[u[i]]
    BY <2>2
  <2> HIDE DEF Codes
  <2> QED
    BY <1>1, <2>1, <2>2, <2>5, <2>6, Zenon
<1>3. PICK c \in Seq(Seq(Token)) :
        c = Codes(v) /\ Len(c) = Len(v) /\ \A i \in 1..Len(v) : v[i] \in T /\ c[i] = encode[v[i]]
  <2> HIDE DEF Codes
  <2> QED
    BY <1>2
<1>4. PICK d \in Seq(Seq(Token)) :
        d = Codes(w) /\ Len(d) = Len(w) /\ \A i \in 1..Len(w) : w[i] \in T /\ d[i] = encode[w[i]]
  <2> HIDE DEF Codes
  <2> QED
    BY <1>2
<1>5. Listed(v, encode) = <<U64(Len(v))>> \o FlattenSeq(c)
      /\ Listed(w, encode) = <<U64(Len(w))>> \o FlattenSeq(d)
  BY <1>3, <1>4 DEF Listed
<1>6. FlattenSeq(c) \in Seq(Token) /\ FlattenSeq(d) \in Seq(Token)
  <2>1. <<>> \in Seq(Token)
    OBVIOUS
  <2> QED
    BY <2>1, FlattenStep, Zenon
<1>7. Tells(<<U64(Len(v))>>, Len(v), <<U64(Len(w))>>, Len(w))
  BY <1>2, IntegersTell, Zenon
<1>8. CASE Len(v) # Len(w)
  BY <1>5, <1>6, <1>7, <1>8, TellsApart, Zenon
<1>9. CASE Len(v) = Len(w)
  <2>1. PICK n \in Nat : n = Len(v) /\ n = Len(w)
    BY <1>2, <1>9
  <2> DEFINE p == [k \in 0..n |-> Flat(c, k)]
             q == [k \in 0..n |-> Flat(d, k)]
  <2>2. /\ Flat(c, 0) = <<>> /\ Flat(c, n) = FlattenSeq(c)
        /\ \A k \in 1..n : Flat(c, k) = Flat(c, k - 1) \o c[k]
    BY <1>3, <2>1, FlatFacts, Zenon
  <2>3. /\ Flat(d, 0) = <<>> /\ Flat(d, n) = FlattenSeq(d)
        /\ \A k \in 1..n : Flat(d, k) = Flat(d, k - 1) \o d[k]
    BY <1>4, <2>1, FlatFacts, Zenon
  <2>4. \A k \in 0..n : p[k] = Flat(c, k) /\ q[k] = Flat(d, k)
    OBVIOUS
  <2> HIDE DEF p, q
  <2>5. 0 \in 0..n /\ n \in 0..n /\ \A k \in 1..n : k \in 0..n /\ k - 1 \in 0..n
    BY <2>1
  <2>6. p[0] = <<>> /\ q[0] = <<>> /\ p[n] = FlattenSeq(c) /\ q[n] = FlattenSeq(d)
    BY <2>2, <2>3, <2>4, <2>5, Zenon
  <2>7. \A k \in 1..n : p[k] = p[k - 1] \o c[k] /\ q[k] = q[k - 1] \o d[k]
    BY <2>2, <2>3, <2>4, <2>5, Zenon
  <2>8. \A k \in 1..n : Tells(c[k], v[k], d[k], w[k])
    BY <1>3, <1>4, <2>1, Zenon
  <2>9. v = [i \in 1..n |-> v[i]] /\ w = [i \in 1..n |-> w[i]]
    <3>1. DOMAIN v = 1..n /\ DOMAIN w = 1..n /\ v \in Seq(T) /\ w \in Seq(T)
      <4>1. v \in Seq(T) /\ w \in Seq(T)
        BY <1>2, Zenon
      <4>2. DOMAIN v = 1..Len(v) /\ DOMAIN w = 1..Len(w)
        BY <4>1
      <4> QED
        BY <2>1, <4>1, <4>2, Zenon
    <3>2. v = [i \in DOMAIN v |-> v[i]] /\ w = [i \in DOMAIN w |-> w[i]]
      BY <3>1
    <3> QED
      BY <3>1, <3>2, Zenon
  <2>10. Tells(p[n], v, q[n], w)
    BY <2>6, <2>7, <2>8, <2>9, PartsTell, Zenon
  <2>11. Tells(FlattenSeq(c), v, FlattenSeq(d), w)
    BY <2>6, <2>10, Zenon
  <2>12. Tells(<<U64(Len(v))>> \o FlattenSeq(c), <<Len(v), v>>, <<U64(Len(w))>> \o FlattenSeq(d), <<Len(w), w>>)
    BY <1>7, <2>11, TellsThen, Zenon
  <2>13. <<Len(v), v>> = <<Len(w), w>> => v = w
    OBVIOUS
  <2> QED
    BY <1>5, <2>12, <2>13, Zenon DEF Tells
<1> QED
  BY <1>8, <1>9

\* A row of digests, of a length that both sides know.
LEMMA DigestsTell ==
  ASSUME NEW n \in Nat, NEW v \in [1..n -> DigestValue], NEW w \in [1..n -> DigestValue]
  PROVE  Tells(Digests(v), v, Digests(w), w)
<1>1. ASSUME NEW u \in [1..n -> DigestValue]
      PROVE  /\ \A k \in 1..n : SubSeq(Digests(u), 1, k)
                                  = SubSeq(Digests(u), 1, k - 1) \o <<Digest(u[k])>>
             /\ SubSeq(Digests(u), 1, 0) = <<>> /\ SubSeq(Digests(u), 1, n) = Digests(u)
  <2>1. \A d \in DigestValue : Digest(d) \in Token
    BY AppendedFrames, Zenon
  <2>2. Digests(u) \in [1..n -> Token] /\ \A k \in 1..n : Digests(u)[k] = Digest(u[k])
    BY <2>1 DEF Digests
  <2>3. PICK c \in Seq(Token) : c = Digests(u) /\ Len(c) = n /\ \A k \in 1..n : c[k] = Digest(u[k])
    BY <2>2
  <2>4. ASSUME NEW k \in 1..n PROVE SubSeq(c, 1, k) = SubSeq(c, 1, k - 1) \o <<c[k]>>
    <3>1. SubSeq(c, 1, k) = Append(SubSeq(c, 1, k - 1), c[k]) /\ SubSeq(c, 1, k - 1) \in Seq(Token)
          /\ c[k] \in Token
      BY <2>3
    <3> QED
      BY <3>1, AppendIsConcat, Zenon
  <2>5. SubSeq(c, 1, 0) = <<>> /\ SubSeq(c, 1, n) = c
    BY <2>3
  <2> QED
    BY <2>3, <2>4, <2>5, Zenon
<1> DEFINE p == [k \in 0..n |-> SubSeq(Digests(v), 1, k)]
           q == [k \in 0..n |-> SubSeq(Digests(w), 1, k)]
           c == [k \in 1..n |-> <<Digest(v[k])>>]
           d == [k \in 1..n |-> <<Digest(w[k])>>]
<1>2. /\ \A k \in 0..n : p[k] = SubSeq(Digests(v), 1, k) /\ q[k] = SubSeq(Digests(w), 1, k)
      /\ \A k \in 1..n : c[k] = <<Digest(v[k])>> /\ d[k] = <<Digest(w[k])>>
      /\ 0 \in 0..n /\ n \in 0..n /\ \A k \in 1..n : k \in 0..n /\ k - 1 \in 0..n
  OBVIOUS
<1> HIDE DEF p, q, c, d
<1>3. p[0] = <<>> /\ q[0] = <<>> /\ p[n] = Digests(v) /\ q[n] = Digests(w)
  BY <1>1, <1>2, Zenon
<1>4. \A k \in 1..n : p[k] = p[k - 1] \o c[k] /\ q[k] = q[k - 1] \o d[k]
  BY <1>1, <1>2, Zenon
<1>5. \A k \in 1..n : Tells(c[k], v[k], d[k], w[k])
  <2>1. \A k \in 1..n : v[k] \in DigestValue /\ w[k] \in DigestValue
    OBVIOUS
  <2> QED
    BY <1>2, <2>1, DigestTells, Zenon
<1>6. v = [i \in 1..n |-> v[i]] /\ w = [i \in 1..n |-> w[i]]
  OBVIOUS
<1>7. Tells(p[n], v, q[n], w)
  BY <1>3, <1>4, <1>5, <1>6, PartsTell, Zenon
<1> QED
  BY <1>3, <1>7, Zenon

-----------------------------------------------------------------------------
(* The records of values can be read back, part by part *)

\* The optional parts and the lists that records have.
OptionalText(v) == Optional(v, EncodeText)
OptionalDigest(v) == Optional(v, EncodeDigest)
OptionalSize(v) == Optional(v, EncodeSize)
OptionalDevice(v) == Optional(v, EncodeDevice)
OptionalIssuer(v) == Optional(v, IssuerCalls)
OptionalRejected(v) == Optional(v, RejectedCalls)
Texts(v) == EncodeAll(v, EncodeText)
DigestsInside(v) == EncodeAll(v, EncodeDigest)
Provenances(v) == EncodeAll(v, EncodeProvenance)
Steps(v) == EncodeAll(v, EncodeStep)
Origins(v) == EncodeAll(v, EncodeOrigin)
Requirements(v) == EncodeAll(v, RequirementCalls)
Programs(v) == EncodeAll(v, EncodeProgram)
Lifecycles(v) == EncodeAll(v, LifecycleCalls)
Profiles(v) == EncodeAll(v, ProfileCalls)
Entries(v) == EncodeAll(v, EntryCalls)
Claims(v) == EncodeAll(v, ClaimCalls)
Deltas(v) == EncodeAll(v, DeltaCalls)

\* An optional text is a flag and the text.
LEMMA OptionalTextTells ==
  ASSUME NEW v \in OptionOf(Text), NEW w \in OptionOf(Text)
  PROVE  Tells(OptionalText(v), v, OptionalText(w), w)
<1>1. OptionalText(v) = Flagged(v, EncodeText(v)) /\ OptionalText(w) = Flagged(w, EncodeText(w))
  BY DEF OptionalText, Optional, Flagged
<1>2. (v # None => v \in Text) /\ (w # None => w \in Text)
  BY DEF OptionOf
<1>3. \A x, y \in Text : Tells(EncodeText(x), x, EncodeText(y), y)
  BY TextTells, Zenon DEF EncodeText
<1>4. Tells(Flagged(v, EncodeText(v)), v, Flagged(w, EncodeText(w)), w)
  BY <1>2, <1>3, FlaggedTells, Zenon
<1> QED
  BY <1>1, <1>4, Zenon

\* An optional digest is a flag and the digest.
LEMMA OptionalDigestTells ==
  ASSUME NEW v \in OptionOf(DigestValue), NEW w \in OptionOf(DigestValue)
  PROVE  Tells(OptionalDigest(v), v, OptionalDigest(w), w)
<1>1. OptionalDigest(v) = Flagged(v, EncodeDigest(v)) /\ OptionalDigest(w) = Flagged(w, EncodeDigest(w))
  BY DEF OptionalDigest, Optional, Flagged
<1>2. (v # None => v \in DigestValue) /\ (w # None => w \in DigestValue)
  BY DEF OptionOf
<1>3. \A x, y \in DigestValue : Tells(EncodeDigest(x), x, EncodeDigest(y), y)
  BY DigestTells, Zenon DEF EncodeDigest
<1>4. Tells(Flagged(v, EncodeDigest(v)), v, Flagged(w, EncodeDigest(w)), w)
  BY <1>2, <1>3, FlaggedTells, Zenon
<1> QED
  BY <1>1, <1>4, Zenon

\* An optional size is a flag and a u64.
LEMMA OptionalSizeTells ==
  ASSUME NEW v \in OptionOf(Unsigned(Width64)), NEW w \in OptionOf(Unsigned(Width64))
  PROVE  Tells(OptionalSize(v), v, OptionalSize(w), w)
<1>1. OptionalSize(v) = Flagged(v, EncodeSize(v)) /\ OptionalSize(w) = Flagged(w, EncodeSize(w))
  BY DEF OptionalSize, Optional, Flagged
<1>2. (v # None => v \in Unsigned(Width64)) /\ (w # None => w \in Unsigned(Width64))
  BY DEF OptionOf
<1>3. \A x, y \in Unsigned(Width64) : Tells(EncodeSize(x), x, EncodeSize(y), y)
  BY IntegersTell, Zenon DEF EncodeSize
<1>4. Tells(Flagged(v, EncodeSize(v)), v, Flagged(w, EncodeSize(w)), w)
  BY <1>2, <1>3, FlaggedTells, Zenon
<1> QED
  BY <1>1, <1>4, Zenon

\* A list of texts is a count and every text.
LEMMA TextsTell ==
  ASSUME NEW v \in ListOf(Text), NEW w \in ListOf(Text)
  PROVE  Tells(Texts(v), v, Texts(w), w)
<1> DEFINE encode == [x \in Text |-> EncodeText(x)]
<1>1. \A x \in Text : encode[x] = EncodeText(x)
  OBVIOUS
<1> HIDE DEF encode
<1>2. ASSUME NEW u \in ListOf(Text) PROVE Texts(u) = Listed(u, encode)
  <2>1. \A i \in DOMAIN u : u[i] \in Text
    BY DEF ListOf
  <2>2. [i \in DOMAIN u |-> encode[u[i]]] = [i \in DOMAIN u |-> EncodeText(u[i])]
    BY <1>1, <2>1
  <2> QED
    BY <2>2, Zenon DEF Texts, EncodeAll, Listed
<1>3. \A x, y \in Text : Tells(encode[x], x, encode[y], y)
  BY <1>1, TextTells, Zenon DEF EncodeText
<1>4. Tells(Listed(v, encode), v, Listed(w, encode), w)
  BY <1>3, ListTells, Zenon
<1> QED
  BY <1>2, <1>4, Zenon

\* A list of digests.
LEMMA DigestsInsideTell ==
  ASSUME NEW v \in ListOf(DigestValue), NEW w \in ListOf(DigestValue)
  PROVE  Tells(DigestsInside(v), v, DigestsInside(w), w)
<1> DEFINE encode == [x \in DigestValue |-> EncodeDigest(x)]
<1>1. \A x \in DigestValue : encode[x] = EncodeDigest(x)
  OBVIOUS
<1> HIDE DEF encode
<1>2. ASSUME NEW u \in ListOf(DigestValue) PROVE DigestsInside(u) = Listed(u, encode)
  <2>1. \A i \in DOMAIN u : u[i] \in DigestValue
    BY DEF ListOf
  <2>2. [i \in DOMAIN u |-> encode[u[i]]] = [i \in DOMAIN u |-> EncodeDigest(u[i])]
    BY <1>1, <2>1
  <2> QED
    BY <2>2, Zenon DEF DigestsInside, EncodeAll, Listed
<1>3. \A x, y \in DigestValue : Tells(encode[x], x, encode[y], y)
  BY <1>1, DigestTells, Zenon DEF EncodeDigest
<1>4. Tells(Listed(v, encode), v, Listed(w, encode), w)
  BY <1>3, ListTells, Zenon
<1> QED
  BY <1>2, <1>4, Zenon

\* In each proof below, c1, c2, ... are the parts of the row of calls of one
\* identify function, and x1, x2, ... are what each part is for.
\*
\* A provenance is two texts, a line and a column.
LEMMA ProvenanceTells ==
  ASSUME NEW v \in Provenance, NEW w \in Provenance
  PROVE  Tells(EncodeProvenance(v), v, EncodeProvenance(w), w)
<1> DEFINE c1(u) == <<Bytes(u.document), Bytes(u.path), U32(u.line), U32(u.column)>>
           x1(u) == <<u.document, u.path, u.line, u.column>>
<1>1. ASSUME NEW u \in Provenance
      PROVE  /\ u.document \in Text
             /\ u.path \in Text
             /\ u.line \in Unsigned(Width32)
             /\ u.column \in Unsigned(Width32)
  BY DEF Provenance
<1>2. Tells(c1(v), x1(v), c1(w), x1(w))
  <2>1. Tells(<<Bytes(v.document)>>, v.document, <<Bytes(w.document)>>, w.document)
    BY <1>1, TextTells, Zenon
  <2>2. Tells(<<Bytes(v.path)>>, v.path, <<Bytes(w.path)>>, w.path)
    BY <1>1, TextTells, Zenon
  <2>3. Tells(<<U32(v.line)>>, v.line, <<U32(w.line)>>, w.line)
    BY <1>1, IntegersTell, Zenon
  <2>4. Tells(<<U32(v.column)>>, v.column, <<U32(w.column)>>, w.column)
    BY <1>1, IntegersTell, Zenon
  <2> QED
    BY <2>1, <2>2, <2>3, <2>4, TellsFour, Zenon
<1>3. /\ EncodeProvenance(v) = c1(v)
      /\ EncodeProvenance(w) = c1(w)
  BY DEF EncodeProvenance
<1>4. ASSUME x1(v) = x1(w)
      PROVE  v = w
  BY <1>4 DEF Provenance
<1> HIDE DEF c1, x1
<1> QED
  BY <1>3, <1>2, <1>4, Zenon DEF Tells

\* A list of provenances.
LEMMA ProvenancesTell ==
  ASSUME NEW v \in ListOf(Provenance), NEW w \in ListOf(Provenance)
  PROVE  Tells(Provenances(v), v, Provenances(w), w)
<1> DEFINE encode == [x \in Provenance |-> EncodeProvenance(x)]
<1>1. \A x \in Provenance : encode[x] = EncodeProvenance(x)
  OBVIOUS
<1> HIDE DEF encode
<1>2. ASSUME NEW u \in ListOf(Provenance) PROVE Provenances(u) = Listed(u, encode)
  <2>1. \A i \in DOMAIN u : u[i] \in Provenance
    BY DEF ListOf
  <2>2. [i \in DOMAIN u |-> encode[u[i]]] = [i \in DOMAIN u |-> EncodeProvenance(u[i])]
    BY <1>1, <2>1
  <2> QED
    BY <2>2, Zenon DEF Provenances, EncodeAll, Listed
<1>3. \A x, y \in Provenance : Tells(encode[x], x, encode[y], y)
  BY <1>1, ProvenanceTells, Zenon
<1>4. Tells(Listed(v, encode), v, Listed(w, encode), w)
  BY <1>3, ListTells, Zenon
<1> QED
  BY <1>2, <1>4, Zenon

\* A step of an expansion.
LEMMA StepTells ==
  ASSUME NEW v \in ExpansionStep, NEW w \in ExpansionStep
  PROVE  Tells(EncodeStep(v), v, EncodeStep(w), w)
<1> DEFINE c1(u) == <<Bytes(u.profile), U8(u.kind), Bytes(u.member)>>
           x1(u) == <<u.profile, u.kind, u.member>>
           c2(u) == EncodeProvenance(u.provenance)
           x2(u) == u.provenance
<1>1. ASSUME NEW u \in ExpansionStep
      PROVE  /\ u.profile \in Text
             /\ u.kind \in Octet
             /\ u.member \in Text
             /\ u.provenance \in Provenance
  BY DEF ExpansionStep
<1>2. Tells(c1(v), x1(v), c1(w), x1(w))
  <2>1. Tells(<<Bytes(v.profile)>>, v.profile, <<Bytes(w.profile)>>, w.profile)
    BY <1>1, TextTells, Zenon
  <2>2. Tells(<<U8(v.kind)>>, v.kind, <<U8(w.kind)>>, w.kind)
    BY <1>1, IntegersTell, Zenon
  <2>3. Tells(<<Bytes(v.member)>>, v.member, <<Bytes(w.member)>>, w.member)
    BY <1>1, TextTells, Zenon
  <2> QED
    BY <2>1, <2>2, <2>3, TellsThree, Zenon
<1>3. Tells(c2(v), x2(v), c2(w), x2(w))
  BY <1>1, ProvenanceTells, Zenon
<1>4. /\ EncodeStep(v) = c1(v) \o c2(v)
      /\ EncodeStep(w) = c1(w) \o c2(w)
  BY DEF EncodeStep
<1>5. ASSUME x1(v) = x1(w), x2(v) = x2(w)
      PROVE  v = w
  BY <1>5 DEF ExpansionStep
<1> HIDE DEF c1, x1, c2, x2
<1>6. Tells(c1(v) \o c2(v), <<x1(v), x2(v)>>,
          c1(w) \o c2(w), <<x1(w), x2(w)>>)
  BY <1>2, <1>3, TellsThen, Zenon
<1>7. <<x1(v), x2(v)>> = <<x1(w), x2(w)>>
        => v = w
  BY <1>5
<1> QED
  BY <1>4, <1>6, <1>7, Zenon DEF Tells

\* A list of expansion steps.
LEMMA StepsTell ==
  ASSUME NEW v \in ListOf(ExpansionStep), NEW w \in ListOf(ExpansionStep)
  PROVE  Tells(Steps(v), v, Steps(w), w)
<1> DEFINE encode == [x \in ExpansionStep |-> EncodeStep(x)]
<1>1. \A x \in ExpansionStep : encode[x] = EncodeStep(x)
  OBVIOUS
<1> HIDE DEF encode
<1>2. ASSUME NEW u \in ListOf(ExpansionStep) PROVE Steps(u) = Listed(u, encode)
  <2>1. \A i \in DOMAIN u : u[i] \in ExpansionStep
    BY DEF ListOf
  <2>2. [i \in DOMAIN u |-> encode[u[i]]] = [i \in DOMAIN u |-> EncodeStep(u[i])]
    BY <1>1, <2>1
  <2> QED
    BY <2>2, Zenon DEF Steps, EncodeAll, Listed
<1>3. \A x, y \in ExpansionStep : Tells(encode[x], x, encode[y], y)
  BY <1>1, StepTells, Zenon
<1>4. Tells(Listed(v, encode), v, Listed(w, encode), w)
  BY <1>3, ListTells, Zenon
<1> QED
  BY <1>2, <1>4, Zenon

\* An origin: the declaration and its expansion.
LEMMA OriginTells ==
  ASSUME NEW v \in Origin, NEW w \in Origin
  PROVE  Tells(EncodeOrigin(v), v, EncodeOrigin(w), w)
<1> DEFINE c1(u) == EncodeProvenance(u.declaration)
           x1(u) == u.declaration
           c2(u) == Steps(u.expansion)
           x2(u) == u.expansion
<1>1. ASSUME NEW u \in Origin
      PROVE  /\ u.declaration \in Provenance
             /\ u.expansion \in ListOf(ExpansionStep)
  BY DEF Origin
<1>2. Tells(c1(v), x1(v), c1(w), x1(w))
  BY <1>1, ProvenanceTells, Zenon
<1>3. Tells(c2(v), x2(v), c2(w), x2(w))
  BY <1>1, StepsTell, Zenon
<1>4. /\ EncodeOrigin(v) = c1(v) \o c2(v)
      /\ EncodeOrigin(w) = c1(w) \o c2(w)
  BY DEF EncodeOrigin, Steps, EncodeAll
<1>5. ASSUME x1(v) = x1(w), x2(v) = x2(w)
      PROVE  v = w
  BY <1>5 DEF Origin
<1> HIDE DEF c1, x1, c2, x2
<1>6. Tells(c1(v) \o c2(v), <<x1(v), x2(v)>>,
          c1(w) \o c2(w), <<x1(w), x2(w)>>)
  BY <1>2, <1>3, TellsThen, Zenon
<1>7. <<x1(v), x2(v)>> = <<x1(w), x2(w)>>
        => v = w
  BY <1>5
<1> QED
  BY <1>4, <1>6, <1>7, Zenon DEF Tells

\* A list of origins.
LEMMA OriginsTell ==
  ASSUME NEW v \in ListOf(Origin), NEW w \in ListOf(Origin)
  PROVE  Tells(Origins(v), v, Origins(w), w)
<1> DEFINE encode == [x \in Origin |-> EncodeOrigin(x)]
<1>1. \A x \in Origin : encode[x] = EncodeOrigin(x)
  OBVIOUS
<1> HIDE DEF encode
<1>2. ASSUME NEW u \in ListOf(Origin) PROVE Origins(u) = Listed(u, encode)
  <2>1. \A i \in DOMAIN u : u[i] \in Origin
    BY DEF ListOf
  <2>2. [i \in DOMAIN u |-> encode[u[i]]] = [i \in DOMAIN u |-> EncodeOrigin(u[i])]
    BY <1>1, <2>1
  <2> QED
    BY <2>2, Zenon DEF Origins, EncodeAll, Listed
<1>3. \A x, y \in Origin : Tells(encode[x], x, encode[y], y)
  BY <1>1, OriginTells, Zenon
<1>4. Tells(Listed(v, encode), v, Listed(w, encode), w)
  BY <1>3, ListTells, Zenon
<1> QED
  BY <1>2, <1>4, Zenon

\* A requirement: the package and its origins.
LEMMA RequirementTells ==
  ASSUME NEW v \in Requirement, NEW w \in Requirement
  PROVE  Tells(RequirementCalls(v), v, RequirementCalls(w), w)
<1> DEFINE c1(u) == <<Bytes(u.package)>>
           x1(u) == u.package
           c2(u) == Origins(u.origins)
           x2(u) == u.origins
<1>1. ASSUME NEW u \in Requirement
      PROVE  /\ u.package \in Text
             /\ u.origins \in ListOf(Origin)
  BY DEF Requirement
<1>2. Tells(c1(v), x1(v), c1(w), x1(w))
  BY <1>1, TextTells, Zenon
<1>3. Tells(c2(v), x2(v), c2(w), x2(w))
  BY <1>1, OriginsTell, Zenon
<1>4. /\ RequirementCalls(v) = c1(v) \o c2(v)
      /\ RequirementCalls(w) = c1(w) \o c2(w)
  BY DEF RequirementCalls, EncodeRequirement, Origins, EncodeAll
<1>5. ASSUME x1(v) = x1(w), x2(v) = x2(w)
      PROVE  v = w
  BY <1>5 DEF Requirement
<1> HIDE DEF c1, x1, c2, x2
<1>6. Tells(c1(v) \o c2(v), <<x1(v), x2(v)>>,
          c1(w) \o c2(w), <<x1(w), x2(w)>>)
  BY <1>2, <1>3, TellsThen, Zenon
<1>7. <<x1(v), x2(v)>> = <<x1(w), x2(w)>>
        => v = w
  BY <1>5
<1> QED
  BY <1>4, <1>6, <1>7, Zenon DEF Tells

\* A list of requirements.
LEMMA RequirementsTell ==
  ASSUME NEW v \in ListOf(Requirement), NEW w \in ListOf(Requirement)
  PROVE  Tells(Requirements(v), v, Requirements(w), w)
<1> DEFINE encode == [x \in Requirement |-> RequirementCalls(x)]
<1>1. \A x \in Requirement : encode[x] = RequirementCalls(x)
  OBVIOUS
<1> HIDE DEF encode
<1>2. ASSUME NEW u \in ListOf(Requirement) PROVE Requirements(u) = Listed(u, encode)
  <2>1. \A i \in DOMAIN u : u[i] \in Requirement
    BY DEF ListOf
  <2>2. [i \in DOMAIN u |-> encode[u[i]]] = [i \in DOMAIN u |-> RequirementCalls(u[i])]
    BY <1>1, <2>1
  <2> QED
    BY <2>2, Zenon DEF Requirements, EncodeAll, Listed
<1>3. \A x, y \in Requirement : Tells(encode[x], x, encode[y], y)
  BY <1>1, RequirementTells, Zenon
<1>4. Tells(Listed(v, encode), v, Listed(w, encode), w)
  BY <1>3, ListTells, Zenon
<1> QED
  BY <1>2, <1>4, Zenon

\* A lifecycle program.
LEMMA ProgramTells ==
  ASSUME NEW v \in Program, NEW w \in Program
  PROVE  Tells(EncodeProgram(v), v, EncodeProgram(w), w)
<1> DEFINE c1(u) == <<U8(u.action), U8(u.language), Bytes(u.material)>>
           x1(u) == <<u.action, u.language, u.material>>
<1>1. ASSUME NEW u \in Program
      PROVE  /\ u.action \in Octet
             /\ u.language \in Octet
             /\ u.material \in Text
  BY DEF Program
<1>2. Tells(c1(v), x1(v), c1(w), x1(w))
  <2>1. Tells(<<U8(v.action)>>, v.action, <<U8(w.action)>>, w.action)
    BY <1>1, IntegersTell, Zenon
  <2>2. Tells(<<U8(v.language)>>, v.language, <<U8(w.language)>>, w.language)
    BY <1>1, IntegersTell, Zenon
  <2>3. Tells(<<Bytes(v.material)>>, v.material, <<Bytes(w.material)>>, w.material)
    BY <1>1, TextTells, Zenon
  <2> QED
    BY <2>1, <2>2, <2>3, TellsThree, Zenon
<1>3. /\ EncodeProgram(v) = c1(v)
      /\ EncodeProgram(w) = c1(w)
  BY DEF EncodeProgram
<1>4. ASSUME x1(v) = x1(w)
      PROVE  v = w
  BY <1>4 DEF Program
<1> HIDE DEF c1, x1
<1> QED
  BY <1>3, <1>2, <1>4, Zenon DEF Tells

\* A list of lifecycle programs.
LEMMA ProgramsTell ==
  ASSUME NEW v \in ListOf(Program), NEW w \in ListOf(Program)
  PROVE  Tells(Programs(v), v, Programs(w), w)
<1> DEFINE encode == [x \in Program |-> EncodeProgram(x)]
<1>1. \A x \in Program : encode[x] = EncodeProgram(x)
  OBVIOUS
<1> HIDE DEF encode
<1>2. ASSUME NEW u \in ListOf(Program) PROVE Programs(u) = Listed(u, encode)
  <2>1. \A i \in DOMAIN u : u[i] \in Program
    BY DEF ListOf
  <2>2. [i \in DOMAIN u |-> encode[u[i]]] = [i \in DOMAIN u |-> EncodeProgram(u[i])]
    BY <1>1, <2>1
  <2> QED
    BY <2>2, Zenon DEF Programs, EncodeAll, Listed
<1>3. \A x, y \in Program : Tells(encode[x], x, encode[y], y)
  BY <1>1, ProgramTells, Zenon
<1>4. Tells(Listed(v, encode), v, Listed(w, encode), w)
  BY <1>3, ListTells, Zenon
<1> QED
  BY <1>2, <1>4, Zenon

\* A requirement of a lifecycle action.
LEMMA LifecycleTells ==
  ASSUME NEW v \in Lifecycle, NEW w \in Lifecycle
  PROVE  Tells(LifecycleCalls(v), v, LifecycleCalls(w), w)
<1> DEFINE c1(u) == <<U8(u.action)>>
           x1(u) == u.action
           c2(u) == RequirementCalls(u.requirement)
           x2(u) == u.requirement
<1>1. ASSUME NEW u \in Lifecycle
      PROVE  /\ u.action \in Octet
             /\ u.requirement \in Requirement
  BY DEF Lifecycle
<1>2. Tells(c1(v), x1(v), c1(w), x1(w))
  BY <1>1, IntegersTell, Zenon
<1>3. Tells(c2(v), x2(v), c2(w), x2(w))
  BY <1>1, RequirementTells, Zenon
<1>4. /\ LifecycleCalls(v) = c1(v) \o c2(v)
      /\ LifecycleCalls(w) = c1(w) \o c2(w)
  BY DEF LifecycleCalls
<1>5. ASSUME x1(v) = x1(w), x2(v) = x2(w)
      PROVE  v = w
  BY <1>5 DEF Lifecycle
<1> HIDE DEF c1, x1, c2, x2
<1>6. Tells(c1(v) \o c2(v), <<x1(v), x2(v)>>,
          c1(w) \o c2(w), <<x1(w), x2(w)>>)
  BY <1>2, <1>3, TellsThen, Zenon
<1>7. <<x1(v), x2(v)>> = <<x1(w), x2(w)>>
        => v = w
  BY <1>5
<1> QED
  BY <1>4, <1>6, <1>7, Zenon DEF Tells

\* A list of lifecycle requirements.
LEMMA LifecyclesTell ==
  ASSUME NEW v \in ListOf(Lifecycle), NEW w \in ListOf(Lifecycle)
  PROVE  Tells(Lifecycles(v), v, Lifecycles(w), w)
<1> DEFINE encode == [x \in Lifecycle |-> LifecycleCalls(x)]
<1>1. \A x \in Lifecycle : encode[x] = LifecycleCalls(x)
  OBVIOUS
<1> HIDE DEF encode
<1>2. ASSUME NEW u \in ListOf(Lifecycle) PROVE Lifecycles(u) = Listed(u, encode)
  <2>1. \A i \in DOMAIN u : u[i] \in Lifecycle
    BY DEF ListOf
  <2>2. [i \in DOMAIN u |-> encode[u[i]]] = [i \in DOMAIN u |-> LifecycleCalls(u[i])]
    BY <1>1, <2>1
  <2> QED
    BY <2>2, Zenon DEF Lifecycles, EncodeAll, Listed
<1>3. \A x, y \in Lifecycle : Tells(encode[x], x, encode[y], y)
  BY <1>1, LifecycleTells, Zenon
<1>4. Tells(Listed(v, encode), v, Listed(w, encode), w)
  BY <1>3, ListTells, Zenon
<1> QED
  BY <1>2, <1>4, Zenon

\* A profile: its name, its identity and its declarations.
LEMMA ProfileTells ==
  ASSUME NEW v \in ProfileRecord, NEW w \in ProfileRecord
  PROVE  Tells(ProfileCalls(v), v, ProfileCalls(w), w)
<1> DEFINE c1(u) == <<Bytes(u.profile), Digest(u.identity)>>
           x1(u) == <<u.profile, u.identity>>
           c2(u) == Provenances(u.declarations)
           x2(u) == u.declarations
<1>1. ASSUME NEW u \in ProfileRecord
      PROVE  /\ u.profile \in Text
             /\ u.identity \in DigestValue
             /\ u.declarations \in ListOf(Provenance)
  BY DEF ProfileRecord
<1>2. Tells(c1(v), x1(v), c1(w), x1(w))
  <2>1. Tells(<<Bytes(v.profile)>>, v.profile, <<Bytes(w.profile)>>, w.profile)
    BY <1>1, TextTells, Zenon
  <2>2. Tells(<<Digest(v.identity)>>, v.identity, <<Digest(w.identity)>>, w.identity)
    BY <1>1, DigestTells, Zenon
  <2> QED
    BY <2>1, <2>2, TellsBoth, Zenon
<1>3. Tells(c2(v), x2(v), c2(w), x2(w))
  BY <1>1, ProvenancesTell, Zenon
<1>4. /\ ProfileCalls(v) = c1(v) \o c2(v)
      /\ ProfileCalls(w) = c1(w) \o c2(w)
  BY DEF ProfileCalls, Provenances, EncodeAll
<1>5. ASSUME x1(v) = x1(w), x2(v) = x2(w)
      PROVE  v = w
  BY <1>5 DEF ProfileRecord
<1> HIDE DEF c1, x1, c2, x2
<1>6. Tells(c1(v) \o c2(v), <<x1(v), x2(v)>>,
          c1(w) \o c2(w), <<x1(w), x2(w)>>)
  BY <1>2, <1>3, TellsThen, Zenon
<1>7. <<x1(v), x2(v)>> = <<x1(w), x2(w)>>
        => v = w
  BY <1>5
<1> QED
  BY <1>4, <1>6, <1>7, Zenon DEF Tells

\* A list of profiles.
LEMMA ProfilesTell ==
  ASSUME NEW v \in ListOf(ProfileRecord), NEW w \in ListOf(ProfileRecord)
  PROVE  Tells(Profiles(v), v, Profiles(w), w)
<1> DEFINE encode == [x \in ProfileRecord |-> ProfileCalls(x)]
<1>1. \A x \in ProfileRecord : encode[x] = ProfileCalls(x)
  OBVIOUS
<1> HIDE DEF encode
<1>2. ASSUME NEW u \in ListOf(ProfileRecord) PROVE Profiles(u) = Listed(u, encode)
  <2>1. \A i \in DOMAIN u : u[i] \in ProfileRecord
    BY DEF ListOf
  <2>2. [i \in DOMAIN u |-> encode[u[i]]] = [i \in DOMAIN u |-> ProfileCalls(u[i])]
    BY <1>1, <2>1
  <2> QED
    BY <2>2, Zenon DEF Profiles, EncodeAll, Listed
<1>3. \A x, y \in ProfileRecord : Tells(encode[x], x, encode[y], y)
  BY <1>1, ProfileTells, Zenon
<1>4. Tells(Listed(v, encode), v, Listed(w, encode), w)
  BY <1>3, ListTells, Zenon
<1> QED
  BY <1>2, <1>4, Zenon

\* identify of a package source record.
LEMMA SourceTells ==
  ASSUME NEW v \in SourceRecord, NEW w \in SourceRecord
  PROVE  Tells(SourceCalls(v), v, SourceCalls(w), w)
<1> DEFINE c1(u) == <<Digest(u.identity), Bytes(u.name), Bytes(u.version), U32(u.release), Bytes(u.summary)>>
           x1(u) == <<u.identity, u.name, u.version, u.release, u.summary>>
           c2(u) == OptionalText(u.description)
           x2(u) == u.description
           c3(u) == OptionalText(u.homepage)
           x3(u) == u.homepage
           c4(u) == Texts(u.licenses)
           x4(u) == u.licenses
           c5(u) == Requirements(u.runtime)
           x5(u) == u.runtime
           c6(u) == Programs(u.programs)
           x6(u) == u.programs
           c7(u) == Lifecycles(u.lifecycle)
           x7(u) == u.lifecycle
           c8(u) == Texts(u.declaredBuild)
           x8(u) == u.declaredBuild
           c9(u) == Texts(u.declaredTarget)
           x9(u) == u.declaredTarget
           c10(u) == <<Bytes(u.build), Bytes(u.target)>>
           x10(u) == <<u.build, u.target>>
           c11(u) == Profiles(u.profiles)
           x11(u) == u.profiles
           c12(u) == <<Digest(u.snapshot)>>
           x12(u) == u.snapshot
<1>1. ASSUME NEW u \in SourceRecord
      PROVE  /\ u.identity \in DigestValue
             /\ u.name \in Text
             /\ u.version \in Text
             /\ u.release \in Unsigned(Width32)
             /\ u.summary \in Text
             /\ u.description \in OptionOf(Text)
             /\ u.homepage \in OptionOf(Text)
             /\ u.licenses \in ListOf(Text)
             /\ u.runtime \in ListOf(Requirement)
             /\ u.programs \in ListOf(Program)
             /\ u.lifecycle \in ListOf(Lifecycle)
             /\ u.declaredBuild \in ListOf(Text)
             /\ u.declaredTarget \in ListOf(Text)
             /\ u.build \in Text
             /\ u.target \in Text
             /\ u.profiles \in ListOf(ProfileRecord)
             /\ u.snapshot \in DigestValue
  BY DEF SourceRecord
<1>2. Tells(c1(v), x1(v), c1(w), x1(w))
  <2>1. Tells(<<Digest(v.identity)>>, v.identity, <<Digest(w.identity)>>, w.identity)
    BY <1>1, DigestTells, Zenon
  <2>2. Tells(<<Bytes(v.name)>>, v.name, <<Bytes(w.name)>>, w.name)
    BY <1>1, TextTells, Zenon
  <2>3. Tells(<<Bytes(v.version)>>, v.version, <<Bytes(w.version)>>, w.version)
    BY <1>1, TextTells, Zenon
  <2>4. Tells(<<U32(v.release)>>, v.release, <<U32(w.release)>>, w.release)
    BY <1>1, IntegersTell, Zenon
  <2>5. Tells(<<Bytes(v.summary)>>, v.summary, <<Bytes(w.summary)>>, w.summary)
    BY <1>1, TextTells, Zenon
  <2> QED
    BY <2>1, <2>2, <2>3, <2>4, <2>5, TellsFive, Zenon
<1>3. Tells(c2(v), x2(v), c2(w), x2(w))
  BY <1>1, OptionalTextTells, Zenon
<1>4. Tells(c3(v), x3(v), c3(w), x3(w))
  BY <1>1, OptionalTextTells, Zenon
<1>5. Tells(c4(v), x4(v), c4(w), x4(w))
  BY <1>1, TextsTell, Zenon
<1>6. Tells(c5(v), x5(v), c5(w), x5(w))
  BY <1>1, RequirementsTell, Zenon
<1>7. Tells(c6(v), x6(v), c6(w), x6(w))
  BY <1>1, ProgramsTell, Zenon
<1>8. Tells(c7(v), x7(v), c7(w), x7(w))
  BY <1>1, LifecyclesTell, Zenon
<1>9. Tells(c8(v), x8(v), c8(w), x8(w))
  BY <1>1, TextsTell, Zenon
<1>10. Tells(c9(v), x9(v), c9(w), x9(w))
  BY <1>1, TextsTell, Zenon
<1>11. Tells(c10(v), x10(v), c10(w), x10(w))
  <2>1. Tells(<<Bytes(v.build)>>, v.build, <<Bytes(w.build)>>, w.build)
    BY <1>1, TextTells, Zenon
  <2>2. Tells(<<Bytes(v.target)>>, v.target, <<Bytes(w.target)>>, w.target)
    BY <1>1, TextTells, Zenon
  <2> QED
    BY <2>1, <2>2, TellsBoth, Zenon
<1>12. Tells(c11(v), x11(v), c11(w), x11(w))
  BY <1>1, ProfilesTell, Zenon
<1>13. Tells(c12(v), x12(v), c12(w), x12(w))
  BY <1>1, DigestTells, Zenon
<1>14. /\ SourceCalls(v) = c1(v) \o c2(v) \o c3(v) \o c4(v) \o c5(v) \o c6(v) \o c7(v) \o c8(v) \o c9(v) \o c10(v) \o c11(v) \o c12(v)
      /\ SourceCalls(w) = c1(w) \o c2(w) \o c3(w) \o c4(w) \o c5(w) \o c6(w) \o c7(w) \o c8(w) \o c9(w) \o c10(w) \o c11(w) \o c12(w)
  BY DEF SourceCalls, OptionalText, Optional, Texts, Requirements, Programs, Lifecycles, Profiles, EncodeAll
<1>15. ASSUME x1(v) = x1(w), x2(v) = x2(w), x3(v) = x3(w), x4(v) = x4(w), x5(v) = x5(w), x6(v) = x6(w), x7(v) = x7(w), x8(v) = x8(w), x9(v) = x9(w), x10(v) = x10(w), x11(v) = x11(w), x12(v) = x12(w)
      PROVE  v = w
  BY <1>15 DEF SourceRecord
<1> HIDE DEF c1, x1, c2, x2, c3, x3, c4, x4, c5, x5, c6, x6, c7, x7, c8, x8, c9, x9, c10, x10, c11, x11, c12, x12
<1>16. Tells(c1(v) \o c2(v), <<x1(v), x2(v)>>,
          c1(w) \o c2(w), <<x1(w), x2(w)>>)
  BY <1>2, <1>3, TellsThen, Zenon
<1>17. Tells(c1(v) \o c2(v) \o c3(v), <<<<x1(v), x2(v)>>, x3(v)>>,
          c1(w) \o c2(w) \o c3(w), <<<<x1(w), x2(w)>>, x3(w)>>)
  BY <1>16, <1>4, TellsThen, Zenon
<1>18. Tells(c1(v) \o c2(v) \o c3(v) \o c4(v), <<<<<<x1(v), x2(v)>>, x3(v)>>, x4(v)>>,
          c1(w) \o c2(w) \o c3(w) \o c4(w), <<<<<<x1(w), x2(w)>>, x3(w)>>, x4(w)>>)
  BY <1>17, <1>5, TellsThen, Zenon
<1>19. Tells(c1(v) \o c2(v) \o c3(v) \o c4(v) \o c5(v), <<<<<<<<x1(v), x2(v)>>, x3(v)>>, x4(v)>>, x5(v)>>,
          c1(w) \o c2(w) \o c3(w) \o c4(w) \o c5(w), <<<<<<<<x1(w), x2(w)>>, x3(w)>>, x4(w)>>, x5(w)>>)
  BY <1>18, <1>6, TellsThen, Zenon
<1>20. Tells(c1(v) \o c2(v) \o c3(v) \o c4(v) \o c5(v) \o c6(v), <<<<<<<<<<x1(v), x2(v)>>, x3(v)>>, x4(v)>>, x5(v)>>, x6(v)>>,
          c1(w) \o c2(w) \o c3(w) \o c4(w) \o c5(w) \o c6(w), <<<<<<<<<<x1(w), x2(w)>>, x3(w)>>, x4(w)>>, x5(w)>>, x6(w)>>)
  BY <1>19, <1>7, TellsThen, Zenon
<1>21. Tells(c1(v) \o c2(v) \o c3(v) \o c4(v) \o c5(v) \o c6(v) \o c7(v), <<<<<<<<<<<<x1(v), x2(v)>>, x3(v)>>, x4(v)>>, x5(v)>>, x6(v)>>, x7(v)>>,
          c1(w) \o c2(w) \o c3(w) \o c4(w) \o c5(w) \o c6(w) \o c7(w), <<<<<<<<<<<<x1(w), x2(w)>>, x3(w)>>, x4(w)>>, x5(w)>>, x6(w)>>, x7(w)>>)
  BY <1>20, <1>8, TellsThen, Zenon
<1>22. Tells(c1(v) \o c2(v) \o c3(v) \o c4(v) \o c5(v) \o c6(v) \o c7(v) \o c8(v), <<<<<<<<<<<<<<x1(v), x2(v)>>, x3(v)>>, x4(v)>>, x5(v)>>, x6(v)>>, x7(v)>>, x8(v)>>,
          c1(w) \o c2(w) \o c3(w) \o c4(w) \o c5(w) \o c6(w) \o c7(w) \o c8(w), <<<<<<<<<<<<<<x1(w), x2(w)>>, x3(w)>>, x4(w)>>, x5(w)>>, x6(w)>>, x7(w)>>, x8(w)>>)
  BY <1>21, <1>9, TellsThen, Zenon
<1>23. Tells(c1(v) \o c2(v) \o c3(v) \o c4(v) \o c5(v) \o c6(v) \o c7(v) \o c8(v) \o c9(v), <<<<<<<<<<<<<<<<x1(v), x2(v)>>, x3(v)>>, x4(v)>>, x5(v)>>, x6(v)>>, x7(v)>>, x8(v)>>, x9(v)>>,
          c1(w) \o c2(w) \o c3(w) \o c4(w) \o c5(w) \o c6(w) \o c7(w) \o c8(w) \o c9(w), <<<<<<<<<<<<<<<<x1(w), x2(w)>>, x3(w)>>, x4(w)>>, x5(w)>>, x6(w)>>, x7(w)>>, x8(w)>>, x9(w)>>)
  BY <1>22, <1>10, TellsThen, Zenon
<1>24. Tells(c1(v) \o c2(v) \o c3(v) \o c4(v) \o c5(v) \o c6(v) \o c7(v) \o c8(v) \o c9(v) \o c10(v), <<<<<<<<<<<<<<<<<<x1(v), x2(v)>>, x3(v)>>, x4(v)>>, x5(v)>>, x6(v)>>, x7(v)>>, x8(v)>>, x9(v)>>, x10(v)>>,
          c1(w) \o c2(w) \o c3(w) \o c4(w) \o c5(w) \o c6(w) \o c7(w) \o c8(w) \o c9(w) \o c10(w), <<<<<<<<<<<<<<<<<<x1(w), x2(w)>>, x3(w)>>, x4(w)>>, x5(w)>>, x6(w)>>, x7(w)>>, x8(w)>>, x9(w)>>, x10(w)>>)
  BY <1>23, <1>11, TellsThen, Zenon
<1>25. Tells(c1(v) \o c2(v) \o c3(v) \o c4(v) \o c5(v) \o c6(v) \o c7(v) \o c8(v) \o c9(v) \o c10(v) \o c11(v), <<<<<<<<<<<<<<<<<<<<x1(v), x2(v)>>, x3(v)>>, x4(v)>>, x5(v)>>, x6(v)>>, x7(v)>>, x8(v)>>, x9(v)>>, x10(v)>>, x11(v)>>,
          c1(w) \o c2(w) \o c3(w) \o c4(w) \o c5(w) \o c6(w) \o c7(w) \o c8(w) \o c9(w) \o c10(w) \o c11(w), <<<<<<<<<<<<<<<<<<<<x1(w), x2(w)>>, x3(w)>>, x4(w)>>, x5(w)>>, x6(w)>>, x7(w)>>, x8(w)>>, x9(w)>>, x10(w)>>, x11(w)>>)
  BY <1>24, <1>12, TellsThen, Zenon
<1>26. Tells(c1(v) \o c2(v) \o c3(v) \o c4(v) \o c5(v) \o c6(v) \o c7(v) \o c8(v) \o c9(v) \o c10(v) \o c11(v) \o c12(v), <<<<<<<<<<<<<<<<<<<<<<x1(v), x2(v)>>, x3(v)>>, x4(v)>>, x5(v)>>, x6(v)>>, x7(v)>>, x8(v)>>, x9(v)>>, x10(v)>>, x11(v)>>, x12(v)>>,
          c1(w) \o c2(w) \o c3(w) \o c4(w) \o c5(w) \o c6(w) \o c7(w) \o c8(w) \o c9(w) \o c10(w) \o c11(w) \o c12(w), <<<<<<<<<<<<<<<<<<<<<<x1(w), x2(w)>>, x3(w)>>, x4(w)>>, x5(w)>>, x6(w)>>, x7(w)>>, x8(w)>>, x9(w)>>, x10(w)>>, x11(w)>>, x12(w)>>)
  BY <1>25, <1>13, TellsThen, Zenon
<1>27. <<<<<<<<<<<<<<<<<<<<<<x1(v), x2(v)>>, x3(v)>>, x4(v)>>, x5(v)>>, x6(v)>>, x7(v)>>, x8(v)>>, x9(v)>>, x10(v)>>, x11(v)>>, x12(v)>> = <<<<<<<<<<<<<<<<<<<<<<x1(w), x2(w)>>, x3(w)>>, x4(w)>>, x5(w)>>, x6(w)>>, x7(w)>>, x8(w)>>, x9(w)>>, x10(w)>>, x11(w)>>, x12(w)>>
        => v = w
  BY <1>15
<1> QED
  BY <1>14, <1>26, <1>27, Zenon DEF Tells

\* What issued a reason: its name and its identity.
LEMMA IssuerTells ==
  ASSUME NEW v \in Issuer, NEW w \in Issuer
  PROVE  Tells(IssuerCalls(v), v, IssuerCalls(w), w)
<1> DEFINE c1(u) == <<Bytes(u.name), Digest(u.identity)>>
           x1(u) == <<u.name, u.identity>>
<1>1. ASSUME NEW u \in Issuer
      PROVE  /\ u.name \in Text
             /\ u.identity \in DigestValue
  BY DEF Issuer
<1>2. Tells(c1(v), x1(v), c1(w), x1(w))
  <2>1. Tells(<<Bytes(v.name)>>, v.name, <<Bytes(w.name)>>, w.name)
    BY <1>1, TextTells, Zenon
  <2>2. Tells(<<Digest(v.identity)>>, v.identity, <<Digest(w.identity)>>, w.identity)
    BY <1>1, DigestTells, Zenon
  <2> QED
    BY <2>1, <2>2, TellsBoth, Zenon
<1>3. /\ IssuerCalls(v) = c1(v)
      /\ IssuerCalls(w) = c1(w)
  BY DEF IssuerCalls
<1>4. ASSUME x1(v) = x1(w)
      PROVE  v = w
  BY <1>4 DEF Issuer
<1> HIDE DEF c1, x1
<1> QED
  BY <1>3, <1>2, <1>4, Zenon DEF Tells

\* An optional issuer.
LEMMA OptionalIssuerTells ==
  ASSUME NEW v \in OptionOf(Issuer), NEW w \in OptionOf(Issuer)
  PROVE  Tells(OptionalIssuer(v), v, OptionalIssuer(w), w)
<1>1. OptionalIssuer(v) = Flagged(v, IssuerCalls(v)) /\ OptionalIssuer(w) = Flagged(w, IssuerCalls(w))
  BY DEF OptionalIssuer, Optional, Flagged
<1>2. (v # None => v \in Issuer) /\ (w # None => w \in Issuer)
  BY DEF OptionOf
<1>3. \A x, y \in Issuer : Tells(IssuerCalls(x), x, IssuerCalls(y), y)
  BY IssuerTells, Zenon
<1>4. Tells(Flagged(v, IssuerCalls(v)), v, Flagged(w, IssuerCalls(w)), w)
  BY <1>2, <1>3, FlaggedTells, Zenon
<1> QED
  BY <1>1, <1>4, Zenon

\* The fourteen digests of a build.
LEMMA BuildTells ==
  ASSUME NEW v \in [1..14 -> DigestValue], NEW w \in [1..14 -> DigestValue]
  PROVE  Tells(Digests(v), v, Digests(w), w)
<1>1. 14 \in Nat
  OBVIOUS
<1> QED
  BY <1>1, DigestsTell, Zenon

\* identify of an installed control.
LEMMA ControlTells ==
  ASSUME NEW v \in Control, NEW w \in Control
  PROVE  Tells(ControlCalls(v), v, ControlCalls(w), w)
<1> DEFINE c1(u) == <<Digest(u.source), U8(u.reason.kind)>>
           x1(u) == <<u.source, u.reason.kind>>
           c2(u) == OptionalText(u.reason.package)
           x2(u) == u.reason.package
           c3(u) == OptionalIssuer(u.reason.profile)
           x3(u) == u.reason.profile
           c4(u) == OptionalText(u.reason.policy)
           x4(u) == u.reason.policy
           c5(u) == Digests(u.build)
           x5(u) == u.build
<1>1. ASSUME NEW u \in Control
      PROVE  /\ u.source \in DigestValue
             /\ u.reason.kind \in Octet
             /\ u.reason.package \in OptionOf(Text)
             /\ u.reason.profile \in OptionOf(Issuer)
             /\ u.reason.policy \in OptionOf(Text)
             /\ u.build \in [1..14 -> DigestValue]
  BY DEF Control, Reason
<1>2. Tells(c1(v), x1(v), c1(w), x1(w))
  <2>1. Tells(<<Digest(v.source)>>, v.source, <<Digest(w.source)>>, w.source)
    BY <1>1, DigestTells, Zenon
  <2>2. Tells(<<U8(v.reason.kind)>>, v.reason.kind, <<U8(w.reason.kind)>>, w.reason.kind)
    BY <1>1, IntegersTell, Zenon
  <2> QED
    BY <2>1, <2>2, TellsBoth, Zenon
<1>3. Tells(c2(v), x2(v), c2(w), x2(w))
  BY <1>1, OptionalTextTells, Zenon
<1>4. Tells(c3(v), x3(v), c3(w), x3(w))
  BY <1>1, OptionalIssuerTells, Zenon
<1>5. Tells(c4(v), x4(v), c4(w), x4(w))
  BY <1>1, OptionalTextTells, Zenon
<1>6. Tells(c5(v), x5(v), c5(w), x5(w))
  BY <1>1, BuildTells, Zenon
<1>7. /\ ControlCalls(v) = c1(v) \o c2(v) \o c3(v) \o c4(v) \o c5(v)
      /\ ControlCalls(w) = c1(w) \o c2(w) \o c3(w) \o c4(w) \o c5(w)
  BY DEF ControlCalls, OptionalText, OptionalIssuer, Optional
<1>8. ASSUME x1(v) = x1(w), x2(v) = x2(w), x3(v) = x3(w), x4(v) = x4(w), x5(v) = x5(w)
      PROVE  v = w
  BY <1>8 DEF Control, Reason
<1> HIDE DEF c1, x1, c2, x2, c3, x3, c4, x4, c5, x5
<1>9. Tells(c1(v) \o c2(v), <<x1(v), x2(v)>>,
          c1(w) \o c2(w), <<x1(w), x2(w)>>)
  BY <1>2, <1>3, TellsThen, Zenon
<1>10. Tells(c1(v) \o c2(v) \o c3(v), <<<<x1(v), x2(v)>>, x3(v)>>,
          c1(w) \o c2(w) \o c3(w), <<<<x1(w), x2(w)>>, x3(w)>>)
  BY <1>9, <1>4, TellsThen, Zenon
<1>11. Tells(c1(v) \o c2(v) \o c3(v) \o c4(v), <<<<<<x1(v), x2(v)>>, x3(v)>>, x4(v)>>,
          c1(w) \o c2(w) \o c3(w) \o c4(w), <<<<<<x1(w), x2(w)>>, x3(w)>>, x4(w)>>)
  BY <1>10, <1>5, TellsThen, Zenon
<1>12. Tells(c1(v) \o c2(v) \o c3(v) \o c4(v) \o c5(v), <<<<<<<<x1(v), x2(v)>>, x3(v)>>, x4(v)>>, x5(v)>>,
          c1(w) \o c2(w) \o c3(w) \o c4(w) \o c5(w), <<<<<<<<x1(w), x2(w)>>, x3(w)>>, x4(w)>>, x5(w)>>)
  BY <1>11, <1>6, TellsThen, Zenon
<1>13. <<<<<<<<x1(v), x2(v)>>, x3(v)>>, x4(v)>>, x5(v)>> = <<<<<<<<x1(w), x2(w)>>, x3(w)>>, x4(w)>>, x5(w)>>
        => v = w
  BY <1>8
<1> QED
  BY <1>7, <1>12, <1>13, Zenon DEF Tells

\* A device number.
LEMMA DeviceTells ==
  ASSUME NEW v \in Device, NEW w \in Device
  PROVE  Tells(EncodeDevice(v), v, EncodeDevice(w), w)
<1> DEFINE c1(u) == <<U64(u.major), U64(u.minor)>>
           x1(u) == <<u.major, u.minor>>
<1>1. ASSUME NEW u \in Device
      PROVE  /\ u.major \in Unsigned(Width64)
             /\ u.minor \in Unsigned(Width64)
  BY DEF Device
<1>2. Tells(c1(v), x1(v), c1(w), x1(w))
  <2>1. Tells(<<U64(v.major)>>, v.major, <<U64(w.major)>>, w.major)
    BY <1>1, IntegersTell, Zenon
  <2>2. Tells(<<U64(v.minor)>>, v.minor, <<U64(w.minor)>>, w.minor)
    BY <1>1, IntegersTell, Zenon
  <2> QED
    BY <2>1, <2>2, TellsBoth, Zenon
<1>3. /\ EncodeDevice(v) = c1(v)
      /\ EncodeDevice(w) = c1(w)
  BY DEF EncodeDevice
<1>4. ASSUME x1(v) = x1(w)
      PROVE  v = w
  BY <1>4 DEF Device
<1> HIDE DEF c1, x1
<1> QED
  BY <1>3, <1>2, <1>4, Zenon DEF Tells

\* An optional device number.
LEMMA OptionalDeviceTells ==
  ASSUME NEW v \in OptionOf(Device), NEW w \in OptionOf(Device)
  PROVE  Tells(OptionalDevice(v), v, OptionalDevice(w), w)
<1>1. OptionalDevice(v) = Flagged(v, EncodeDevice(v)) /\ OptionalDevice(w) = Flagged(w, EncodeDevice(w))
  BY DEF OptionalDevice, Optional, Flagged
<1>2. (v # None => v \in Device) /\ (w # None => w \in Device)
  BY DEF OptionOf
<1>3. \A x, y \in Device : Tells(EncodeDevice(x), x, EncodeDevice(y), y)
  BY DeviceTells, Zenon
<1>4. Tells(Flagged(v, EncodeDevice(v)), v, Flagged(w, EncodeDevice(w)), w)
  BY <1>2, <1>3, FlaggedTells, Zenon
<1> QED
  BY <1>1, <1>4, Zenon

\* A rejected object: the side and its identity.
LEMMA RejectedTells ==
  ASSUME NEW v \in Rejected, NEW w \in Rejected
  PROVE  Tells(RejectedCalls(v), v, RejectedCalls(w), w)
<1> DEFINE c1(u) == <<U8(u.side), Digest(u.identity)>>
           x1(u) == <<u.side, u.identity>>
<1>1. ASSUME NEW u \in Rejected
      PROVE  /\ u.side \in Octet
             /\ u.identity \in DigestValue
  BY DEF Rejected
<1>2. Tells(c1(v), x1(v), c1(w), x1(w))
  <2>1. Tells(<<U8(v.side)>>, v.side, <<U8(w.side)>>, w.side)
    BY <1>1, IntegersTell, Zenon
  <2>2. Tells(<<Digest(v.identity)>>, v.identity, <<Digest(w.identity)>>, w.identity)
    BY <1>1, DigestTells, Zenon
  <2> QED
    BY <2>1, <2>2, TellsBoth, Zenon
<1>3. /\ RejectedCalls(v) = c1(v)
      /\ RejectedCalls(w) = c1(w)
  BY DEF RejectedCalls
<1>4. ASSUME x1(v) = x1(w)
      PROVE  v = w
  BY <1>4 DEF Rejected
<1> HIDE DEF c1, x1
<1> QED
  BY <1>3, <1>2, <1>4, Zenon DEF Tells

\* An optional rejected object.
LEMMA OptionalRejectedTells ==
  ASSUME NEW v \in OptionOf(Rejected), NEW w \in OptionOf(Rejected)
  PROVE  Tells(OptionalRejected(v), v, OptionalRejected(w), w)
<1>1. OptionalRejected(v) = Flagged(v, RejectedCalls(v)) /\ OptionalRejected(w) = Flagged(w, RejectedCalls(w))
  BY DEF OptionalRejected, Optional, Flagged
<1>2. (v # None => v \in Rejected) /\ (w # None => w \in Rejected)
  BY DEF OptionOf
<1>3. \A x, y \in Rejected : Tells(RejectedCalls(x), x, RejectedCalls(y), y)
  BY RejectedTells, Zenon
<1>4. Tells(Flagged(v, RejectedCalls(v)), v, Flagged(w, RejectedCalls(w)), w)
  BY <1>2, <1>3, FlaggedTells, Zenon
<1> QED
  BY <1>1, <1>4, Zenon

\* An owned entry, with the sign of its time before the magnitude.
LEMMA EntryTells ==
  ASSUME NEW v \in Entry, NEW w \in Entry
  PROVE  Tells(EntryCalls(v), v, EntryCalls(w), w)
<1> DEFINE c1(u) == <<Bytes(u.path), U8(u.kind), U32(u.mode), U64(u.uid), U64(u.gid)>>
           x1(u) == <<u.path, u.kind, u.mode, u.uid, u.gid>>
           c2(u) == SignAndMagnitude(u.seconds)
           x2(u) == u.seconds
           c3(u) == <<U32(u.nanoseconds)>>
           x3(u) == u.nanoseconds
           c4(u) == OptionalSize(u.size)
           x4(u) == u.size
           c5(u) == OptionalDigest(u.content)
           x5(u) == u.content
           c6(u) == OptionalText(u.symlink)
           x6(u) == u.symlink
           c7(u) == OptionalDevice(u.device)
           x7(u) == u.device
           c8(u) == OptionalText(u.hardlink)
           x8(u) == u.hardlink
           c9(u) == <<U8(u.origin)>>
           x9(u) == u.origin
           c10(u) == OptionalRejected(u.rejected)
           x10(u) == u.rejected
<1>1. ASSUME NEW u \in Entry
      PROVE  /\ u.path \in Text
             /\ u.kind \in Octet
             /\ u.mode \in Unsigned(Width32)
             /\ u.uid \in Unsigned(Width64)
             /\ u.gid \in Unsigned(Width64)
             /\ u.seconds \in MinI64..MaxI64
             /\ u.nanoseconds \in Unsigned(Width32)
             /\ u.size \in OptionOf(Unsigned(Width64))
             /\ u.content \in OptionOf(DigestValue)
             /\ u.symlink \in OptionOf(Text)
             /\ u.device \in OptionOf(Device)
             /\ u.hardlink \in OptionOf(Text)
             /\ u.origin \in Octet
             /\ u.rejected \in OptionOf(Rejected)
  BY DEF Entry
<1>2. Tells(c1(v), x1(v), c1(w), x1(w))
  <2>1. Tells(<<Bytes(v.path)>>, v.path, <<Bytes(w.path)>>, w.path)
    BY <1>1, TextTells, Zenon
  <2>2. Tells(<<U8(v.kind)>>, v.kind, <<U8(w.kind)>>, w.kind)
    BY <1>1, IntegersTell, Zenon
  <2>3. Tells(<<U32(v.mode)>>, v.mode, <<U32(w.mode)>>, w.mode)
    BY <1>1, IntegersTell, Zenon
  <2>4. Tells(<<U64(v.uid)>>, v.uid, <<U64(w.uid)>>, w.uid)
    BY <1>1, IntegersTell, Zenon
  <2>5. Tells(<<U64(v.gid)>>, v.gid, <<U64(w.gid)>>, w.gid)
    BY <1>1, IntegersTell, Zenon
  <2> QED
    BY <2>1, <2>2, <2>3, <2>4, <2>5, TellsFive, Zenon
<1>3. Tells(c2(v), x2(v), c2(w), x2(w))
  BY <1>1, SignAndMagnitudeTells, Zenon
<1>4. Tells(c3(v), x3(v), c3(w), x3(w))
  BY <1>1, IntegersTell, Zenon
<1>5. Tells(c4(v), x4(v), c4(w), x4(w))
  BY <1>1, OptionalSizeTells, Zenon
<1>6. Tells(c5(v), x5(v), c5(w), x5(w))
  BY <1>1, OptionalDigestTells, Zenon
<1>7. Tells(c6(v), x6(v), c6(w), x6(w))
  BY <1>1, OptionalTextTells, Zenon
<1>8. Tells(c7(v), x7(v), c7(w), x7(w))
  BY <1>1, OptionalDeviceTells, Zenon
<1>9. Tells(c8(v), x8(v), c8(w), x8(w))
  BY <1>1, OptionalTextTells, Zenon
<1>10. Tells(c9(v), x9(v), c9(w), x9(w))
  BY <1>1, IntegersTell, Zenon
<1>11. Tells(c10(v), x10(v), c10(w), x10(w))
  BY <1>1, OptionalRejectedTells, Zenon
<1>12. /\ EntryCalls(v) = c1(v) \o c2(v) \o c3(v) \o c4(v) \o c5(v) \o c6(v) \o c7(v) \o c8(v) \o c9(v) \o c10(v)
      /\ EntryCalls(w) = c1(w) \o c2(w) \o c3(w) \o c4(w) \o c5(w) \o c6(w) \o c7(w) \o c8(w) \o c9(w) \o c10(w)
  BY DEF EntryCalls, OptionalSize, OptionalDigest, OptionalText, OptionalDevice, OptionalRejected, Optional
<1>13. ASSUME x1(v) = x1(w), x2(v) = x2(w), x3(v) = x3(w), x4(v) = x4(w), x5(v) = x5(w), x6(v) = x6(w), x7(v) = x7(w), x8(v) = x8(w), x9(v) = x9(w), x10(v) = x10(w)
      PROVE  v = w
  BY <1>13 DEF Entry
<1> HIDE DEF c1, x1, c2, x2, c3, x3, c4, x4, c5, x5, c6, x6, c7, x7, c8, x8, c9, x9, c10, x10
<1>14. Tells(c1(v) \o c2(v), <<x1(v), x2(v)>>,
          c1(w) \o c2(w), <<x1(w), x2(w)>>)
  BY <1>2, <1>3, TellsThen, Zenon
<1>15. Tells(c1(v) \o c2(v) \o c3(v), <<<<x1(v), x2(v)>>, x3(v)>>,
          c1(w) \o c2(w) \o c3(w), <<<<x1(w), x2(w)>>, x3(w)>>)
  BY <1>14, <1>4, TellsThen, Zenon
<1>16. Tells(c1(v) \o c2(v) \o c3(v) \o c4(v), <<<<<<x1(v), x2(v)>>, x3(v)>>, x4(v)>>,
          c1(w) \o c2(w) \o c3(w) \o c4(w), <<<<<<x1(w), x2(w)>>, x3(w)>>, x4(w)>>)
  BY <1>15, <1>5, TellsThen, Zenon
<1>17. Tells(c1(v) \o c2(v) \o c3(v) \o c4(v) \o c5(v), <<<<<<<<x1(v), x2(v)>>, x3(v)>>, x4(v)>>, x5(v)>>,
          c1(w) \o c2(w) \o c3(w) \o c4(w) \o c5(w), <<<<<<<<x1(w), x2(w)>>, x3(w)>>, x4(w)>>, x5(w)>>)
  BY <1>16, <1>6, TellsThen, Zenon
<1>18. Tells(c1(v) \o c2(v) \o c3(v) \o c4(v) \o c5(v) \o c6(v), <<<<<<<<<<x1(v), x2(v)>>, x3(v)>>, x4(v)>>, x5(v)>>, x6(v)>>,
          c1(w) \o c2(w) \o c3(w) \o c4(w) \o c5(w) \o c6(w), <<<<<<<<<<x1(w), x2(w)>>, x3(w)>>, x4(w)>>, x5(w)>>, x6(w)>>)
  BY <1>17, <1>7, TellsThen, Zenon
<1>19. Tells(c1(v) \o c2(v) \o c3(v) \o c4(v) \o c5(v) \o c6(v) \o c7(v), <<<<<<<<<<<<x1(v), x2(v)>>, x3(v)>>, x4(v)>>, x5(v)>>, x6(v)>>, x7(v)>>,
          c1(w) \o c2(w) \o c3(w) \o c4(w) \o c5(w) \o c6(w) \o c7(w), <<<<<<<<<<<<x1(w), x2(w)>>, x3(w)>>, x4(w)>>, x5(w)>>, x6(w)>>, x7(w)>>)
  BY <1>18, <1>8, TellsThen, Zenon
<1>20. Tells(c1(v) \o c2(v) \o c3(v) \o c4(v) \o c5(v) \o c6(v) \o c7(v) \o c8(v), <<<<<<<<<<<<<<x1(v), x2(v)>>, x3(v)>>, x4(v)>>, x5(v)>>, x6(v)>>, x7(v)>>, x8(v)>>,
          c1(w) \o c2(w) \o c3(w) \o c4(w) \o c5(w) \o c6(w) \o c7(w) \o c8(w), <<<<<<<<<<<<<<x1(w), x2(w)>>, x3(w)>>, x4(w)>>, x5(w)>>, x6(w)>>, x7(w)>>, x8(w)>>)
  BY <1>19, <1>9, TellsThen, Zenon
<1>21. Tells(c1(v) \o c2(v) \o c3(v) \o c4(v) \o c5(v) \o c6(v) \o c7(v) \o c8(v) \o c9(v), <<<<<<<<<<<<<<<<x1(v), x2(v)>>, x3(v)>>, x4(v)>>, x5(v)>>, x6(v)>>, x7(v)>>, x8(v)>>, x9(v)>>,
          c1(w) \o c2(w) \o c3(w) \o c4(w) \o c5(w) \o c6(w) \o c7(w) \o c8(w) \o c9(w), <<<<<<<<<<<<<<<<x1(w), x2(w)>>, x3(w)>>, x4(w)>>, x5(w)>>, x6(w)>>, x7(w)>>, x8(w)>>, x9(w)>>)
  BY <1>20, <1>10, TellsThen, Zenon
<1>22. Tells(c1(v) \o c2(v) \o c3(v) \o c4(v) \o c5(v) \o c6(v) \o c7(v) \o c8(v) \o c9(v) \o c10(v), <<<<<<<<<<<<<<<<<<x1(v), x2(v)>>, x3(v)>>, x4(v)>>, x5(v)>>, x6(v)>>, x7(v)>>, x8(v)>>, x9(v)>>, x10(v)>>,
          c1(w) \o c2(w) \o c3(w) \o c4(w) \o c5(w) \o c6(w) \o c7(w) \o c8(w) \o c9(w) \o c10(w), <<<<<<<<<<<<<<<<<<x1(w), x2(w)>>, x3(w)>>, x4(w)>>, x5(w)>>, x6(w)>>, x7(w)>>, x8(w)>>, x9(w)>>, x10(w)>>)
  BY <1>21, <1>11, TellsThen, Zenon
<1>23. <<<<<<<<<<<<<<<<<<x1(v), x2(v)>>, x3(v)>>, x4(v)>>, x5(v)>>, x6(v)>>, x7(v)>>, x8(v)>>, x9(v)>>, x10(v)>> = <<<<<<<<<<<<<<<<<<x1(w), x2(w)>>, x3(w)>>, x4(w)>>, x5(w)>>, x6(w)>>, x7(w)>>, x8(w)>>, x9(w)>>, x10(w)>>
        => v = w
  BY <1>13
<1> QED
  BY <1>12, <1>22, <1>23, Zenon DEF Tells

\* A manifest is a list of owned entries.
LEMMA EntriesTell ==
  ASSUME NEW v \in ListOf(Entry), NEW w \in ListOf(Entry)
  PROVE  Tells(Entries(v), v, Entries(w), w)
<1> DEFINE encode == [x \in Entry |-> EntryCalls(x)]
<1>1. \A x \in Entry : encode[x] = EntryCalls(x)
  OBVIOUS
<1> HIDE DEF encode
<1>2. ASSUME NEW u \in ListOf(Entry) PROVE Entries(u) = Listed(u, encode)
  <2>1. \A i \in DOMAIN u : u[i] \in Entry
    BY DEF ListOf
  <2>2. [i \in DOMAIN u |-> encode[u[i]]] = [i \in DOMAIN u |-> EntryCalls(u[i])]
    BY <1>1, <2>1
  <2> QED
    BY <2>2, Zenon DEF Entries, EncodeAll, Listed
<1>3. \A x, y \in Entry : Tells(encode[x], x, encode[y], y)
  BY <1>1, EntryTells, Zenon
<1>4. Tells(Listed(v, encode), v, Listed(w, encode), w)
  BY <1>3, ListTells, Zenon
<1> QED
  BY <1>2, <1>4, Zenon

\* identify of an installation receipt.
LEMMA ReceiptTells ==
  ASSUME NEW v \in Receipt, NEW w \in Receipt
  PROVE  Tells(ReceiptCalls(v), v, ReceiptCalls(w), w)
<1> DEFINE c1(u) == <<U16(1), Digest(u.control), Digest(u.binding)>>
           x1(u) == <<1, u.control, u.binding>>
           c2(u) == Entries(u.manifest)
           x2(u) == u.manifest
           c3(u) == <<Digest(u.plan), Digest(u.application)>>
           x3(u) == <<u.plan, u.application>>
           c4(u) == OptionalDigest(u.transaction)
           x4(u) == u.transaction
<1>1. ASSUME NEW u \in Receipt
      PROVE  /\ 1 \in Unsigned(Width16)
             /\ u.control \in DigestValue
             /\ u.binding \in DigestValue
             /\ u.manifest \in ListOf(Entry)
             /\ u.plan \in DigestValue
             /\ u.application \in DigestValue
             /\ u.transaction \in OptionOf(DigestValue)
  BY WidthAssumption DEF Receipt
<1>2. Tells(c1(v), x1(v), c1(w), x1(w))
  <2>1. Tells(<<U16(1)>>, 1, <<U16(1)>>, 1)
    BY <1>1, IntegersTell, Zenon
  <2>2. Tells(<<Digest(v.control)>>, v.control, <<Digest(w.control)>>, w.control)
    BY <1>1, DigestTells, Zenon
  <2>3. Tells(<<Digest(v.binding)>>, v.binding, <<Digest(w.binding)>>, w.binding)
    BY <1>1, DigestTells, Zenon
  <2> QED
    BY <2>1, <2>2, <2>3, TellsThree, Zenon
<1>3. Tells(c2(v), x2(v), c2(w), x2(w))
  BY <1>1, EntriesTell, Zenon
<1>4. Tells(c3(v), x3(v), c3(w), x3(w))
  <2>1. Tells(<<Digest(v.plan)>>, v.plan, <<Digest(w.plan)>>, w.plan)
    BY <1>1, DigestTells, Zenon
  <2>2. Tells(<<Digest(v.application)>>, v.application, <<Digest(w.application)>>, w.application)
    BY <1>1, DigestTells, Zenon
  <2> QED
    BY <2>1, <2>2, TellsBoth, Zenon
<1>5. Tells(c4(v), x4(v), c4(w), x4(w))
  BY <1>1, OptionalDigestTells, Zenon
<1>6. /\ ReceiptCalls(v) = c1(v) \o c2(v) \o c3(v) \o c4(v)
      /\ ReceiptCalls(w) = c1(w) \o c2(w) \o c3(w) \o c4(w)
  BY DEF ReceiptCalls, Entries, EncodeAll, OptionalDigest, Optional
<1>7. ASSUME x1(v) = x1(w), x2(v) = x2(w), x3(v) = x3(w), x4(v) = x4(w)
      PROVE  v = w
  BY <1>7 DEF Receipt
<1> HIDE DEF c1, x1, c2, x2, c3, x3, c4, x4
<1>8. Tells(c1(v) \o c2(v), <<x1(v), x2(v)>>,
          c1(w) \o c2(w), <<x1(w), x2(w)>>)
  BY <1>2, <1>3, TellsThen, Zenon
<1>9. Tells(c1(v) \o c2(v) \o c3(v), <<<<x1(v), x2(v)>>, x3(v)>>,
          c1(w) \o c2(w) \o c3(w), <<<<x1(w), x2(w)>>, x3(w)>>)
  BY <1>8, <1>4, TellsThen, Zenon
<1>10. Tells(c1(v) \o c2(v) \o c3(v) \o c4(v), <<<<<<x1(v), x2(v)>>, x3(v)>>, x4(v)>>,
          c1(w) \o c2(w) \o c3(w) \o c4(w), <<<<<<x1(w), x2(w)>>, x3(w)>>, x4(w)>>)
  BY <1>9, <1>5, TellsThen, Zenon
<1>11. <<<<<<x1(v), x2(v)>>, x3(v)>>, x4(v)>> = <<<<<<x1(w), x2(w)>>, x3(w)>>, x4(w)>>
        => v = w
  BY <1>7
<1> QED
  BY <1>6, <1>10, <1>11, Zenon DEF Tells

\* A row of nine calls is a row of five, then a row of four.
LEMMA RowOf9 ==
  ASSUME NEW T, NEW a1 \in T, NEW a2 \in T, NEW a3 \in T, NEW a4 \in T, NEW a5 \in T,
         NEW a6 \in T, NEW a7 \in T, NEW a8 \in T, NEW a9 \in T
  PROVE  <<a1, a2, a3, a4, a5>> \o <<a6, a7, a8, a9>>
           = <<a1, a2, a3, a4, a5, a6, a7, a8, a9>>
<1>1. PICK b : b = <<a1, a2, a3, a4, a5>> /\ b \in Seq(T) /\ Len(b) = 5
  <2>1. <<a1, a2, a3, a4, a5>> \in Seq(T) /\ Len(<<a1, a2, a3, a4, a5>>) = 5
    OBVIOUS
  <2> QED
    BY <2>1, Zenon
<1>2. /\ b[1] = a1 /\ b[2] = a2 /\ b[3] = a3 /\ b[4] = a4 /\ b[5] = a5
  BY <1>1
<1>3. PICK c : c = <<a6, a7, a8, a9>> /\ c \in Seq(T) /\ Len(c) = 4
  <2>1. <<a6, a7, a8, a9>> \in Seq(T) /\ Len(<<a6, a7, a8, a9>>) = 4
    OBVIOUS
  <2> QED
    BY <2>1, Zenon
<1>4. /\ c[1] = a6 /\ c[2] = a7 /\ c[3] = a8 /\ c[4] = a9
  BY <1>3
<1>5. PICK d : d = <<a1, a2, a3, a4, a5, a6, a7, a8, a9>> /\ d \in Seq(T) /\ Len(d) = 9
  <2>1. <<a1, a2, a3, a4, a5, a6, a7, a8, a9>> \in Seq(T) /\ Len(<<a1, a2, a3, a4, a5, a6, a7, a8, a9>>) = 9
    OBVIOUS
  <2> QED
    BY <2>1, Zenon
<1>6. /\ d[1] = a1 /\ d[2] = a2 /\ d[3] = a3 /\ d[4] = a4 /\ d[5] = a5
      /\ d[6] = a6 /\ d[7] = a7 /\ d[8] = a8 /\ d[9] = a9
  BY <1>5
<1>7. PICK e : e = b \o c
  OBVIOUS
<1>8. e \in Seq(T) /\ Len(e) = 9 /\ (\A i \in 1..5 : e[i] = b[i]) /\ (\A i \in 1..4 : e[5 + i] = c[i])
  <2>1. Len(b \o c) = Len(b) + Len(c) /\ b \o c \in Seq(T)
        /\ (\A i \in 1..Len(b) : (b \o c)[i] = b[i])
        /\ (\A i \in 1..Len(c) : (b \o c)[Len(b) + i] = c[i])
    BY <1>1, <1>3, ConcatFacts
  <2> QED
    BY <1>1, <1>3, <1>7, <2>1
<1>9. \A i \in 1..5 : e[i] = d[i]
  <2>1. \A i \in 1..5 : i \in {1, 2, 3, 4, 5}
    OBVIOUS
  <2> QED
    BY <1>2, <1>6, <1>8, <2>1
<1>10. \A i \in 6..9 : e[i] = d[i]
  <2>1. \A i \in 6..9 : i \in {6, 7, 8, 9}
    OBVIOUS
  <2>2. e[6] = c[1] /\ e[7] = c[2] /\ e[8] = c[3] /\ e[9] = c[4]
    <3>1. \A i \in 1..4 : e[5 + i] = c[i]
      BY <1>8
    <3>2. e[5 + 1] = c[1] /\ e[5 + 2] = c[2] /\ e[5 + 3] = c[3] /\ e[5 + 4] = c[4]
      BY <3>1
    <3> QED
      BY <3>2
  <2> QED
    BY <1>4, <1>6, <2>1, <2>2
<1>11. e = d
  <2>1. \A i \in 1..9 : e[i] = d[i]
    <3>1. \A i \in 1..9 : i \in 1..5 \/ i \in 6..9
      OBVIOUS
    <3> QED
      BY <1>9, <1>10, <3>1
  <2> QED
    BY <1>5, <1>8, <2>1, SeqEqual
<1> QED
  BY <1>1, <1>3, <1>5, <1>7, <1>11, Zenon

\* identify of an installed package.
LEMMA PackageTells ==
  ASSUME NEW v \in [receipt : DigestValue], NEW w \in [receipt : DigestValue]
  PROVE  Tells(PackageCalls(v), v, PackageCalls(w), w)
<1> DEFINE c1(u) == <<Digest(u.receipt)>>
           x1(u) == u.receipt
<1>1. ASSUME NEW u \in [receipt : DigestValue]
      PROVE  /\ u.receipt \in DigestValue
  OBVIOUS
<1>2. Tells(c1(v), x1(v), c1(w), x1(w))
  BY <1>1, DigestTells, Zenon
<1>3. /\ PackageCalls(v) = c1(v)
      /\ PackageCalls(w) = c1(w)
  BY DEF PackageCalls
<1>4. ASSUME x1(v) = x1(w)
      PROVE  v = w
  BY <1>4
<1> HIDE DEF c1, x1
<1> QED
  BY <1>3, <1>2, <1>4, Zenon DEF Tells

\* A path and its owners.
LEMMA ClaimTells ==
  ASSUME NEW v \in Claim, NEW w \in Claim
  PROVE  Tells(ClaimCalls(v), v, ClaimCalls(w), w)
<1> DEFINE c1(u) == <<Bytes(u.path)>>
           x1(u) == u.path
           c2(u) == DigestsInside(u.owners)
           x2(u) == u.owners
<1>1. ASSUME NEW u \in Claim
      PROVE  /\ u.path \in Text
             /\ u.owners \in ListOf(DigestValue)
  BY DEF Claim
<1>2. Tells(c1(v), x1(v), c1(w), x1(w))
  BY <1>1, TextTells, Zenon
<1>3. Tells(c2(v), x2(v), c2(w), x2(w))
  BY <1>1, DigestsInsideTell, Zenon
<1>4. /\ ClaimCalls(v) = c1(v) \o c2(v)
      /\ ClaimCalls(w) = c1(w) \o c2(w)
  BY DEF ClaimCalls, DigestsInside, EncodeAll
<1>5. ASSUME x1(v) = x1(w), x2(v) = x2(w)
      PROVE  v = w
  BY <1>5 DEF Claim
<1> HIDE DEF c1, x1, c2, x2
<1>6. Tells(c1(v) \o c2(v), <<x1(v), x2(v)>>,
          c1(w) \o c2(w), <<x1(w), x2(w)>>)
  BY <1>2, <1>3, TellsThen, Zenon
<1>7. <<x1(v), x2(v)>> = <<x1(w), x2(w)>>
        => v = w
  BY <1>5
<1> QED
  BY <1>4, <1>6, <1>7, Zenon DEF Tells

\* A list of claims.
LEMMA ClaimsTell ==
  ASSUME NEW v \in ListOf(Claim), NEW w \in ListOf(Claim)
  PROVE  Tells(Claims(v), v, Claims(w), w)
<1> DEFINE encode == [x \in Claim |-> ClaimCalls(x)]
<1>1. \A x \in Claim : encode[x] = ClaimCalls(x)
  OBVIOUS
<1> HIDE DEF encode
<1>2. ASSUME NEW u \in ListOf(Claim) PROVE Claims(u) = Listed(u, encode)
  <2>1. \A i \in DOMAIN u : u[i] \in Claim
    BY DEF ListOf
  <2>2. [i \in DOMAIN u |-> encode[u[i]]] = [i \in DOMAIN u |-> ClaimCalls(u[i])]
    BY <1>1, <2>1
  <2> QED
    BY <2>2, Zenon DEF Claims, EncodeAll, Listed
<1>3. \A x, y \in Claim : Tells(encode[x], x, encode[y], y)
  BY <1>1, ClaimTells, Zenon
<1>4. Tells(Listed(v, encode), v, Listed(w, encode), w)
  BY <1>3, ListTells, Zenon
<1> QED
  BY <1>2, <1>4, Zenon

\* identify of an ownership inventory.
LEMMA OwnershipTells ==
  ASSUME NEW v \in [claims : ListOf(Claim)], NEW w \in [claims : ListOf(Claim)]
  PROVE  Tells(OwnershipCalls(v), v, OwnershipCalls(w), w)
<1> DEFINE c1(u) == Claims(u.claims)
           x1(u) == u.claims
<1>1. ASSUME NEW u \in [claims : ListOf(Claim)]
      PROVE  /\ u.claims \in ListOf(Claim)
  OBVIOUS
<1>2. Tells(c1(v), x1(v), c1(w), x1(w))
  BY <1>1, ClaimsTell, Zenon
<1>3. /\ OwnershipCalls(v) = c1(v)
      /\ OwnershipCalls(w) = c1(w)
  BY DEF OwnershipCalls, Claims, EncodeAll
<1>4. ASSUME x1(v) = x1(w)
      PROVE  v = w
  BY <1>4
<1> HIDE DEF c1, x1
<1> QED
  BY <1>3, <1>2, <1>4, Zenon DEF Tells

\* identify of a target binding.
LEMMA BindingTells ==
  ASSUME NEW v \in Binding, NEW w \in Binding
  PROVE  Tells(BindingCalls(v), v, BindingCalls(w), w)
<1> DEFINE x(u) == <<u.managedTarget, u.stateStore, u.rootView, u.stateBackend, u.publicationDomain>>
<1>1. ASSUME NEW u \in Binding PROVE x(u) \in [1..5 -> DigestValue]
  <2>1. /\ u.managedTarget \in DigestValue /\ u.stateStore \in DigestValue
        /\ u.rootView \in DigestValue /\ u.stateBackend \in DigestValue
        /\ u.publicationDomain \in DigestValue
    BY DEF Binding
  <2> QED
    BY <2>1
<1>2. BindingCalls(v) = Digests(x(v)) /\ BindingCalls(w) = Digests(x(w))
  BY DEF BindingCalls
<1>3. x(v) = x(w) => v = w
  BY DEF Binding
<1> HIDE DEF x
<1>4. Tells(Digests(x(v)), x(v), Digests(x(w)), x(w))
  <2>1. 5 \in Nat
    OBVIOUS
  <2> QED
    BY <1>1, <2>1, DigestsTell, Zenon
<1> QED
  BY <1>2, <1>3, <1>4, Zenon DEF Tells

\* identify of an installed snapshot.
LEMMA SnapshotTells ==
  ASSUME NEW v \in Snapshot, NEW w \in Snapshot
  PROVE  Tells(SnapshotCalls(v), v, SnapshotCalls(w), w)
<1> DEFINE c1(u) == <<U16(1), Digest(u.binding)>>
           x1(u) == <<1, u.binding>>
           c2(u) == DigestsInside(u.packages)
           x2(u) == u.packages
           c3(u) == <<Digest(u.ownership)>>
           x3(u) == u.ownership
<1>1. ASSUME NEW u \in Snapshot
      PROVE  /\ 1 \in Unsigned(Width16)
             /\ u.binding \in DigestValue
             /\ u.packages \in ListOf(DigestValue)
             /\ u.ownership \in DigestValue
  BY WidthAssumption DEF Snapshot
<1>2. Tells(c1(v), x1(v), c1(w), x1(w))
  <2>1. Tells(<<U16(1)>>, 1, <<U16(1)>>, 1)
    BY <1>1, IntegersTell, Zenon
  <2>2. Tells(<<Digest(v.binding)>>, v.binding, <<Digest(w.binding)>>, w.binding)
    BY <1>1, DigestTells, Zenon
  <2> QED
    BY <2>1, <2>2, TellsBoth, Zenon
<1>3. Tells(c2(v), x2(v), c2(w), x2(w))
  BY <1>1, DigestsInsideTell, Zenon
<1>4. Tells(c3(v), x3(v), c3(w), x3(w))
  BY <1>1, DigestTells, Zenon
<1>5. /\ SnapshotCalls(v) = c1(v) \o c2(v) \o c3(v)
      /\ SnapshotCalls(w) = c1(w) \o c2(w) \o c3(w)
  BY DEF SnapshotCalls, DigestsInside, EncodeAll
<1>6. ASSUME x1(v) = x1(w), x2(v) = x2(w), x3(v) = x3(w)
      PROVE  v = w
  BY <1>6 DEF Snapshot
<1> HIDE DEF c1, x1, c2, x2, c3, x3
<1>7. Tells(c1(v) \o c2(v), <<x1(v), x2(v)>>,
          c1(w) \o c2(w), <<x1(w), x2(w)>>)
  BY <1>2, <1>3, TellsThen, Zenon
<1>8. Tells(c1(v) \o c2(v) \o c3(v), <<<<x1(v), x2(v)>>, x3(v)>>,
          c1(w) \o c2(w) \o c3(w), <<<<x1(w), x2(w)>>, x3(w)>>)
  BY <1>7, <1>4, TellsThen, Zenon
<1>9. <<<<x1(v), x2(v)>>, x3(v)>> = <<<<x1(w), x2(w)>>, x3(w)>>
        => v = w
  BY <1>6
<1> QED
  BY <1>5, <1>8, <1>9, Zenon DEF Tells

\* A delta of a publication request.
LEMMA DeltaTells ==
  ASSUME NEW v \in Delta, NEW w \in Delta
  PROVE  Tells(DeltaCalls(v), v, DeltaCalls(w), w)
<1> DEFINE c1(u) == <<U8(u.kind), Bytes(u.name), Digest(u.plan), Digest(u.application)>>
           x1(u) == <<u.kind, u.name, u.plan, u.application>>
           c2(u) == OptionalDigest(u.expected)
           x2(u) == u.expected
           c3(u) == OptionalDigest(u.proposed)
           x3(u) == u.proposed
<1>1. ASSUME NEW u \in Delta
      PROVE  /\ u.kind \in Octet
             /\ u.name \in Text
             /\ u.plan \in DigestValue
             /\ u.application \in DigestValue
             /\ u.expected \in OptionOf(DigestValue)
             /\ u.proposed \in OptionOf(DigestValue)
  BY DEF Delta
<1>2. Tells(c1(v), x1(v), c1(w), x1(w))
  <2>1. Tells(<<U8(v.kind)>>, v.kind, <<U8(w.kind)>>, w.kind)
    BY <1>1, IntegersTell, Zenon
  <2>2. Tells(<<Bytes(v.name)>>, v.name, <<Bytes(w.name)>>, w.name)
    BY <1>1, TextTells, Zenon
  <2>3. Tells(<<Digest(v.plan)>>, v.plan, <<Digest(w.plan)>>, w.plan)
    BY <1>1, DigestTells, Zenon
  <2>4. Tells(<<Digest(v.application)>>, v.application, <<Digest(w.application)>>, w.application)
    BY <1>1, DigestTells, Zenon
  <2> QED
    BY <2>1, <2>2, <2>3, <2>4, TellsFour, Zenon
<1>3. Tells(c2(v), x2(v), c2(w), x2(w))
  BY <1>1, OptionalDigestTells, Zenon
<1>4. Tells(c3(v), x3(v), c3(w), x3(w))
  BY <1>1, OptionalDigestTells, Zenon
<1>5. /\ DeltaCalls(v) = c1(v) \o c2(v) \o c3(v)
      /\ DeltaCalls(w) = c1(w) \o c2(w) \o c3(w)
  BY DEF DeltaCalls, OptionalDigest, Optional
<1>6. ASSUME x1(v) = x1(w), x2(v) = x2(w), x3(v) = x3(w)
      PROVE  v = w
  BY <1>6 DEF Delta
<1> HIDE DEF c1, x1, c2, x2, c3, x3
<1>7. Tells(c1(v) \o c2(v), <<x1(v), x2(v)>>,
          c1(w) \o c2(w), <<x1(w), x2(w)>>)
  BY <1>2, <1>3, TellsThen, Zenon
<1>8. Tells(c1(v) \o c2(v) \o c3(v), <<<<x1(v), x2(v)>>, x3(v)>>,
          c1(w) \o c2(w) \o c3(w), <<<<x1(w), x2(w)>>, x3(w)>>)
  BY <1>7, <1>4, TellsThen, Zenon
<1>9. <<<<x1(v), x2(v)>>, x3(v)>> = <<<<x1(w), x2(w)>>, x3(w)>>
        => v = w
  BY <1>6
<1> QED
  BY <1>5, <1>8, <1>9, Zenon DEF Tells

\* A list of deltas.
LEMMA DeltasTell ==
  ASSUME NEW v \in ListOf(Delta), NEW w \in ListOf(Delta)
  PROVE  Tells(Deltas(v), v, Deltas(w), w)
<1> DEFINE encode == [x \in Delta |-> DeltaCalls(x)]
<1>1. \A x \in Delta : encode[x] = DeltaCalls(x)
  OBVIOUS
<1> HIDE DEF encode
<1>2. ASSUME NEW u \in ListOf(Delta) PROVE Deltas(u) = Listed(u, encode)
  <2>1. \A i \in DOMAIN u : u[i] \in Delta
    BY DEF ListOf
  <2>2. [i \in DOMAIN u |-> encode[u[i]]] = [i \in DOMAIN u |-> DeltaCalls(u[i])]
    BY <1>1, <2>1
  <2> QED
    BY <2>2, Zenon DEF Deltas, EncodeAll, Listed
<1>3. \A x, y \in Delta : Tells(encode[x], x, encode[y], y)
  BY <1>1, DeltaTells, Zenon
<1>4. Tells(Listed(v, encode), v, Listed(w, encode), w)
  BY <1>3, ListTells, Zenon
<1> QED
  BY <1>2, <1>4, Zenon

\* identify of a publication request.
LEMMA RequestTells ==
  ASSUME NEW v \in Request, NEW w \in Request
  PROVE  Tells(RequestCalls(v), v, RequestCalls(w), w)
<1> DEFINE c1(u) == <<U16(1), Digest(u.expected), Digest(u.target)>>
           x1(u) == <<1, u.expected, u.target>>
           c2(u) == Deltas(u.deltas)
           x2(u) == u.deltas
           c3(u) == OptionalDigest(u.transaction)
           x3(u) == u.transaction
<1>1. ASSUME NEW u \in Request
      PROVE  /\ 1 \in Unsigned(Width16)
             /\ u.expected \in DigestValue
             /\ u.target \in DigestValue
             /\ u.deltas \in ListOf(Delta)
             /\ u.transaction \in OptionOf(DigestValue)
  BY WidthAssumption DEF Request
<1>2. Tells(c1(v), x1(v), c1(w), x1(w))
  <2>1. Tells(<<U16(1)>>, 1, <<U16(1)>>, 1)
    BY <1>1, IntegersTell, Zenon
  <2>2. Tells(<<Digest(v.expected)>>, v.expected, <<Digest(w.expected)>>, w.expected)
    BY <1>1, DigestTells, Zenon
  <2>3. Tells(<<Digest(v.target)>>, v.target, <<Digest(w.target)>>, w.target)
    BY <1>1, DigestTells, Zenon
  <2> QED
    BY <2>1, <2>2, <2>3, TellsThree, Zenon
<1>3. Tells(c2(v), x2(v), c2(w), x2(w))
  BY <1>1, DeltasTell, Zenon
<1>4. Tells(c3(v), x3(v), c3(w), x3(w))
  BY <1>1, OptionalDigestTells, Zenon
<1>5. /\ RequestCalls(v) = c1(v) \o c2(v) \o c3(v)
      /\ RequestCalls(w) = c1(w) \o c2(w) \o c3(w)
  BY DEF RequestCalls, Deltas, EncodeAll, OptionalDigest, Optional
<1>6. ASSUME x1(v) = x1(w), x2(v) = x2(w), x3(v) = x3(w)
      PROVE  v = w
  BY <1>6 DEF Request
<1> HIDE DEF c1, x1, c2, x2, c3, x3
<1>7. Tells(c1(v) \o c2(v), <<x1(v), x2(v)>>,
          c1(w) \o c2(w), <<x1(w), x2(w)>>)
  BY <1>2, <1>3, TellsThen, Zenon
<1>8. Tells(c1(v) \o c2(v) \o c3(v), <<<<x1(v), x2(v)>>, x3(v)>>,
          c1(w) \o c2(w) \o c3(w), <<<<x1(w), x2(w)>>, x3(w)>>)
  BY <1>7, <1>4, TellsThen, Zenon
<1>9. <<<<x1(v), x2(v)>>, x3(v)>> = <<<<x1(w), x2(w)>>, x3(w)>>
        => v = w
  BY <1>6
<1> QED
  BY <1>5, <1>8, <1>9, Zenon DEF Tells

\* identify of a publication receipt.
LEMMA PublicationReceiptTells ==
  ASSUME NEW v \in PublicationReceipt, NEW w \in PublicationReceipt
  PROVE  Tells(PublicationReceiptCalls(v), v, PublicationReceiptCalls(w), w)
<1> DEFINE c1(u) == <<U16(1), Digest(u.request), Digest(u.expected), Digest(u.actualPrior), Digest(u.target)>>
           x1(u) == <<1, u.request, u.expected, u.actualPrior, u.target>>
           c2(u) == <<Bytes(u.format), U8(u.outcome), U8(u.durability), U8(u.atomicity)>>
           x2(u) == <<u.format, u.outcome, u.durability, u.atomicity>>
           c3(u) == OptionalDigest(u.resulting)
           x3(u) == u.resulting
           c4(u) == DigestsInside(u.evidence)
           x4(u) == u.evidence
<1>1. ASSUME NEW u \in PublicationReceipt
      PROVE  /\ 1 \in Unsigned(Width16)
             /\ u.request \in DigestValue
             /\ u.expected \in DigestValue
             /\ u.actualPrior \in DigestValue
             /\ u.target \in DigestValue
             /\ u.format \in Text
             /\ u.outcome \in Octet
             /\ u.durability \in Octet
             /\ u.atomicity \in Octet
             /\ u.resulting \in OptionOf(DigestValue)
             /\ u.evidence \in ListOf(DigestValue)
  BY WidthAssumption DEF PublicationReceipt
<1>2. Tells(c1(v), x1(v), c1(w), x1(w))
  <2>1. Tells(<<U16(1)>>, 1, <<U16(1)>>, 1)
    BY <1>1, IntegersTell, Zenon
  <2>2. Tells(<<Digest(v.request)>>, v.request, <<Digest(w.request)>>, w.request)
    BY <1>1, DigestTells, Zenon
  <2>3. Tells(<<Digest(v.expected)>>, v.expected, <<Digest(w.expected)>>, w.expected)
    BY <1>1, DigestTells, Zenon
  <2>4. Tells(<<Digest(v.actualPrior)>>, v.actualPrior, <<Digest(w.actualPrior)>>, w.actualPrior)
    BY <1>1, DigestTells, Zenon
  <2>5. Tells(<<Digest(v.target)>>, v.target, <<Digest(w.target)>>, w.target)
    BY <1>1, DigestTells, Zenon
  <2> QED
    BY <2>1, <2>2, <2>3, <2>4, <2>5, TellsFive, Zenon
<1>3. Tells(c2(v), x2(v), c2(w), x2(w))
  <2>1. Tells(<<Bytes(v.format)>>, v.format, <<Bytes(w.format)>>, w.format)
    BY <1>1, TextTells, Zenon
  <2>2. Tells(<<U8(v.outcome)>>, v.outcome, <<U8(w.outcome)>>, w.outcome)
    BY <1>1, IntegersTell, Zenon
  <2>3. Tells(<<U8(v.durability)>>, v.durability, <<U8(w.durability)>>, w.durability)
    BY <1>1, IntegersTell, Zenon
  <2>4. Tells(<<U8(v.atomicity)>>, v.atomicity, <<U8(w.atomicity)>>, w.atomicity)
    BY <1>1, IntegersTell, Zenon
  <2> QED
    BY <2>1, <2>2, <2>3, <2>4, TellsFour, Zenon
<1>4. Tells(c3(v), x3(v), c3(w), x3(w))
  BY <1>1, OptionalDigestTells, Zenon
<1>5. Tells(c4(v), x4(v), c4(w), x4(w))
  BY <1>1, DigestsInsideTell, Zenon
<1>6. /\ PublicationReceiptCalls(v) = c1(v) \o c2(v) \o c3(v) \o c4(v)
      /\ PublicationReceiptCalls(w) = c1(w) \o c2(w) \o c3(w) \o c4(w)
  <2>1. ASSUME NEW u \in PublicationReceipt PROVE PublicationReceiptCalls(u) = c1(u) \o c2(u) \o c3(u) \o c4(u)
    <3>1. /\ U16(1) \in Token /\ Digest(u.request) \in Token /\ Digest(u.expected) \in Token
          /\ Digest(u.actualPrior) \in Token /\ Digest(u.target) \in Token
          /\ Bytes(u.format) \in Token /\ U8(u.outcome) \in Token
          /\ U8(u.durability) \in Token /\ U8(u.atomicity) \in Token
      <4>1. U16(1) \in Token
        BY <1>1, AppendedFacts, Zenon
      <4>2. U8(u.outcome) \in Token /\ U8(u.durability) \in Token /\ U8(u.atomicity) \in Token
        BY <1>1, AppendedFacts, Zenon
      <4>3. Bytes(u.format) \in Token
        BY <1>1, AppendedFrames, Zenon
      <4>4. /\ Digest(u.request) \in Token /\ Digest(u.expected) \in Token
            /\ Digest(u.actualPrior) \in Token /\ Digest(u.target) \in Token
        BY <1>1, AppendedFrames, Zenon
      <4> QED
        BY <4>1, <4>2, <4>3, <4>4
    <3>2. c1(u) \o c2(u)
            = <<U16(1), Digest(u.request), Digest(u.expected), Digest(u.actualPrior),
                Digest(u.target), Bytes(u.format), U8(u.outcome), U8(u.durability), U8(u.atomicity)>>
      BY <3>1, RowOf9, SMTT(30)
    <3> HIDE DEF c1, c2
    <3> QED
      BY <3>2, Zenon DEF PublicationReceiptCalls, OptionalDigest, Optional, DigestsInside, EncodeAll
  <2> QED
    BY <2>1
<1>7. ASSUME x1(v) = x1(w), x2(v) = x2(w), x3(v) = x3(w), x4(v) = x4(w)
      PROVE  v = w
  BY <1>7 DEF PublicationReceipt
<1> HIDE DEF c1, x1, c2, x2, c3, x3, c4, x4
<1>8. Tells(c1(v) \o c2(v), <<x1(v), x2(v)>>,
          c1(w) \o c2(w), <<x1(w), x2(w)>>)
  BY <1>2, <1>3, TellsThen, Zenon
<1>9. Tells(c1(v) \o c2(v) \o c3(v), <<<<x1(v), x2(v)>>, x3(v)>>,
          c1(w) \o c2(w) \o c3(w), <<<<x1(w), x2(w)>>, x3(w)>>)
  BY <1>8, <1>4, TellsThen, Zenon
<1>10. Tells(c1(v) \o c2(v) \o c3(v) \o c4(v), <<<<<<x1(v), x2(v)>>, x3(v)>>, x4(v)>>,
          c1(w) \o c2(w) \o c3(w) \o c4(w), <<<<<<x1(w), x2(w)>>, x3(w)>>, x4(w)>>)
  BY <1>9, <1>5, TellsThen, Zenon
<1>11. <<<<<<x1(v), x2(v)>>, x3(v)>>, x4(v)>> = <<<<<<x1(w), x2(w)>>, x3(w)>>, x4(w)>>
        => v = w
  BY <1>7
<1> QED
  BY <1>6, <1>10, <1>11, Zenon DEF Tells

-----------------------------------------------------------------------------
(* Records *)

\* The calls of a value tell the value, within its domain.
LEMMA CallsTell ==
  ASSUME NEW domain \in HashedDomains, NEW v \in ValueOf(domain), NEW w \in ValueOf(domain)
  PROVE  Tells(Calls(domain, v), v, Calls(domain, w), w)
<1>1. CASE domain = "package-source-record"
  <2>1. v \in SourceRecord /\ w \in SourceRecord
    BY <1>1 DEF ValueOf
  <2>2. Calls(domain, v) = SourceCalls(v) /\ Calls(domain, w) = SourceCalls(w)
    BY <1>1 DEF Calls
  <2> QED
    BY <2>1, <2>2, SourceTells, Zenon
<1>2. CASE domain = "installed-control"
  <2>1. v \in Control /\ w \in Control
    BY <1>2 DEF ValueOf
  <2>2. Calls(domain, v) = ControlCalls(v) /\ Calls(domain, w) = ControlCalls(w)
    BY <1>2 DEF Calls
  <2> QED
    BY <2>1, <2>2, ControlTells, Zenon
<1>3. CASE domain = "installation-receipt"
  <2>1. v \in Receipt /\ w \in Receipt
    BY <1>3 DEF ValueOf
  <2>2. Calls(domain, v) = ReceiptCalls(v) /\ Calls(domain, w) = ReceiptCalls(w)
    BY <1>3 DEF Calls
  <2> QED
    BY <2>1, <2>2, ReceiptTells, Zenon
<1>4. CASE domain = "installed-package"
  <2>1. v \in [receipt : DigestValue] /\ w \in [receipt : DigestValue]
    BY <1>4 DEF ValueOf
  <2>2. Calls(domain, v) = PackageCalls(v) /\ Calls(domain, w) = PackageCalls(w)
    BY <1>4 DEF Calls
  <2> QED
    BY <2>1, <2>2, PackageTells, Zenon
<1>5. CASE domain = "ownership-inventory"
  <2>1. v \in [claims : ListOf(Claim)] /\ w \in [claims : ListOf(Claim)]
    BY <1>5 DEF ValueOf
  <2>2. Calls(domain, v) = OwnershipCalls(v) /\ Calls(domain, w) = OwnershipCalls(w)
    BY <1>5 DEF Calls
  <2> QED
    BY <2>1, <2>2, OwnershipTells, Zenon
<1>6. CASE domain = "target-binding"
  <2>1. v \in Binding /\ w \in Binding
    BY <1>6 DEF ValueOf
  <2>2. Calls(domain, v) = BindingCalls(v) /\ Calls(domain, w) = BindingCalls(w)
    BY <1>6 DEF Calls
  <2> QED
    BY <2>1, <2>2, BindingTells, Zenon
<1>7. CASE domain = "installed-snapshot"
  <2>1. v \in Snapshot /\ w \in Snapshot
    BY <1>7 DEF ValueOf
  <2>2. Calls(domain, v) = SnapshotCalls(v) /\ Calls(domain, w) = SnapshotCalls(w)
    BY <1>7 DEF Calls
  <2> QED
    BY <2>1, <2>2, SnapshotTells, Zenon
<1>8. CASE domain = "publication-request"
  <2>1. v \in Request /\ w \in Request
    BY <1>8 DEF ValueOf
  <2>2. Calls(domain, v) = RequestCalls(v) /\ Calls(domain, w) = RequestCalls(w)
    BY <1>8 DEF Calls
  <2> QED
    BY <2>1, <2>2, RequestTells, Zenon
<1>9. CASE domain = "publication-receipt"
  <2>1. v \in PublicationReceipt /\ w \in PublicationReceipt
    BY <1>9 DEF ValueOf
  <2>2. Calls(domain, v) = PublicationReceiptCalls(v) /\ Calls(domain, w) = PublicationReceiptCalls(w)
    BY <1>9 DEF Calls
  <2> QED
    BY <2>1, <2>2, PublicationReceiptTells, Zenon
<1> QED
  BY <1>1, <1>2, <1>3, <1>4, <1>5, <1>6, <1>7, <1>8, <1>9 DEF HashedDomains

\* The byte that stands for a domain is its own.
LEMMA DomainFacts ==
  ASSUME NEW domain \in HashedDomains
  PROVE  /\ DomainBytes(domain) \in Seq(Octet) /\ Len(DomainBytes(domain)) = 1
         /\ Domains[DomainBytes(domain)[1]] = domain
<1>1. \E n \in DOMAIN Domains : Domains[n] = domain
  <2>1. /\ Domains[1] = "package-source-record" /\ Domains[2] = "installed-control"
        /\ Domains[3] = "installation-receipt" /\ Domains[4] = "installed-package"
        /\ Domains[5] = "ownership-inventory" /\ Domains[11] = "target-binding"
        /\ Domains[12] = "installed-snapshot" /\ Domains[13] = "publication-request"
        /\ Domains[14] = "publication-receipt" /\ DOMAIN Domains = 1..14
    BY DEF Domains
  <2> QED
    BY <2>1 DEF HashedDomains
<1>2. PICK n : n = (CHOOSE m \in DOMAIN Domains : Domains[m] = domain)
  OBVIOUS
<1>3. n \in 1..14 /\ Domains[n] = domain
  <2>1. DOMAIN Domains = 1..14
    BY DEF Domains
  <2> QED
    BY <1>1, <1>2, <2>1, Zenon
<1>4. n \in Octet
  BY <1>3 DEF Octet
<1>5. DomainBytes(domain) = <<n>>
  BY <1>2 DEF DomainBytes
<1>6. <<n>> \in Seq(Octet) /\ Len(<<n>>) = 1 /\ <<n>>[1] = n
  BY <1>4
<1> QED
  BY <1>3, <1>5, <1>6, Zenon

\* Records of all domains begin alike, up to the domain.
LEMMA HeaderFacts ==
  ASSUME NEW domain \in HashedDomains, NEW other \in HashedDomains
  PROVE  /\ Header(domain) \in Seq(Octet) /\ Len(Header(domain)) = Len(Header(other))
         /\ Header(domain) = Header(other) => domain = other
<1>1. PICK p \in Seq(Octet) : p = MagicBytes \o BigEndian(1, Width16)
  <2>1. MagicBytes \in Seq(Octet) /\ Width16 \in Nat /\ 1 \in Unsigned(Width16)
    BY WidthAssumption
  <2>2. BigEndian(1, Width16) \in Seq(Octet)
    BY <2>1, BigEndianFacts
  <2>3. MagicBytes \o BigEndian(1, Width16) \in Seq(Octet)
    BY <2>1, <2>2, ConcatFacts
  <2> QED
    BY <2>3
<1>2. 1 \in Unsigned(Width64)
  <2>1. MaxI64 \in Nat /\ Width64 \in Nat /\ MaxI64 + 1 \in Unsigned(Width64) /\ 1 <= MaxI64 + 1
    BY MaxAssumption, WidthAssumption
  <2> QED
    BY <2>1, FewerBytes
<1>3. ASSUME NEW d \in HashedDomains
      PROVE  \E q \in Seq(Octet) : /\ q = Framed(DomainBytes(d)) /\ Len(q) = Width64 + 1
                                   /\ Header(d) = p \o q
  <2>1. PICK b \in Seq(Octet) : b = DomainBytes(d) /\ Len(b) = 1
    BY DomainFacts, Zenon
  <2>2. Len(b) \in Unsigned(Width64)
    BY <1>2, <2>1, Zenon
  <2>3. Framed(b) \in Seq(Octet) /\ Len(Framed(b)) = Width64 + Len(b)
    BY <2>1, <2>2, FramedTells, Zenon
  <2>4. Header(d) = p \o Framed(b)
    BY <1>1, <2>1, Zenon DEF Header
  <2> QED
    BY <2>1, <2>3, <2>4, Zenon
<1>4. PICK q \in Seq(Octet) :
        q = Framed(DomainBytes(domain)) /\ Len(q) = Width64 + 1 /\ Header(domain) = p \o q
  BY <1>3
<1>5. PICK r \in Seq(Octet) :
        r = Framed(DomainBytes(other)) /\ Len(r) = Width64 + 1 /\ Header(other) = p \o r
  BY <1>3
<1>6. Header(domain) \in Seq(Octet) /\ Len(Header(domain)) = Len(Header(other))
  <2>1. p \o q \in Seq(Octet) /\ Len(p \o q) = Len(p) + Len(q)
    BY <1>1, <1>4, ConcatFacts, Zenon
  <2>2. Len(p \o r) = Len(p) + Len(r)
    BY <1>1, <1>5, ConcatFacts, Zenon
  <2> QED
    BY <1>4, <1>5, <2>1, <2>2, Zenon
<1>7. ASSUME Header(domain) = Header(other) PROVE domain = other
  <2>1. p \o q = p \o r /\ Len(p) = Len(p)
    BY <1>4, <1>5, <1>7, Zenon
  <2>2. q = r
    <3>1. p \in Seq(Octet) /\ q \in Seq(Octet) /\ r \in Seq(Octet)
      BY <1>1, <1>4, <1>5
    <3> QED
      BY <2>1, <3>1, SplitsEqual, Zenon
  <2>3. PICK b \in Seq(Octet) : b = DomainBytes(domain) /\ Len(b) = 1 /\ Domains[b[1]] = domain
    BY DomainFacts, Zenon
  <2>4. PICK c \in Seq(Octet) : c = DomainBytes(other) /\ Len(c) = 1 /\ Domains[c[1]] = other
    BY DomainFacts, Zenon
  <2>5. <<>> \in Seq(Octet) /\ Framed(b) \o <<>> = Framed(c) \o <<>>
    <3>1. <<>> \in Seq(Octet)
      OBVIOUS
    <3> QED
      BY <1>4, <1>5, <2>2, <2>3, <2>4, <3>1, Zenon
  <2>6. Len(b) \in Unsigned(Width64) /\ Len(c) \in Unsigned(Width64)
    BY <1>2, <2>3, <2>4, Zenon
  <2>7. \A d \in Seq(Octet), x \in Seq(Octet), y \in Seq(Octet) :
          Len(d) \in Unsigned(Width64) /\ Framed(b) \o x = Framed(d) \o y => b = d /\ x = y
    BY <2>3, <2>6, FramedTells, Zenon
  <2>8. b = c
    BY <2>4, <2>5, <2>6, <2>7, Zenon
  <2> QED
    BY <2>3, <2>4, <2>8, Zenon
<1> QED
  BY <1>6, <1>7

\* Two records and what follows them are the same bytes.
SameBytes(d, v, s, e, w, t) == RecordOf(d, v) \o s = RecordOf(e, w) \o t

\* One record is one value of one domain, and no record goes on where one ends.
LEMMA RecordTells ==
  ASSUME NEW domain \in HashedDomains, NEW v \in ValueOf(domain),
         NEW other \in HashedDomains, NEW w \in ValueOf(other),
         NEW s \in Seq(Octet), NEW t \in Seq(Octet),
         SameBytes(domain, v, s, other, w, t)
  PROVE  domain = other /\ v = w /\ s = t
<1>1. PICK c \in Seq(Token) : c = Calls(domain, v)
  BY CallsTell, Zenon DEF Tells
<1>2. PICK d \in Seq(Token) : d = Calls(other, w)
  BY CallsTell, Zenon DEF Tells
<1>3. PICK p \in Seq(Octet) : p = Header(domain)
  BY HeaderFacts
<1>4. PICK q \in Seq(Octet) : q = Header(other)
  BY HeaderFacts
<1>5. PICK x \in Seq(Octet) : x = Coded(c)
  BY CodedTogether
<1>6. PICK y \in Seq(Octet) : y = Coded(d)
  BY CodedTogether
<1>7. LeftFirst(p, x, s) = LeftFirst(q, y, t)
  BY <1>1, <1>2, <1>3, <1>4, <1>5, <1>6, Zenon DEF SameBytes, RecordOf, LeftFirst
<1>8. RightFirst(p, x, s) = RightFirst(q, y, t)
  <2>1. p \in Seq(Octet) /\ q \in Seq(Octet) /\ x \in Seq(Octet) /\ y \in Seq(Octet)
    BY <1>3, <1>4, <1>5, <1>6
  <2>2. LeftFirst(p, x, s) = RightFirst(p, x, s)
    BY <2>1, EitherFirst
  <2>3. LeftFirst(q, y, t) = RightFirst(q, y, t)
    BY <2>1, EitherFirst
  <2> QED
    BY <1>7, <2>2, <2>3, Zenon
<1>9. PICK e \in Seq(Octet), f \in Seq(Octet) : e = x \o s /\ f = y \o t
  <2>1. x \o s \in Seq(Octet) /\ y \o t \in Seq(Octet)
    BY <1>5, <1>6
  <2> QED
    BY <2>1
<1>10. p \o e = q \o f
  BY <1>8, <1>9, Zenon DEF RightFirst
<1>11. Len(p) = Len(q)
  BY <1>3, <1>4, HeaderFacts
<1>12. p = q /\ e = f
  BY <1>10, <1>11, SplitsEqual, Zenon
<1>13. domain = other
  BY <1>3, <1>4, <1>12, HeaderFacts
<1>14. Agree(c, s, d, t)
  BY <1>5, <1>6, <1>9, <1>12, Zenon DEF Agree
<1>15. Tells(c, v, d, w)
  BY <1>1, <1>2, <1>13, CallsTell, Zenon
<1> QED
  BY <1>13, <1>14, <1>15, Zenon DEF Tells

-----------------------------------------------------------------------------
(* The record while it is being appended to *)

\* What has been appended are the calls of the subject up to those still to
\* make, and there is no record, nor a call to make, before or after.
RecordInProgress ==
  IF pc = "appending"
  THEN /\ subject \in Inputs /\ calls \in Seq(Token)
       /\ \E done \in Seq(Token) :
            /\ done \o calls = Calls(subject[1], subject[2])
            /\ record = Header(subject[1]) \o Coded(done)
  ELSE record = <<>> /\ calls = <<>> /\ subject \in Inputs \cup {None}

\* What there is to identify is a domain and a value of it.
LEMMA InputFacts ==
  ASSUME NEW input \in Inputs
  PROVE  /\ input[1] \in HashedDomains /\ input[2] \in ValueOf(input[1])
         /\ input = <<input[1], input[2]>>
<1>1. PICK domain \in DOMAIN Values : input \in {domain} \X Values[domain]
  BY DEF Inputs
<1>2. input[1] = domain /\ input[2] \in Values[domain] /\ input = <<input[1], input[2]>>
  BY <1>1
<1> QED
  BY <1>1, <1>2, ValuesAssumption

\* The next call moves from the calls to make to those made.
LEMMA CallMoves ==
  ASSUME NEW T, NEW done \in Seq(T), NEW cs \in Seq(T), cs # <<>>
  PROVE  /\ Head(cs) \in T /\ Tail(cs) \in Seq(T) /\ Append(done, Head(cs)) \in Seq(T)
         /\ Append(done, Head(cs)) \o Tail(cs) = done \o cs
<1>1. Head(cs) \in T /\ Tail(cs) \in Seq(T)
  OBVIOUS
<1>2. PICK h \in T, r \in Seq(T) : h = Head(cs) /\ r = Tail(cs)
  BY <1>1
<1>3. <<h>> \in Seq(T) /\ Append(done, h) = done \o <<h>> /\ Append(done, h) \in Seq(T)
  OBVIOUS
<1>4. cs = <<h>> \o r
  BY <1>2
<1>5. (done \o <<h>>) \o r = done \o (<<h>> \o r)
  BY <1>3, ConcatLaws
<1> QED
  BY <1>2, <1>3, <1>4, <1>5, Zenon

\* There is no record before the first Open.
LEMMA RecordInitially == Init => RecordInProgress
  BY DEF Init, RecordInProgress

\* Every step leaves the record in progress.
LEMMA RecordStep == RecordInProgress /\ [Next]_vars => RecordInProgress'
<1> SUFFICES ASSUME RecordInProgress, [Next]_vars PROVE RecordInProgress'
  OBVIOUS
<1>1. CASE Open
  <2>1. PICK input \in Inputs :
          subject' = input /\ calls' = Calls(input[1], input[2]) /\ record' = Header(input[1])
    BY <1>1, Zenon DEF Open
  <2>2. calls' \in Seq(Token)
    BY <2>1, InputFacts, CallsTell, Zenon DEF Tells
  <2>3. Header(input[1]) \in Seq(Octet)
    BY InputFacts, HeaderFacts, Zenon
  <2>4. <<>> \in Seq(Token) /\ Coded(<<>>) = <<>>
    <3>1. <<>> \in Seq(Token)
      OBVIOUS
    <3> QED
      BY <3>1, CodedFacts, Zenon
  <2>5. <<>> \o calls' = calls' /\ Header(input[1]) \o <<>> = Header(input[1])
    BY <2>2, <2>3, ConcatEmptySeq, Zenon
  <2>6. pc' = "appending" /\ subject' \in Inputs
    BY <1>1, <2>1, Zenon DEF Open
  <2>7. <<>> \o calls' = Calls(subject'[1], subject'[2])
        /\ record' = Header(subject'[1]) \o Coded(<<>>)
    BY <2>1, <2>4, <2>5, Zenon
  <2> QED
    BY <2>2, <2>4, <2>6, <2>7, Zenon DEF RecordInProgress
<1>2. CASE AppendNext
  <2>1. /\ pc = "appending" /\ pc' = pc /\ calls # <<>> /\ calls' = Tail(calls)
        /\ subject' = subject /\ record' = record \o Appended(Head(calls))
    BY <1>2, Zenon DEF AppendNext
  <2>2. subject \in Inputs /\ calls \in Seq(Token)
    BY <2>1, Zenon DEF RecordInProgress
  <2>3. PICK done \in Seq(Token) : done \o calls = Calls(subject[1], subject[2])
                                   /\ record = Header(subject[1]) \o Coded(done)
    BY <2>1, Zenon DEF RecordInProgress
  <2>4. PICK h \in Token : h = Head(calls)
    BY <2>1, <2>2, CallMoves, Zenon
  <2>5. PICK more \in Seq(Token) : more = Append(done, h)
    BY <2>1, <2>2, <2>4, CallMoves, Zenon
  <2>6. calls' \in Seq(Token) /\ more \o calls' = done \o calls
    <3>1. /\ Tail(calls) \in Seq(Token)
          /\ Append(done, Head(calls)) \o Tail(calls) = done \o calls
      <4>1. PICK cs \in Seq(Token) : cs = calls /\ cs # <<>>
        BY <2>1, <2>2
      <4>2. Tail(cs) \in Seq(Token) /\ Append(done, Head(cs)) \o Tail(cs) = done \o cs
        BY <4>1, CallMoves
      <4> QED
        BY <4>1, <4>2, Zenon
    <3> QED
      BY <2>1, <2>4, <2>5, <3>1, Zenon
  <2>7. Coded(more) = Coded(done) \o Appended(h)
    BY <2>4, <2>5, CodedFacts, Zenon
  <2>8. record' = Header(subject[1]) \o Coded(more)
    <3>1. PICK p \in Seq(Octet) : p = Header(subject[1])
      BY <2>2, InputFacts, HeaderFacts, Zenon
    <3>2. PICK q \in Seq(Octet) : q = Coded(done)
      BY CodedFacts, Zenon
    <3>3. PICK r \in Seq(Octet) : r = Appended(h)
      BY <2>4, AppendsSomething, Zenon
    <3>4. LeftFirst(p, q, r) = RightFirst(p, q, r)
      BY <3>1, <3>2, <3>3, EitherFirst
    <3>5. record' = LeftFirst(p, q, r)
      BY <2>1, <2>3, <2>4, <3>1, <3>2, <3>3, Zenon DEF LeftFirst
    <3>6. Header(subject[1]) \o Coded(more) = RightFirst(p, q, r)
      BY <2>7, <3>1, <3>2, <3>3, Zenon DEF RightFirst
    <3> QED
      BY <3>4, <3>5, <3>6, Zenon
  <2>9. more \o calls' = Calls(subject'[1], subject'[2])
        /\ record' = Header(subject'[1]) \o Coded(more)
        /\ pc' = "appending" /\ subject' \in Inputs
    BY <2>1, <2>2, <2>3, <2>6, <2>8, Zenon
  <2> QED
    BY <2>5, <2>6, <2>9, Zenon DEF RecordInProgress
<1>3. CASE Hash \/ HashFails
  BY <1>3 DEF Hash, HashFails, RecordInProgress
<1>4. CASE Write \/ Damage \/ Parse
  <2>1. /\ pc # "appending" /\ pc' # "appending"
        /\ record' = record /\ calls' = calls /\ subject' = subject
    BY <1>4 DEF Write, Damage, Parse
  <2> QED
    BY <2>1, Zenon DEF RecordInProgress
<1>5. CASE UNCHANGED vars
  BY <1>5, Zenon DEF vars, RecordInProgress
<1> QED
  BY <1>1, <1>2, <1>3, <1>4, <1>5 DEF Next

\* It is the record of one value, or of none while calls are left.
LEMMA RecordNames == RecordInProgress => RecordNamesValue
<1> SUFFICES ASSUME RecordInProgress, pc = "appending"
             PROVE  IF calls = <<>>
                    THEN \A entry \in Recorded : entry[1] = record => entry[2] = subject
                    ELSE record \notin WholeRecords
  BY Zenon DEF RecordNamesValue
<1>1. subject \in Inputs /\ calls \in Seq(Token)
  BY Zenon DEF RecordInProgress
<1>2. PICK done \in Seq(Token) : done \o calls = Calls(subject[1], subject[2])
                                 /\ record = Header(subject[1]) \o Coded(done)
  BY Zenon DEF RecordInProgress
<1>3. PICK d : d = subject[1] /\ d \in HashedDomains
  BY <1>1, InputFacts, Zenon
<1>4. PICK v : v = subject[2] /\ v \in ValueOf(d)
  BY <1>1, <1>3, InputFacts, Zenon
<1>5. PICK rest \in Seq(Octet) : rest = Coded(calls) /\ (calls # <<>> => rest # <<>>)
  BY <1>1, CodedTogether, Zenon
<1>6. record \in Seq(Octet) /\ RecordOf(d, v) = record \o rest
  <2>1. PICK p \in Seq(Octet) : p = Header(d)
    BY <1>3, HeaderFacts, Zenon
  <2>2. PICK q \in Seq(Octet) : q = Coded(done)
    BY CodedFacts, Zenon
  <2>3. LeftFirst(p, q, rest) = RightFirst(p, q, rest)
    BY <2>1, <2>2, <1>5, EitherFirst
  <2>4. Coded(Calls(d, v)) = q \o rest
    BY <1>1, <1>2, <1>3, <1>4, <1>5, <2>2, CodedTogether, Zenon
  <2>5. record = p \o q
    BY <1>2, <1>3, <2>1, <2>2, Zenon
  <2>6. RecordOf(d, v) = RightFirst(p, q, rest)
    BY <2>1, <2>4, Zenon DEF RecordOf, RightFirst
  <2>7. p \o q \in Seq(Octet)
    BY <2>1, <2>2, ConcatFacts, Zenon
  <2> QED
    BY <2>3, <2>5, <2>6, <2>7, Zenon DEF LeftFirst
<1>7. <<>> \in Seq(Octet)
  OBVIOUS
<1>8. ASSUME NEW input \in Inputs, RecordOf(input[1], input[2]) = record
      PROVE  calls = <<>> /\ input = subject
  <2>1. PICK e : e = input[1] /\ e \in HashedDomains
    BY InputFacts, Zenon
  <2>2. PICK w : w = input[2] /\ w \in ValueOf(e)
    BY <2>1, InputFacts, Zenon
  <2>3. SameBytes(e, w, rest, d, v, <<>>)
    <3>1. RecordOf(e, w) \o rest = RecordOf(d, v)
      BY <1>6, <1>8, <2>1, <2>2, Zenon
    <3>2. record \o rest \in Seq(Octet)
      BY <1>5, <1>6, ConcatFacts, Zenon
    <3>3. RecordOf(d, v) \o <<>> = RecordOf(d, v)
      BY <1>6, <3>2, ConcatEmptySeq, Zenon
    <3> QED
      BY <3>1, <3>3, Zenon DEF SameBytes
  <2>4. e = d /\ w = v /\ rest = <<>>
    <3>1. e \in HashedDomains /\ w \in ValueOf(e) /\ d \in HashedDomains /\ v \in ValueOf(d)
      BY <1>3, <1>4, <2>1, <2>2
    <3> QED
      BY <1>7, <2>3, <3>1, RecordTells, Zenon
  <2>5. input = <<d, v>> /\ subject = <<d, v>>
    BY <1>1, <1>3, <1>4, <2>1, <2>2, <2>4, InputFacts, Zenon
  <2> QED
    BY <1>5, <2>4, <2>5, Zenon
<1>9. ASSUME NEW entry \in Recorded
      PROVE  \E input \in Inputs : entry[1] = RecordOf(input[1], input[2]) /\ entry[2] = input
  BY DEF Recorded
<1>10. ASSUME record \in WholeRecords PROVE calls = <<>>
  <2>1. PICK entry \in Recorded : entry[1] = record
    BY <1>10, Zenon DEF WholeRecords
  <2> QED
    BY <1>8, <1>9, <2>1, Zenon
<1>11. ASSUME NEW entry \in Recorded, entry[1] = record PROVE entry[2] = subject
  BY <1>8, <1>9, <1>11, Zenon
<1> QED
  BY <1>10, <1>11, Zenon

-----------------------------------------------------------------------------
(* The text of a digest *)

\* What a text may be made of.
Symbols == Characters \cup {"v1", ":", "sha256"} \cup {HexDigits[n] : n \in 1..16}

\* What the assumption on digests says.
LEMMA SizeFacts == DigestSize \in Nat /\ DigestSize # 0 /\ AllDigests \subseteq DigestValue
  BY DigestAssumption DEF Unsigned, DigestValue

\* The sixteen digits are sixteen tokens, and none is a separator.
LEMMA DigitsDiffer ==
  /\ DOMAIN HexDigits = 1..16
  /\ \A m, n \in 1..16 : HexDigits[m] = HexDigits[n] => m = n
  /\ \A n \in 1..16 : HexDigits[n] # ":"
<1>1. PICK h : h = HexDigits
  OBVIOUS
<1>2. DOMAIN h = 1..16
  BY <1>1 DEF HexDigits
<1>3. /\ h[1] = "0" /\ h[2] = "1" /\ h[3] = "2" /\ h[4] = "3" /\ h[5] = "4" /\ h[6] = "5"
      /\ h[7] = "6" /\ h[8] = "7" /\ h[9] = "8" /\ h[10] = "9" /\ h[11] = "a" /\ h[12] = "b"
      /\ h[13] = "c" /\ h[14] = "d" /\ h[15] = "e" /\ h[16] = "f"
  BY <1>1 DEF HexDigits
<1>4. \A m, n \in 1..16 : h[m] = h[n] => m = n
  BY <1>3
<1>5. \A n \in 1..16 : h[n] # ":"
  BY <1>3
<1> QED
  BY <1>1, <1>2, <1>4, <1>5, Zenon

\* A digit and its value.
LEMMA HexFacts ==
  /\ \A c : HexValue(c) # None => HexValue(c) \in 0..15 /\ HexDigits[HexValue(c) + 1] = c
  /\ \A n \in 0..15 : HexValue(HexDigits[n + 1]) = n
<1> DEFINE values(c) == {n \in DOMAIN HexDigits : HexDigits[n] = c}
<1>1. \A c : HexValue(c) = IF values(c) = {} THEN None ELSE (CHOOSE n \in values(c) : TRUE) - 1
  BY Zenon DEF HexValue
<1>2. ASSUME NEW c, HexValue(c) # None
      PROVE  HexValue(c) \in 0..15 /\ HexDigits[HexValue(c) + 1] = c
  <2>1. values(c) # {}
    BY <1>1, <1>2, Zenon
  <2>2. PICK n : n = (CHOOSE m \in values(c) : TRUE)
    OBVIOUS
  <2>3. n \in values(c)
    BY <2>1, <2>2, Zenon
  <2>4. HexValue(c) = n - 1 /\ n \in 1..16 /\ HexDigits[n] = c
    BY <1>1, <2>1, <2>2, <2>3, DigitsDiffer, Zenon
  <2> QED
    BY <2>4
<1>3. ASSUME NEW n \in 0..15 PROVE HexValue(HexDigits[n + 1]) = n
  <2>1. PICK m \in 1..16 : m = n + 1
    OBVIOUS
  <2>2. PICK c : c = HexDigits[m]
    OBVIOUS
  <2>3. m \in values(c)
    BY <2>2, DigitsDiffer, Zenon
  <2>4. PICK k : k = (CHOOSE i \in values(c) : TRUE)
    OBVIOUS
  <2>5. k \in values(c)
    BY <2>3, <2>4, Zenon
  <2>6. k = m
    BY <2>2, <2>5, DigitsDiffer, Zenon
  <2>7. HexValue(c) = k - 1
    <3>1. values(c) # {}
      BY <2>3, Zenon
    <3> QED
      BY <1>1, <2>4, <3>1, Zenon
  <2>8. HexValue(c) = n
    BY <2>1, <2>6, <2>7
  <2> QED
    BY <2>1, <2>2, <2>8, Zenon
<1> QED
  BY <1>2, <1>3, Zenon

\* j is where the first separator at or after i is, or one past the end.
Separates(input, i, j) ==
  /\ j \in i..(Len(input) + 1)
  /\ j > Len(input) \/ input[j] = ":"
  /\ \A k \in i..(j - 1) : input[k] # ":"

\* find returns the first separator and nothing else.
LEMMA SeparatorFacts ==
  ASSUME NEW input, Len(input) \in Nat, NEW i \in 1..(Len(input) + 1)
  PROVE  /\ Separates(input, i, SeparatorFrom(input, i))
         /\ \A j : Separates(input, i, j) => SeparatorFrom(input, i) = j
<1> DEFINE T == {j \in i..(Len(input) + 1) : j > Len(input) \/ input[j] = ":"}
<1>1. T \subseteq Nat /\ Len(input) + 1 \in T
  OBVIOUS
<1>2. PICK j \in T : \A k \in T : j <= k
  BY <1>1, LeastNatural
<1>3. Separates(input, i, j)
  <2>1. j \in i..(Len(input) + 1) /\ (j > Len(input) \/ input[j] = ":")
    BY <1>2
  <2>2. ASSUME NEW k \in i..(j - 1), input[k] = ":" PROVE FALSE
    <3>1. k \in T
      BY <2>1, <2>2
    <3>2. j <= k
      BY <1>2, <3>1
    <3> QED
      BY <2>1, <3>2
  <2> QED
    BY <2>1, <2>2 DEF Separates
<1>4. SeparatorFrom(input, i) =
        CHOOSE m \in i..(Len(input) + 1) :
          /\ m > Len(input) \/ input[m] = ":"
          /\ \A k \in i..(m - 1) : input[k] # ":"
  BY Zenon DEF SeparatorFrom
<1>5. Separates(input, i, SeparatorFrom(input, i))
  <2>1. \E m \in i..(Len(input) + 1) :
          /\ m > Len(input) \/ input[m] = ":"
          /\ \A k \in i..(m - 1) : input[k] # ":"
    BY <1>3, Zenon DEF Separates
  <2> QED
    BY <1>4, <2>1, Zenon DEF Separates
<1>6. ASSUME NEW m, NEW n, Separates(input, i, m), Separates(input, i, n), m < n PROVE FALSE
  <2>1. m \in i..(n - 1) /\ m \in i..(Len(input) + 1) /\ n \in i..(Len(input) + 1)
    BY <1>6 DEF Separates
  <2>2. input[m] # ":"
    BY <1>6, <2>1, Zenon DEF Separates
  <2>3. m > Len(input)
    BY <1>6, <2>2, Zenon DEF Separates
  <2> QED
    BY <1>6, <2>1, <2>3
<1>7. ASSUME NEW m, Separates(input, i, m) PROVE SeparatorFrom(input, i) = m
  <2>1. PICK n : n = SeparatorFrom(input, i) /\ Separates(input, i, n)
    BY <1>5
  <2>2. ~ (m < n) /\ ~ (n < m)
    BY <1>6, <1>7, <2>1, Zenon
  <2>3. m \in Nat /\ n \in Nat
    BY <1>7, <2>1 DEF Separates
  <2> QED
    BY <2>1, <2>2, <2>3
<1> QED
  BY <1>5, <1>7, Zenon

\* The i-th digit of a digest's hexadecimal.
Nibble(d, i) == IF i % 2 = 1 THEN d[(i + 1) \div 2] \div 16 ELSE d[i \div 2] % 16

\* The hexadecimal of a digest has two digits for each byte.
LEMMA HexOfFacts ==
  ASSUME NEW d \in DigestValue
  PROVE  /\ HexOf(d) \in Seq(Symbols) /\ Len(HexOf(d)) = 2 * DigestSize
         /\ \A i \in 1..(2 * DigestSize) :
              Nibble(d, i) \in 0..15 /\ HexOf(d)[i] = HexDigits[Nibble(d, i) + 1]
<1>1. d \in [1..DigestSize -> Octet] /\ DigestSize \in Nat
  BY SizeFacts DEF DigestValue
<1>2. Len(d) = DigestSize
  BY <1>1
<1>3. HexOf(d) = [i \in 1..(2 * DigestSize) |-> HexDigits[Nibble(d, i) + 1]]
  BY <1>2, Zenon DEF HexOf, Nibble
<1>4. ASSUME NEW i \in 1..(2 * DigestSize) PROVE Nibble(d, i) \in 0..15
  <2>1. CASE i % 2 = 1
    <3>1. (i + 1) \div 2 \in 1..DigestSize
      BY <1>1, <2>1
    <3>2. d[(i + 1) \div 2] \in 0..255
      BY <1>1, <3>1 DEF Octet
    <3>3. d[(i + 1) \div 2] \div 16 \in 0..15
      BY <3>2
    <3> QED
      BY <2>1, <3>3, Zenon DEF Nibble
  <2>2. CASE i % 2 # 1
    <3>1. i \div 2 \in 1..DigestSize
      BY <1>1, <2>2
    <3>2. d[i \div 2] \in 0..255
      BY <1>1, <3>1 DEF Octet
    <3>3. d[i \div 2] % 16 \in 0..15
      BY <3>2
    <3> QED
      BY <2>2, <3>3, Zenon DEF Nibble
  <2> QED
    BY <2>1, <2>2
<1>5. \A i \in 1..(2 * DigestSize) : HexDigits[Nibble(d, i) + 1] \in Symbols
  <2>1. \A i \in 1..(2 * DigestSize) : Nibble(d, i) + 1 \in 1..16
    BY <1>4
  <2> QED
    BY <2>1, Zenon DEF Symbols
<1>6. PICK h : h = HexOf(d)
  OBVIOUS
<1>7. h = [i \in 1..(2 * DigestSize) |-> HexDigits[Nibble(d, i) + 1]]
  BY <1>3, <1>6, Zenon
<1>8. \A i \in 1..(2 * DigestSize) : h[i] = HexDigits[Nibble(d, i) + 1]
  BY <1>7, Zenon
<1>9. h \in [1..(2 * DigestSize) -> Symbols]
  BY <1>5, <1>7, Zenon
<1>10. 2 * DigestSize \in Nat
  BY <1>1
<1>11. h \in Seq(Symbols) /\ Len(h) = 2 * DigestSize
  BY <1>9, <1>10
<1> QED
  BY <1>4, <1>6, <1>8, <1>11, Zenon

\* What string returns, token by token.
LEMMA SpellingFacts ==
  ASSUME NEW d \in DigestValue, NEW t, t = DigestString(d)
  PROVE  /\ t \in Seq(Symbols) /\ Len(t) = 4 + 2 * DigestSize
         /\ t[1] = "v1" /\ t[2] = ":" /\ t[3] = "sha256" /\ t[4] = ":"
         /\ \A i \in 1..(2 * DigestSize) :
              Nibble(d, i) \in 0..15 /\ t[4 + i] = HexDigits[Nibble(d, i) + 1]
<1>1. PICK h \in Seq(Symbols) : h = HexOf(d) /\ Len(h) = 2 * DigestSize
  BY HexOfFacts, Zenon
<1>2. PICK p \in Seq(Symbols) :
        /\ p = <<"v1", ":", "sha256", ":">> /\ Len(p) = 4
        /\ p[1] = "v1" /\ p[2] = ":" /\ p[3] = "sha256" /\ p[4] = ":"
  <2>1. "v1" \in Symbols /\ ":" \in Symbols /\ "sha256" \in Symbols
    BY DEF Symbols
  <2>2. <<"v1", ":", "sha256", ":">> \in Seq(Symbols)
    BY <2>1
  <2> QED
    BY <2>2
<1>3. t = p \o h
  BY <1>1, <1>2, Zenon DEF DigestString
<1>4. /\ t \in Seq(Symbols) /\ Len(t) = Len(p) + Len(h)
      /\ \A i \in 1..Len(p) : t[i] = p[i]
      /\ \A i \in 1..Len(h) : t[Len(p) + i] = h[i]
  <2>1. /\ p \o h \in Seq(Symbols) /\ Len(p \o h) = Len(p) + Len(h)
        /\ \A i \in 1..Len(p) : (p \o h)[i] = p[i]
        /\ \A i \in 1..Len(h) : (p \o h)[Len(p) + i] = h[i]
    BY <1>1, <1>2, ConcatFacts
  <2> QED
    BY <1>3, <2>1, Zenon
<1>5. t[1] = "v1" /\ t[2] = ":" /\ t[3] = "sha256" /\ t[4] = ":"
  BY <1>2, <1>4
<1>6. \A i \in 1..(2 * DigestSize) : t[4 + i] = h[i]
  BY <1>1, <1>2, <1>4, Zenon
<1>7. \A i \in 1..(2 * DigestSize) :
        Nibble(d, i) \in 0..15 /\ h[i] = HexDigits[Nibble(d, i) + 1]
  BY <1>1, HexOfFacts, Zenon
<1> QED
  BY <1>1, <1>2, <1>4, <1>5, <1>6, <1>7, Zenon

\* A part of one token is that token.
LEMMA OneWord ==
  ASSUME NEW T, NEW t \in Seq(T), NEW i \in 1..Len(t)
  PROVE  SubSeq(t, i, i) = <<t[i]>>
<1>1. PICK x \in T : x = t[i]
  OBVIOUS
<1>2. PICK w \in Seq(T) : w = <<x>> /\ Len(w) = 1 /\ w[1] = x
  <2>1. <<x>> \in Seq(T) /\ Len(<<x>>) = 1 /\ <<x>>[1] = x
    OBVIOUS
  <2> QED
    BY <2>1, Zenon
<1>3. Len(t) \in Nat
  OBVIOUS
<1>4. PICK u \in Seq(T) : u = SubSeq(t, i, i) /\ Len(u) = 1 /\ u[1] = x
  <2>1. SubSeq(t, i, i) \in Seq(T)
    BY <1>3
  <2>2. Len(SubSeq(t, i, i)) = 1
    BY <1>3
  <2>3. SubSeq(t, i, i)[1] = x
    BY <1>1, <1>3
  <2> QED
    BY <2>1, <2>2, <2>3, Zenon
<1>5. u = w
  <2>1. \A k \in 1..Len(u) : u[k] = w[k]
    BY <1>2, <1>4
  <2> QED
    BY <1>2, <1>4, <2>1, SeqEqual
<1> QED
  BY <1>1, <1>2, <1>4, <1>5, Zenon

\* Where the words of a text are that begins as a digest's text does.
LEMMA WordsOf ==
  ASSUME NEW t \in Seq(Symbols), Len(t) >= 4,
         t[1] = "v1", t[2] = ":", t[3] = "sha256", t[4] = ":",
         \A i \in 5..Len(t) : t[i] # ":"
  PROVE  /\ WellFormed(t) /\ Version(t) = <<"v1">> /\ Algorithm(t) = <<"sha256">>
         /\ Hexadecimal(t) = SubSeq(t, 5, Len(t))
<1>1. Len(t) \in Nat
  OBVIOUS
<1>2. First(t) = 2
  <2>1. Separates(t, 1, 2)
    BY <1>1 DEF Separates
  <2>2. 1 \in 1..(Len(t) + 1)
    BY <1>1
  <2> QED
    BY <1>1, <2>1, <2>2, SeparatorFacts, Zenon DEF First
<1>3. Second(t) = 4
  <2>1. Separates(t, 3, 4)
    BY <1>1 DEF Separates
  <2>2. 3 \in 1..(Len(t) + 1) /\ First(t) + 1 = 3
    BY <1>1, <1>2
  <2> QED
    BY <1>1, <2>1, <2>2, SeparatorFacts, Zenon DEF Second
<1>4. SeparatorFrom(t, Second(t) + 1) = Len(t) + 1
  <2>1. Separates(t, 5, Len(t) + 1)
    BY <1>1 DEF Separates
  <2>2. 5 \in 1..(Len(t) + 1) /\ Second(t) + 1 = 5
    BY <1>1, <1>3
  <2> QED
    BY <1>1, <2>1, <2>2, SeparatorFacts, Zenon
<1>5. WellFormed(t)
  BY <1>1, <1>2, <1>3, <1>4 DEF WellFormed
<1>6. Version(t) = <<"v1">>
  <2>1. First(t) - 1 = 1 /\ 1 \in 1..Len(t)
    BY <1>1, <1>2
  <2>2. SubSeq(t, 1, 1) = <<"v1">>
    BY <2>1, OneWord, Zenon
  <2> QED
    BY <2>1, <2>2, Zenon DEF Version
<1>7. Algorithm(t) = <<"sha256">>
  <2>1. First(t) + 1 = 3 /\ Second(t) - 1 = 3
    BY <1>2, <1>3
  <2>2. SubSeq(t, 3, 3) = <<"sha256">>
    <3>1. 3 \in 1..Len(t)
      BY <1>1
    <3> QED
      BY <3>1, OneWord, Zenon
  <2> QED
    BY <2>1, <2>2, Zenon DEF Algorithm
<1>8. Hexadecimal(t) = SubSeq(t, 5, Len(t))
  BY <1>3 DEF Hexadecimal
<1> QED
  BY <1>5, <1>6, <1>7, <1>8

\* How a text begins whose first two words are those of a digest's text.
LEMMA BeginningOf ==
  ASSUME NEW t \in Seq(Symbols), WellFormed(t),
         Version(t) = <<"v1">>, Algorithm(t) = <<"sha256">>
  PROVE  /\ Len(t) >= 4 /\ t[1] = "v1" /\ t[2] = ":" /\ t[3] = "sha256" /\ t[4] = ":"
         /\ Hexadecimal(t) = SubSeq(t, 5, Len(t))
<1>1. PICK f : f = First(t)
  OBVIOUS
<1>2. PICK g : g = Second(t)
  OBVIOUS
<1>3. Len(t) \in Nat
  OBVIOUS
<1>4. f \in 1..Len(t) /\ t[f] = ":"
  <2>1. 1 \in 1..(Len(t) + 1)
    BY <1>3
  <2>2. Separates(t, 1, f)
    BY <1>1, <1>3, <2>1, SeparatorFacts, Zenon DEF First
  <2>3. f <= Len(t)
    BY <1>1, Zenon DEF WellFormed
  <2> QED
    BY <1>3, <2>2, <2>3 DEF Separates
<1>5. g \in (f + 1)..Len(t) /\ t[g] = ":"
  <2>1. f + 1 \in 1..(Len(t) + 1)
    BY <1>3, <1>4
  <2>2. Separates(t, f + 1, g)
    BY <1>1, <1>2, <1>3, <2>1, SeparatorFacts, Zenon DEF Second
  <2>3. g <= Len(t)
    BY <1>2, Zenon DEF WellFormed
  <2> QED
    BY <1>3, <1>4, <2>2, <2>3 DEF Separates
<1>6. SubSeq(t, 1, f - 1) = <<"v1">>
  BY <1>1, Zenon DEF Version
<1>7. f = 2 /\ t[1] = "v1"
  <2>1. Len(SubSeq(t, 1, f - 1)) = 1 /\ SubSeq(t, 1, f - 1)[1] = "v1"
    <3>1. PICK w : w = <<"v1">> /\ Len(w) = 1 /\ w[1] = "v1"
      OBVIOUS
    <3> QED
      BY <1>6, <3>1, Zenon
  <2>2. Len(SubSeq(t, 1, f - 1)) = f - 1
    BY <1>3, <1>4
  <2>3. f = 2
    BY <1>4, <2>1, <2>2
  <2>4. SubSeq(t, 1, f - 1)[1] = t[1]
    BY <1>3, <1>4, <2>3
  <2> QED
    BY <2>1, <2>3, <2>4
<1>8. SubSeq(t, 3, g - 1) = <<"sha256">>
  <2>1. f + 1 = 3
    BY <1>7
  <2> QED
    BY <1>1, <1>2, <2>1, Zenon DEF Algorithm
<1>9. g = 4 /\ t[3] = "sha256"
  <2>1. Len(SubSeq(t, 3, g - 1)) = 1 /\ SubSeq(t, 3, g - 1)[1] = "sha256"
    <3>1. PICK w : w = <<"sha256">> /\ Len(w) = 1 /\ w[1] = "sha256"
      OBVIOUS
    <3> QED
      BY <1>8, <3>1, Zenon
  <2>2. Len(SubSeq(t, 3, g - 1)) = g - 3
    BY <1>3, <1>5, <1>7
  <2>3. g = 4
    BY <1>5, <1>7, <2>1, <2>2
  <2>4. SubSeq(t, 3, g - 1)[1] = t[3]
    BY <1>3, <1>5, <2>3
  <2> QED
    BY <2>1, <2>3, <2>4
<1>10. Hexadecimal(t) = SubSeq(t, 5, Len(t))
  BY <1>2, <1>9 DEF Hexadecimal
<1> QED
  BY <1>3, <1>4, <1>5, <1>7, <1>9, <1>10

\* What the hexadecimal of a text is when the text is accepted.
Accepted(t) ==
  /\ WellFormed(t) /\ Version(t) = <<"v1">> /\ Algorithm(t) = <<"sha256">>
  /\ Len(Hexadecimal(t)) = 2 * DigestSize
  /\ \A i \in 1..(2 * DigestSize) : HexValue(Hexadecimal(t)[i]) # None

\* parse yields no error exactly for what is accepted.
LEMMA AcceptedFacts ==
  ASSUME NEW t
  PROVE  /\ ParseError(t, DigestSize) = None <=> Accepted(t)
         /\ ParseError(t, DigestSize) \in Errors \cup {None}
<1>1. /\ None # "invalid_format" /\ None # "unsupported_version"
      /\ None # "unsupported_algorithm" /\ None # "invalid_length" /\ None # "invalid_hex"
  BY NoneAssumption, Zenon DEF Errors
<1>2. PICK bad : bad = (\E i \in 1..(2 * DigestSize) : HexValue(Hexadecimal(t)[i]) = None)
  OBVIOUS
<1>3. ParseError(t, DigestSize) =
        IF ~WellFormed(t) THEN "invalid_format"
        ELSE IF Version(t) # <<"v1">> THEN "unsupported_version"
        ELSE IF Algorithm(t) # <<"sha256">> THEN "unsupported_algorithm"
        ELSE IF Len(Hexadecimal(t)) # 2 * DigestSize THEN "invalid_length"
        ELSE IF \E i \in 1..(2 * DigestSize) : HexValue(Hexadecimal(t)[i]) = None
             THEN "invalid_hex"
        ELSE None
  BY Zenon DEF ParseError
<1>4. ParseError(t, DigestSize) = None <=> Accepted(t)
  BY <1>1, <1>3, Zenon DEF Accepted
<1>5. ParseError(t, DigestSize) \in Errors \cup {None}
  BY <1>3, Zenon DEF Errors
<1> QED
  BY <1>4, <1>5, Zenon

\* What string returns is accepted.
LEMMA SpellingAccepted ==
  ASSUME NEW d \in DigestValue
  PROVE  Accepted(DigestString(d))
<1>1. PICK t \in Seq(Symbols) :
        /\ t = DigestString(d) /\ Len(t) = 4 + 2 * DigestSize
        /\ t[1] = "v1" /\ t[2] = ":" /\ t[3] = "sha256" /\ t[4] = ":"
        /\ \A i \in 1..(2 * DigestSize) :
             Nibble(d, i) \in 0..15 /\ t[4 + i] = HexDigits[Nibble(d, i) + 1]
  BY SpellingFacts, Zenon
<1>2. DigestSize \in Nat
  BY SizeFacts
<1>3. \A i \in 1..(2 * DigestSize) : t[4 + i] # ":" /\ HexValue(t[4 + i]) # None
  <2>1. ASSUME NEW i \in 1..(2 * DigestSize)
        PROVE  t[4 + i] # ":" /\ HexValue(t[4 + i]) # None
    <3>1. PICK n \in 0..15 : n = Nibble(d, i)
      BY <1>1
    <3>2. n + 1 \in 1..16
      OBVIOUS
    <3>3. t[4 + i] = HexDigits[n + 1]
      BY <1>1, <3>1, Zenon
    <3>4. HexDigits[n + 1] # ":"
      BY <3>2, DigitsDiffer, Zenon
    <3>5. HexValue(HexDigits[n + 1]) = n /\ n # None
      BY HexFacts, NoneAssumption, Zenon
    <3> QED
      BY <3>3, <3>4, <3>5, Zenon
  <2> QED
    BY <2>1
<1>4. \A k \in 5..Len(t) : t[k] # ":"
  <2>1. ASSUME NEW k \in 5..Len(t) PROVE t[k] # ":"
    <3>1. k - 4 \in 1..(2 * DigestSize) /\ 4 + (k - 4) = k
      BY <1>1, <1>2
    <3>2. t[4 + (k - 4)] # ":"
      BY <1>3, <3>1, Zenon
    <3> QED
      BY <3>1, <3>2
  <2> QED
    BY <2>1
<1>5. Len(t) >= 4
  BY <1>1, <1>2
<1>6. /\ WellFormed(t) /\ Version(t) = <<"v1">> /\ Algorithm(t) = <<"sha256">>
      /\ Hexadecimal(t) = SubSeq(t, 5, Len(t))
  BY <1>1, <1>4, <1>5, WordsOf
<1>7. PICK h : h = SubSeq(t, 5, Len(t))
  OBVIOUS
<1>8. Len(h) = 2 * DigestSize /\ \A i \in 1..(2 * DigestSize) : h[i] = t[4 + i]
  BY <1>1, <1>2, <1>7
<1>9. \A i \in 1..(2 * DigestSize) : HexValue(h[i]) # None
  BY <1>3, <1>8, Zenon
<1>10. Accepted(t)
  BY <1>6, <1>7, <1>8, <1>9, Zenon DEF Accepted
<1> QED
  BY <1>1, <1>10, Zenon

\* The digest p has the value of two digits of h for each of its bytes.
Reads(p, h) ==
  /\ p \in DigestValue
  /\ \A i \in 1..(2 * DigestSize) :
       HexValue(h[i]) \in 0..15 /\ h[i] = HexDigits[HexValue(h[i]) + 1]
  /\ \A i \in 1..DigestSize : p[i] = 16 * HexValue(h[2 * i - 1]) + HexValue(h[2 * i])

\* What parse yields is a digest, read off two digits at a time.
LEMMA ParsedFacts ==
  ASSUME NEW t, Accepted(t)
  PROVE  Reads(ParsedDigest(t, DigestSize), Hexadecimal(t))
<1> PICK h : h = Hexadecimal(t)
  OBVIOUS
<1> PICK p : p = ParsedDigest(t, DigestSize)
  OBVIOUS
<1>1. \A i \in 1..(2 * DigestSize) :
        HexValue(h[i]) \in 0..15 /\ h[i] = HexDigits[HexValue(h[i]) + 1]
  <2>1. \A i \in 1..(2 * DigestSize) : HexValue(h[i]) # None
    BY Zenon DEF Accepted
  <2> QED
    BY <2>1, HexFacts, Zenon
<1>2. p = [i \in 1..DigestSize |-> 16 * HexValue(h[2 * i - 1]) + HexValue(h[2 * i])]
  BY Zenon DEF ParsedDigest
<1>3. ASSUME NEW i \in 1..DigestSize
      PROVE  16 * HexValue(h[2 * i - 1]) + HexValue(h[2 * i]) \in Octet
  <2>1. 2 * i - 1 \in 1..(2 * DigestSize) /\ 2 * i \in 1..(2 * DigestSize)
    BY SizeFacts
  <2>2. HexValue(h[2 * i - 1]) \in 0..15 /\ HexValue(h[2 * i]) \in 0..15
    BY <1>1, <2>1, Zenon
  <2> QED
    BY <2>2 DEF Octet
<1>4. p \in DigestValue
  BY <1>2, <1>3, Zenon DEF DigestValue
<1> QED
  <2>1. \A i \in 1..DigestSize : p[i] = 16 * HexValue(h[2 * i - 1]) + HexValue(h[2 * i])
    BY <1>2, Zenon
  <2>2. Reads(p, h)
    BY <1>1, <1>4, <2>1, Zenon DEF Reads
  <2> QED
    BY <2>2, Zenon

\* The two halves of a byte.
LEMMA HalvesOf ==
  ASSUME NEW a \in 0..15, NEW b \in 0..15
  PROVE  (16 * a + b) \div 16 = a /\ (16 * a + b) % 16 = b
<1>1. PICK n \in Nat : n = 16 * a + b
  OBVIOUS
<1>2. n = 16 * (n \div 16) + (n % 16) /\ n % 16 \in 0..15 /\ n \div 16 \in Nat
  OBVIOUS
<1>3. n \div 16 = a /\ n % 16 = b
  BY <1>1, <1>2
<1> QED
  BY <1>1, <1>3, Zenon

\* What is accepted is what string returns for the digest it yields.
LEMMA AcceptedSpelling ==
  ASSUME NEW t \in Seq(Symbols), Accepted(t)
  PROVE  t = DigestString(ParsedDigest(t, DigestSize))
<1>1. PICK p : p = ParsedDigest(t, DigestSize)
  OBVIOUS
<1>2. PICK h : h = Hexadecimal(t)
  OBVIOUS
<1>3. /\ p \in DigestValue
      /\ \A i \in 1..(2 * DigestSize) :
           HexValue(h[i]) \in 0..15 /\ h[i] = HexDigits[HexValue(h[i]) + 1]
      /\ \A i \in 1..DigestSize : p[i] = 16 * HexValue(h[2 * i - 1]) + HexValue(h[2 * i])
  <2>1. Reads(p, h)
    BY <1>1, <1>2, ParsedFacts, Zenon
  <2> QED
    BY <2>1, Zenon DEF Reads
<1>4. /\ Len(t) >= 4 /\ t[1] = "v1" /\ t[2] = ":" /\ t[3] = "sha256" /\ t[4] = ":"
      /\ h = SubSeq(t, 5, Len(t)) /\ Len(h) = 2 * DigestSize
  BY <1>2, BeginningOf, Zenon DEF Accepted
<1>5. PICK u \in Seq(Symbols) :
        /\ u = DigestString(p) /\ Len(u) = 4 + 2 * DigestSize
        /\ u[1] = "v1" /\ u[2] = ":" /\ u[3] = "sha256" /\ u[4] = ":"
        /\ \A i \in 1..(2 * DigestSize) :
             Nibble(p, i) \in 0..15 /\ u[4 + i] = HexDigits[Nibble(p, i) + 1]
  BY <1>3, SpellingFacts, Zenon
<1>6. DigestSize \in Nat /\ Len(t) \in Nat
  BY SizeFacts
<1>7. Len(t) = 4 + 2 * DigestSize
  <2>1. Len(SubSeq(t, 5, Len(t))) = IF 5 <= Len(t) THEN Len(t) - 5 + 1 ELSE 0
    BY <1>4, <1>6, SubSeqProperties
  <2> QED
    BY <1>4, <1>6, <2>1
<1>8. \A i \in 1..(2 * DigestSize) : h[i] = t[4 + i]
  BY <1>4, <1>6, <1>7
<1>9. ASSUME NEW i \in 1..(2 * DigestSize) PROVE Nibble(p, i) = HexValue(h[i])
  <2>1. CASE i % 2 = 1
    <3>1. PICK k \in 1..DigestSize : k = (i + 1) \div 2 /\ 2 * k - 1 = i /\ 2 * k \in 1..(2 * DigestSize)
      BY <1>6, <2>1
    <3>2. p[k] = 16 * HexValue(h[i]) + HexValue(h[2 * k])
      BY <1>3, <3>1, Zenon
    <3>3. HexValue(h[i]) \in 0..15 /\ HexValue(h[2 * k]) \in 0..15
      BY <1>3, <3>1, Zenon
    <3>4. p[k] \div 16 = HexValue(h[i])
      <4>1. (16 * HexValue(h[i]) + HexValue(h[2 * k])) \div 16 = HexValue(h[i])
        BY <3>3, HalvesOf
      <4> QED
        BY <3>2, <4>1, Zenon
    <3> QED
      BY <2>1, <3>1, <3>4, Zenon DEF Nibble
  <2>2. CASE i % 2 # 1
    <3>1. PICK k \in 1..DigestSize : k = i \div 2 /\ 2 * k = i /\ 2 * k - 1 \in 1..(2 * DigestSize)
      BY <1>6, <2>2
    <3>2. p[k] = 16 * HexValue(h[2 * k - 1]) + HexValue(h[i])
      BY <1>3, <3>1, Zenon
    <3>3. HexValue(h[i]) \in 0..15 /\ HexValue(h[2 * k - 1]) \in 0..15
      BY <1>3, <3>1, Zenon
    <3>4. p[k] % 16 = HexValue(h[i])
      BY <3>2, <3>3, HalvesOf, Zenon
    <3> QED
      BY <2>2, <3>1, <3>4, Zenon DEF Nibble
  <2> QED
    BY <2>1, <2>2
<1>10. \A i \in 1..(2 * DigestSize) : t[4 + i] = u[4 + i]
  BY <1>3, <1>5, <1>8, <1>9, Zenon
<1>11. \A k \in 1..Len(t) : t[k] = u[k]
  <2>1. ASSUME NEW k \in 1..Len(t) PROVE t[k] = u[k]
    <3>1. CASE k >= 5
      <4>1. k - 4 \in 1..(2 * DigestSize) /\ 4 + (k - 4) = k
        BY <1>6, <1>7, <3>1
      <4>2. t[4 + (k - 4)] = u[4 + (k - 4)]
        BY <1>10, <4>1, Zenon
      <4> QED
        BY <4>1, <4>2
    <3>2. CASE k \in 1..4
      BY <1>4, <1>5, <3>2
    <3>3. k >= 5 \/ k \in 1..4
      BY <1>6
    <3> QED
      BY <3>1, <3>2, <3>3
  <2> QED
    BY <2>1
<1>12. Len(t) = Len(u)
  BY <1>5, <1>7
<1>13. t = u
  BY <1>11, <1>12, SeqEqual
<1> QED
  BY <1>1, <1>5, <1>13, Zenon

-----------------------------------------------------------------------------
(* The text while it is written, damaged and parsed *)

TextInProgress ==
  /\ pc \in {"identified", "written"} => digest \in AllDigests
  /\ pc = "written" => text = DigestString(digest)
  /\ text \in Seq(Symbols)
  /\ TextNamesDigest

IdentityInv == IdentificationTypeOK /\ RecordInProgress /\ TextInProgress

\* A text stays a text when one token of it is replaced, dropped or inserted.
LEMMA DamagedFacts ==
  ASSUME NEW t \in Seq(Symbols), NEW i \in DOMAIN t
  PROVE  /\ RemoveAt(t, i) \in Seq(Symbols)
         /\ \A char \in Characters :
              [t EXCEPT ![i] = char] \in Seq(Symbols) /\ InsertAt(t, i, char) \in Seq(Symbols)
<1>0. ASSUME NEW m \in 1..(Len(t) + 1), NEW n \in 0..Len(t)
      PROVE  SubSeq(t, m, n) \in Seq(Symbols)
  <2>1. m \in Int /\ n \in Int /\ \A k \in m..n : t[k] \in Symbols
    OBVIOUS
  <2> QED
    BY <2>1, SubSeqProperties
<1>1. Len(t) \in Nat /\ i \in 1..Len(t)
  OBVIOUS
<1>2. PICK p \in Seq(Symbols) : p = SubSeq(t, 1, i - 1)
  <2>1. 1 \in 1..(Len(t) + 1) /\ i - 1 \in 0..Len(t)
    BY <1>1
  <2>2. SubSeq(t, 1, i - 1) \in Seq(Symbols)
    BY <1>0, <2>1, Zenon
  <2> QED
    BY <2>2, Zenon
<1>3. PICK q \in Seq(Symbols) : q = SubSeq(t, i + 1, Len(t))
  <2>1. i + 1 \in 1..(Len(t) + 1) /\ Len(t) \in 0..Len(t)
    BY <1>1
  <2>2. SubSeq(t, i + 1, Len(t)) \in Seq(Symbols)
    BY <1>0, <2>1, Zenon
  <2> QED
    BY <2>2, Zenon
<1>4. PICK r \in Seq(Symbols) : r = SubSeq(t, i, Len(t))
  <2>1. i \in 1..(Len(t) + 1) /\ Len(t) \in 0..Len(t)
    BY <1>1
  <2>2. SubSeq(t, i, Len(t)) \in Seq(Symbols)
    BY <1>0, <2>1, Zenon
  <2> QED
    BY <2>2, Zenon
<1>5. p \o q \in Seq(Symbols)
  BY <1>2, <1>3, ConcatFacts
<1>6. ASSUME NEW char \in Characters
      PROVE  [t EXCEPT ![i] = char] \in Seq(Symbols) /\ InsertAt(t, i, char) \in Seq(Symbols)
  <2>1. char \in Symbols
    BY DEF Symbols
  <2>2. [t EXCEPT ![i] = char] \in Seq(Symbols)
    BY <1>1, <2>1
  <2>3. <<char>> \in Seq(Symbols)
    BY <2>1
  <2>4. p \o <<char>> \in Seq(Symbols)
    BY <1>2, <2>3
  <2>5. (p \o <<char>>) \o r \in Seq(Symbols)
    BY <1>4, <2>4, ConcatFacts
  <2>6. InsertAt(t, i, char) = (p \o <<char>>) \o r
    BY <1>2, <1>4, Zenon DEF InsertAt
  <2> QED
    BY <2>2, <2>5, <2>6, Zenon
<1>7. RemoveAt(t, i) = p \o q
  BY <1>2, <1>3, Zenon DEF RemoveAt
<1> QED
  BY <1>5, <1>6, <1>7, Zenon

\* The invariant holds before anything is identified.
LEMMA IdentityInitially == Init => IdentityInv
<1> SUFFICES ASSUME Init PROVE IdentityInv
  OBVIOUS
<1>1. IdentificationTypeOK
  BY DEF Init, IdentificationTypeOK
<1>2. TextInProgress
  <2>1. <<>> \in Seq(Symbols)
    OBVIOUS
  <2> QED
    BY <2>1, Zenon DEF Init, TextInProgress, TextNamesDigest
<1> QED
  BY <1>1, <1>2, RecordInitially DEF IdentityInv

\* What RecordInProgress says of the bytes.
LEMMA RecordBytes == RecordInProgress => \A i \in DOMAIN record : record[i] \in Octet
<1> SUFFICES ASSUME RecordInProgress PROVE record \in Seq(Octet)
  OBVIOUS
<1>1. CASE pc = "appending"
  <2>1. PICK done \in Seq(Token) : record = Header(subject[1]) \o Coded(done)
    BY <1>1, Zenon DEF RecordInProgress
  <2>2. subject \in Inputs
    BY <1>1, Zenon DEF RecordInProgress
  <2>3. Header(subject[1]) \in Seq(Octet) /\ Coded(done) \in Seq(Octet)
    BY <2>2, InputFacts, HeaderFacts, CodedFacts, Zenon
  <2> QED
    BY <2>1, <2>3, ConcatFacts, Zenon
<1>2. CASE pc # "appending"
  BY <1>2 DEF RecordInProgress
<1> QED
  BY <1>1, <1>2

\* What RecordInProgress says of the calls.
LEMMA RecordCalls == RecordInProgress => calls \in Seq(Token)
<1> SUFFICES ASSUME RecordInProgress PROVE calls \in Seq(Token)
  OBVIOUS
<1>1. <<>> \in Seq(Token)
  OBVIOUS
<1> QED
  BY <1>1, Zenon DEF RecordInProgress

\* Every step keeps the invariant.
LEMMA IdentityStep == IdentityInv /\ [Next]_vars => IdentityInv'
<1> SUFFICES ASSUME IdentityInv, [Next]_vars PROVE IdentityInv'
  OBVIOUS
<1>1. RecordInProgress'
  BY RecordStep DEF IdentityInv
<1>2. (calls \in Seq(Token) /\ \A i \in DOMAIN record : record[i] \in Octet)'
  BY <1>1, RecordBytes, RecordCalls, PTL
<1>3. IdentificationTypeOK /\ TextInProgress
  BY DEF IdentityInv
<1>4. CASE Open
  <2>1. /\ pc = "idle" /\ pc' = "appending" /\ subject' \in Inputs
        /\ digest' = digest /\ text' = text /\ thrown' = thrown
    BY <1>4, Zenon DEF Open
  <2>2. IdentificationTypeOK'
    BY <1>2, <1>3, <2>1, Zenon DEF IdentificationTypeOK
  <2>3. TextInProgress'
    BY <1>3, <2>1 DEF TextInProgress, TextNamesDigest
  <2> QED
    BY <1>1, <2>2, <2>3 DEF IdentityInv
<1>5. CASE AppendNext
  <2>1. /\ pc' = pc /\ subject' = subject
        /\ digest' = digest /\ text' = text /\ thrown' = thrown
    BY <1>5, Zenon DEF AppendNext
  <2>2. IdentificationTypeOK'
    BY <1>2, <1>3, <2>1, Zenon DEF IdentificationTypeOK
  <2>3. TextInProgress'
    BY <1>3, <2>1, Zenon DEF TextInProgress, TextNamesDigest
  <2> QED
    BY <1>1, <2>2, <2>3 DEF IdentityInv
<1>6. CASE Hash
  <2>1. /\ pc' = "identified" /\ subject' = None
        /\ digest' \in AllDigests /\ text' = text /\ thrown' = thrown
    BY <1>6, Zenon DEF Hash
  <2>2. IdentificationTypeOK'
    BY <1>2, <1>3, <2>1, SizeFacts DEF IdentificationTypeOK
  <2>3. TextInProgress'
    BY <1>3, <2>1 DEF TextInProgress, TextNamesDigest
  <2> QED
    BY <1>1, <2>2, <2>3 DEF IdentityInv
<1>7. CASE HashFails
  <2>1. /\ pc' = "refused" /\ subject' = None
        /\ digest' = digest /\ text' = text /\ thrown' = "state_error"
    BY <1>7, Zenon DEF HashFails
  <2>2. IdentificationTypeOK'
    BY <1>2, <1>3, <2>1 DEF IdentificationTypeOK, Errors
  <2>3. TextInProgress'
    BY <1>3, <2>1 DEF TextInProgress, TextNamesDigest
  <2> QED
    BY <1>1, <2>2, <2>3 DEF IdentityInv
<1>8. CASE Write
  <2>1. /\ pc = "identified" /\ pc' = "written" /\ subject' = subject
        /\ digest' = digest /\ text' = DigestString(digest) /\ thrown' = thrown
    BY <1>8, Zenon DEF Write
  <2>2. IdentificationTypeOK'
    BY <1>2, <1>3, <2>1 DEF IdentificationTypeOK
  <2>3. digest \in AllDigests /\ digest \in DigestValue
    BY <1>3, <2>1, SizeFacts DEF TextInProgress
  <2>4. text' \in Seq(Symbols)
    BY <2>1, <2>3, SpellingFacts, Zenon
  <2>5. TextInProgress'
    BY <2>1, <2>3, <2>4 DEF TextInProgress, TextNamesDigest
  <2> QED
    BY <1>1, <2>2, <2>5 DEF IdentityInv
<1>9. CASE Damage
  <2>1. /\ pc' = "damaged" /\ subject' = subject
        /\ digest' = None /\ thrown' = thrown
    BY <1>9, Zenon DEF Damage
  <2>2. IdentificationTypeOK'
    BY <1>2, <1>3, <2>1 DEF IdentificationTypeOK
  <2>3. text' \in Seq(Symbols)
    <3>1. text \in Seq(Symbols)
      BY <1>3, Zenon DEF TextInProgress
    <3>2. PICK i \in DOMAIN text :
            \/ \E char \in Characters :
                 \/ text' = [text EXCEPT ![i] = char]
                 \/ text' = InsertAt(text, i, char)
            \/ text' = RemoveAt(text, i)
      BY <1>9, Zenon DEF Damage
    <3> QED
      BY <3>1, <3>2, DamagedFacts, Zenon
  <2>4. TextInProgress'
    BY <2>1, <2>3 DEF TextInProgress, TextNamesDigest
  <2> QED
    BY <1>1, <2>2, <2>4 DEF IdentityInv
<1>10. CASE Parse
  <2>1. subject' = subject /\ text' = text /\ text \in Seq(Symbols)
    BY <1>3, <1>10, Zenon DEF Parse, TextInProgress
  <2>2. CASE ParseError(text, DigestSize) = None
    <3>1. digest' = ParsedDigest(text, DigestSize) /\ thrown' = None /\ pc' = "parsed"
      BY <1>10, <2>2, Zenon DEF Parse
    <3>2. Accepted(text)
      BY <2>2, AcceptedFacts, Zenon
    <3>3. digest' \in DigestValue
      BY <3>1, <3>2, ParsedFacts, Zenon DEF Reads
    <3>4. text = DigestString(digest')
      BY <2>1, <3>1, <3>2, AcceptedSpelling, Zenon
    <3>5. IdentificationTypeOK'
      BY <1>2, <1>3, <2>1, <3>1, <3>3 DEF IdentificationTypeOK
    <3>6. TextInProgress'
      BY <2>1, <3>1, <3>4 DEF TextInProgress, TextNamesDigest
    <3> QED
      BY <1>1, <3>5, <3>6 DEF IdentityInv
  <2>3. CASE ParseError(text, DigestSize) # None
    <3>1. digest' = None /\ thrown' = ParseError(text, DigestSize) /\ pc' = "refused"
      BY <1>10, <2>3, Zenon DEF Parse
    <3>2. text \notin Spellings
      <4>1. ASSUME NEW d \in AllDigests PROVE text # DigestString(d)
        BY <2>3, SizeFacts, AcceptedFacts, SpellingAccepted, Zenon
      <4> QED
        BY <4>1, Zenon DEF Spellings
    <3>3. thrown' \in Errors \cup {None}
      BY <3>1, AcceptedFacts, Zenon
    <3>4. IdentificationTypeOK'
      BY <1>2, <1>3, <2>1, <3>1, <3>3 DEF IdentificationTypeOK
    <3>5. TextInProgress'
      BY <2>1, <3>1, <3>2 DEF TextInProgress, TextNamesDigest, Spellings
    <3> QED
      BY <1>1, <3>4, <3>5 DEF IdentityInv
  <2> QED
    BY <2>2, <2>3
<1>11. CASE UNCHANGED vars
  <2>1. /\ pc' = pc /\ subject' = subject
        /\ digest' = digest /\ text' = text /\ thrown' = thrown
    BY <1>11, Zenon DEF vars
  <2>2. IdentificationTypeOK'
    BY <1>2, <1>3, <2>1, Zenon DEF IdentificationTypeOK
  <2>3. TextInProgress'
    BY <1>3, <2>1, Zenon DEF TextInProgress, TextNamesDigest
  <2> QED
    BY <1>1, <2>2, <2>3 DEF IdentityInv
<1> QED
  BY <1>4, <1>5, <1>6, <1>7, <1>8, <1>9, <1>10, <1>11 DEF Next

\* The inductive invariant holds always.
LEMMA IdentityHolds == Spec => []IdentityInv
  BY IdentityInitially, IdentityStep, PTL DEF Spec

-----------------------------------------------------------------------------
(* The theorems *)

\* canonical_record, sha256 and parse: no identify function passes an append call
\* a value that its parameter would narrow, what is hashed is a string of bytes,
\* and what hashing or parsing yields is as many bytes as a digest has.
THEOREM IdentityTypeCorrect == Spec => []IdentificationTypeOK
<1>1. IdentityInv => IdentificationTypeOK
  BY DEF IdentityInv
<1> QED
  BY <1>1, IdentityHolds, PTL

\* canonical_record and the identify functions: the bytes that are hashed for
\* a value are hashed for no other value of any domain, and a record that is
\* not complete is no record.
THEOREM RecordsNameValues == Spec => []RecordNamesValue
<1>1. IdentityInv => RecordNamesValue
  BY RecordNames DEF IdentityInv
<1> QED
  BY <1>1, IdentityHolds, PTL

\* string and parse: what parse accepts is what string returns for the digest
\* it yields, however the text came about, and nothing string returns for a
\* digest that hashing yields is refused.
THEOREM TextsNameDigests == Spec => []TextNamesDigest
<1>1. IdentityInv => TextNamesDigest
  BY DEF IdentityInv, TextInProgress
<1> QED
  BY <1>1, IdentityHolds, PTL

===============================================================================
