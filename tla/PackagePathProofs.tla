--------------------------- MODULE PackagePathProofs ---------------------------
(***************************************************************************)
(* What parse and the queries do for every string: the value parse returns *)
(* is the one spelling of the components of its argument, and prefixes of  *)
(* such spellings are prefixes of the components.                          *)
(***************************************************************************)
EXTENDS PackagePath, SequenceTheorems, NaturalsInduction, WellFoundedInduction, TLAPS

-----------------------------------------------------------------------------
(* Counting and flattening *)

\* A non-empty set of naturals has a least element.
LEMMA LeastNatural ==
  ASSUME NEW T, T \subseteq Nat, T # {}
  PROVE  \E x \in T : \A y \in T : x <= y
<1>1. PICK x \in T : \A y \in T : <<y, x>> \notin OpToRel(<, Nat)
  BY NatLessThanWellFounded, WFMin, Zenon
<1>2. ASSUME NEW y \in T PROVE ~ (y < x)
  <2>1. x \in Nat /\ y \in Nat
    OBVIOUS
  <2>2. <<y, x>> \notin OpToRel(<, Nat)
    BY <1>1
  <2> QED
    BY <2>1, <2>2, Zenon DEF OpToRel
<1> QED
  BY <1>2

\* One sequence after another.
LEMMA ConcatFacts ==
  ASSUME NEW T, NEW p \in Seq(T), NEW q \in Seq(T)
  PROVE  /\ p \o q \in Seq(T) /\ Len(p) \in Nat /\ Len(q) \in Nat
         /\ Len(p \o q) = Len(p) + Len(q)
         /\ \A i \in 1..Len(p) : (p \o q)[i] = p[i]
         /\ \A i \in 1..Len(q) : (p \o q)[Len(p) + i] = q[i]
<1>1. PICK r : r = p \o q
  OBVIOUS
<1>2. /\ r \in Seq(T) /\ Len(p) \in Nat /\ Len(q) \in Nat
      /\ Len(r) = Len(p) + Len(q)
      /\ \A i \in 1..Len(p) : r[i] = p[i]
  BY <1>1
<1>3. ASSUME NEW i \in 1..Len(q) PROVE r[Len(p) + i] = q[i]
  <2>1. Len(p) + i \in 1..(Len(p) + Len(q)) /\ ~(Len(p) + i <= Len(p)) /\ (Len(p) + i) - Len(p) = i
    BY <1>2
  <2> QED
    BY <1>1, <2>1
<1> QED
  BY <1>1, <1>2, <1>3

\* What the i-th value of the recursion in FlattenSeq is made of.
Grown(f, codes, i) == IF i = 1 THEN codes[i] ELSE f[i - 1] \o codes[i]

Flattens(f, codes) == f = [i \in 1..Len(codes) |-> Grown(f, codes, i)]

\* The recursion in FlattenSeq has a solution: it is well defined.
LEMMA FlatteningExists ==
  ASSUME NEW codes, Len(codes) \in Nat
  PROVE  \E f : Flattens(f, codes)
<1> DEFINE n == Len(codes)
           Solves(f, m) == \A i \in 1..m : f[i] = Grown(f, codes, i)
<1>1. \E f : Solves(f, 0)
  OBVIOUS
<1>2. ASSUME NEW m \in Nat, NEW f, Solves(f, m)
      PROVE  \E g : Solves(g, m + 1)
  <2> DEFINE g == [i \in 1..(m + 1) |-> IF i <= m THEN f[i] ELSE Grown(f, codes, i)]
  <2>1. ASSUME NEW i \in 1..(m + 1) PROVE Grown(f, codes, i) = Grown(g, codes, i)
    <3>1. i # 1 => i - 1 \in 1..(m + 1) /\ i - 1 <= m
      OBVIOUS
    <3>2. i # 1 => g[i - 1] = f[i - 1]
      BY <3>1
    <3> QED
      BY <3>2 DEF Grown
  <2>2. \A i \in 1..(m + 1) : g[i] = Grown(f, codes, i)
    BY <1>2
  <2>3. Solves(g, m + 1)
    BY <2>1, <2>2
  <2> QED
    BY <2>3
<1> HIDE DEF Solves
<1>3. \E f : Solves(f, n)
  <2> DEFINE T == {m \in Nat : ~ \E f : Solves(f, m)}
  <2>1. SUFFICES ASSUME T # {} PROVE FALSE
    OBVIOUS
  <2>2. PICK m \in T : \A l \in T : m <= l
    BY <2>1, LeastNatural
  <2>3. m # 0
    BY <1>1
  <2>4. m - 1 \in Nat /\ m - 1 \notin T
    BY <2>2, <2>3
  <2>5. PICK f : Solves(f, m - 1)
    BY <2>4
  <2>6. \E g : Solves(g, (m - 1) + 1)
    BY <1>2, <2>4, <2>5
  <2>7. (m - 1) + 1 = m
    BY <2>2
  <2> QED
    BY <2>2, <2>6, <2>7
<1>4. PICK f : Solves(f, n)
  BY <1>3
<1> DEFINE g == [i \in 1..n |-> f[i]]
<1>5. ASSUME NEW i \in 1..n PROVE Grown(f, codes, i) = Grown(g, codes, i)
  <2>1. i # 1 => i - 1 \in 1..n
    OBVIOUS
  <2>2. i # 1 => g[i - 1] = f[i - 1]
    BY <2>1
  <2> QED
    BY <2>2 DEF Grown
<1>6. \A i \in 1..n : f[i] = Grown(f, codes, i)
  BY <1>4 DEF Solves
<1>7. g = [i \in 1..n |-> Grown(g, codes, i)]
  BY <1>5, <1>6
<1> QED
  BY <1>7 DEF Flattens

\* FlattenSeq grows by one sequence at a time.
LEMMA FlattenStep ==
  ASSUME NEW T, NEW codes \in Seq(Seq(T)), NEW code \in Seq(T)
  PROVE  /\ FlattenSeq(<<>>) = <<>>
         /\ FlattenSeq(codes) \in Seq(T)
         /\ FlattenSeq(Append(codes, code)) = FlattenSeq(codes) \o code
<1>1. FlattenSeq(<<>>) = <<>>
  BY DEF FlattenSeq
<1>2. ASSUME NEW cs \in Seq(Seq(T)), Len(cs) # 0
      PROVE  \E f : Flattens(f, cs) /\ FlattenSeq(cs) = f[Len(cs)]
  <2>1. \E f : Flattens(f, cs)
    BY FlatteningExists
  <2>2. FlattenSeq(cs) = (CHOOSE h : Flattens(h, cs))[Len(cs)]
    BY <1>2 DEF FlattenSeq, Grown, Flattens
  <2>3. Flattens(CHOOSE h : Flattens(h, cs), cs)
    BY <2>1
  <2> QED
    BY <2>2, <2>3
<1>3. ASSUME NEW cs \in Seq(Seq(T)), NEW f, Flattens(f, cs)
      PROVE  \A i \in 1..Len(cs) : f[i] \in Seq(T)
  <2> DEFINE Bad == {i \in 1..Len(cs) : f[i] \notin Seq(T)}
  <2>0. Bad \subseteq Nat /\ Len(cs) \in Nat
    OBVIOUS
  <2>1. SUFFICES ASSUME Bad # {} PROVE FALSE
    OBVIOUS
  <2>2. PICK i \in Bad : \A j \in Bad : i <= j
    BY <2>0, <2>1, LeastNatural
  <2>3. cs[i] \in Seq(T)
    BY ElementOfSeq
  <2>4. i # 1 => i - 1 \in 1..Len(cs) /\ f[i - 1] \in Seq(T)
    BY <2>0, <2>2
  <2>5. f[i] = Grown(f, cs, i)
    BY <1>3 DEF Flattens
  <2>6. f[i] \in Seq(T)
    BY <2>3, <2>4, <2>5 DEF Grown
  <2> QED
    BY <2>2, <2>6
<1>4. ASSUME NEW cs \in Seq(Seq(T)) PROVE FlattenSeq(cs) \in Seq(T)
  <2>1. CASE Len(cs) = 0
    <3>1. cs = <<>>
      BY <2>1
    <3>2. <<>> \in Seq(T)
      OBVIOUS
    <3> QED
      BY <1>1, <3>1, <3>2
  <2>2. CASE Len(cs) # 0
    <3>1. PICK f : Flattens(f, cs) /\ FlattenSeq(cs) = f[Len(cs)]
      BY <1>2, <2>2
    <3>2. Len(cs) \in 1..Len(cs)
      BY <2>2
    <3> QED
      BY <1>3, <3>1, <3>2
  <2> QED
    BY <2>1, <2>2
<1>5. PICK ds : ds = Append(codes, code)
  OBVIOUS
<1>6. /\ ds \in Seq(Seq(T)) /\ Len(ds) = Len(codes) + 1 /\ Len(codes) \in Nat
      /\ \A i \in 1..Len(codes) : ds[i] = codes[i]
      /\ ds[Len(codes) + 1] = code
  BY <1>5
<1>7. PICK g : Flattens(g, ds) /\ FlattenSeq(ds) = g[Len(ds)]
  <2>1. Len(ds) # 0
    BY <1>6
  <2> QED
    BY <1>2, <1>6, <2>1
<1>8. FlattenSeq(ds) = FlattenSeq(codes) \o code
  <2>1. CASE Len(codes) = 0
    <3>1. codes = <<>> /\ Len(ds) = 1 /\ ds[1] = code
      BY <1>6, <2>1
    <3>2. g[1] = code
      BY <1>7, <3>1 DEF Flattens, Grown
    <3> QED
      BY <1>1, <1>7, <3>1, <3>2
  <2>2. CASE Len(codes) # 0
    <3>1. PICK f : Flattens(f, codes) /\ FlattenSeq(codes) = f[Len(codes)]
      BY <1>2, <2>2
    <3>2. \A i \in 1..Len(codes) : f[i] = g[i]
      <4> DEFINE Bad == {i \in 1..Len(codes) : f[i] # g[i]}
      <4>0. Bad \subseteq Nat
        BY <1>6
      <4>1. SUFFICES ASSUME Bad # {} PROVE FALSE
        OBVIOUS
      <4>2. PICK i \in Bad : \A j \in Bad : i <= j
        BY <4>0, <4>1, LeastNatural
      <4>3. i # 1 => i - 1 \in 1..Len(codes) /\ f[i - 1] = g[i - 1]
        BY <1>6, <4>0, <4>2
      <4>4. f[i] = Grown(f, codes, i)
        BY <3>1 DEF Flattens
      <4>5. g[i] = Grown(g, ds, i)
        <5>1. i \in 1..Len(ds)
          BY <1>6
        <5> QED
          BY <1>7, <5>1 DEF Flattens
      <4> QED
        BY <1>6, <4>2, <4>3, <4>4, <4>5 DEF Grown
    <3>3. g[Len(ds)] = g[Len(codes)] \o code
      <4>1. Len(ds) \in 1..Len(ds) /\ Len(ds) # 1 /\ Len(ds) - 1 = Len(codes)
        BY <1>6, <2>2
      <4>2. g[Len(ds)] = Grown(g, ds, Len(ds))
        BY <1>7, <4>1 DEF Flattens
      <4> QED
        BY <1>6, <4>1, <4>2 DEF Grown
    <3>4. Len(codes) \in 1..Len(codes)
      BY <1>6, <2>2
    <3> QED
      BY <1>7, <3>1, <3>2, <3>3, <3>4
  <2> QED
    BY <2>1, <2>2
<1> QED
  BY <1>1, <1>4, <1>5, <1>8

\* The first k sequences, one after another.
Flat(codes, k) == FlattenSeq(SubSeq(codes, 1, k))

\* Flattening goes one sequence at a time.
LEMMA FlatFacts ==
  ASSUME NEW T, NEW codes \in Seq(Seq(T))
  PROVE  /\ Flat(codes, 0) = <<>> /\ Flat(codes, Len(codes)) = FlattenSeq(codes)
         /\ \A k \in 0..Len(codes) : Flat(codes, k) \in Seq(T)
         /\ \A k \in 1..Len(codes) : Flat(codes, k) = Flat(codes, k - 1) \o codes[k]
<1>1. PICK U : U = Seq(T)
  OBVIOUS
<1>2. codes \in Seq(U) /\ Len(codes) \in Nat
  BY <1>1
<1>3. SubSeq(codes, 1, 0) = <<>> /\ SubSeq(codes, 1, Len(codes)) = codes
  BY <1>2
<1>4. ASSUME NEW k \in 0..Len(codes) PROVE SubSeq(codes, 1, k) \in Seq(U)
  BY <1>2
<1>5. ASSUME NEW k \in 1..Len(codes)
      PROVE  SubSeq(codes, 1, k) = Append(SubSeq(codes, 1, k - 1), codes[k]) /\ codes[k] \in U
  BY <1>2
<1>6. ASSUME NEW k \in 1..Len(codes) PROVE Flat(codes, k) = Flat(codes, k - 1) \o codes[k]
  <2>1. k - 1 \in 0..Len(codes)
    BY <1>2
  <2>2. SubSeq(codes, 1, k - 1) \in Seq(Seq(T)) /\ codes[k] \in Seq(T)
    BY <1>1, <1>4, <1>5, <2>1
  <2> QED
    BY <1>5, <2>2, FlattenStep DEF Flat
<1>7. ASSUME NEW k \in 0..Len(codes) PROVE Flat(codes, k) \in Seq(T)
  <2>1. SubSeq(codes, 1, k) \in Seq(Seq(T))
    BY <1>1, <1>4
  <2>2. <<>> \in Seq(T)
    OBVIOUS
  <2> QED
    BY <2>1, <2>2, FlattenStep DEF Flat
<1>8. Flat(codes, 0) = <<>>
  <2>1. <<>> \in Seq(T) /\ <<>> \in Seq(Seq(T))
    OBVIOUS
  <2> QED
    BY <1>3, <2>1, FlattenStep DEF Flat
<1> QED
  BY <1>3, <1>6, <1>7, <1>8 DEF Flat

\* What was flattened stays in front.
LEMMA FlatGrows ==
  ASSUME NEW T, NEW codes \in Seq(Seq(T)), NEW j \in 0..Len(codes)
  PROVE  \A k \in j..Len(codes) :
           /\ Len(Flat(codes, j)) <= Len(Flat(codes, k))
           /\ \A i \in 1..Len(Flat(codes, j)) : Flat(codes, k)[i] = Flat(codes, j)[i]
<1> DEFINE n == Len(codes)
           Grows(k) == /\ Len(Flat(codes, j)) <= Len(Flat(codes, k))
                       /\ \A i \in 1..Len(Flat(codes, j)) : Flat(codes, k)[i] = Flat(codes, j)[i]
           Bad == {k \in j..n : ~Grows(k)}
<1>1. n \in Nat
  OBVIOUS
<1>2. \A k \in 0..n : Flat(codes, k) \in Seq(T)
  BY FlatFacts
<1>3. \A k \in 0..n : Len(Flat(codes, k)) \in Nat
  BY <1>2
<1>4. Grows(j)
  BY <1>3
<1>5. ASSUME NEW k \in j..n, k # j, Grows(k - 1) PROVE Grows(k)
  <2>1. k \in 1..n /\ k - 1 \in 0..n
    <3>1. k # j
      BY <1>5
    <3> QED
      BY <1>1, <3>1
  <2>2. Flat(codes, k) = Flat(codes, k - 1) \o codes[k]
    BY <2>1, FlatFacts
  <2>3. PICK p, q, r : p = Flat(codes, k - 1) /\ q = codes[k] /\ r = Flat(codes, j)
    OBVIOUS
  <2>4. p \in Seq(T) /\ r \in Seq(T)
    BY <1>2, <2>1, <2>3
  <2>5. q \in Seq(T)
    BY <2>1, <2>3
  <2>6. Len(r) <= Len(p) /\ \A i \in 1..Len(r) : p[i] = r[i]
    BY <1>5, <2>3
  <2>7. Len(r) <= Len(p \o q) /\ \A i \in 1..Len(r) : (p \o q)[i] = r[i]
    BY <2>4, <2>5, <2>6
  <2> QED
    BY <2>2, <2>3, <2>7
<1> HIDE DEF Grows
<1>6. SUFFICES ASSUME Bad # {} PROVE FALSE
  BY DEF Grows
<1>7. Bad \subseteq Nat
  BY <1>1
<1>8. PICK k \in Bad : \A l \in Bad : k <= l
  BY <1>6, <1>7, LeastNatural
<1>9. k \in j..n /\ k # j
  BY <1>4, <1>8
<1>10. k - 1 \in j..n /\ k - 1 \notin Bad
  BY <1>1, <1>7, <1>8, <1>9
<1> QED
  BY <1>5, <1>8, <1>9, <1>10

-----------------------------------------------------------------------------
(* The components of a string *)

\* What begins inside a string ends at one place.
LEMMA EndFacts ==
  ASSUME NEW T, NEW s \in Seq(T), NEW i \in 1..(Len(s) + 1)
  PROVE  /\ EndOf(s, i) \in i..(Len(s) + 1)
         /\ EndOf(s, i) > Len(s) \/ s[EndOf(s, i)] = "/"
         /\ \A k \in i..(EndOf(s, i) - 1) : s[k] # "/"
<1> DEFINE n == Len(s)
           Stop(j) == j > n \/ s[j] = "/"
           Stops == {j \in i..(n + 1) : Stop(j)}
<1>1. n \in Nat
  OBVIOUS
<1>2. n + 1 \in Stops /\ Stops \subseteq Nat
  BY <1>1
<1>3. PICK j \in Stops : \A k \in Stops : j <= k
  <2>1. Stops # {}
    BY <1>2
  <2> QED
    BY <1>2, <2>1, LeastNatural
<1>4. \A k \in i..(j - 1) : s[k] # "/"
  <2> SUFFICES ASSUME NEW k \in i..(j - 1) PROVE s[k] # "/"
    OBVIOUS
  <2>1. j \in i..(n + 1) /\ k \in i..(n + 1) /\ ~(j <= k)
    BY <1>1, <1>3
  <2>2. k \notin Stops
    BY <1>3, <2>1
  <2> QED
    BY <2>1, <2>2
<1>5. \E l \in i..(n + 1) : Stop(l) /\ \A k \in i..(l - 1) : s[k] # "/"
  BY <1>3, <1>4
<1> QED
  BY <1>5 DEF EndOf

\* There is no other such place.
LEMMA EndIs ==
  ASSUME NEW T, NEW s \in Seq(T), NEW i \in 1..(Len(s) + 1), NEW j \in i..(Len(s) + 1),
         j > Len(s) \/ s[j] = "/", \A k \in i..(j - 1) : s[k] # "/"
  PROVE  EndOf(s, i) = j
<1>1. PICK e : e = EndOf(s, i)
  OBVIOUS
<1>2. /\ e \in i..(Len(s) + 1) /\ Len(s) \in Nat
      /\ e > Len(s) \/ s[e] = "/"
      /\ \A k \in i..(e - 1) : s[k] # "/"
  BY <1>1, EndFacts
<1>3. CASE e < j
  <2>1. e \in i..(j - 1) /\ ~(e > Len(s))
    BY <1>2, <1>3
  <2> QED
    BY <1>2, <2>1
<1>4. CASE j < e
  <2>1. j \in i..(e - 1) /\ ~(j > Len(s))
    BY <1>2, <1>4
  <2> QED
    BY <1>2, <2>1
<1> QED
  BY <1>1, <1>2, <1>3, <1>4

\* The components over T: they name something, and hold no separator.
Simple(T) ==
  {c \in Seq(T) : c # <<>> /\ c # <<".">> /\ \A i \in 1..Len(c) : c[i] # "/"}

Spots(s) == [i \in 1..(Len(s) + 1) |-> ComponentAt(s, i)]

\* The components that begin at or before k.
Kept(s, k) == Flat(Spots(s), k)

\* A component is a component of bytes, or nothing.
LEMMA ComponentType ==
  ASSUME NEW T, NEW s \in Seq(T), NEW i \in 1..(Len(s) + 1)
  PROVE  ComponentAt(s, i) \in Seq(Simple(T))
<1>1. PICK e : e = EndOf(s, i)
  OBVIOUS
<1>2. e \in i..(Len(s) + 1) /\ Len(s) \in Nat /\ \A k \in i..(e - 1) : s[k] # "/"
  BY <1>1, EndFacts
<1>3. PICK c : c = SubSeq(s, i, e - 1)
  OBVIOUS
<1>4. /\ c \in Seq(T) /\ Len(c) = e - i
      /\ \A k \in 1..Len(c) : c[k] = s[i + k - 1]
  BY <1>2, <1>3
<1>5. \A k \in 1..Len(c) : c[k] # "/"
  <2> SUFFICES ASSUME NEW k \in 1..Len(c) PROVE c[k] # "/"
    OBVIOUS
  <2>1. i + k - 1 \in i..(e - 1)
    BY <1>2, <1>4
  <2> QED
    BY <1>2, <1>4, <2>1
<1>6. PICK x : x = ComponentAt(s, i)
  OBVIOUS
<1>7. x = <<>> \/ (x = <<c>> /\ c # <<>> /\ c # <<".">>)
  BY <1>1, <1>3, <1>6 DEF ComponentAt, PieceAt
<1>8. x = <<>> \/ (x = <<c>> /\ c \in Simple(T))
  BY <1>4, <1>5, <1>7 DEF Simple
<1>9. PICK U : U = Simple(T)
  OBVIOUS
<1>10. x \in Seq(U)
  <2>1. CASE x = <<>>
    BY <2>1
  <2>2. CASE x = <<c>> /\ c \in U
    BY <2>2
  <2> QED
    BY <1>8, <1>9, <2>1, <2>2
<1> QED
  BY <1>6, <1>9, <1>10

\* The components so far grow into all components.
LEMMA KeptFacts ==
  ASSUME NEW T, NEW s \in Seq(T)
  PROVE  /\ Kept(s, 0) = <<>> /\ Kept(s, Len(s) + 1) = Components(s)
         /\ \A k \in 0..(Len(s) + 1) : Kept(s, k) \in Seq(Simple(T))
         /\ \A k \in 1..(Len(s) + 1) : Kept(s, k) = Kept(s, k - 1) \o ComponentAt(s, k)
         /\ \A j \in 0..(Len(s) + 1) : \A k \in j..(Len(s) + 1) :
              /\ Len(Kept(s, j)) <= Len(Kept(s, k))
              /\ \A i \in 1..Len(Kept(s, j)) : Kept(s, k)[i] = Kept(s, j)[i]
<1>1. Spots(s) \in Seq(Seq(Simple(T))) /\ Len(Spots(s)) = Len(s) + 1
  <2>1. PICK U : U = Seq(Simple(T))
    OBVIOUS
  <2>2. \A i \in 1..(Len(s) + 1) : ComponentAt(s, i) \in U
    BY <2>1, ComponentType
  <2>3. Len(s) + 1 \in Nat
    OBVIOUS
  <2>4. Spots(s) \in [1..(Len(s) + 1) -> U]
    BY <2>2 DEF Spots
  <2>5. Spots(s) \in Seq(U) /\ Len(Spots(s)) = Len(s) + 1
    BY <2>3, <2>4
  <2> QED
    BY <2>1, <2>5
<1>2. \A k \in 1..(Len(s) + 1) : Spots(s)[k] = ComponentAt(s, k)
  BY DEF Spots
<1>3. Components(s) = FlattenSeq(Spots(s))
  BY DEF Components, Spots
<1>4. PICK codes, W : codes = Spots(s) /\ W = Simple(T)
  OBVIOUS
<1>5. codes \in Seq(Seq(W)) /\ Len(codes) = Len(s) + 1
  BY <1>1, <1>4
<1>6. /\ Flat(codes, 0) = <<>> /\ Flat(codes, Len(codes)) = FlattenSeq(codes)
      /\ \A k \in 0..Len(codes) : Flat(codes, k) \in Seq(W)
      /\ \A k \in 1..Len(codes) : Flat(codes, k) = Flat(codes, k - 1) \o codes[k]
  BY <1>5, FlatFacts
<1>7. \A j \in 0..Len(codes) : \A k \in j..Len(codes) :
              /\ Len(Flat(codes, j)) <= Len(Flat(codes, k))
              /\ \A i \in 1..Len(Flat(codes, j)) : Flat(codes, k)[i] = Flat(codes, j)[i]
  BY <1>5, FlatGrows
<1>8. \A k : Kept(s, k) = Flat(codes, k)
  BY <1>4 DEF Kept
<1>9. \A k \in 1..(Len(s) + 1) : codes[k] = ComponentAt(s, k)
  BY <1>2, <1>4
<1>10. Flat(codes, Len(s) + 1) = Components(s)
  BY <1>3, <1>4, <1>5, <1>6
<1>11. Kept(s, 0) = <<>> /\ Kept(s, Len(s) + 1) = Components(s)
  BY <1>6, <1>8, <1>10
<1>12. \A k \in 0..(Len(s) + 1) : Kept(s, k) \in Seq(Simple(T))
  BY <1>4, <1>5, <1>6, <1>8
<1>13. \A k \in 1..(Len(s) + 1) : Kept(s, k) = Kept(s, k - 1) \o ComponentAt(s, k)
  <2> SUFFICES ASSUME NEW k \in 1..(Len(s) + 1)
               PROVE  Kept(s, k) = Kept(s, k - 1) \o ComponentAt(s, k)
    OBVIOUS
  <2>1. Flat(codes, k) = Flat(codes, k - 1) \o codes[k] /\ codes[k] = ComponentAt(s, k)
    BY <1>5, <1>6, <1>9
  <2> QED
    BY <1>8, <2>1
<1>14. \A j \in 0..(Len(s) + 1) : \A k \in j..(Len(s) + 1) :
              /\ Len(Kept(s, j)) <= Len(Kept(s, k))
              /\ \A i \in 1..Len(Kept(s, j)) : Kept(s, k)[i] = Kept(s, j)[i]
  BY <1>5, <1>7, <1>8
<1> QED
  BY <1>11, <1>12, <1>13, <1>14

\* Nothing begins inside a piece, nor at the separator that ends it.
LEMMA KeptSkips ==
  ASSUME NEW T, NEW s \in Seq(T), NEW i \in 1..(Len(s) + 1)
  PROVE  \A k \in i..EndOf(s, i) : Kept(s, k) = Kept(s, i)
<1> DEFINE e == EndOf(s, i)
           Bad == {k \in i..e : Kept(s, k) # Kept(s, i)}
<1>1. e \in i..(Len(s) + 1) /\ Len(s) \in Nat /\ \A k \in i..(e - 1) : s[k] # "/"
  BY EndFacts
<1> HIDE DEF e
<1>2. SUFFICES ASSUME Bad # {} PROVE FALSE
  BY DEF e
<1>3. Bad \subseteq Nat
  BY <1>1
<1>4. PICK k \in Bad : \A l \in Bad : k <= l
  BY <1>2, <1>3, LeastNatural
<1>5. k # i /\ k \in i..e
  BY <1>4
<1>6. k - 1 \in i..e /\ k - 1 \notin Bad /\ k - 1 \in i..(e - 1)
  BY <1>1, <1>3, <1>4, <1>5
<1>7. k \in 1..(Len(s) + 1) /\ k # 1 /\ k - 1 \in 0..(Len(s) + 1)
  BY <1>1, <1>5
<1>8. ComponentAt(s, k) = <<>>
  BY <1>1, <1>6, <1>7 DEF ComponentAt, Begins
<1>9. Kept(s, k) = Kept(s, k - 1) \o <<>> /\ Kept(s, k - 1) \in Seq(Simple(T))
  BY <1>7, <1>8, KeptFacts
<1>10. Kept(s, k) = Kept(s, k - 1)
  <2>1. PICK p, U : p = Kept(s, k - 1) /\ U = Simple(T)
    OBVIOUS
  <2>2. p \in Seq(U) /\ Kept(s, k) = p \o <<>>
    BY <1>9, <2>1
  <2>3. p \o <<>> = p
    BY <2>2
  <2> QED
    BY <2>1, <2>2, <2>3
<1> QED
  BY <1>4, <1>6, <1>10

-----------------------------------------------------------------------------
(* Where a normal path holds its components *)

JoinCodes(cs) == [k \in DOMAIN cs |-> IF k = 1 THEN cs[k] ELSE <<"/">> \o cs[k]]

\* The first k components, joined.
Upto(cs, k) == Flat(JoinCodes(cs), k)

\* What is joined so far grows into the whole path.
LEMMA JoinedFacts ==
  ASSUME NEW T, "/" \in T, NEW cs \in Seq(Seq(T))
  PROVE  /\ Upto(cs, 0) = <<>> /\ Upto(cs, Len(cs)) = Joined(cs)
         /\ \A k \in 0..Len(cs) : Upto(cs, k) \in Seq(T)
         /\ \A k \in 1..Len(cs) :
              Upto(cs, k) = Upto(cs, k - 1) \o (IF k = 1 THEN cs[k] ELSE <<"/">> \o cs[k])
         /\ \A j \in 0..Len(cs) : \A k \in j..Len(cs) :
              /\ Len(Upto(cs, j)) <= Len(Upto(cs, k))
              /\ \A i \in 1..Len(Upto(cs, j)) : Upto(cs, k)[i] = Upto(cs, j)[i]
<1>1. ASSUME NEW k \in 1..Len(cs)
      PROVE  (IF k = 1 THEN cs[k] ELSE <<"/">> \o cs[k]) \in Seq(T)
  <2>1. cs[k] \in Seq(T)
    BY ElementOfSeq
  <2>2. PICK c : c = cs[k]
    OBVIOUS
  <2>3. c \in Seq(T) /\ <<"/">> \in Seq(T)
    BY <2>1, <2>2
  <2>4. <<"/">> \o c \in Seq(T)
    BY <2>3
  <2> QED
    BY <2>2, <2>3, <2>4
<1>2. PICK codes : codes = JoinCodes(cs)
  OBVIOUS
<1>3. Len(cs) \in Nat /\ DOMAIN cs = 1..Len(cs)
  BY LenProperties
<1>4. codes \in Seq(Seq(T)) /\ Len(codes) = Len(cs)
  <2>1. PICK U : U = Seq(T)
    OBVIOUS
  <2>2. codes \in [1..Len(cs) -> U]
    <3>1. codes = [k \in 1..Len(cs) |-> IF k = 1 THEN cs[k] ELSE <<"/">> \o cs[k]]
      BY <1>2, <1>3, Zenon DEF JoinCodes
    <3>2. \A k \in 1..Len(cs) : (IF k = 1 THEN cs[k] ELSE <<"/">> \o cs[k]) \in U
      BY <1>1, <2>1, Zenon
    <3> QED
      BY <3>1, <3>2, Zenon
  <2>3. codes \in Seq(U) /\ Len(codes) = Len(cs)
    <3>1. PICK n : n = Len(cs)
      OBVIOUS
    <3>2. n \in Nat /\ codes \in [1..n -> U]
      BY <1>3, <2>2, <3>1, Zenon
    <3> HIDE <3>1
    <3>3. codes \in Seq(U) /\ Len(codes) = n
      BY <3>2
    <3> QED
      BY <3>1, <3>3
  <2> QED
    BY <2>1, <2>3
<1>5. \A k \in 1..Len(cs) : codes[k] = IF k = 1 THEN cs[k] ELSE <<"/">> \o cs[k]
  BY <1>2, <1>3 DEF JoinCodes
<1>6. Joined(cs) = FlattenSeq(codes)
  BY <1>2 DEF Joined, JoinCodes
<1>7. /\ Flat(codes, 0) = <<>> /\ Flat(codes, Len(codes)) = FlattenSeq(codes)
      /\ \A k \in 0..Len(codes) : Flat(codes, k) \in Seq(T)
      /\ \A k \in 1..Len(codes) : Flat(codes, k) = Flat(codes, k - 1) \o codes[k]
  BY <1>4, FlatFacts
<1>8. \A j \in 0..Len(codes) : \A k \in j..Len(codes) :
              /\ Len(Flat(codes, j)) <= Len(Flat(codes, k))
              /\ \A i \in 1..Len(Flat(codes, j)) : Flat(codes, k)[i] = Flat(codes, j)[i]
  BY <1>4, FlatGrows
<1>9. \A k : Upto(cs, k) = Flat(codes, k)
  BY <1>2 DEF Upto
<1>10. Upto(cs, 0) = <<>> /\ Upto(cs, Len(cs)) = Joined(cs)
  BY <1>4, <1>6, <1>7, <1>9
<1>11. \A k \in 0..Len(cs) : Upto(cs, k) \in Seq(T)
  BY <1>4, <1>7, <1>9
<1>12. ASSUME NEW k \in 1..Len(cs)
       PROVE  Upto(cs, k) = Upto(cs, k - 1) \o (IF k = 1 THEN cs[k] ELSE <<"/">> \o cs[k])
  <2>1. Flat(codes, k) = Flat(codes, k - 1) \o codes[k]
    BY <1>4, <1>7
  <2> QED
    BY <1>5, <1>9, <2>1
<1>13. \A j \in 0..Len(cs) : \A k \in j..Len(cs) :
              /\ Len(Upto(cs, j)) <= Len(Upto(cs, k))
              /\ \A i \in 1..Len(Upto(cs, j)) : Upto(cs, k)[i] = Upto(cs, j)[i]
  BY <1>4, <1>8, <1>9
<1> QED
  BY <1>10, <1>11, <1>12, <1>13

\* Joining fewer components gives the beginning of the path.
LEMMA UptoJoins ==
  ASSUME NEW T, "/" \in T, NEW cs \in Seq(Seq(T)), NEW k \in 0..Len(cs)
  PROVE  Joined(SubSeq(cs, 1, k)) = Upto(cs, k)
<1>1. PICK U, ds : U = Seq(T) /\ ds = SubSeq(cs, 1, k)
  OBVIOUS
<1>2. cs \in Seq(U)
  BY <1>1
<1>3. /\ ds \in Seq(U) /\ Len(ds) = k /\ DOMAIN ds = 1..k
      /\ \A i \in 1..k : ds[i] = cs[i] /\ i \in DOMAIN cs
  BY <1>1, <1>2
<1>4. JoinCodes(ds) = [i \in 1..k |-> JoinCodes(cs)[i]]
  BY <1>3 DEF JoinCodes
<1>5. SubSeq(JoinCodes(cs), 1, k) = [i \in 1..k |-> JoinCodes(cs)[i]]
  <2>1. PICK codes : codes = JoinCodes(cs)
    OBVIOUS
  <2>2. \A i \in 1..k : 1 + i - 1 = i
    OBVIOUS
  <2>3. SubSeq(codes, 1, k) = [i \in 1..k |-> codes[i]]
    OBVIOUS
  <2> QED
    BY <2>1, <2>3
<1>6. Joined(ds) = FlattenSeq(JoinCodes(ds))
  BY DEF Joined, JoinCodes
<1> QED
  BY <1>1, <1>4, <1>5, <1>6 DEF Upto, Flat

\* Where the k-th component begins.
From(cs, k) == IF k = 1 THEN 1 ELSE Len(Upto(cs, k - 1)) + 2

\* A component lies between its place and the end of what is joined with it, and
\* a separator follows unless it is the last.
LEMMA LayoutFacts ==
  ASSUME NEW T, "/" \in T, NEW cs \in Seq(Simple(T)), NEW k \in 1..Len(cs)
  PROVE  /\ Joined(cs) \in Seq(T) /\ From(cs, k) \in Nat \ {0} /\ Len(cs[k]) \in Nat \ {0}
         /\ Len(Upto(cs, k)) = From(cs, k) - 1 + Len(cs[k])
         /\ Len(Upto(cs, k)) <= Len(Joined(cs))
         /\ Len(Upto(cs, k)) = Len(Joined(cs)) <=> k = Len(cs)
         /\ \A i \in 1..Len(cs[k]) : Joined(cs)[From(cs, k) + i - 1] = cs[k][i]
         /\ \A i \in From(cs, k)..Len(Upto(cs, k)) : Joined(cs)[i] # "/"
         /\ Begins(Joined(cs), From(cs, k))
         /\ k < Len(cs) => Joined(cs)[Len(Upto(cs, k)) + 1] = "/"
<1>1. cs \in Seq(Seq(T)) /\ Len(cs) \in Nat
  <2>1. Simple(T) \subseteq Seq(T)
    BY DEF Simple
  <2> QED
    BY <2>1, SeqMonotonic
<1>2. cs[k] \in Simple(T)
  BY ElementOfSeq
<1>3. PICK c, s, p, q, b : /\ c = cs[k] /\ s = Joined(cs) /\ p = Upto(cs, k - 1)
                           /\ q = Upto(cs, k) /\ b = From(cs, k)
  OBVIOUS
<1>4. c \in Seq(T) /\ Len(c) \in Nat \ {0} /\ \A i \in 1..Len(c) : c[i] # "/"
  BY <1>2, <1>3 DEF Simple
<1>5. p \in Seq(T) /\ q \in Seq(T) /\ s \in Seq(T)
  <2>1. k - 1 \in 0..Len(cs) /\ k \in 0..Len(cs) /\ Len(cs) \in 0..Len(cs)
    BY <1>1
  <2> QED
    BY <1>1, <1>3, <2>1, JoinedFacts
<1>6. /\ Len(q) <= Len(s) /\ Len(q) \in Nat /\ Len(s) \in Nat
      /\ \A i \in 1..Len(q) : s[i] = q[i]
  <2>1. k \in 0..Len(cs) /\ Len(cs) \in k..Len(cs)
    BY <1>1
  <2>2. s = Upto(cs, Len(cs))
    BY <1>1, <1>3, JoinedFacts
  <2>3. /\ Len(Upto(cs, k)) <= Len(Upto(cs, Len(cs)))
        /\ \A i \in 1..Len(Upto(cs, k)) : Upto(cs, Len(cs))[i] = Upto(cs, k)[i]
    BY <1>1, <2>1, JoinedFacts
  <2> QED
    BY <1>3, <1>5, <2>2, <2>3
<1>7. q = p \o (IF k = 1 THEN c ELSE <<"/">> \o c)
  BY <1>1, <1>3, JoinedFacts
<1>8. /\ b \in Nat \ {0} /\ Len(q) = b - 1 + Len(c)
      /\ \A i \in 1..Len(c) : q[b + i - 1] = c[i]
      /\ b # 1 => q[b - 1] = "/"
  <2>1. CASE k = 1
    <3>1. p = <<>> /\ b = 1
      <4>1. k - 1 = 0
        BY <2>1
      <4>2. Upto(cs, 0) = <<>>
        BY <1>1, JoinedFacts
      <4> QED
        BY <1>3, <2>1, <4>1, <4>2 DEF From
    <3>2. q = c
      BY <1>4, <1>7, <2>1, <3>1
    <3> QED
      BY <1>4, <3>1, <3>2
  <2>2. CASE k # 1
    <3>1. b = Len(p) + 2 /\ Len(p) \in Nat
      BY <1>3, <1>5, <2>2 DEF From
    <3>2. PICK d : d = <<"/">> \o c
      OBVIOUS
    <3>3. /\ d \in Seq(T) /\ Len(d) = 1 + Len(c) /\ d[1] = "/"
          /\ \A i \in 1..Len(c) : d[i + 1] = c[i]
      BY <1>4, <3>2
    <3>4. q = p \o d
      BY <1>7, <2>2, <3>2
    <3>5. /\ Len(q) = Len(p) + Len(d)
          /\ \A i \in 1..Len(d) : q[Len(p) + i] = d[i]
      <4>1. p \in Seq(T) /\ d \in Seq(T)
        BY <1>5, <3>3
      <4>2. /\ Len(p \o d) = Len(p) + Len(d)
            /\ \A i \in 1..Len(d) : (p \o d)[Len(p) + i] = d[i]
        BY <4>1, ConcatFacts
      <4> QED
        BY <3>4, <4>2
    <3>6. q[b - 1] = "/"
      BY <1>4, <3>1, <3>3, <3>5
    <3>7. ASSUME NEW i \in 1..Len(c) PROVE q[b + i - 1] = c[i]
      <4>1. i + 1 \in 1..Len(d) /\ Len(p) + (i + 1) = b + i - 1
        BY <1>4, <3>1, <3>3
      <4> QED
        BY <3>3, <3>5, <4>1
    <3> QED
      BY <1>4, <3>1, <3>3, <3>5, <3>6, <3>7
  <2> QED
    BY <2>1, <2>2
<1>9. \A i \in 1..Len(c) : s[b + i - 1] = c[i]
  <2> SUFFICES ASSUME NEW i \in 1..Len(c) PROVE s[b + i - 1] = c[i]
    OBVIOUS
  <2>1. b + i - 1 \in 1..Len(q)
    BY <1>4, <1>6, <1>8
  <2> QED
    BY <1>6, <1>8, <2>1
<1>10. \A i \in b..Len(q) : s[i] # "/"
  <2> SUFFICES ASSUME NEW i \in b..Len(q) PROVE s[i] # "/"
    OBVIOUS
  <2>1. i - b + 1 \in 1..Len(c) /\ b + (i - b + 1) - 1 = i
    BY <1>4, <1>6, <1>8
  <2> QED
    BY <1>4, <1>9, <2>1
<1>11. Begins(s, b)
  <2>1. CASE b = 1
    BY <2>1 DEF Begins
  <2>2. CASE b # 1
    <3>1. b - 1 \in 1..Len(q) /\ q[b - 1] = "/"
      BY <1>4, <1>8, <2>2
    <3> QED
      BY <1>6, <3>1 DEF Begins
  <2> QED
    BY <2>1, <2>2
<1>12. ASSUME k < Len(cs) PROVE Len(q) + 1 <= Len(s) /\ s[Len(q) + 1] = "/"
  <2>1. k + 1 \in 1..Len(cs) /\ (k + 1) - 1 = k /\ k + 1 # 1
    BY <1>1, <1>12
  <2>2. PICK d, r, g : d = cs[k + 1] /\ r = Upto(cs, k + 1) /\ g = <<"/">> \o d
    OBVIOUS
  <2>3. d \in Seq(T)
    BY <1>1, <2>1, <2>2, ElementOfSeq
  <2>4. r = q \o g
    BY <1>1, <1>3, <2>1, <2>2, JoinedFacts
  <2>5. g \in Seq(T) /\ Len(g) \in Nat \ {0} /\ g[1] = "/"
    BY <2>2, <2>3
  <2>6. Len(r) \in Nat /\ Len(r) >= Len(q) + 1 /\ r[Len(q) + 1] = "/"
    BY <1>5, <2>4, <2>5
  <2>7. k + 1 \in 0..Len(cs) /\ Len(cs) \in (k + 1)..Len(cs)
    BY <1>1, <2>1
  <2>8. s = Upto(cs, Len(cs))
    BY <1>1, <1>3, JoinedFacts
  <2>9. Len(r) <= Len(s) /\ \A i \in 1..Len(r) : s[i] = r[i]
    BY <1>1, <2>2, <2>7, <2>8, JoinedFacts
  <2>10. Len(q) + 1 \in 1..Len(r)
    BY <1>6, <2>6
  <2> QED
    BY <1>6, <2>6, <2>9, <2>10
<1>13. k = Len(cs) => q = s
  BY <1>1, <1>3, JoinedFacts
<1>14. Len(q) = Len(s) <=> k = Len(cs)
  BY <1>1, <1>6, <1>12, <1>13
<1> QED
  BY <1>3, <1>4, <1>5, <1>6, <1>8, <1>9, <1>10, <1>11, <1>12, <1>14

\* Reading what was joined gives the component back.
LEMMA ReadBack ==
  ASSUME NEW T, "/" \in T, NEW cs \in Seq(Simple(T)), NEW k \in 1..Len(cs)
  PROVE  /\ From(cs, k) \in 1..Len(Joined(cs))
         /\ EndOf(Joined(cs), From(cs, k)) = Len(Upto(cs, k)) + 1
         /\ ComponentAt(Joined(cs), From(cs, k)) = <<cs[k]>>
<1>1. PICK c, s, m, b : /\ c = cs[k] /\ s = Joined(cs)
                        /\ m = Len(Upto(cs, k)) /\ b = From(cs, k)
  OBVIOUS
<1>2. /\ s \in Seq(T) /\ b \in Nat \ {0} /\ Len(c) \in Nat \ {0}
      /\ m = b - 1 + Len(c) /\ m <= Len(s) /\ (m = Len(s) <=> k = Len(cs))
      /\ \A i \in 1..Len(c) : s[b + i - 1] = c[i]
      /\ \A i \in b..m : s[i] # "/"
      /\ Begins(s, b)
      /\ k < Len(cs) => s[m + 1] = "/"
  <2>1. /\ Joined(cs) \in Seq(T) /\ From(cs, k) \in Nat \ {0} /\ Len(cs[k]) \in Nat \ {0}
        /\ Len(Upto(cs, k)) = From(cs, k) - 1 + Len(cs[k])
        /\ Len(Upto(cs, k)) <= Len(Joined(cs))
        /\ (Len(Upto(cs, k)) = Len(Joined(cs)) <=> k = Len(cs))
    BY LayoutFacts
  <2>2. /\ \A i \in 1..Len(cs[k]) : Joined(cs)[From(cs, k) + i - 1] = cs[k][i]
        /\ \A i \in From(cs, k)..Len(Upto(cs, k)) : Joined(cs)[i] # "/"
    BY LayoutFacts
  <2>3. /\ Begins(Joined(cs), From(cs, k))
        /\ k < Len(cs) => Joined(cs)[Len(Upto(cs, k)) + 1] = "/"
    BY LayoutFacts
  <2>4. /\ s \in Seq(T) /\ b \in Nat \ {0} /\ Len(c) \in Nat \ {0}
        /\ m = b - 1 + Len(c) /\ m <= Len(s) /\ (m = Len(s) <=> k = Len(cs))
    BY <1>1, <2>1
  <2>5. (\A i \in 1..Len(c) : s[b + i - 1] = c[i]) /\ (\A i \in b..m : s[i] # "/")
    BY <1>1, <2>2
  <2>6. Begins(s, b) /\ (k < Len(cs) => s[m + 1] = "/")
    BY <1>1, <2>3
  <2> QED
    BY <2>4, <2>5, <2>6, Zenon
<1>3. Len(s) \in Nat /\ b \in 1..Len(s) /\ b \in 1..(Len(s) + 1) /\ m + 1 \in b..(Len(s) + 1)
  <2>1. PICK n, l : n = Len(s) /\ l = Len(c)
    OBVIOUS
  <2>2. n \in Nat
    BY <1>2, <2>1, LenProperties
  <2> QED
    BY <1>2, <2>1, <2>2
<1>4. EndOf(s, b) = m + 1
  <2>1. m + 1 > Len(s) \/ s[m + 1] = "/"
    <3>1. Len(cs) \in Nat
      OBVIOUS
    <3> QED
      BY <1>2, <1>3, <3>1
  <2>2. \A i \in b..((m + 1) - 1) : s[i] # "/"
    BY <1>2
  <2> QED
    BY <1>2, <1>3, <2>1, <2>2, EndIs
<1>5. c \in Seq(T) /\ c # <<>> /\ c # <<".">>
  <2>1. c \in Simple(T)
    BY <1>1, ElementOfSeq
  <2> QED
    BY <2>1 DEF Simple
<1>6. SubSeq(s, b, m) = c
  <2>1. PICK d : d = SubSeq(s, b, m)
    OBVIOUS
  <2>2. /\ d \in Seq(T) /\ Len(d) = Len(c)
        /\ \A i \in 1..Len(c) : d[i] = s[b + i - 1]
    BY <1>2, <2>1
  <2>3. \A i \in 1..Len(c) : d[i] = c[i]
    BY <1>2, <2>2
  <2>4. d = c
    BY <1>5, <2>2, <2>3, SeqEqual
  <2> QED
    BY <2>1, <2>4
<1>7. PieceAt(s, b) = c
  BY <1>2, <1>4, <1>6 DEF PieceAt
<1>8. ComponentAt(s, b) = <<c>>
  BY <1>2, <1>5, <1>7 DEF ComponentAt
<1> QED
  BY <1>1, <1>3, <1>4, <1>8

\* What is kept up to the end of the k-th component are the first k.
LEMMA KeptOfJoined ==
  ASSUME NEW T, "/" \in T, NEW cs \in Seq(Simple(T))
  PROVE  \A k \in 0..Len(cs) : Kept(Joined(cs), Len(Upto(cs, k))) = SubSeq(cs, 1, k)
<1> DEFINE Reads(k) == Kept(Joined(cs), Len(Upto(cs, k))) = SubSeq(cs, 1, k)
           Bad == {k \in 0..Len(cs) : ~Reads(k)}
<1>1. cs \in Seq(Seq(T)) /\ Len(cs) \in Nat
  <2>1. Simple(T) \subseteq Seq(T)
    BY DEF Simple
  <2> QED
    BY <2>1, SeqMonotonic
<1>2. PICK s, U : s = Joined(cs) /\ U = Simple(T)
  OBVIOUS
<1>3. s \in Seq(T) /\ Len(s) \in Nat
  <2>1. Len(cs) \in 0..Len(cs)
    BY <1>1
  <2>2. Upto(cs, Len(cs)) \in Seq(T) /\ s = Upto(cs, Len(cs))
    BY <1>1, <1>2, <2>1, JoinedFacts
  <2> QED
    BY <2>2
<1>4. cs \in Seq(U)
  BY <1>2
<1>5. Reads(0)
  <2>1. Upto(cs, 0) = <<>> /\ Kept(s, 0) = <<>>
    BY <1>1, <1>3, JoinedFacts, KeptFacts
  <2>2. SubSeq(cs, 1, 0) = <<>>
    BY <1>4
  <2> QED
    BY <1>2, <2>1, <2>2
<1>6. ASSUME NEW k \in 1..Len(cs), Reads(k - 1) PROVE Reads(k)
  <2>1. PICK b, l, m : b = From(cs, k) /\ l = Len(Upto(cs, k - 1)) /\ m = Len(Upto(cs, k))
    OBVIOUS
  <2>2. /\ b \in 1..Len(s) /\ EndOf(s, b) = m + 1 /\ ComponentAt(s, b) = <<cs[k]>>
        /\ m \in Nat /\ b <= m
    <3>1. b \in 1..Len(s) /\ EndOf(s, b) = m + 1 /\ ComponentAt(s, b) = <<cs[k]>>
      BY <1>2, <2>1, ReadBack
    <3>2. b \in Nat \ {0} /\ Len(cs[k]) \in Nat \ {0} /\ m = b - 1 + Len(cs[k])
      BY <2>1, LayoutFacts
    <3> QED
      BY <3>1, <3>2
  <2>3. Kept(s, b - 1) = SubSeq(cs, 1, k - 1)
    <3>1. Kept(s, l) = SubSeq(cs, 1, k - 1)
      BY <1>2, <1>6, <2>1
    <3>2. CASE k = 1
      <4>1. l = 0 /\ b - 1 = 0
        <5>1. k - 1 = 0
          BY <3>2
        <5>2. Upto(cs, 0) = <<>>
          BY <1>1, JoinedFacts
        <5> QED
          BY <2>1, <3>2, <5>1, <5>2 DEF From
      <4> QED
        BY <3>1, <4>1
    <3>3. CASE k # 1
      <4>1. k - 1 \in 1..Len(cs)
        BY <1>1, <3>3
      <4>2. /\ From(cs, k - 1) \in Nat \ {0} /\ Len(cs[k - 1]) \in Nat \ {0}
            /\ l = From(cs, k - 1) - 1 + Len(cs[k - 1]) /\ l <= Len(s)
            /\ \A i \in From(cs, k - 1)..l : s[i] # "/"
        <5>1. PICK j \in 1..Len(cs) : j = k - 1
          BY <4>1
        <5>2. /\ From(cs, j) \in Nat \ {0} /\ Len(cs[j]) \in Nat \ {0}
              /\ Len(Upto(cs, j)) = From(cs, j) - 1 + Len(cs[j])
              /\ Len(Upto(cs, j)) <= Len(Joined(cs))
              /\ \A i \in From(cs, j)..Len(Upto(cs, j)) : Joined(cs)[i] # "/"
          BY LayoutFacts, SMTT(60)
        <5> QED
          BY <1>2, <2>1, <5>1, <5>2, Zenon
      <4>3. l \in Nat \ {0} /\ s[l] # "/" /\ b = l + 2
        <5>1. b = l + 2
          BY <2>1, <3>3 DEF From
        <5>2. l \in Nat \ {0} /\ l \in From(cs, k - 1)..l
          BY <4>2
        <5>3. s[l] # "/"
          BY <4>2, <5>2, Zenon
        <5> QED
          BY <5>1, <5>2, <5>3
      <4>4. ComponentAt(s, l + 1) = <<>>
        BY <4>3 DEF ComponentAt, Begins
      <4>5. l + 1 \in 1..(Len(s) + 1) /\ (l + 1) - 1 = l
        <5>1. l \in Nat /\ l <= Len(s) /\ Len(s) \in Nat
          BY <1>3, <4>2, <4>3, Zenon
        <5>2. PICK n : n = Len(s)
          OBVIOUS
        <5> QED
          BY <5>1, <5>2
      <4>6. Kept(s, l + 1) = Kept(s, l) \o <<>>
        BY <1>3, <4>4, <4>5, KeptFacts
      <4>7. Kept(s, l) \in Seq(U)
        BY <1>4, <3>1, <4>1
      <4>8. Kept(s, l + 1) = Kept(s, l)
        BY <4>6, <4>7, ConcatEmptySeq
      <4> QED
        BY <3>1, <4>3, <4>8
    <3> QED
      BY <3>2, <3>3
  <2>4. Kept(s, b) = SubSeq(cs, 1, k - 1) \o <<cs[k]>>
    <3>1. b \in 1..(Len(s) + 1)
      BY <1>3, <2>2
    <3> QED
      BY <1>3, <2>2, <2>3, <3>1, KeptFacts
  <2>5. Kept(s, b) = SubSeq(cs, 1, k)
    <3>1. SubSeq(cs, 1, k - 1) \o <<cs[k]>> = SubSeq(cs, 1, k)
      BY <1>4
    <3> QED
      BY <2>4, <3>1
  <2>6. Kept(s, m) = Kept(s, b)
    <3>1. b \in 1..(Len(s) + 1) /\ m \in b..EndOf(s, b)
      BY <1>3, <2>2
    <3> QED
      BY <1>3, <3>1, KeptSkips
  <2> QED
    BY <1>2, <2>1, <2>5, <2>6
<1> HIDE DEF Reads
<1>7. SUFFICES ASSUME Bad # {} PROVE FALSE
  BY DEF Reads
<1>8. Bad \subseteq Nat
  BY <1>1
<1>9. PICK k \in Bad : \A l \in Bad : k <= l
  BY <1>7, <1>8, LeastNatural
<1>10. k \in 1..Len(cs) /\ k - 1 \in 0..Len(cs) /\ ~(k <= k - 1)
  <2>1. k # 0
    BY <1>5, <1>9
  <2> QED
    BY <1>1, <1>8, <1>9, <2>1
<1>11. Reads(k - 1)
  BY <1>9, <1>10
<1> QED
  BY <1>6, <1>9, <1>10, <1>11

\* What was joined from components has these components and no others.
LEMMA JoinedComponents ==
  ASSUME NEW T, "/" \in T, NEW cs \in Seq(Simple(T))
  PROVE  Components(Joined(cs)) = cs
<1>1. PICK s, U : s = Joined(cs) /\ U = Simple(T)
  OBVIOUS
<1>2. cs \in Seq(U) /\ Len(cs) \in Nat /\ cs \in Seq(Seq(T))
  <2>1. Simple(T) \subseteq Seq(T)
    BY DEF Simple
  <2> QED
    BY <1>1, <2>1, SeqMonotonic
<1>3. s = Upto(cs, Len(cs)) /\ s \in Seq(T)
  <2>1. Len(cs) \in 0..Len(cs)
    BY <1>2
  <2> QED
    BY <1>1, <1>2, <2>1, JoinedFacts
<1>4. Kept(s, Len(s)) = cs
  <2>1. Len(cs) \in 0..Len(cs)
    BY <1>2
  <2>2. Kept(s, Len(s)) = SubSeq(cs, 1, Len(cs))
    BY <1>1, <1>3, <2>1, KeptOfJoined
  <2> QED
    BY <1>2, <2>2
<1>5. ComponentAt(s, Len(s) + 1) = <<>>
  <2>1. Len(s) \in Nat /\ Len(s) + 1 \in 1..(Len(s) + 1)
    BY <1>3
  <2>2. PICK e : e = EndOf(s, Len(s) + 1)
    OBVIOUS
  <2>3. e \in (Len(s) + 1)..(Len(s) + 1)
    BY <1>3, <2>1, <2>2, EndFacts
  <2>4. e = Len(s) + 1
    BY <2>1, <2>3
  <2>5. PieceAt(s, Len(s) + 1) = <<>>
    BY <1>3, <2>1, <2>2, <2>4 DEF PieceAt
  <2> QED
    BY <2>5 DEF ComponentAt
<1>6. Kept(s, Len(s) + 1) = cs \o <<>>
  <2>1. Len(s) + 1 \in 1..(Len(s) + 1) /\ (Len(s) + 1) - 1 = Len(s)
    BY <1>3
  <2> QED
    BY <1>3, <1>4, <1>5, <2>1, KeptFacts
<1>7. cs \o <<>> = cs
  BY <1>2
<1>8. Components(s) = Kept(s, Len(s) + 1)
  BY <1>3, KeptFacts
<1> QED
  BY <1>1, <1>6, <1>7, <1>8

-----------------------------------------------------------------------------
(* The queries *)

\* The last separator stands before the last component.
LEMMA LastSeparatorFacts ==
  ASSUME NEW T, "/" \in T, NEW cs \in Seq(Simple(T)), cs # <<>>
  PROVE  LastSeparator(Joined(cs)) = From(cs, Len(cs)) - 1
<1>1. PICK n, s, b : n = Len(cs) /\ s = Joined(cs) /\ b = From(cs, n)
  OBVIOUS
<1>2. n \in 1..Len(cs) /\ n = Len(cs)
  <2>1. Len(cs) \in Nat /\ Len(cs) # 0
    OBVIOUS
  <2> QED
    BY <1>1, <2>1
<1>3. /\ s \in Seq(T) /\ b \in Nat \ {0} /\ Len(cs[n]) \in Nat \ {0}
      /\ Len(s) = b - 1 + Len(cs[n])
      /\ \A i \in b..Len(s) : s[i] # "/"
      /\ Begins(s, b)
  <2>1. PICK m : m = Len(Upto(cs, n))
    OBVIOUS
  <2>2. /\ s \in Seq(T) /\ b \in Nat \ {0} /\ Len(cs[n]) \in Nat \ {0}
        /\ m = b - 1 + Len(cs[n]) /\ (m = Len(s) <=> n = Len(cs))
        /\ \A i \in b..m : s[i] # "/"
        /\ Begins(s, b)
    BY <1>1, <1>2, <2>1, LayoutFacts
  <2>3. m = Len(s)
    BY <1>2, <2>2
  <2> QED
    BY <2>2, <2>3
<1>4. b - 1 \in 0..Len(s) /\ Len(s) \in Nat
  BY <1>3
<1>5. /\ b - 1 > 0 => s[b - 1] = "/"
      /\ \A j \in ((b - 1) + 1)..Len(s) : s[j] # "/"
  BY <1>3 DEF Begins
<1>6. ASSUME NEW i \in 0..Len(s), i > 0 => s[i] = "/", \A j \in (i + 1)..Len(s) : s[j] # "/"
      PROVE  i = b - 1
  <2>1. ~(i > b - 1)
    <3>1. i > b - 1 => i \in ((b - 1) + 1)..Len(s) /\ i > 0
      BY <1>4
    <3> QED
      BY <1>5, <1>6, <3>1
  <2>2. ~(i < b - 1)
    <3>1. i < b - 1 => b - 1 \in (i + 1)..Len(s) /\ b - 1 > 0
      BY <1>4
    <3> QED
      BY <1>5, <1>6, <3>1
  <2> QED
    BY <1>4, <2>1, <2>2
<1>7. PICK l : l = LastSeparator(s)
  OBVIOUS
<1>8. /\ l \in 0..Len(s) /\ (l > 0 => s[l] = "/")
      /\ \A j \in (l + 1)..Len(s) : s[j] # "/"
  BY <1>4, <1>5, <1>7 DEF LastSeparator
<1> QED
  BY <1>1, <1>6, <1>7, <1>8

\* Parent and file name split a path as Front and Last split its components.
LEMMA SplitFacts ==
  ASSUME NEW T, "/" \in T, NEW cs \in Seq(Simple(T)), cs # <<>>
  PROVE  /\ Filename(Joined(cs)) = Last(cs)
         /\ Components(Parent(Joined(cs))) = Front(cs)
<1>1. PICK n, s, b, U, c : /\ n = Len(cs) /\ s = Joined(cs) /\ b = From(cs, n)
                           /\ U = Simple(T) /\ c = cs[n]
  OBVIOUS
<1>2. n \in 1..Len(cs) /\ n = Len(cs) /\ cs \in Seq(U)
  <2>1. Len(cs) \in Nat /\ Len(cs) # 0
    OBVIOUS
  <2> QED
    BY <1>1, <2>1
<1>3. /\ s \in Seq(T) /\ b \in Nat \ {0} /\ Len(c) \in Nat \ {0}
      /\ Len(s) = b - 1 + Len(c)
      /\ \A i \in 1..Len(c) : s[b + i - 1] = c[i]
  <2>1. PICK m : m = Len(Upto(cs, n))
    OBVIOUS
  <2>2. /\ s \in Seq(T) /\ b \in Nat \ {0} /\ Len(c) \in Nat \ {0}
        /\ m = b - 1 + Len(c) /\ (m = Len(s) <=> n = Len(cs))
        /\ \A i \in 1..Len(c) : s[b + i - 1] = c[i]
    <3>1. PICK k : k = n
      OBVIOUS
    <3>2. k \in 1..Len(cs) /\ c = cs[k] /\ b = From(cs, k) /\ m = Len(Upto(cs, k))
      BY <1>1, <1>2, <2>1, <3>1
    <3>3. /\ s \in Seq(T) /\ b \in Nat \ {0} /\ Len(c) \in Nat \ {0}
          /\ m = b - 1 + Len(c) /\ (m = Len(s) <=> k = Len(cs))
          /\ \A i \in 1..Len(c) : s[b + i - 1] = c[i]
      BY <1>1, <3>2, LayoutFacts
    <3> QED
      BY <3>1, <3>3
  <2>3. m = Len(s)
    BY <1>2, <2>2
  <2> QED
    BY <2>2, <2>3
<1>4. LastSeparator(s) = b - 1
  BY <1>1, LastSeparatorFacts
<1>5. Filename(s) = c
  <2>1. PICK d : d = SubSeq(s, b, Len(s))
    OBVIOUS
  <2>2. Len(s) \in Nat /\ b \in 1..(Len(s) + 1)
    BY <1>3
  <2>3. d \in Seq(T) /\ Len(d) = Len(c) /\ \A i \in 1..Len(c) : d[i] = s[b + i - 1]
    BY <1>3, <2>1, <2>2
  <2>4. c \in Seq(T)
    <3>1. c \in Simple(T)
      BY <1>1, <1>2, ElementOfSeq
    <3> QED
      BY <3>1 DEF Simple
  <2>5. d = c
    BY <1>3, <2>3, <2>4, SeqEqual
  <2>6. (b - 1) + 1 = b
    BY <1>3
  <2> QED
    BY <1>4, <2>1, <2>5, <2>6 DEF Filename
<1>6. Front(cs) = SubSeq(cs, 1, n - 1) /\ Last(cs) = c
  BY <1>1 DEF Front, Last
<1>7. SubSeq(cs, 1, n - 1) \in Seq(U)
  BY <1>2
<1>8. n - 1 \in 0..Len(cs) /\ cs \in Seq(Seq(T))
  <2>1. Simple(T) \subseteq Seq(T)
    BY DEF Simple
  <2>2. cs \in Seq(Seq(T))
    BY <2>1, SeqMonotonic
  <2> QED
    BY <1>2, <2>2
<1>9. Parent(s) = Upto(cs, n - 1)
  <2>1. Parent(s) = SubSeq(s, 1, b - 2)
    <3>1. (b - 1) - 1 = b - 2
      BY <1>3
    <3> QED
      BY <1>4, <3>1 DEF Parent
  <2>2. CASE n = 1
    <3>1. b = 1 /\ n - 1 = 0
      BY <1>1, <2>2 DEF From
    <3>2. b - 2 = -1
      BY <3>1
    <3>3. SubSeq(s, 1, -1) = <<>>
      BY <1>3
    <3>4. Upto(cs, 0) = <<>>
      BY <1>8, JoinedFacts
    <3> QED
      BY <2>1, <3>1, <3>2, <3>3, <3>4
  <2>3. CASE n # 1
    <3>1. PICK q : q = Upto(cs, n - 1)
      OBVIOUS
    <3>2. q \in Seq(T)
      BY <1>8, <3>1, JoinedFacts
    <3>3. s = Upto(cs, Len(cs)) /\ Len(cs) \in (n - 1)..Len(cs)
      <4>1. s = Upto(cs, Len(cs))
        BY <1>1, <1>8, JoinedFacts
      <4>2. Len(cs) \in (n - 1)..Len(cs)
        BY <1>2
      <4> QED
        BY <4>1, <4>2
    <3>4. Len(q) <= Len(s) /\ \A i \in 1..Len(q) : s[i] = q[i]
      BY <1>8, <3>1, <3>3, JoinedFacts
    <3>5. b - 2 = Len(q)
      <4>1. b = Len(q) + 2
        BY <1>1, <2>3, <3>1 DEF From
      <4> QED
        BY <3>2, <4>1
    <3>6. PICK r : r = SubSeq(s, 1, Len(q))
      OBVIOUS
    <3>7. r \in Seq(T) /\ Len(r) = Len(q) /\ \A i \in 1..Len(q) : r[i] = q[i]
      BY <1>3, <3>2, <3>4, <3>6
    <3>8. r = q
      BY <3>2, <3>7, SeqEqual
    <3> QED
      BY <2>1, <3>1, <3>5, <3>6, <3>8
  <2> QED
    BY <2>2, <2>3
<1>10. Parent(s) = Joined(SubSeq(cs, 1, n - 1))
  BY <1>8, <1>9, UptoJoins
<1>11. Components(Parent(s)) = SubSeq(cs, 1, n - 1)
  BY <1>1, <1>7, <1>10, JoinedComponents
<1> QED
  BY <1>1, <1>5, <1>6, <1>11

\* As far as a path continues another one behind a separator, it has the same
\* components.
LEMMA SharedComponents ==
  ASSUME NEW T, NEW p \in Seq(T), NEW q \in Seq(T),
         Len(q) > Len(p), SubSeq(q, 1, Len(p)) = p, q[Len(p) + 1] = "/"
  PROVE  Kept(q, Len(p)) = Kept(p, Len(p))
<1>1. Len(p) \in Nat /\ Len(q) \in Nat
  OBVIOUS
<1>2. \A i \in 1..Len(p) : q[i] = p[i]
  <2>1. PICK n : n = Len(p)
    OBVIOUS
  <2>2. \A i \in 1..n : SubSeq(q, 1, n)[i] = q[i]
    BY <1>1, <2>1
  <2> QED
    BY <2>1, <2>2
<1>3. ASSUME NEW i \in 1..Len(p) PROVE ComponentAt(q, i) = ComponentAt(p, i)
  <2>1. i \in 1..(Len(p) + 1) /\ i \in 1..(Len(q) + 1)
    BY <1>1
  <2>2. PICK e : e = EndOf(p, i)
    OBVIOUS
  <2>3. /\ e \in i..(Len(p) + 1) /\ (e > Len(p) \/ p[e] = "/")
        /\ \A k \in i..(e - 1) : p[k] # "/"
    BY <2>1, <2>2, EndFacts
  <2>4. e \in i..(Len(q) + 1) /\ q[e] = "/"
    <3>1. CASE e > Len(p)
      <4>1. e = Len(p) + 1
        BY <1>1, <2>3, <3>1
      <4> QED
        BY <1>1, <4>1
    <3>2. CASE ~(e > Len(p))
      <4>1. e \in 1..Len(p)
        BY <1>1, <2>3, <3>2
      <4> QED
        BY <1>1, <1>2, <2>3, <3>2, <4>1
    <3> QED
      BY <3>1, <3>2
  <2>5. \A k \in i..(e - 1) : k \in 1..Len(p) /\ q[k] # "/"
    <3> SUFFICES ASSUME NEW k \in i..(e - 1) PROVE k \in 1..Len(p) /\ q[k] # "/"
      OBVIOUS
    <3>1. k \in 1..Len(p)
      BY <1>1, <2>3
    <3> QED
      BY <1>2, <2>3, <3>1
  <2>6. EndOf(q, i) = e
    BY <2>1, <2>4, <2>5, EndIs
  <2>7. SubSeq(q, i, e - 1) = SubSeq(p, i, e - 1)
    <3>1. PICK c, d : c = SubSeq(p, i, e - 1) /\ d = SubSeq(q, i, e - 1)
      OBVIOUS
    <3>2. c \in Seq(T) /\ Len(c) = e - i /\ \A k \in 1..Len(c) : c[k] = p[i + k - 1]
      BY <1>1, <2>3, <3>1
    <3>3. d \in Seq(T) /\ Len(d) = e - i /\ \A k \in 1..Len(d) : d[k] = q[i + k - 1]
      BY <1>1, <2>3, <2>4, <3>1
    <3>4. \A k \in 1..Len(c) : c[k] = d[k]
      <4> SUFFICES ASSUME NEW k \in 1..Len(c) PROVE c[k] = d[k]
        OBVIOUS
      <4>1. i + k - 1 \in 1..Len(p)
        BY <1>1, <2>3, <3>2
      <4> QED
        BY <1>2, <3>2, <3>3, <4>1
    <3> QED
      BY <3>1, <3>2, <3>3, <3>4, SeqEqual
  <2>8. PieceAt(q, i) = PieceAt(p, i)
    BY <2>2, <2>6, <2>7 DEF PieceAt
  <2>9. Begins(q, i) <=> Begins(p, i)
    <3>1. CASE i = 1
      BY <3>1 DEF Begins
    <3>2. CASE i # 1
      <4>1. i - 1 \in 1..Len(p)
        BY <1>1, <3>2
      <4> QED
        BY <1>2, <4>1 DEF Begins
    <3> QED
      BY <3>1, <3>2
  <2> QED
    BY <2>8, <2>9 DEF ComponentAt
<1>4. SubSeq(Spots(q), 1, Len(p)) = SubSeq(Spots(p), 1, Len(p))
  <2>1. PICK n, a, b : n = Len(p) /\ a = Spots(p) /\ b = Spots(q)
    OBVIOUS
  <2>2. \A i \in 1..n : a[i] = b[i]
    <3> SUFFICES ASSUME NEW i \in 1..n PROVE a[i] = b[i]
      OBVIOUS
    <3>1. i \in 1..(Len(p) + 1) /\ i \in 1..(Len(q) + 1)
      BY <1>1, <2>1
    <3> QED
      BY <1>3, <2>1, <3>1 DEF Spots
  <2>3. SubSeq(a, 1, n) = [i \in 1..n |-> a[i]] /\ SubSeq(b, 1, n) = [i \in 1..n |-> b[i]]
    BY <1>1, <2>1
  <2> QED
    BY <2>1, <2>2, <2>3
<1> QED
  BY <1>4 DEF Kept, Flat

\* Being an ancestor is having fewer of the same components.
LEMMA AncestryFacts ==
  ASSUME NEW T, "/" \in T, NEW cs \in Seq(Simple(T)), NEW ds \in Seq(Simple(T)), cs # <<>>
  PROVE  IsAncestorOf(Joined(cs), Joined(ds)) <=> IsStrictPrefix(cs, ds)
<1>1. PICK p, q, U : p = Joined(cs) /\ q = Joined(ds) /\ U = Simple(T)
  OBVIOUS
<1>2. cs \in Seq(Seq(T)) /\ ds \in Seq(Seq(T))
  <2>1. Simple(T) \subseteq Seq(T)
    BY DEF Simple
  <2> QED
    BY <2>1, SeqMonotonic
<1>3. cs \in Seq(U) /\ ds \in Seq(U) /\ Len(cs) \in Nat \ {0} /\ Len(ds) \in Nat
  BY <1>1
<1>4. p \in Seq(T) /\ q \in Seq(T) /\ p = Upto(cs, Len(cs))
  <2>1. Len(cs) \in 0..Len(cs) /\ Len(ds) \in 0..Len(ds)
    BY <1>3
  <2> QED
    BY <1>1, <1>2, <2>1, JoinedFacts
<1>5. ASSUME IsStrictPrefix(cs, ds) PROVE IsAncestorOf(p, q)
  <2>1. PICK k : k = Len(cs)
    OBVIOUS
  <2>2. k <= Len(ds) /\ SubSeq(ds, 1, k) = cs /\ cs # ds
    <3>1. Len(cs) <= Len(ds) /\ SubSeq(cs, 1, Len(cs)) = SubSeq(ds, 1, Len(cs)) /\ cs # ds
      BY <1>5 DEF IsStrictPrefix, IsPrefix
    <3>2. SubSeq(cs, 1, Len(cs)) = cs
      BY <1>3
    <3> QED
      BY <2>1, <3>1, <3>2
  <2>3. k < Len(ds) /\ k \in 1..Len(ds) /\ k \in 0..Len(ds) /\ Len(ds) \in k..Len(ds)
    <3>1. k # Len(ds)
      <4>1. SubSeq(ds, 1, Len(ds)) = ds
        BY <1>3
      <4> QED
        BY <2>2, <4>1
    <3> QED
      BY <1>3, <2>1, <2>2, <3>1
  <2>4. p = Upto(ds, k)
    BY <1>1, <1>2, <2>2, <2>3, UptoJoins
  <2>5. Len(p) <= Len(q) /\ (Len(p) = Len(q) <=> k = Len(ds)) /\ q[Len(p) + 1] = "/"
    BY <1>1, <2>3, <2>4, LayoutFacts
  <2>6. \A i \in 1..Len(p) : q[i] = p[i]
    <3>1. q = Upto(ds, Len(ds))
      BY <1>1, <1>2, JoinedFacts
    <3> QED
      BY <1>2, <2>3, <2>4, <3>1, JoinedFacts
  <2>7. SubSeq(q, 1, Len(p)) = p
    <3>1. PICK r : r = SubSeq(q, 1, Len(p))
      OBVIOUS
    <3>2. r \in Seq(T) /\ Len(r) = Len(p) /\ \A i \in 1..Len(p) : r[i] = p[i]
      BY <1>4, <2>5, <2>6, <3>1
    <3> QED
      BY <1>4, <3>1, <3>2, SeqEqual
  <2>8. Len(q) > Len(p)
    BY <1>4, <2>3, <2>5
  <2> QED
    BY <2>5, <2>7, <2>8 DEF IsAncestorOf
<1>6. ASSUME IsAncestorOf(p, q) PROVE IsStrictPrefix(cs, ds)
  <2>1. Len(q) > Len(p) /\ SubSeq(q, 1, Len(p)) = p /\ q[Len(p) + 1] = "/"
    BY <1>6 DEF IsAncestorOf
  <2>2. Kept(q, Len(p)) = Kept(p, Len(p))
    BY <1>4, <2>1, SharedComponents
  <2>3. Kept(p, Len(p)) = cs
    <3>1. Len(cs) \in 0..Len(cs) /\ SubSeq(cs, 1, Len(cs)) = cs
      BY <1>3
    <3> QED
      BY <1>1, <1>4, <3>1, KeptOfJoined
  <2>4. Kept(q, Len(q) + 1) = ds
    BY <1>1, <1>4, KeptFacts, JoinedComponents
  <2>5. Len(cs) <= Len(ds) /\ \A i \in 1..Len(cs) : ds[i] = cs[i]
    <3>1. Len(p) \in 0..(Len(q) + 1) /\ Len(q) + 1 \in Len(p)..(Len(q) + 1)
      BY <1>4, <2>1
    <3> QED
      BY <1>4, <2>2, <2>3, <2>4, <3>1, KeptFacts
  <2>6. SubSeq(ds, 1, Len(cs)) = SubSeq(cs, 1, Len(cs))
    <3>1. PICK r : r = SubSeq(ds, 1, Len(cs))
      OBVIOUS
    <3>2. r \in Seq(U) /\ Len(r) = Len(cs) /\ \A i \in 1..Len(cs) : r[i] = cs[i]
      BY <1>3, <2>5, <3>1
    <3>3. r = cs
      BY <1>3, <3>2, SeqEqual
    <3>4. SubSeq(cs, 1, Len(cs)) = cs
      BY <1>3
    <3> QED
      BY <3>1, <3>3, <3>4
  <2>7. cs # ds
    <3>1. Len(p) \in Nat /\ Len(p) # Len(q)
      BY <1>4, <2>1
    <3>2. p # q
      BY <3>1
    <3> QED
      BY <1>1, <3>2
  <2> QED
    BY <2>5, <2>6, <2>7 DEF IsStrictPrefix, IsPrefix
<1> QED
  BY <1>1, <1>5, <1>6

-----------------------------------------------------------------------------
(* The normal form *)

\* The bytes a path may hold.
Safe == Byte \ {"nul", "lf", "cr"}

\* A separator is a byte that a path may hold.
LEMMA SafeBytes ==
  "/" \in Safe /\ "/" \in Byte /\ "digest" \notin Byte /\ Safe \subseteq Byte
<1>1. "/" \in ToSet(ByteOrder)
  <2>1. 6 \in DOMAIN ByteOrder /\ ByteOrder[6] = "/"
    BY DEF ByteOrder
  <2> QED
    BY <2>1 DEF ToSet
<1> QED
  BY <1>1 DEF Byte, Safe

\* Which byte strings parse accepts.
LEMMA ParsableFacts ==
  ASSUME NEW s \in Seq(Byte)
  PROVE  /\ ~IsDigest(s)
         /\ Holds(s, {"nul", "lf", "cr"}) <=> s \notin Seq(Safe)
         /\ Parsable(s) <=> /\ s # <<>> /\ Head(s) # "/" /\ s \in Seq(Safe)
                            /\ Components(s) # <<>>
                            /\ \A k \in DOMAIN Components(s) : Components(s)[k] # <<".", ".">>
         /\ Normalized(s) = Joined(Components(s))
<1>1. ~IsDigest(s)
  <2>1. s # <<>> => Head(s) \in Byte
    OBVIOUS
  <2> QED
    BY <2>1, SafeBytes DEF IsDigest
<1>2. Holds(s, {"nul", "lf", "cr"}) <=> s \notin Seq(Safe)
  <2>1. DOMAIN s = 1..Len(s) /\ Len(s) \in Nat /\ \A i \in 1..Len(s) : s[i] \in Byte
    OBVIOUS
  <2>2. ASSUME s \in Seq(Safe) PROVE ~ \E i \in DOMAIN s : s[i] \in {"nul", "lf", "cr"}
    <3>1. \A i \in 1..Len(s) : s[i] \in Safe
      BY <2>2
    <3> QED
      BY <2>1, <3>1 DEF Safe
  <2>3. ASSUME ~ \E i \in DOMAIN s : s[i] \in {"nul", "lf", "cr"} PROVE s \in Seq(Safe)
    <3>1. \A i \in 1..Len(s) : s[i] \in Safe
      BY <2>1, <2>3 DEF Safe
    <3> QED
      BY <2>1, <3>1
  <2> QED
    BY <1>1, <2>2, <2>3 DEF Holds
<1> QED
  BY <1>1, <1>2 DEF Parsable, Normalized

\* Joining the components of a path spells it once and for all.
LEMMA NormalForm ==
  ASSUME NEW s \in Seq(Byte), Parsable(s)
  PROVE  /\ Components(s) \in Seq(Simple(Byte)) /\ Components(s) # <<>>
         /\ Normalized(s) = Joined(Components(s))
         /\ Normalized(s) \in Seq(Byte) /\ Normalized(s) # <<>>
         /\ Components(Normalized(s)) = Components(s)
         /\ Parsable(Normalized(s))
         /\ Normalized(Normalized(s)) = Normalized(s)
<1>1. PICK cs, v : cs = Components(s) /\ v = Joined(cs)
  OBVIOUS
<1>2. /\ s # <<>> /\ Head(s) # "/" /\ s \in Seq(Safe) /\ cs # <<>>
      /\ \A k \in DOMAIN cs : cs[k] # <<".", ".">>
      /\ Normalized(s) = v
  BY <1>1, ParsableFacts
<1>3. /\ Kept(s, Len(s) + 1) = cs
      /\ \A k \in 0..(Len(s) + 1) : Kept(s, k) \in Seq(Simple(Safe))
  BY <1>1, <1>2, KeptFacts
<1>4. cs \in Seq(Simple(Safe))
  <2>1. Len(s) + 1 \in 0..(Len(s) + 1)
    BY <1>2
  <2> QED
    BY <1>3, <2>1
<1>5. cs \in Seq(Simple(Byte)) /\ Seq(Safe) \subseteq Seq(Byte)
  <2>1. Seq(Safe) \subseteq Seq(Byte)
    BY SafeBytes, SeqMonotonic
  <2>2. Simple(Safe) \subseteq Simple(Byte)
    BY <2>1 DEF Simple
  <2>3. Seq(Simple(Safe)) \subseteq Seq(Simple(Byte))
    BY <2>2, SeqMonotonic
  <2> QED
    BY <1>4, <2>1, <2>3
<1>6. Components(v) = cs
  BY <1>1, <1>4, SafeBytes, JoinedComponents
<1>7. 1 \in 1..Len(cs) /\ 1 \in DOMAIN cs
  BY <1>2, <1>4
<1>8. /\ v \in Seq(Safe) /\ Len(cs[1]) \in Nat \ {0}
      /\ \A i \in 1..Len(cs[1]) : v[From(cs, 1) + i - 1] = cs[1][i]
      /\ Len(Upto(cs, 1)) = From(cs, 1) - 1 + Len(cs[1])
      /\ Len(Upto(cs, 1)) <= Len(v)
      /\ \A i \in From(cs, 1)..Len(Upto(cs, 1)) : v[i] # "/"
  BY <1>1, <1>4, <1>7, SafeBytes, LayoutFacts
<1>9. v # <<>> /\ Head(v) # "/"
  <2>1. From(cs, 1) = 1
    BY DEF From
  <2>2. 1 \in From(cs, 1)..Len(Upto(cs, 1)) /\ Len(v) # 0
    BY <1>8, <2>1
  <2> QED
    BY <1>8, <2>2
<1>10. Parsable(v) /\ Normalized(v) = v
  <2>1. v \in Seq(Byte)
    BY <1>5, <1>8
  <2> QED
    BY <1>1, <1>2, <1>6, <1>8, <1>9, <2>1, ParsableFacts
<1> QED
  BY <1>1, <1>2, <1>5, <1>6, <1>8, <1>9, <1>10

-----------------------------------------------------------------------------
(* The scan *)

\* What one round of the scan keeps, and what it may refuse.
LEMMA ScanFacts ==
  ASSUME NEW T, NEW s \in Seq(T), NEW i \in 1..(Len(s) + 1), Begins(s, i)
  PROVE  /\ Kept(s, EndOf(s, i)) =
              IF PieceAt(s, i) \in {<<>>, <<".">>} THEN Kept(s, i - 1)
              ELSE Append(Kept(s, i - 1), PieceAt(s, i))
         /\ PieceAt(s, i) = <<".", ".">> =>
              \E k \in DOMAIN Components(s) : Components(s)[k] = <<".", ".">>
<1>1. PICK U, p, c, cs : /\ U = Simple(T) /\ p = Kept(s, i - 1) /\ c = PieceAt(s, i)
                         /\ cs = Components(s)
  OBVIOUS
<1>2. Len(s) \in Nat /\ i - 1 \in 0..(Len(s) + 1) /\ i \in 0..(Len(s) + 1)
  OBVIOUS
<1>3. p \in Seq(U) /\ Kept(s, i) \in Seq(U) /\ cs \in Seq(U)
  <2>1. Len(s) + 1 \in 0..(Len(s) + 1)
    BY <1>2
  <2> QED
    BY <1>1, <1>2, <2>1, KeptFacts
<1>4. Kept(s, i) = p \o ComponentAt(s, i)
  BY <1>1, KeptFacts
<1>5. EndOf(s, i) \in i..EndOf(s, i)
  <2>1. EndOf(s, i) \in i..(Len(s) + 1)
    BY EndFacts
  <2> QED
    BY <1>2, <2>1
<1>6. Kept(s, EndOf(s, i)) = Kept(s, i)
  BY <1>5, KeptSkips
<1>7. c \in {<<>>, <<".">>} => Kept(s, i) = p
  <2>1. c \in {<<>>, <<".">>} => ComponentAt(s, i) = <<>>
    BY <1>1 DEF ComponentAt
  <2>2. p \o <<>> = p
    BY <1>3
  <2> QED
    BY <1>4, <2>1, <2>2
<1>8. c \notin {<<>>, <<".">>} => Kept(s, i) = Append(p, c)
  <2>1. ASSUME c \notin {<<>>, <<".">>} PROVE ComponentAt(s, i) = <<c>> /\ c \in U
    <3>1. ComponentAt(s, i) = <<c>>
      BY <1>1, <2>1 DEF ComponentAt
    <3>2. ComponentAt(s, i) \in Seq(U)
      BY <1>1, ComponentType
    <3> QED
      BY <3>1, <3>2
  <2>2. c \in U => p \o <<c>> = Append(p, c)
    BY <1>3
  <2> QED
    BY <1>4, <2>1, <2>2
<1>9. ASSUME c = <<".", ".">> PROVE \E k \in DOMAIN cs : cs[k] = <<".", ".">>
  <2>1. Kept(s, i) = Append(p, c)
    BY <1>8, <1>9
  <2>2. PICK r, n : r = Kept(s, i) /\ n = Len(r)
    OBVIOUS
  <2>3. n \in 1..n /\ r[n] = c
    <3>1. Len(r) = Len(p) + 1 /\ Len(p) \in Nat /\ r[Len(p) + 1] = c
      BY <1>3, <2>1, <2>2
    <3> QED
      BY <2>2, <3>1
  <2>4. n <= Len(cs) /\ cs[n] = r[n]
    <3>1. Len(s) + 1 \in i..(Len(s) + 1)
      BY <1>2
    <3>2. /\ Len(Kept(s, i)) <= Len(Kept(s, Len(s) + 1))
          /\ \A k \in 1..Len(Kept(s, i)) : Kept(s, Len(s) + 1)[k] = Kept(s, i)[k]
      BY <1>2, <3>1, KeptFacts
    <3>3. Kept(s, Len(s) + 1) = cs
      BY <1>1, KeptFacts
    <3> QED
      BY <2>2, <2>3, <3>2, <3>3
  <2>5. n \in DOMAIN cs
    <3>1. DOMAIN cs = 1..Len(cs) /\ Len(cs) \in Nat
      BY <1>3
    <3> QED
      BY <2>3, <2>4, <3>1
  <2> QED
    BY <1>9, <2>3, <2>4, <2>5
<1> QED
  BY <1>1, <1>6, <1>7, <1>8, <1>9

\* What the checks at the front let through.
Checked(s) == s # <<>> /\ Head(s) # "/" /\ s \in Seq(Safe)

\* Between two rounds the components kept are those that begin before the next
\* one, and none of them leaves the root.
PathInv ==
  /\ input \in Inputs
  /\ phase \in {"check", "scan", "join", "parsed", "refused"}
  /\ begin \in 1..(Len(input) + 1) /\ Begins(input, begin)
  /\ components \in Seq(Simple(Byte))
  /\ phase = "check" => begin = 1 /\ components = <<>>
  /\ phase \in {"scan", "join", "parsed"} =>
       Checked(input) /\ \A k \in DOMAIN components : components[k] # <<".", ".">>
  /\ phase = "scan" => components = Kept(input, begin - 1)
  /\ phase \in {"join", "parsed"} => components = Components(input)
  /\ phase = "parsed" => components # <<>> /\ value = Joined(components)
  /\ phase # "parsed" => value = <<>>
  /\ phase = "refused" => ~Parsable(input)

\* The invariant holds of every input before it is parsed.
LEMMA PathInit == Init => PathInv
<1>1. SUFFICES ASSUME Init PROVE PathInv
  OBVIOUS
<1>2. input \in Seq(Byte)
  BY <1>1, InputsAssumption DEF Init
<1>3. 1 \in 1..(Len(input) + 1) /\ <<>> \in Seq(Simple(Byte))
  BY <1>2
<1> QED
  BY <1>1, <1>3 DEF Init, PathInv, Begins

\* The checks of parse keep the invariant.
LEMMA CheckKeeps == ASSUME PathInv, Check PROVE PathInv'
<1>1. input \in Seq(Byte) /\ input' = input
  BY InputsAssumption DEF PathInv, Check, Refused
<1>2. phase = "check"
  BY DEF Check
<1>3. CASE input = <<>> \/ Head(input) = "/" \/ Holds(input, {"nul", "lf", "cr"})
  <2>1. ~Parsable(input)
    BY <1>1, <1>3, ParsableFacts
  <2>2. Refused
    BY <1>3 DEF Check
  <2> QED
    BY <1>2, <2>1, <2>2 DEF PathInv, Refused
<1>4. CASE ~(input = <<>> \/ Head(input) = "/" \/ Holds(input, {"nul", "lf", "cr"}))
  <2>1. phase' = "scan" /\ UNCHANGED <<input, begin, components, value>>
    BY <1>4 DEF Check
  <2>2. Checked(input)
    BY <1>1, <1>4, ParsableFacts DEF Checked
  <2>3. components = <<>> /\ begin - 1 = 0 /\ Kept(input, 0) = <<>>
    BY <1>1, <1>2, KeptFacts DEF PathInv
  <2> QED
    BY <1>2, <2>1, <2>2, <2>3 DEF PathInv
<1> QED
  BY <1>3, <1>4

\* Scanning a component keeps the invariant.
LEMMA ScanKeeps == ASSUME PathInv, Scan PROVE PathInv'
<1>1. input \in Seq(Byte) /\ input' = input
  BY InputsAssumption DEF PathInv, Scan, Refused
<1>2. /\ phase = "scan" /\ Checked(input) /\ components = Kept(input, begin - 1)
      /\ begin \in 1..(Len(input) + 1) /\ Begins(input, begin) /\ value = <<>>
      /\ components \in Seq(Simple(Byte))
      /\ \A k \in DOMAIN components : components[k] # <<".", ".">>
  BY DEF PathInv, Scan
<1>3. PICK e, c : e = EndOf(input, begin) /\ c = PieceAt(input, begin)
  OBVIOUS
<1>4. End = e /\ Component = c
  <2>1. End = e
    BY <1>3 DEF End, EndOf
  <2> QED
    BY <1>3, <2>1 DEF Component, PieceAt
<1>5. CASE Escapes
  <2>1. \E k \in DOMAIN Components(input) : Components(input)[k] = <<".", ".">>
    BY <1>1, <1>2, <1>3, <1>4, <1>5, ScanFacts DEF Escapes
  <2>2. ~Parsable(input)
    BY <1>1, <2>1, ParsableFacts
  <2>3. Refused
    BY <1>5 DEF Scan
  <2> QED
    BY <1>2, <2>2, <2>3 DEF PathInv, Refused
<1>6. CASE ~Escapes
  <2>1. /\ components' = IF Names THEN Append(components, Component) ELSE components
        /\ phase' = IF e > Len(input) THEN "join" ELSE "scan"
        /\ begin' = IF e > Len(input) THEN begin ELSE e + 1
        /\ value' = value
    BY <1>4, <1>6 DEF Scan
  <2>2. /\ e \in begin..(Len(input) + 1) /\ Len(input) \in Nat
        /\ e > Len(input) \/ input[e] = "/"
    BY <1>1, <1>2, <1>3, EndFacts
  <2>3. components' = Kept(input, e)
    BY <1>1, <1>2, <1>3, <1>4, <2>1, ScanFacts DEF Names
  <2>4. components' \in Seq(Simple(Byte))
    <3>1. e \in 0..(Len(input) + 1)
      BY <1>2, <2>2
    <3> QED
      BY <1>1, <2>3, <3>1, KeptFacts
  <2>5. \A k \in DOMAIN components' : components'[k] # <<".", ".">>
    <3>1. PICK p, U : p = components /\ U = Simple(Byte)
      OBVIOUS
    <3>2. p \in Seq(U) /\ \A k \in 1..Len(p) : p[k] # <<".", ".">>
      <4>1. p \in Seq(U) /\ \A k \in DOMAIN p : p[k] # <<".", ".">>
        BY <1>2, <3>1
      <4>2. DOMAIN p = 1..Len(p)
        BY <4>1
      <4> QED
        BY <4>1, <4>2
    <3>3. CASE Names
      <4>1. components' = Append(p, c)
        BY <1>4, <2>1, <3>1, <3>3
      <4>2. c # <<".", ".">>
        BY <1>4, <1>6 DEF Escapes
      <4>3. /\ Len(Append(p, c)) = Len(p) + 1 /\ Len(p) \in Nat
            /\ DOMAIN Append(p, c) = 1..(Len(p) + 1)
            /\ \A k \in 1..(Len(p) + 1) : Append(p, c)[k] = IF k <= Len(p) THEN p[k] ELSE c
        BY <3>2
      <4>4. \A k \in DOMAIN Append(p, c) : Append(p, c)[k] # <<".", ".">>
        <5> SUFFICES ASSUME NEW k \in 1..(Len(p) + 1) PROVE Append(p, c)[k] # <<".", ".">>
          BY <4>3
        <5>1. k <= Len(p) => k \in 1..Len(p)
          BY <4>3
        <5> QED
          BY <3>2, <4>2, <4>3, <5>1
      <4> QED
        BY <4>1, <4>4
    <3>4. CASE ~Names
      BY <1>2, <2>1, <3>4
    <3> QED
      BY <3>3, <3>4
  <2>6. CASE e > Len(input)
    <3>1. e = Len(input) + 1
      BY <2>2, <2>6
    <3>2. components' = Components(input)
      BY <1>1, <2>3, <3>1, KeptFacts
    <3>3. phase' = "join" /\ begin' = begin /\ value' = <<>>
      BY <1>2, <2>1, <2>6
    <3> QED
      BY <1>1, <1>2, <2>4, <2>5, <3>2, <3>3 DEF PathInv
  <2>7. CASE ~(e > Len(input))
    <3>1. phase' = "scan" /\ begin' = e + 1 /\ value' = <<>>
      BY <1>2, <2>1, <2>7
    <3>2. e + 1 \in 1..(Len(input) + 1) /\ (e + 1) - 1 = e
      BY <1>2, <2>2, <2>7
    <3>3. Begins(input, e + 1)
      BY <2>2, <2>7, <3>2 DEF Begins
    <3> QED
      BY <1>1, <1>2, <2>3, <2>4, <2>5, <3>1, <3>2, <3>3 DEF PathInv
  <2> QED
    BY <2>6, <2>7
<1> QED
  BY <1>5, <1>6

\* Joining a component keeps the invariant.
LEMMA JoinKeeps == ASSUME PathInv, Join PROVE PathInv'
<1>1. input \in Seq(Byte) /\ input' = input /\ phase = "join" /\ components = Components(input)
  BY InputsAssumption DEF PathInv, Join, Refused
<1>2. CASE components = <<>>
  <2>1. ~Parsable(input)
    BY <1>1, <1>2, ParsableFacts
  <2>2. Refused
    BY <1>2 DEF Join
  <2> QED
    BY <1>1, <2>1, <2>2 DEF PathInv, Refused
<1>3. CASE components # <<>>
  <2>1. /\ value' = Joined(components) /\ phase' = "parsed"
        /\ UNCHANGED <<input, begin, components>>
    BY <1>3 DEF Join
  <2> QED
    BY <1>1, <1>3, <2>1 DEF PathInv
<1> QED
  BY <1>2, <1>3

\* The inductive invariant holds always.
LEMMA PathInductive == Spec => []PathInv
<1>1. PathInv /\ [Next]_vars => PathInv'
  <2>1. ASSUME PathInv, UNCHANGED vars PROVE PathInv'
    BY <2>1 DEF PathInv, vars
  <2> QED
    BY <2>1, CheckKeeps, ScanKeeps, JoinKeeps DEF Next, Done
<1> QED
  BY PathInit, <1>1, PTL DEF Spec

\* The scan stays inside the string and keeps nothing empty.
THEOREM PathTypeCorrect == Spec => []PathTypeOK
<1>1. PathInv => PathTypeOK
  <2>1. SUFFICES ASSUME PathInv, NEW k \in DOMAIN components
                 PROVE  components[k] # <<>> /\ ~Holds(components[k], {"/"})
    BY DEF PathInv, PathTypeOK
  <2>2. components[k] \in Simple(Byte)
    BY <2>1 DEF PathInv
  <2> QED
    BY <2>2 DEF Simple, Holds
<1> QED
  BY <1>1, PathInductive, PTL

\* parse accepts exactly the spellings of an object inside the root, whatever
\* the string, and its value is the one spelling that reads back as itself.
THEOREM ParseHolds == Spec => []ParsesToNormalForm
<1>1. PathInv => ParsesToNormalForm
  <2>1. SUFFICES ASSUME PathInv PROVE ParsesToNormalForm
    OBVIOUS
  <2>2. input \in Seq(Byte)
    BY <2>1, InputsAssumption DEF PathInv
  <2>3. ASSUME phase = "parsed"
        PROVE  /\ Parsable(input) /\ value = Normalized(input)
               /\ Parsable(value) /\ Normalized(value) = value
    <3>1. Parsable(input) /\ value = Normalized(input)
      BY <2>1, <2>2, <2>3, ParsableFacts DEF PathInv, Checked
    <3> QED
      BY <2>2, <3>1, NormalForm
  <2> QED
    BY <2>1, <2>3 DEF ParsesToNormalForm, PathInv
<1> QED
  BY <1>1, PathInductive, PTL

\* Parent, file name and ancestry of the paths parse returns are those of their
\* component sequences.
THEOREM AncestryHolds == Spec => []AncestryIsStructural
<1>1. PathInv => AncestryIsStructural
  <2>1. SUFFICES ASSUME PathInv, phase = "parsed"
                 PROVE  /\ Components(Parent(value)) = Front(Components(value))
                        /\ Filename(value) = Last(Components(value))
                        /\ \A p \in NormalPaths :
                             IsAncestorOf(value, p) <=>
                               IsStrictPrefix(Components(value), Components(p))
    BY DEF AncestryIsStructural
  <2>2. input \in Seq(Byte)
    BY <2>1, InputsAssumption DEF PathInv
  <2>3. Parsable(input) /\ value = Normalized(input)
    BY <2>1, <2>2, ParsableFacts DEF PathInv, Checked
  <2>4. PICK cs : cs = Components(value)
    OBVIOUS
  <2>5. cs \in Seq(Simple(Byte)) /\ cs # <<>> /\ value = Joined(cs)
    BY <2>2, <2>3, <2>4, NormalForm
  <2>6. Filename(value) = Last(cs) /\ Components(Parent(value)) = Front(cs)
    BY <2>5, SafeBytes, SplitFacts
  <2>7. ASSUME NEW p \in NormalPaths
        PROVE  IsAncestorOf(value, p) <=> IsStrictPrefix(cs, Components(p))
    <3>1. PICK s \in Inputs : Parsable(s) /\ p = Normalized(s)
      BY DEF NormalPaths
    <3>2. s \in Seq(Byte)
      BY InputsAssumption
    <3>3. PICK ds : ds = Components(p)
      OBVIOUS
    <3>4. ds \in Seq(Simple(Byte)) /\ p = Joined(ds)
      BY <3>1, <3>2, <3>3, NormalForm
    <3> QED
      BY <2>5, <3>3, <3>4, SafeBytes, AncestryFacts
  <2> QED
    BY <2>4, <2>6, <2>7
<1> QED
  BY <1>1, PathInductive, PTL

================================================================================
