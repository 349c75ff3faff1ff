------------------------- MODULE RequestDecodingProofs -------------------------
(***************************************************************************)
(* What the decoder of requests guarantees of whatever it is given: it     *)
(* accepts nothing but the one encoding of a request that could be made    *)
(* against the retained snapshot, refuses no such encoding that its bound  *)
(* on collections admits, and names a request of another snapshot.         *)
(***************************************************************************)
EXTENDS RequestDecoding, PublicationProofs

-----------------------------------------------------------------------------
(* Deltas in name order: every delta once, whatever the request *)

\* Every name has a rank of its own.
LEMMA NameRankFacts ==
  /\ \A x \in Names : /\ NameRank(x) \in 1..Len(NameOrder)
                      /\ NameOrder[NameRank(x)] = x
  /\ IsFiniteSet(Names)
<1> DEFINE n == Len(NameOrder)
<1>1. NameOrder \in Seq(Names) /\ ToSet(NameOrder) = Names
  BY RecordAssumption
<1>2. n \in Nat /\ DOMAIN NameOrder = 1..n
  BY <1>1
<1>3. ASSUME NEW x \in Names
      PROVE  NameRank(x) \in 1..n /\ NameOrder[NameRank(x)] = x
  <2>1. \E i \in DOMAIN NameOrder : NameOrder[i] = x
    BY <1>1 DEF ToSet
  <2> QED
    BY <1>2, <2>1 DEF NameRank
<1>4. NameOrder \in Surjection(1..n, Names)
  <2>1. NameOrder \in [1..n -> Names]
    BY <1>1, <1>2
  <2> QED
    BY <1>3, <2>1 DEF Surjection
<1>5. IsFiniteSet(Names)
  <2>1. IsFiniteSet(1..n)
    BY <1>2, FS_Interval
  <2> QED
    BY <1>4, <2>1, FS_Surjection
<1> QED
  BY <1>3, <1>5

\* A request names each of its packages once, so it has finitely many deltas.
LEMMA DeltasFinite ==
  ASSUME NEW D \in SUBSET Deltas, NameUnique(D)
  PROVE  IsFiniteSet(D)
<1> DEFINE S == {d.name : d \in D}
           f == [x \in S |-> CHOOSE d \in D : d.name = x]
<1>2. S \subseteq Names
  BY DEF Deltas, DeltaRecord
<1>3. IsFiniteSet(S)
  BY <1>2, NameRankFacts, FS_Subset
<1>4. f \in Surjection(S, D)
  <2>1. \A x \in S : f[x] \in D
    OBVIOUS
  <2>2. \A d \in D : d.name \in S /\ f[d.name] = d
    BY DEF NameUnique
  <2> HIDE DEF S
  <2>3. f \in [S -> D]
    BY <2>1
  <2> QED
    BY <2>2, <2>3 DEF Surjection
<1> QED
  BY <1>3, <1>4, FS_Surjection

\* state_publication_request::make keeps what it sorts: the order lists every
\* delta of a request once.
LEMMA InNameOrderFacts ==
  ASSUME NEW S \in SUBSET Deltas, NameUnique(S)
  PROVE  /\ Cardinality(S) \in Nat
         /\ InNameOrder(S) \in [1..Cardinality(S) -> S]
         /\ \A d \in S : \E i \in 1..Cardinality(S) : InNameOrder(S)[i] = d
         /\ \A i, j \in 1..Cardinality(S) :
              InNameOrder(S)[i].name = InNameOrder(S)[j].name => i = j
<1> DEFINE n == Cardinality(S)
           rank == [d \in S |-> NameRank(d.name)]
           o == InNameOrder(S)
<1>1. Ranks(rank, S)
  <2>1. \A d \in S : d.name \in Names
    BY DEF Deltas, DeltaRecord
  <2>3. \A d \in S : NameRank(d.name) \in Nat
    BY <2>1, NameRankFacts
  <2>4. \A d, e \in S : NameRank(d.name) = NameRank(e.name) => d = e
    BY <2>1, NameRankFacts DEF NameUnique
  <2> QED
    BY <2>3, <2>4, DeltasFinite DEF Ranks
<1>2. \A d \in S : Lower(S, rank, d) = {e \in S : NameRank(e.name) < NameRank(d.name)}
  BY DEF Lower
<1>3. o = [i \in 1..n |-> o[i]]
  <2> DEFINE F(i) == CHOOSE d \in S :
               Cardinality({e \in S : NameRank(e.name) < NameRank(d.name)}) = i - 1
  <2>1. o = [i \in 1..n |-> F(i)]
    BY Zenon DEF InNameOrder
  <2> HIDE DEF F, o
  <2> QED
    BY <2>1
<1>4. ASSUME NEW i \in 1..n
      PROVE  o[i] \in S /\ Cardinality(Lower(S, rank, o[i])) = i - 1
  <2> HIDE DEF rank
  <2>1. o[i] = CHOOSE d \in S :
                 Cardinality({e \in S : NameRank(e.name) < NameRank(d.name)}) = i - 1
    BY DEF InNameOrder
  <2>2. \E d \in S : Cardinality({e \in S : NameRank(e.name) < NameRank(d.name)}) = i - 1
    <3>1. \E d \in S : Cardinality(Lower(S, rank, d)) = i - 1
      BY <1>1, LowerFacts
    <3> QED
      BY <1>2, <3>1
  <2>3. /\ o[i] \in S
        /\ Cardinality({e \in S : NameRank(e.name) < NameRank(o[i].name)}) = i - 1
    BY <2>1, <2>2
  <2> QED
    BY <1>2, <2>3
<1> HIDE DEF rank, o
<1>5. /\ n \in Nat /\ o \in [1..n -> S]
      /\ \A d \in S : \E i \in 1..n : o[i] = d
      /\ \A i, j \in 1..n : o[i] = o[j] => i = j
  <2>1. n \in Nat
    BY <1>1, LowerFacts
  <2>2. o \in [1..n -> S]
    BY <1>3, <1>4
  <2>3. Lists(o, S, rank)
    BY <1>4, <2>2 DEF Lists
  <2> QED
    BY <1>1, <2>1, <2>2, <2>3, ListingFacts
<1>6. \A i, j \in 1..n : o[i].name = o[j].name => i = j
  BY <1>5 DEF NameUnique
<1> QED
  BY <1>5, <1>6 DEF o

-----------------------------------------------------------------------------
(* Where the encoder puts each token *)

Sequence(s) == s \in Seq(Range(s))

\* One sequence after another.
LEMMA JoinedFacts ==
  ASSUME NEW p, NEW q, Sequence(p), Sequence(q)
  PROVE  /\ Sequence(p \o q) /\ Len(p) \in Nat /\ Len(q) \in Nat
         /\ Len(p \o q) = Len(p) + Len(q)
         /\ \A i \in 1..Len(p) : (p \o q)[i] = p[i]
         /\ \A i \in 1..Len(q) : (p \o q)[Len(p) + i] = q[i]
<1>1. PICK T : T = Range(p) \cup Range(q)
  OBVIOUS
<1>2. p \in Seq(T)
  <2>1. \A i \in 1..Len(p) : p[i] \in T
    BY <1>1 DEF Sequence, Range
  <2>2. p \in Seq(Range(p))
    BY DEF Sequence
  <2> QED
    BY <2>1, <2>2
<1>3. q \in Seq(T)
  <2>1. \A i \in 1..Len(q) : q[i] \in T
    BY <1>1 DEF Sequence, Range
  <2>2. q \in Seq(Range(q))
    BY DEF Sequence
  <2> QED
    BY <2>1, <2>2
<1>4. PICK r : r = p \o q
  OBVIOUS
<1>5. r \in Seq(T)
  BY <1>2, <1>3, <1>4
<1>6. /\ Len(p) \in Nat /\ Len(q) \in Nat /\ Len(r) = Len(p) + Len(q)
      /\ \A i \in 1..Len(p) : r[i] = p[i]
      /\ \A i \in 1..Len(q) : r[Len(p) + i] = q[i]
  BY <1>2, <1>3, <1>4
<1>7. Sequence(r)
  BY <1>5 DEF Sequence, Range
<1> QED
  BY <1>4, <1>6, <1>7

Present(value) == IF value = None THEN 0 ELSE 1

\* What an optional is written as.
LEMMA OptionalFacts ==
  ASSUME NEW value, NEW token
  PROVE  /\ Sequence(Optional(value, token))
         /\ Len(Optional(value, token)) = 1 + Present(value)
         /\ Optional(value, token)[1] = Boolean(value # None)
         /\ value # None => Optional(value, token)[2] = token
<1>1. PICK b : b = Boolean(value # None)
  OBVIOUS
<1>2. CASE value = None
  <2>1. PICK s : s = <<b>> \o <<>>
    OBVIOUS
  <2>2. s = Optional(value, token)
    BY <1>1, <1>2, <2>1 DEF Optional
  <2>3. s \in Seq({b}) /\ Len(s) = 1 /\ s[1] = b
    BY <2>1
  <2>4. Sequence(s)
    BY <2>3 DEF Sequence, Range
  <2> QED
    BY <1>1, <1>2, <2>2, <2>3, <2>4 DEF Present
<1>3. CASE value # None
  <2>1. PICK s : s = <<b>> \o <<token>>
    OBVIOUS
  <2>2. s = Optional(value, token)
    BY <1>1, <1>3, <2>1 DEF Optional
  <2>3. s \in Seq({b, token}) /\ Len(s) = 2 /\ s[1] = b /\ s[2] = token
    BY <2>1
  <2>4. Sequence(s)
    BY <2>3 DEF Sequence, Range
  <2> QED
    BY <1>1, <1>3, <2>2, <2>3, <2>4 DEF Present
<1> QED
  BY <1>2, <1>3

\* What a delta is written as.
LEMMA DeltaBodyFacts ==
  ASSUME NEW d
  PROVE  /\ Sequence(DeltaBody(d))
         /\ Len(DeltaBody(d)) = 6 + Present(d.expected) + Present(d.proposed)
         /\ DeltaBody(d)[1] = U8(Encode(DeltaKindCodes, d.kind))
         /\ DeltaBody(d)[2] = Text(d.name)
         /\ DeltaBody(d)[3] = Digest(d.plan)
         /\ DeltaBody(d)[4] = Digest(d.application)
         /\ DeltaBody(d)[5] = Boolean(d.expected # None)
         /\ d.expected # None => DeltaBody(d)[6] = Digest(d.expected)
         /\ DeltaBody(d)[6 + Present(d.expected)] = Boolean(d.proposed # None)
         /\ d.proposed # None =>
              DeltaBody(d)[7 + Present(d.expected)] = PackageBody(d.proposed)
<1>1. PICK w, x, y, z : /\ w = U8(Encode(DeltaKindCodes, d.kind)) /\ x = Text(d.name)
                        /\ y = Digest(d.plan) /\ z = Digest(d.application)
  OBVIOUS
<1>2. PICK p : p = <<w, x, y, z>>
  OBVIOUS
<1>3. Sequence(p) /\ Len(p) = 4 /\ p[1] = w /\ p[2] = x /\ p[3] = y /\ p[4] = z
  BY <1>2 DEF Sequence, Range
<1>4. PICK e : e = Optional(d.expected, Digest(d.expected))
  OBVIOUS
<1>5. /\ Sequence(e) /\ Len(e) = 1 + Present(d.expected)
      /\ e[1] = Boolean(d.expected # None)
      /\ d.expected # None => e[2] = Digest(d.expected)
  BY <1>4, OptionalFacts
<1>6. PICK q : q = Optional(d.proposed, PackageBody(d.proposed))
  OBVIOUS
<1>7. /\ Sequence(q) /\ Len(q) = 1 + Present(d.proposed)
      /\ q[1] = Boolean(d.proposed # None)
      /\ d.proposed # None => q[2] = PackageBody(d.proposed)
  BY <1>6, OptionalFacts
<1>8. PICK a : a = p \o e
  OBVIOUS
<1>9. /\ Sequence(a) /\ Len(a) = Len(p) + Len(e)
      /\ \A i \in 1..Len(p) : a[i] = p[i]
      /\ \A i \in 1..Len(e) : a[Len(p) + i] = e[i]
  <2>1. Sequence(p) /\ Sequence(e)
    BY <1>3, <1>5
  <2> QED
    BY <1>8, <2>1, JoinedFacts
<1>10. PICK b : b = a \o q
  OBVIOUS
<1>11. /\ Sequence(b) /\ Len(b) = Len(a) + Len(q)
       /\ \A i \in 1..Len(a) : b[i] = a[i]
       /\ \A i \in 1..Len(q) : b[Len(a) + i] = q[i]
  <2>1. Sequence(a) /\ Sequence(q)
    BY <1>7, <1>9
  <2> QED
    BY <1>10, <2>1, JoinedFacts
<1>12. b = DeltaBody(d)
  BY <1>1, <1>2, <1>4, <1>6, <1>8, <1>10 DEF DeltaBody
<1>13. PICK m, n : m = Present(d.expected) /\ n = Present(d.proposed)
  OBVIOUS
<1>14. /\ m \in 0..1 /\ n \in 0..1
       /\ d.expected # None => m = 1
       /\ d.proposed # None => n = 1
  BY <1>13 DEF Present
<1>15. Len(a) = 5 + m /\ Len(e) = 1 + m /\ Len(q) = 1 + n /\ Len(b) = 6 + m + n
  <2>1. Len(e) = 1 + m /\ Len(q) = 1 + n
    BY <1>5, <1>7, <1>13
  <2>2. Len(a) = 4 + (1 + m)
    BY <1>3, <1>9, <2>1
  <2>3. 4 + (1 + m) = 5 + m /\ (5 + m) + (1 + n) = 6 + m + n
    BY <1>14
  <2>4. Len(b) = (5 + m) + (1 + n)
    BY <1>11, <2>1, <2>2, <2>3
  <2> QED
    BY <2>1, <2>2, <2>3, <2>4
<1>16. /\ b[1] = p[1] /\ b[2] = p[2] /\ b[3] = p[3] /\ b[4] = p[4]
  BY <1>3, <1>9, <1>11, <1>14, <1>15
<1>17. b[5] = e[1] /\ (d.expected # None => b[6] = e[2])
  <2>1. a[5] = e[1] /\ (d.expected # None => a[6] = e[2])
    BY <1>3, <1>9, <1>14, <1>15
  <2> QED
    BY <1>11, <1>14, <1>15, <2>1
<1>18. b[6 + m] = q[1] /\ (d.proposed # None => b[7 + m] = q[2])
  <2>1. 1 \in 1..Len(q) /\ 5 + m + 1 = 6 + m
    BY <1>14, <1>15
  <2>2. d.proposed # None => 2 \in 1..Len(q) /\ 5 + m + 2 = 7 + m
    BY <1>14, <1>15
  <2>3. b[Len(a) + 1] = q[1] /\ (d.proposed # None => b[Len(a) + 2] = q[2])
    BY <1>11, <2>1, <2>2
  <2> QED
    BY <1>15, <2>1, <2>2, <2>3
<1> QED
  BY <1>1, <1>3, <1>5, <1>7, <1>11, <1>12, <1>13, <1>15, <1>16, <1>17, <1>18

\* One delta more of the writer's output.
Extended(f, r, k) ==
  IF k = 0 THEN Header(r) ELSE f[k - 1] \o DeltaBody(InNameOrder(r.deltas)[k])

\* The output is defined: the recursion over the deltas has a solution.
LEMMA OutputIs ==
  ASSUME NEW r, Cardinality(r.deltas) \in Nat
  PROVE  \A k \in 0..Cardinality(r.deltas) : Output(r)[k] = Extended(Output(r), r, k)
<1> DEFINE n == Cardinality(r.deltas)
           Solves(f, m) == \A k \in 0..m : f[k] = Extended(f, r, k)
<1>1. Solves([k \in 0..0 |-> Header(r)], 0)
  BY DEF Extended
<1>2. ASSUME NEW m \in Nat, NEW f, Solves(f, m)
      PROVE  \E g : Solves(g, m + 1)
  <2> DEFINE g == [k \in 0..(m + 1) |-> IF k <= m THEN f[k] ELSE Extended(f, r, k)]
  <2>1. \A k \in 0..(m + 1) : g[k] = Extended(f, r, k)
    BY <1>2
  <2>2. \A k \in 0..(m + 1) : Extended(f, r, k) = Extended(g, r, k)
    <3> SUFFICES ASSUME NEW k \in 0..(m + 1)
                 PROVE  Extended(f, r, k) = Extended(g, r, k)
      OBVIOUS
    <3>1. k # 0 => k - 1 \in 0..(m + 1) /\ k - 1 <= m
      OBVIOUS
    <3>2. k # 0 => g[k - 1] = f[k - 1]
      BY <3>1
    <3> QED
      BY <3>2 DEF Extended
  <2>3. Solves(g, m + 1)
    BY <2>1, <2>2
  <2> QED
    BY <2>3
<1> HIDE DEF Solves
<1>3. \E f : Solves(f, n)
  <2> DEFINE T == {m \in Nat : ~ \E f : Solves(f, m)}
  <2>1. SUFFICES ASSUME T # {} PROVE FALSE
    OBVIOUS
  <2>2. PICK m \in T : \A l \in T : m <= l
    BY <2>1, LeastNatural
  <2>3. m # 0
    BY <1>1
  <2>4. m - 1 \in Nat /\ m - 1 \notin T
    BY <2>2, <2>3
  <2>5. PICK f : Solves(f, m - 1)
    BY <2>4
  <2>6. \E g : Solves(g, (m - 1) + 1)
    BY <1>2, <2>4, <2>5
  <2>7. (m - 1) + 1 = m
    BY <2>2
  <2> QED
    BY <2>2, <2>6, <2>7
<1>4. PICK f : Solves(f, n)
  BY <1>3
<1> DEFINE IsIt(h) == h = [k \in 0..n |-> Extended(h, r, k)]
           g == [k \in 0..n |-> f[k]]
<1>5. IsIt(g)
  <2>1. \A k \in 0..n : f[k] = Extended(f, r, k)
    BY <1>4 DEF Solves
  <2>2. \A k \in 0..n : Extended(f, r, k) = Extended(g, r, k)
    <3> SUFFICES ASSUME NEW k \in 0..n PROVE Extended(f, r, k) = Extended(g, r, k)
      OBVIOUS
    <3>1. k # 0 => k - 1 \in 0..n
      OBVIOUS
    <3>2. k # 0 => g[k - 1] = f[k - 1]
      BY <3>1
    <3> QED
      BY <3>2 DEF Extended
  <2> QED
    BY <2>1, <2>2
<1>6. Output(r) = CHOOSE h : IsIt(h)
  BY DEF Output, Extended
<1> HIDE DEF IsIt
<1>7. IsIt(Output(r))
  BY <1>5, <1>6
<1> QED
  BY <1>7 DEF IsIt

\* The header, token by token.
LEMMA HeaderFacts ==
  ASSUME NEW r
  PROVE  /\ Sequence(Header(r)) /\ Len(Header(r)) = 6
         /\ Header(r)[1] = Magic("request") /\ Header(r)[2] = U16(RequestVersion)
         /\ Header(r)[3] = Digest(RequestIdentity(r))
         /\ Header(r)[4] = Digest(r.expected) /\ Header(r)[5] = Digest(r.target)
         /\ Header(r)[6] = U64(Cardinality(r.deltas))
<1>1. PICK a, b, c, d, e, f :
        /\ a = Magic("request") /\ b = U16(RequestVersion)
        /\ c = Digest(RequestIdentity(r)) /\ d = Digest(r.expected)
        /\ e = Digest(r.target) /\ f = U64(Cardinality(r.deltas))
  OBVIOUS
<1>2. PICK h : h = <<a, b, c, d, e, f>>
  OBVIOUS
<1>3. h = Header(r)
  BY <1>1, <1>2 DEF Header
<1>4. /\ Sequence(h) /\ Len(h) = 6
      /\ h[1] = a /\ h[2] = b /\ h[3] = c /\ h[4] = d /\ h[5] = e /\ h[6] = f
  BY <1>2 DEF Sequence, Range
<1> QED
  BY <1>1, <1>3, <1>4

\* The output only grows.
LEMMA OutputGrows ==
  ASSUME NEW r, Cardinality(r.deltas) \in Nat
  PROVE  \A k \in 0..Cardinality(r.deltas) :
           /\ Sequence(Output(r)[k]) /\ Len(Output(r)[k]) \in Nat
           /\ Len(Output(r)[k]) >= 6 + k
           /\ \A j \in 0..k : /\ Len(Output(r)[j]) <= Len(Output(r)[k])
                              /\ \A i \in 1..Len(Output(r)[j]) :
                                   Output(r)[k][i] = Output(r)[j][i]
<1> DEFINE n == Cardinality(r.deltas)
<1>1. PICK O : O = Output(r)
  OBVIOUS
<1> DEFINE Grows(k) ==
             /\ Sequence(O[k]) /\ Len(O[k]) \in Nat
             /\ Len(O[k]) >= 6 + k
             /\ \A j \in 0..k : /\ Len(O[j]) <= Len(O[k])
                                /\ \A i \in 1..Len(O[j]) : O[k][i] = O[j][i]
<1>2. Grows(0)
  <2>1. O[0] = Header(r)
    BY <1>1, OutputIs DEF Extended
  <2>2. Sequence(O[0]) /\ Len(O[0]) = 6
    BY <2>1, HeaderFacts
  <2>3. \A j \in 0..0 : O[j] = O[0]
    OBVIOUS
  <2>4. PICK l : l = Len(O[0])
    OBVIOUS
  <2>5. l \in Nat /\ l >= 6 + 0 /\ l <= l
    BY <2>2, <2>4
  <2> QED
    BY <2>2, <2>3, <2>4, <2>5
<1>3. ASSUME NEW k \in 1..n, Grows(k - 1) PROVE Grows(k)
  <2>1. PICK p, q : p = O[k - 1] /\ q = DeltaBody(InNameOrder(r.deltas)[k])
    OBVIOUS
  <2>2. O[k] = p \o q
    <3>1. k \in 0..n /\ k # 0
      OBVIOUS
    <3>2. O[k] = Extended(O, r, k)
      BY <1>1, <3>1, OutputIs
    <3> QED
      BY <2>1, <3>1, <3>2 DEF Extended
  <2>3. Sequence(p) /\ Len(p) >= 6 + (k - 1)
    BY <1>3, <2>1
  <2>4. Sequence(q) /\ Len(q) >= 1
    <3>1. PICK d : d = InNameOrder(r.deltas)[k]
      OBVIOUS
    <3>2. Sequence(q) /\ Len(q) = 6 + Present(d.expected) + Present(d.proposed)
      BY <2>1, <3>1, DeltaBodyFacts
    <3>3. Present(d.expected) \in 0..1 /\ Present(d.proposed) \in 0..1
      BY DEF Present
    <3> QED
      BY <3>2, <3>3
  <2>5. Sequence(p) /\ Sequence(q)
    BY <2>3, <2>4
  <2>6. /\ Sequence(O[k]) /\ Len(p) \in Nat /\ Len(q) \in Nat
        /\ Len(O[k]) = Len(p) + Len(q)
        /\ \A i \in 1..Len(p) : O[k][i] = p[i]
    BY <2>2, <2>5, JoinedFacts
  <2>7. Len(O[k]) \in Nat /\ Len(O[k]) >= 6 + k
    BY <2>3, <2>4, <2>6
  <2>8. ASSUME NEW j \in 0..k
        PROVE  /\ Len(O[j]) <= Len(O[k])
               /\ \A i \in 1..Len(O[j]) : O[k][i] = O[j][i]
    <3>1. CASE j = k
      BY <2>7, <3>1
    <3>2. CASE j # k
      <4>1. j \in 0..(k - 1)
        BY <3>2
      <4>2. Len(O[j]) <= Len(p) /\ \A i \in 1..Len(O[j]) : p[i] = O[j][i]
        BY <1>3, <2>1, <4>1
      <4>3. Len(O[j]) \in Nat => \A i \in 1..Len(O[j]) : i \in 1..Len(p)
        BY <2>6, <4>2
      <4> QED
        BY <2>6, <4>2, <4>3
    <3> QED
      BY <3>1, <3>2
  <2> QED
    BY <2>6, <2>7, <2>8
<1> HIDE DEF Grows
<1>4. \A k \in 0..n : Grows(k)
  <2> DEFINE T == {k \in 0..n : ~Grows(k)}
  <2>1. SUFFICES ASSUME T # {} PROVE FALSE
    OBVIOUS
  <2>2. T \subseteq Nat
    OBVIOUS
  <2>3. PICK k \in T : \A l \in T : k <= l
    BY <2>1, <2>2, LeastNatural
  <2>4. k # 0
    BY <1>2
  <2>5. k \in 1..n /\ k - 1 \in 0..n /\ k - 1 \notin T
    BY <2>3, <2>4
  <2> QED
    BY <1>3, <2>5
<1> QED
  BY <1>1, <1>4 DEF Grows

\* Where the first k deltas end.
At(r, k) == Len(Output(r)[k]) + 1

\* The record of r around its deltas.
LEMMA BodyFacts ==
  ASSUME NEW r, Cardinality(r.deltas) \in Nat
  PROVE  /\ Sequence(RequestBody(r)) /\ Len(RequestBody(r)) \in Nat
         /\ \A i \in 1..6 : RequestBody(r)[i] = Header(r)[i]
         /\ At(r, 0) = 7
         /\ At(r, Cardinality(r.deltas)) \in Nat
         /\ At(r, Cardinality(r.deltas)) >= 7 + Cardinality(r.deltas)
         /\ Len(RequestBody(r)) = At(r, Cardinality(r.deltas)) + Present(r.transaction)
         /\ RequestBody(r)[At(r, Cardinality(r.deltas))] = Boolean(r.transaction # None)
         /\ r.transaction # None =>
              RequestBody(r)[At(r, Cardinality(r.deltas)) + 1] = Digest(r.transaction)
         /\ \A k \in 0..Cardinality(r.deltas) : \A i \in 1..Len(Output(r)[k]) :
              RequestBody(r)[i] = Output(r)[k][i]
<1> DEFINE n == Cardinality(r.deltas)
<1>1. PICK o : o = Output(r)[n]
  OBVIOUS
<1>2. PICK t : t = Optional(r.transaction, Digest(r.transaction))
  OBVIOUS
<1>3. PICK b : b = o \o t
  OBVIOUS
<1>4. b = RequestBody(r)
  BY <1>1, <1>2, <1>3 DEF RequestBody
<1>5. n \in 0..n /\ 0 \in 0..n
  OBVIOUS
<1>6. /\ Sequence(o) /\ Len(o) \in Nat /\ Len(o) >= 6 + n
      /\ \A k \in 0..n : /\ Len(Output(r)[k]) <= Len(o)
                         /\ \A i \in 1..Len(Output(r)[k]) : o[i] = Output(r)[k][i]
  <2>1. \A m \in 0..n :
          /\ Sequence(Output(r)[m]) /\ Len(Output(r)[m]) \in Nat
          /\ Len(Output(r)[m]) >= 6 + m
          /\ \A k \in 0..m : /\ Len(Output(r)[k]) <= Len(Output(r)[m])
                             /\ \A i \in 1..Len(Output(r)[k]) :
                                  Output(r)[m][i] = Output(r)[k][i]
    BY OutputGrows
  <2> QED
    BY <1>1, <1>5, <2>1
<1>7. /\ Sequence(t) /\ Len(t) = 1 + Present(r.transaction)
      /\ t[1] = Boolean(r.transaction # None)
      /\ r.transaction # None => t[2] = Digest(r.transaction)
  BY <1>2, OptionalFacts
<1>8. Sequence(o) /\ Sequence(t)
  BY <1>6, <1>7
<1>9. /\ Sequence(b) /\ Len(b) = Len(o) + Len(t)
      /\ \A i \in 1..Len(o) : b[i] = o[i]
      /\ \A i \in 1..Len(t) : b[Len(o) + i] = t[i]
  BY <1>3, <1>8, JoinedFacts
<1>10. PICK m, l, v, w : /\ m = Present(r.transaction) /\ l = Len(o)
                         /\ v = Len(t) /\ w = Len(b)
  OBVIOUS
<1>11. l \in Nat /\ l >= 6 + n /\ m \in 0..1 /\ v = 1 + m /\ w = l + 1 + m
  <2>1. l \in Nat /\ l >= 6 + n
    BY <1>6, <1>10
  <2>2. m \in 0..1
    BY <1>10 DEF Present
  <2>3. v = 1 + m
    BY <1>7, <1>10
  <2>4. w = l + v
    BY <1>9, <1>10
  <2> QED
    BY <2>1, <2>2, <2>3, <2>4
<1>12. At(r, n) = l + 1
  BY <1>1, <1>10 DEF At
<1>13. b[l + 1] = t[1] /\ (r.transaction # None => b[(l + 1) + 1] = t[2])
  <2>1. 1 \in 1..v
    BY <1>11
  <2>2. r.transaction # None => 2 \in 1..v /\ (l + 1) + 1 = l + 2
    BY <1>10, <1>11 DEF Present
  <2> QED
    BY <1>9, <1>10, <2>1, <2>2
<1>14. \A k \in 0..n : \A i \in 1..Len(Output(r)[k]) : b[i] = Output(r)[k][i]
  <2> SUFFICES ASSUME NEW k \in 0..n, NEW i \in 1..Len(Output(r)[k])
               PROVE  b[i] = Output(r)[k][i]
    OBVIOUS
  <2>1. Len(Output(r)[k]) \in Nat /\ Len(Output(r)[k]) <= Len(o)
    BY <1>6, OutputGrows
  <2>2. i \in 1..Len(o)
    BY <1>6, <2>1
  <2> QED
    BY <1>6, <1>9, <2>2
<1>15. Output(r)[0] = Header(r)
  BY <1>5, OutputIs DEF Extended
<1>16. At(r, 0) = 7 /\ Len(Output(r)[0]) = 6
  <2>1. Len(Output(r)[0]) = 6
    BY <1>15, HeaderFacts
  <2> QED
    BY <2>1 DEF At
<1>17. \A i \in 1..6 : b[i] = Header(r)[i]
  BY <1>5, <1>14, <1>15, <1>16
<1>18. Len(b) \in Nat /\ At(r, n) \in Nat /\ At(r, n) >= 7 + n /\ Len(b) = At(r, n) + m
  BY <1>10, <1>11, <1>12
<1>19. /\ b[At(r, n)] = Boolean(r.transaction # None)
       /\ r.transaction # None => b[At(r, n) + 1] = Digest(r.transaction)
  BY <1>7, <1>12, <1>13
<1> HIDE DEF At
<1> QED
  BY <1>4, <1>9, <1>10, <1>14, <1>16, <1>17, <1>18, <1>19

\* The tokens of b from position a on are those of delta d.
Holds(b, a, d) ==
  /\ b[a] = U8(Encode(DeltaKindCodes, d.kind))
  /\ b[a + 1] = Text(d.name)
  /\ b[a + 2] = Digest(d.plan)
  /\ b[a + 3] = Digest(d.application)
  /\ b[a + 4] = Boolean(d.expected # None)
  /\ d.expected # None => b[a + 5] = Digest(d.expected)
  /\ b[a + 5 + Present(d.expected)] = Boolean(d.proposed # None)
  /\ d.proposed # None => b[a + 6 + Present(d.expected)] = PackageBody(d.proposed)

\* The record of r where it writes its k-th delta, d.
LEMMA DeltaFacts ==
  ASSUME NEW r, Cardinality(r.deltas) \in Nat, NEW k \in 1..Cardinality(r.deltas),
         NEW d, d = InNameOrder(r.deltas)[k], NEW a, a = At(r, k - 1),
         NEW b, b = RequestBody(r)
  PROVE  /\ a \in Nat /\ a >= 7
         /\ At(r, k) = a + 6 + Present(d.expected) + Present(d.proposed)
         /\ At(r, k) <= Len(b)
         /\ Holds(b, a, d)
<1> DEFINE n == Cardinality(r.deltas)
<1>1. PICK o, p, q : o = Output(r)[k - 1] /\ p = DeltaBody(d) /\ q = Output(r)[k]
  OBVIOUS
<1>2. k \in 0..n /\ k - 1 \in 0..n /\ k # 0
  OBVIOUS
<1>3. q = o \o p
  <2>1. q = Extended(Output(r), r, k)
    BY <1>1, <1>2, OutputIs
  <2> QED
    BY <1>1, <1>2, <2>1 DEF Extended
<1>4. Sequence(o) /\ Len(o) \in Nat /\ Len(o) >= 6 + (k - 1)
  BY <1>1, <1>2, OutputGrows
<1>5. PICK x, y : x = Present(d.expected) /\ y = Present(d.proposed)
  OBVIOUS
<1>6. x \in 0..1 /\ y \in 0..1 /\ (d.expected # None => x = 1) /\ (d.proposed # None => y = 1)
  BY <1>5 DEF Present
<1>7. Sequence(p) /\ Len(p) = 6 + x + y
  BY <1>1, <1>5, DeltaBodyFacts
<1>8. /\ Len(q) = Len(o) + Len(p)
      /\ \A i \in 1..Len(p) : q[Len(o) + i] = p[i]
  <2>1. Sequence(o) /\ Sequence(p)
    BY <1>4, <1>7
  <2> QED
    BY <1>3, <2>1, JoinedFacts
<1>9. a = Len(o) + 1 /\ At(r, k) = Len(q) + 1
  BY <1>1 DEF At
<1>10. PICK l, m, v : l = Len(o) /\ m = Len(p) /\ v = Len(q)
  OBVIOUS
<1>11. l \in Nat /\ l >= 6 + (k - 1) /\ m = 6 + x + y /\ v = l + m
  <2>1. l \in Nat /\ l >= 6 + (k - 1)
    BY <1>4, <1>10
  <2>2. m = 6 + x + y
    BY <1>7, <1>10
  <2>3. v = l + m
    BY <1>8, <1>10
  <2> QED
    BY <2>1, <2>2, <2>3
<1>12. a \in Nat /\ a >= 7 /\ At(r, k) = a + 6 + x + y /\ l = a - 1
  <2>1. a = l + 1 /\ At(r, k) = v + 1
    BY <1>9, <1>10
  <2> QED
    BY <1>6, <1>11, <2>1
<1>13. Len(q) + 1 <= Len(b)
  <2>1. Len(q) <= Len(Output(r)[n]) /\ Len(Output(r)[n]) \in Nat
    <3>1. n \in 0..n /\ k \in 0..n
      BY <1>2
    <3> QED
      BY <1>1, <3>1, OutputGrows
  <2>2. Len(b) = Len(Output(r)[n]) + 1 + Present(r.transaction)
    BY <1>1, BodyFacts DEF At
  <2>3. Present(r.transaction) \in 0..1
    BY DEF Present
  <2>4. Len(q) \in Nat
    BY <1>1, <1>2, OutputGrows
  <2> QED
    BY <2>1, <2>2, <2>3, <2>4
<1>14. \A i \in 1..Len(q) : b[i] = q[i]
  BY <1>1, <1>2, BodyFacts
<1>15. ASSUME NEW i \in 0..(5 + x + y) PROVE b[a + i] = p[i + 1]
  <2>1. i + 1 \in 1..m /\ l + (i + 1) = a + i
    BY <1>6, <1>12, <1>11
  <2>2. q[a + i] = p[i + 1]
    BY <1>8, <1>10, <2>1
  <2>3. a + i \in 1..v
    BY <1>6, <1>12, <1>11
  <2>4. a + i \in 1..Len(q)
    BY <1>10, <2>3
  <2> QED
    BY <1>14, <2>2, <2>4
<1>16. /\ b[a] = p[1] /\ b[a + 1] = p[2] /\ b[a + 2] = p[3] /\ b[a + 3] = p[4]
       /\ b[a + 4] = p[5] /\ (d.expected # None => b[a + 5] = p[6])
  <2>1. /\ 0 \in 0..(5 + x + y) /\ 1 \in 0..(5 + x + y) /\ 2 \in 0..(5 + x + y)
        /\ 3 \in 0..(5 + x + y) /\ 4 \in 0..(5 + x + y) /\ 5 \in 0..(5 + x + y)
    BY <1>6
  <2>2. /\ b[a + 0] = p[0 + 1] /\ b[a + 1] = p[1 + 1] /\ b[a + 2] = p[2 + 1]
        /\ b[a + 3] = p[3 + 1] /\ b[a + 4] = p[4 + 1] /\ b[a + 5] = p[5 + 1]
    BY <1>15, <2>1
  <2>3. /\ a + 0 = a /\ 0 + 1 = 1 /\ 1 + 1 = 2 /\ 2 + 1 = 3 /\ 3 + 1 = 4
        /\ 4 + 1 = 5 /\ 5 + 1 = 6
    BY <1>12
  <2> QED
    BY <2>2, <2>3
<1>17. b[a + 5 + x] = p[6 + x] /\ (d.proposed # None => b[a + 6 + x] = p[7 + x])
  <2>1. 5 + x \in 0..(5 + x + y) /\ (d.proposed # None => 6 + x \in 0..(5 + x + y))
    BY <1>6
  <2>2. /\ b[a + (5 + x)] = p[(5 + x) + 1]
        /\ (d.proposed # None => b[a + (6 + x)] = p[(6 + x) + 1])
    BY <1>15, <2>1
  <2>3. /\ a + (5 + x) = a + 5 + x /\ (5 + x) + 1 = 6 + x
        /\ a + (6 + x) = a + 6 + x /\ (6 + x) + 1 = 7 + x
    BY <1>6, <1>12
  <2> QED
    BY <2>2, <2>3
<1>18. /\ p[1] = U8(Encode(DeltaKindCodes, d.kind)) /\ p[2] = Text(d.name)
       /\ p[3] = Digest(d.plan) /\ p[4] = Digest(d.application)
       /\ p[5] = Boolean(d.expected # None)
       /\ d.expected # None => p[6] = Digest(d.expected)
       /\ p[6 + x] = Boolean(d.proposed # None)
       /\ d.proposed # None => p[7 + x] = PackageBody(d.proposed)
  BY <1>1, <1>5, DeltaBodyFacts
<1> QED
  BY <1>1, <1>5, <1>9, <1>12, <1>13, <1>16, <1>17, <1>18 DEF Holds

-----------------------------------------------------------------------------
(* What the reader makes of a token *)

\* A token read as a shape is a token the writer makes of that shape.
LEMMA TokenIs ==
  ASSUME NEW t, Token(t, Names)
  PROVE  /\ IsPrefix(<<"bytes", "digest">>, t) => t = Digest(Last(t))
         /\ IsPrefix(<<"bytes", "text">>, t) => Last(t) \in Names
         /\ IsPrefix(<<"bytes">>, t) /\ t[2] = "record" => IsPrefix(<<"bytes", "record">>, t)
         /\ IsPrefix(<<"u8">>, t) => t[2] = Last(t) /\ Last(t) \in Nat
         /\ IsPrefix(<<"u64">>, t) => t[2] = Last(t) /\ Last(t) \in Nat
BY DEF Token, IsPrefix, Last, Digest

\* Reading a token at a position in the record.
LEMMA TokenReads ==
  ASSUME NEW body, NEW i \in Nat, Len(body) \in Nat, i <= Len(body), NEW x
  PROVE  /\ body[i] = Digest(x) => /\ TokenError(body, i, <<"bytes", "digest">>) = None
                                   /\ ValueAt(body, i) = x
         /\ body[i] = Text(x) => /\ TokenError(body, i, <<"bytes", "text">>) = None
                                 /\ ValueAt(body, i) = x
         /\ body[i] = Record(x) => /\ TokenError(body, i, <<"bytes">>) = None
                                   /\ ValueAt(body, i) = x /\ body[i][2] = "record"
         /\ body[i] = U8(x) => /\ TokenError(body, i, <<"u8">>) = None
                               /\ ValueAt(body, i) = x /\ body[i][2] = x
         /\ body[i] = U64(x) => /\ TokenError(body, i, <<"u64">>) = None
                                /\ ValueAt(body, i) = x /\ body[i][2] = x
<1>1. ~ i > Len(body)
  OBVIOUS
<1>2. /\ IsPrefix(<<"bytes", "digest">>, Digest(x)) /\ Last(Digest(x)) = x
      /\ IsPrefix(<<"bytes", "text">>, Text(x)) /\ Last(Text(x)) = x
  BY DEF IsPrefix, Last, Digest, Text
<1>3. IsPrefix(<<"bytes">>, Record(x)) /\ Last(Record(x)) = x /\ Record(x)[2] = "record"
  BY DEF IsPrefix, Last, Record
<1>4. /\ IsPrefix(<<"u8">>, U8(x)) /\ Last(U8(x)) = x /\ U8(x)[2] = x
      /\ IsPrefix(<<"u64">>, U64(x)) /\ Last(U64(x)) = x /\ U64(x)[2] = x
  BY DEF IsPrefix, Last, U8, U64
<1> QED
  BY <1>1, <1>2, <1>3, <1>4 DEF TokenError, ValueAt

\* The wire codes name every kind of delta.
LEMMA KindFacts ==
  /\ \A x \in DeltaKinds : /\ Encode(DeltaKindCodes, x) \in DOMAIN DeltaKindCodes
                           /\ DeltaKindCodes[Encode(DeltaKindCodes, x)] = x
  /\ \A k \in DOMAIN DeltaKindCodes : DeltaKindCodes[k] \in DeltaKinds
<1>1. /\ 1 \in DOMAIN DeltaKindCodes /\ 2 \in DOMAIN DeltaKindCodes
      /\ 3 \in DOMAIN DeltaKindCodes
      /\ DeltaKindCodes[1] = "install" /\ DeltaKindCodes[2] = "replace"
      /\ DeltaKindCodes[3] = "remove"
  BY DEF DeltaKindCodes
<1>2. \A x \in DeltaKinds : \E k \in DOMAIN DeltaKindCodes : DeltaKindCodes[k] = x
  BY <1>1 DEF DeltaKinds
<1>3. \A k \in DOMAIN DeltaKindCodes : DeltaKindCodes[k] \in DeltaKinds
  BY DEF DeltaKindCodes, DeltaKinds
<1> QED
  BY <1>2, <1>3 DEF Encode

\* Reading an optional that was written at a position.
LEMMA OptionalReads ==
  ASSUME NEW body, Len(body) \in Nat, NEW i \in Nat, NEW value,
         i + Present(value) <= Len(body),
         body[i] = Boolean(value # None)
  PROVE  /\ BooleanError(body, i) = None
         /\ IsTrue(body, i) <=> value # None
<1>1. PICK x : x = IF value # None THEN 1 ELSE 0
  OBVIOUS
<1>2. x \in {0, 1} /\ (x = 1 <=> value # None)
  BY <1>1
<1>3. body[i] = U8(x)
  BY <1>1 DEF Boolean
<1>4. i <= Len(body)
  BY DEF Present
<1>5. TokenError(body, i, <<"u8">>) = None /\ ValueAt(body, i) = x /\ body[i][2] = x
  BY <1>3, <1>4, TokenReads
<1> QED
  BY <1>2, <1>5 DEF BooleanError, ByteError, IsTrue

-----------------------------------------------------------------------------
(* The inductive invariant: what each phase of the decoder has established *)

AfterDeltas == {"finish", "rebuild", "confirm", "accepted"}
AfterExpectedPackage == {"proposed_package", "build"}
AfterApplication == AfterExpectedPackage \cup {"expected_package"}
AfterPlan == AfterApplication \cup {"application"}
AfterName == AfterPlan \cup {"plan"}
AfterKind == AfterName \cup {"name"}
AfterCount == AfterDeltas \cup AfterKind \cup {"kind"}
AfterAuthority == AfterCount \cup {"count"}
AfterTarget == AfterAuthority \cup {"authority"}
AfterExpected == AfterTarget \cup {"target"}
AfterIdentity == AfterExpected \cup {"expected"}
AfterPrefix == AfterIdentity \cup {"identity"}
AfterVerify == AfterPrefix \cup {"prefix"}
Phases == AfterVerify \cup {"verify", "failed"}

\* The arguments are those of a case.
FromCase ==
  \E case \in Cases :
    encoding = case.encoding /\ snapshot = case.snapshot /\ written = case.written

Bounded ==
  /\ phase \in Phases /\ position \in 1..(Len(encoding) + 1) /\ left \in 0..MaxCount
  /\ code \in ErrorCodes \cup {None} /\ (code # None <=> phase = "failed")
  /\ phase = "identity" => position = 3
  /\ phase = "expected" => position = 4
  /\ phase = "target" => position = 5
  /\ phase \in {"authority", "count"} => position = 6
  /\ phase \in AfterCount => position > 6
  /\ phase \in AfterKind => left > 0

\* What the loop can build of the tokens it reads.
ReadDeltas ==
  {d \in [kind : DeltaKinds, name : Names, expected : Plans \cup {None},
          proposed : Packages \cup {None}, plan : Plans, application : Applications] :
     InstallAdmitted(d) \/ ReplaceAdmitted(d) \/ RemoveAdmitted(d)}

DraftTyped ==
  /\ DOMAIN draft = DraftNames
  /\ phase \in AfterKind => draft.kind \in DeltaKinds
  /\ phase \in AfterName => draft.name \in Names
  /\ phase \in AfterPlan => draft.plan \in Plans
  /\ phase \in AfterApplication => draft.application \in Applications
  /\ phase \in AfterExpectedPackage => draft.expected \in Plans \cup {None}
  /\ phase = "build" => draft.proposed \in Packages \cup {None}

Typed ==
  /\ DOMAIN fields = FieldNames /\ deltas \in Seq(ReadDeltas) /\ DraftTyped
  /\ phase \in AfterDeltas => fields.transaction \in OptionalTransaction

ResultInv ==
  /\ phase \in {"confirm", "accepted"} =>
       /\ RequestAdmitted(snapshot, deltas, fields.transaction)
       /\ result = RequestMake(snapshot, deltas, fields.transaction)
  /\ phase = "accepted" => ConfirmError = None

\* An intact record of a request is read field by field and delta by delta.
Home == written.expected = SnapshotIdentity(snapshot)

HeaderIntact ==
  /\ phase \in AfterIdentity => fields.identity = RequestIdentity(written)
  /\ phase \in AfterExpected => fields.expected = written.expected
  /\ phase \in AfterTarget => fields.target = written.target
  /\ phase \in AfterAuthority => Home

\* The delta that is read next, and where it stands.
Coming == InNameOrder(written.deltas)[Len(deltas) + 1]
Start == At(written, Len(deltas))

DeltasIntact ==
  /\ phase \in Phases \ AfterCount => deltas = <<>>
  /\ phase \in AfterCount =>
       /\ Len(deltas) + left = Cardinality(written.deltas)
       /\ \A k \in 1..Len(deltas) : deltas[k] = InNameOrder(written.deltas)[k]
  /\ phase \in AfterDeltas => left = 0 /\ fields.transaction = written.transaction

DraftIntact ==
  /\ phase \in AfterKind => draft.kind = Coming.kind
  /\ phase \in AfterName => draft.name = Coming.name
  /\ phase \in AfterPlan => draft.plan = Coming.plan
  /\ phase \in AfterApplication => draft.application = Coming.application
  /\ phase \in AfterExpectedPackage => draft.expected = Coming.expected
  /\ phase = "build" => draft.proposed = Coming.proposed

CursorIntact ==
  /\ phase = "kind" => position = Start
  /\ phase = "name" => position = Start + 1
  /\ phase = "plan" => position = Start + 2
  /\ phase = "application" => position = Start + 3
  /\ phase = "expected_package" => position = Start + 4
  /\ phase = "proposed_package" => position = Start + 5 + Present(Coming.expected)
  /\ phase = "build" => position = At(written, Len(deltas) + 1)
  /\ phase = "finish" => position = Len(Body) + 1

Intact ==
  written # None /\ phase # "failed" =>
    HeaderIntact /\ DeltasIntact /\ DraftIntact /\ CursorIntact

\* When a refusal with code e is what the record of a request deserves.
Deserves(e) ==
  IF Home THEN Cardinality(written.deltas) > MaxCount ELSE e = "expected_snapshot_mismatch"

FailureInv == phase = "failed" /\ written # None => Deserves(code)

RequestInv == FromCase /\ Bounded /\ Typed /\ ResultInv /\ Intact /\ FailureInv

-----------------------------------------------------------------------------
(* The record as a whole *)

\* What is known of the arguments, and of the record inside its checksum.
LEMMA CaseFacts ==
  ASSUME FromCase
  PROVE  /\ snapshot \in Snapshots
         /\ written # None => /\ written \in Requests
                              /\ \E s \in Snapshots : Makeable(written, s)
                              /\ Sealable(RequestBody(written))
                              /\ encoding = EncodeRequest(written)
         /\ Len(encoding) \in Nat /\ Len(Body) \in Nat /\ Len(Body) <= Len(encoding)
         /\ encoding # <<>> => Len(Body) = Len(encoding) - 1
         /\ \A i \in 1..Len(Body) :
              /\ Token(Body[i], Names)
              /\ IsPrefix(<<"bytes", "record">>, Body[i]) => Last(Body[i]) \in Snapshots
              /\ i > 6 /\ IsPrefix(<<"bytes", "digest">>, Body[i]) =>
                   Last(Body[i]) \in Plans \cap Applications \cap Transactions
<1>1. PICK case \in Cases : /\ encoding = case.encoding /\ snapshot = case.snapshot
                            /\ written = case.written
  BY DEF FromCase
<1>2. /\ snapshot \in Snapshots
      /\ written # None => /\ written \in Requests
                           /\ \E s \in Snapshots : Makeable(written, s)
                           /\ Sealable(RequestBody(written))
                           /\ encoding = EncodeRequest(written)
      /\ encoding \in Seq(Range(encoding))
      /\ \A i \in DOMAIN encoding :
           /\ Token(encoding[i], Names)
           /\ IsPrefix(<<"bytes", "record">>, encoding[i]) => Last(encoding[i]) \in Snapshots
           /\ i > 6 /\ IsPrefix(<<"bytes", "digest">>, encoding[i]) =>
                Last(encoding[i]) \in Plans \cap Applications \cap Transactions
  BY <1>1, CasesAssumption
<1>3. PICK n : n = Len(encoding)
  OBVIOUS
<1>4. n \in Nat /\ DOMAIN encoding = 1..n
  BY <1>2, <1>3
<1>5. Body = SubSeq(encoding, 1, n - 1)
  BY <1>3 DEF Body, Front
<1>6. CASE n = 0
  <2>1. encoding = <<>>
    <3>1. encoding \in Seq(Range(encoding))
      BY <1>2
    <3>2. Len(encoding) = 0
      BY <1>3, <1>6
    <3> QED
      BY <3>1, <3>2
  <2>2. Len(Body) = 0
    BY <1>2, <1>3, <1>5, <1>6
  <2>3. Len(encoding) = 0
    BY <1>3, <1>6
  <2>4. \A i \in 1..Len(Body) : FALSE
    BY <2>2
  <2> QED
    BY <1>2, <2>1, <2>2, <2>3, <2>4
<1>7. CASE n # 0
  <2>1. Len(Body) = n - 1 /\ \A i \in 1..(n - 1) : Body[i] = encoding[i]
    BY <1>2, <1>3, <1>4, <1>5, <1>7
  <2>2. \A i \in 1..Len(Body) : i \in DOMAIN encoding /\ Body[i] = encoding[i]
    BY <1>4, <1>7, <2>1
  <2>3. \A i \in 1..Len(Body) :
          /\ Token(Body[i], Names)
          /\ IsPrefix(<<"bytes", "record">>, Body[i]) => Last(Body[i]) \in Snapshots
          /\ i > 6 /\ IsPrefix(<<"bytes", "digest">>, Body[i]) =>
               Last(Body[i]) \in Plans \cap Applications \cap Transactions
    BY <1>2, <2>2
  <2> QED
    BY <1>2, <1>3, <1>4, <1>7, <2>1, <2>3
<1> QED
  BY <1>6, <1>7

\* An error is one of the codes, or there is none.
LEMMA ErrorFacts ==
  /\ VerifyError(encoding) \in ErrorCodes \cup {None}
  /\ PrefixError(Body, "request", RequestVersion) \in ErrorCodes \cup {None}
  /\ \A i, shape : TokenError(Body, i, shape) \in ErrorCodes \cup {None}
  /\ \A i : CountError(Body, i) \in ErrorCodes \cup {None}
  /\ \A shape : OptionalError(shape) \in ErrorCodes \cup {None}
  /\ \A i : FinishError(Body, i) \in ErrorCodes \cup {None}
  /\ DeltaFieldError \in ErrorCodes \cup {None}
  /\ AuthorityError \in ErrorCodes \cup {None}
  /\ ConfirmError \in ErrorCodes \cup {None}
  /\ "invalid_value" \in ErrorCodes
<1>1. \A i, shape : TokenError(Body, i, shape) \in ErrorCodes \cup {None}
  BY DEF TokenError, ErrorCodes
<1>2. \A i, values : ByteError(Body, i, values) \in ErrorCodes \cup {None}
  <2> SUFFICES ASSUME NEW i, NEW values
               PROVE  ByteError(Body, i, values) \in ErrorCodes \cup {None}
    OBVIOUS
  <2>1. "invalid_value" \in ErrorCodes
    BY DEF ErrorCodes
  <2> QED
    BY <1>1, <2>1 DEF ByteError
<1>3. \A i : CountError(Body, i) \in ErrorCodes \cup {None}
  <2> SUFFICES ASSUME NEW i PROVE CountError(Body, i) \in ErrorCodes \cup {None}
    OBVIOUS
  <2>1. "limit_exceeded" \in ErrorCodes
    BY DEF ErrorCodes
  <2> QED
    BY <1>1, <2>1 DEF CountError
<1>4. \A shape : OptionalError(shape) \in ErrorCodes \cup {None}
  <2> SUFFICES ASSUME NEW shape PROVE OptionalError(shape) \in ErrorCodes \cup {None}
    OBVIOUS
  <2>1. BooleanError(Body, position) \in ErrorCodes \cup {None}
    BY <1>2 DEF BooleanError
  <2> QED
    BY <1>1, <2>1 DEF OptionalError
<1>5. DeltaFieldError \in ErrorCodes \cup {None}
  <2>1. CodeError(Body, position, DeltaKindCodes) \in ErrorCodes \cup {None}
    BY <1>2 DEF CodeError
  <2>2. /\ TokenError(Body, position, <<"bytes", "text">>) \in ErrorCodes \cup {None}
        /\ TokenError(Body, position, <<"bytes", "digest">>) \in ErrorCodes \cup {None}
    BY <1>1
  <2> QED
    BY <2>1, <2>2, Zenon DEF DeltaFieldError
<1>6. VerifyError(encoding) \in ErrorCodes \cup {None}
  BY Zenon DEF VerifyError, ErrorCodes
<1>7. PrefixError(Body, "request", RequestVersion) \in ErrorCodes \cup {None}
  BY DEF PrefixError, ErrorCodes
<1>8. \A i : FinishError(Body, i) \in ErrorCodes \cup {None}
  BY DEF FinishError, ErrorCodes
<1>9. AuthorityError \in ErrorCodes \cup {None} /\ ConfirmError \in ErrorCodes \cup {None}
  BY DEF AuthorityError, ConfirmError, ErrorCodes
<1> QED
  BY <1>1, <1>3, <1>4, <1>5, <1>6, <1>7, <1>8, <1>9 DEF ErrorCodes

\* What is read without an error stands in the record, and has the type of what
\* is read there.
LEMMA ReadFacts ==
  ASSUME FromCase, NEW i \in Nat \ {0}
  PROVE  /\ \A shape : TokenError(Body, i, shape) = None =>
              i \in 1..Len(Body) /\ IsPrefix(shape, Body[i])
         /\ TokenError(Body, i, <<"bytes", "text">>) = None => ValueAt(Body, i) \in Names
         /\ i > 6 /\ TokenError(Body, i, <<"bytes", "digest">>) = None =>
              ValueAt(Body, i) \in Plans \cap Applications \cap Transactions
         /\ TokenError(Body, i, <<"bytes">>) = None /\ Body[i][2] = "record" =>
              ValueAt(Body, i) \in Snapshots
         /\ \A values : ByteError(Body, i, values) = None =>
              i \in 1..Len(Body) /\ ValueAt(Body, i) \in values
         /\ CountError(Body, i) = None =>
              /\ i \in 1..Len(Body)
              /\ ValueAt(Body, i) \in Nat /\ ValueAt(Body, i) <= MaxCount
<1>1. /\ Len(Body) \in Nat /\ \A k \in 1..Len(Body) : Token(Body[k], Names)
      /\ \A k \in 1..Len(Body) :
              /\ IsPrefix(<<"bytes", "record">>, Body[k]) => Last(Body[k]) \in Snapshots
              /\ k > 6 /\ IsPrefix(<<"bytes", "digest">>, Body[k]) =>
                   Last(Body[k]) \in Plans \cap Applications \cap Transactions
  BY CaseFacts
<1>2. None # "truncated" /\ None # "invalid_value" /\ None # "limit_exceeded"
  BY ErrorAssumption DEF ErrorCodes
<1>3. \A shape : TokenError(Body, i, shape) = None =>
                   i \in 1..Len(Body) /\ IsPrefix(shape, Body[i])
  BY <1>1, <1>2 DEF TokenError
<1>4. TokenError(Body, i, <<"bytes", "text">>) = None => ValueAt(Body, i) \in Names
  BY <1>1, <1>3, TokenIs DEF ValueAt
<1>5. i > 6 /\ TokenError(Body, i, <<"bytes", "digest">>) = None =>
        ValueAt(Body, i) \in Plans \cap Applications \cap Transactions
  BY <1>1, <1>3 DEF ValueAt
<1>6. TokenError(Body, i, <<"bytes">>) = None /\ Body[i][2] = "record" =>
        ValueAt(Body, i) \in Snapshots
  BY <1>1, <1>3, TokenIs DEF ValueAt
<1>7. ASSUME NEW values, ByteError(Body, i, values) = None
      PROVE  i \in 1..Len(Body) /\ ValueAt(Body, i) \in values
  <2>1. TokenError(Body, i, <<"u8">>) = None /\ Body[i][2] \in values
    BY <1>2, <1>7 DEF ByteError
  <2>2. i \in 1..Len(Body) /\ IsPrefix(<<"u8">>, Body[i])
    BY <1>3, <2>1
  <2>3. Body[i][2] = Last(Body[i])
    BY <1>1, <2>2, TokenIs
  <2> QED
    BY <2>1, <2>2, <2>3 DEF ValueAt
<1>8. ASSUME CountError(Body, i) = None
      PROVE  /\ i \in 1..Len(Body)
             /\ ValueAt(Body, i) \in Nat /\ ValueAt(Body, i) <= MaxCount
  <2>1. TokenError(Body, i, <<"u64">>) = None /\ ~ Body[i][2] > MaxCount
    BY <1>2, <1>8 DEF CountError
  <2>2. i \in 1..Len(Body) /\ IsPrefix(<<"u64">>, Body[i])
    BY <1>3, <2>1
  <2>3. Body[i][2] = Last(Body[i]) /\ Last(Body[i]) \in Nat
    BY <1>1, <2>2, TokenIs
  <2> QED
    BY <2>1, <2>2, <2>3, RecordAssumption DEF ValueAt
<1> QED
  BY <1>3, <1>4, <1>5, <1>6, <1>7, <1>8

\* Reading an optional: where the cursor goes, and what it yields.
LEMMA OptionalRead ==
  ASSUME FromCase, position \in Nat \ {0}, NEW shape, OptionalError(shape) = None
  PROVE  /\ AfterOptional \in 1..(Len(Body) + 1) /\ AfterOptional > position
         /\ OptionalPresent => TokenError(Body, position + 1, shape) = None
         /\ ~OptionalPresent => OptionalValue = None
         /\ OptionalPresent => OptionalValue = ValueAt(Body, position + 1)
<1>1. BooleanError(Body, position) = None
  BY DEF OptionalError
<1>2. position \in 1..Len(Body) /\ Len(Body) \in Nat
  BY <1>1, ReadFacts, CaseFacts DEF BooleanError
<1>3. ASSUME OptionalPresent
      PROVE  TokenError(Body, position + 1, shape) = None /\ position + 1 \in 1..Len(Body)
  <2>1. TokenError(Body, position + 1, shape) = None
    BY <1>1, <1>3 DEF OptionalError, OptionalPresent
  <2>2. position + 1 \in Nat \ {0}
    OBVIOUS
  <2> QED
    BY <2>1, <2>2, ReadFacts
<1> QED
  BY <1>2, <1>3 DEF AfterOptional, OptionalValue

-----------------------------------------------------------------------------
(* What is read of the record of a request is what was written *)

\* The seal and the header.
LEMMA HeaderReads ==
  ASSUME FromCase, written # None
  PROVE  /\ written \in Requests /\ Cardinality(written.deltas) \in Nat
         /\ Body = RequestBody(written)
         /\ VerifyError(encoding) = None
         /\ PrefixError(Body, "request", RequestVersion) = None
         /\ \A i \in 3..5 : TokenError(Body, i, <<"bytes", "digest">>) = None
         /\ ValueAt(Body, 3) = RequestIdentity(written)
         /\ ValueAt(Body, 4) = written.expected /\ ValueAt(Body, 5) = written.target
         /\ ValueAt(Body, 6) = Cardinality(written.deltas)
         /\ CountError(Body, 6) # None => Cardinality(written.deltas) > MaxCount
<1> DEFINE r == written
           n == Cardinality(r.deltas)
<1>1. PICK B : B = RequestBody(r)
  OBVIOUS
<1>2. /\ r \in Requests /\ Sealable(B) /\ encoding = Append(B, Checksum(B))
  BY <1>1, CaseFacts DEF EncodeRequest, Seal
<1>3. n \in Nat
  BY <1>2, InNameOrderFacts DEF Requests
<1> HIDE DEF n, r
<1>4. Sequence(B) /\ Len(B) \in Nat
  BY <1>1, <1>3, BodyFacts DEF n
<1>5. /\ Len(encoding) = Len(B) + 1 /\ Last(encoding) = Checksum(B)
      /\ Front(encoding) = B /\ encoding # <<>>
  <2>1. PICK x, S : x = Checksum(B) /\ S = Range(B) \cup {x}
    OBVIOUS
  <2>2. B \in Seq(S)
    <3>1. \A i \in 1..Len(B) : B[i] \in S
      BY <1>4, <2>1 DEF Range, Sequence
    <3>2. B \in Seq(Range(B))
      BY <1>4 DEF Sequence
    <3> QED
      BY <3>1, <3>2
  <2>3. encoding = Append(B, x) /\ x \in S
    BY <1>2, <2>1
  <2>4. /\ Len(encoding) = Len(B) + 1 /\ encoding[Len(B) + 1] = x /\ encoding \in Seq(S)
        /\ \A i \in 1..Len(B) : encoding[i] = B[i]
    BY <2>2, <2>3
  <2>5. Last(encoding) = x
    BY <2>4 DEF Last
  <2>6. Front(encoding) = B
    <3>1. PICK F : F = SubSeq(encoding, 1, Len(B))
      OBVIOUS
    <3>2. F \in Seq(S) /\ Len(F) = Len(B) /\ \A i \in 1..Len(B) : F[i] = encoding[i]
      BY <2>2, <2>4, <3>1
    <3>3. F = B
      BY <2>2, <2>4, <3>2
    <3>4. Len(encoding) - 1 = Len(B)
      BY <2>2, <2>4
    <3> QED
      BY <3>1, <3>3, <3>4 DEF Front
  <2>7. encoding # <<>>
    <3>1. Len(encoding) > 0
      BY <2>2, <2>4
    <3>2. Len(<<>>) = 0
      OBVIOUS
    <3> QED
      BY <3>1, <3>2
  <2> QED
    BY <2>1, <2>4, <2>5, <2>6, <2>7
<1>6. Body = B
  BY <1>5 DEF Body
<1>7. Len(B) < MaxRecord /\ MaxRecord \in Nat
  BY <1>2, RecordAssumption DEF Sealable
<1>8. VerifyError(encoding) = None
  <2>1. ~ Len(encoding) > MaxRecord
    BY <1>4, <1>5, <1>7
  <2> QED
    BY <1>5, <2>1 DEF VerifyError
<1>9. n <= Len(B) - 6 /\ 6 <= Len(B)
  <2>1. PICK a, m : a = At(r, n) /\ m = Present(r.transaction)
    OBVIOUS
  <2>2. a \in Nat /\ a >= 7 + n /\ Len(B) = a + m
    BY <1>1, <1>3, <2>1, BodyFacts DEF n
  <2>3. m \in 0..1
    BY <2>1 DEF Present
  <2> QED
    BY <1>3, <2>2, <2>3
<1>10. /\ B[1] = Magic("request") /\ B[2] = U16(RequestVersion)
       /\ B[3] = Digest(RequestIdentity(r)) /\ B[4] = Digest(r.expected)
       /\ B[5] = Digest(r.target) /\ B[6] = U64(n)
  <2>1. \A i \in 1..6 : B[i] = Header(r)[i]
    BY <1>1, <1>3, BodyFacts DEF n
  <2>2. /\ B[1] = Header(r)[1] /\ B[2] = Header(r)[2] /\ B[3] = Header(r)[3]
        /\ B[4] = Header(r)[4] /\ B[5] = Header(r)[5] /\ B[6] = Header(r)[6]
    BY <2>1
  <2> QED
    BY <2>2, HeaderFacts DEF n
<1>11. PrefixError(Body, "request", RequestVersion) = None
  <2>1. ~ Len(B) < 2 /\ Len(B) # 0
    BY <1>4, <1>9
  <2>2. B # <<>>
    BY <2>1
  <2>3. Head(B) = B[1]
    BY <1>4, <2>2 DEF Sequence
  <2> QED
    BY <1>6, <1>10, <2>1, <2>2, <2>3 DEF PrefixError
<1>12. 3 <= Len(B) /\ 4 <= Len(B) /\ 5 <= Len(B)
  BY <1>4, <1>9
<1>13. /\ TokenError(B, 3, <<"bytes", "digest">>) = None
       /\ ValueAt(B, 3) = RequestIdentity(r)
       /\ TokenError(B, 4, <<"bytes", "digest">>) = None /\ ValueAt(B, 4) = r.expected
       /\ TokenError(B, 5, <<"bytes", "digest">>) = None /\ ValueAt(B, 5) = r.target
  BY <1>4, <1>10, <1>12, TokenReads
<1>14. \A i \in 3..5 : TokenError(Body, i, <<"bytes", "digest">>) = None
  <2>1. \A i \in 3..5 : i = 3 \/ i = 4 \/ i = 5
    OBVIOUS
  <2> QED
    BY <1>6, <1>13, <2>1
<1>15. TokenError(B, 6, <<"u64">>) = None /\ ValueAt(B, 6) = n /\ B[6][2] = n
  BY <1>4, <1>9, <1>10, TokenReads
<1>16. CountError(Body, 6) # None => n > MaxCount
  <2>1. ~ n > TokenBytes * (Remaining(B, 6) - 1)
    <3>1. Remaining(B, 6) - 1 = Len(B) - 6
      BY <1>4 DEF Remaining
    <3>2. PICK m : m = Len(B) - 6
      OBVIOUS
    <3>3. m \in Nat /\ n <= m
      BY <1>3, <1>4, <1>9, <3>2
    <3>4. m <= TokenBytes * m /\ TokenBytes * m \in Nat
      BY <3>3, RecordAssumption
    <3> QED
      BY <1>3, <3>1, <3>2, <3>3, <3>4
  <2> QED
    BY <1>6, <1>15, <2>1 DEF CountError
<1> QED
  BY <1>1, <1>2, <1>3, <1>6, <1>8, <1>11, <1>13, <1>14, <1>15, <1>16 DEF n, r

\* Delta d is what is read from position a on.
ReadsAs(a, d) ==
  /\ CodeError(Body, a, DeltaKindCodes) = None
  /\ DeltaKindCodes[ValueAt(Body, a)] = d.kind
  /\ TokenError(Body, a + 1, <<"bytes", "text">>) = None
  /\ ValueAt(Body, a + 1) = d.name
  /\ TokenError(Body, a + 2, <<"bytes", "digest">>) = None
  /\ ValueAt(Body, a + 2) = d.plan
  /\ TokenError(Body, a + 3, <<"bytes", "digest">>) = None
  /\ ValueAt(Body, a + 3) = d.application
  /\ BooleanError(Body, a + 4) = None
  /\ IsTrue(Body, a + 4) <=> d.expected # None
  /\ d.expected # None => /\ TokenError(Body, a + 5, <<"bytes", "digest">>) = None
                          /\ ValueAt(Body, a + 5) = d.expected
  /\ BooleanError(Body, a + 5 + Present(d.expected)) = None
  /\ IsTrue(Body, a + 5 + Present(d.expected)) <=> d.proposed # None
  /\ d.proposed # None =>
       /\ TokenError(Body, a + 6 + Present(d.expected), <<"bytes">>) = None
       /\ Body[a + 6 + Present(d.expected)][2] = "record"
       /\ ValueAt(Body, a + 6 + Present(d.expected))
            = SnapshotMake(d.proposed.target, {d.proposed})

\* The k-th delta, d.
LEMMA DeltaReads ==
  ASSUME FromCase, written # None, NEW k \in 1..Cardinality(written.deltas),
         NEW d, d = InNameOrder(written.deltas)[k], NEW a, a = At(written, k - 1)
  PROVE  /\ d \in written.deltas /\ d \in Deltas /\ a \in Nat /\ a >= 7
         /\ At(written, k) = a + 6 + Present(d.expected) + Present(d.proposed)
         /\ ReadsAs(a, d)
<1> DEFINE r == written
<1>1. /\ r \in Requests /\ Cardinality(r.deltas) \in Nat /\ Body = RequestBody(r)
      /\ Len(Body) \in Nat
  BY HeaderReads, CaseFacts
<1>2. d \in r.deltas /\ d \in Deltas
  <2>1. r.deltas \in SUBSET Deltas /\ NameUnique(r.deltas)
    BY <1>1 DEF Requests
  <2>2. d \in r.deltas
    BY <2>1, InNameOrderFacts
  <2> QED
    BY <2>1, <2>2
<1> HIDE DEF r
<1>3. PICK x, y : x = Present(d.expected) /\ y = Present(d.proposed)
  OBVIOUS
<1>4. x \in 0..1 /\ y \in 0..1 /\ (d.expected # None => x = 1) /\ (d.proposed # None => y = 1)
  BY <1>3 DEF Present
<1>5. /\ a \in Nat /\ a >= 7 /\ At(r, k) = a + 6 + x + y /\ At(r, k) <= Len(Body)
      /\ Body[a] = U8(Encode(DeltaKindCodes, d.kind))
      /\ Body[a + 1] = Text(d.name)
      /\ Body[a + 2] = Digest(d.plan)
      /\ Body[a + 3] = Digest(d.application)
      /\ Body[a + 4] = Boolean(d.expected # None)
      /\ d.expected # None => Body[a + 5] = Digest(d.expected)
      /\ Body[a + 5 + x] = Boolean(d.proposed # None)
      /\ d.proposed # None => Body[a + 6 + x] = PackageBody(d.proposed)
  <2>1. k \in 1..Cardinality(r.deltas) /\ d = InNameOrder(r.deltas)[k] /\ a = At(r, k - 1)
    BY DEF r
  <2>2. Cardinality(r.deltas) \in Nat /\ Body = RequestBody(r)
    BY <1>1
  <2>3. PICK B : B = Body
    OBVIOUS
  <2>4. /\ a \in Nat /\ a >= 7
        /\ At(r, k) = a + 6 + Present(d.expected) + Present(d.proposed)
        /\ At(r, k) <= Len(B) /\ Holds(B, a, d)
    <3>1. B = RequestBody(r) /\ Cardinality(r.deltas) \in Nat
      BY <2>2, <2>3
    <3> HIDE <2>3
    <3> QED
      BY <2>1, <3>1, DeltaFacts
  <2> QED
    BY <1>3, <2>3, <2>4 DEF Holds
<1>6. PICK l : l = Len(Body)
  OBVIOUS
<1>7. PICK b, c, e, f, g, h, j : /\ b = a + 1 /\ c = a + 2 /\ e = a + 3 /\ f = a + 4
                                 /\ g = a + 5 /\ h = a + 5 + x /\ j = a + 6 + x
  OBVIOUS
<1>8. /\ l \in Nat /\ a \in Nat \ {0} /\ b \in Nat /\ c \in Nat /\ e \in Nat
      /\ f \in Nat /\ g \in Nat /\ h \in Nat /\ j \in Nat
      /\ a <= l /\ b <= l /\ c <= l /\ e <= l
      /\ f + x <= l /\ h + y <= l
      /\ (d.expected # None => g <= l)
      /\ (d.proposed # None => j <= l)
  <2>1. PICK z : z = At(r, k)
    OBVIOUS
  <2>2. a \in Nat /\ a >= 7 /\ z = a + 6 + x + y /\ z <= l /\ l \in Nat
    BY <1>1, <1>5, <1>6, <2>1
  <2> QED
    BY <1>4, <1>7, <2>2
<1>9. /\ Body[b] = Text(d.name) /\ Body[c] = Digest(d.plan)
      /\ Body[e] = Digest(d.application) /\ Body[f] = Boolean(d.expected # None)
      /\ d.expected # None => Body[g] = Digest(d.expected)
      /\ Body[h] = Boolean(d.proposed # None)
      /\ d.proposed # None => Body[j] = PackageBody(d.proposed)
  BY <1>5, <1>7
<1>10. /\ CodeError(Body, a, DeltaKindCodes) = None
       /\ DeltaKindCodes[ValueAt(Body, a)] = d.kind
  <2>1. PICK i : i = Encode(DeltaKindCodes, d.kind)
    OBVIOUS
  <2>2. Body[a] = U8(i)
    BY <1>5, <2>1
  <2>3. TokenError(Body, a, <<"u8">>) = None /\ ValueAt(Body, a) = i /\ Body[a][2] = i
    BY <1>6, <1>8, <2>2, TokenReads
  <2>4. i \in DOMAIN DeltaKindCodes /\ DeltaKindCodes[i] = d.kind
    BY <1>2, <2>1, KindFacts DEF Deltas, DeltaRecord
  <2> QED
    BY <2>3, <2>4 DEF CodeError, ByteError
<1>11. /\ TokenError(Body, b, <<"bytes", "text">>) = None /\ ValueAt(Body, b) = d.name
       /\ TokenError(Body, c, <<"bytes", "digest">>) = None /\ ValueAt(Body, c) = d.plan
       /\ TokenError(Body, e, <<"bytes", "digest">>) = None
       /\ ValueAt(Body, e) = d.application
  BY <1>6, <1>8, <1>9, TokenReads
<1>12. /\ BooleanError(Body, f) = None
       /\ IsTrue(Body, f) <=> d.expected # None
  BY <1>3, <1>6, <1>8, <1>9, OptionalReads
<1>13. d.expected # None => /\ TokenError(Body, g, <<"bytes", "digest">>) = None
                            /\ ValueAt(Body, g) = d.expected
  BY <1>6, <1>8, <1>9, TokenReads
<1>14. /\ BooleanError(Body, h) = None
       /\ IsTrue(Body, h) <=> d.proposed # None
  BY <1>3, <1>6, <1>8, <1>9, OptionalReads
<1>15. d.proposed # None =>
         /\ TokenError(Body, j, <<"bytes">>) = None
         /\ Body[j][2] = "record"
         /\ ValueAt(Body, j) = SnapshotMake(d.proposed.target, {d.proposed})
  BY <1>6, <1>8, <1>9, TokenReads DEF PackageBody
<1>16. ReadsAs(a, d)
  BY <1>3, <1>7, <1>10, <1>11, <1>12, <1>13, <1>14, <1>15 DEF ReadsAs
<1> QED
  BY <1>2, <1>3, <1>5, <1>16 DEF r

\* The transaction, and the end.
LEMMA TransactionReads ==
  ASSUME FromCase, written # None, NEW a, a = At(written, Cardinality(written.deltas))
  PROVE  /\ a \in Nat \ {0}
         /\ BooleanError(Body, a) = None
         /\ IsTrue(Body, a) <=> written.transaction # None
         /\ written.transaction # None =>
              /\ TokenError(Body, a + 1, <<"bytes", "digest">>) = None
              /\ ValueAt(Body, a + 1) = written.transaction
         /\ Len(Body) = a + Present(written.transaction)
<1> DEFINE r == written
<1>1. /\ r \in Requests /\ Cardinality(r.deltas) \in Nat /\ Body = RequestBody(r)
      /\ Len(Body) \in Nat
  BY HeaderReads, CaseFacts
<1> HIDE DEF r
<1>2. PICK m, l : m = Present(r.transaction) /\ l = Len(Body)
  OBVIOUS
<1>3. m \in 0..1 /\ (r.transaction # None => m = 1)
  BY <1>2 DEF Present
<1>4. /\ a \in Nat /\ a >= 7 + Cardinality(r.deltas) /\ l = a + m
      /\ Body[a] = Boolean(r.transaction # None)
      /\ r.transaction # None => Body[a + 1] = Digest(r.transaction)
  BY <1>1, <1>2, BodyFacts DEF r
<1>5. /\ l \in Nat /\ a \in Nat \ {0} /\ a + m <= l /\ a + 1 \in Nat
      /\ (r.transaction # None => a + 1 <= l)
  BY <1>1, <1>3, <1>4
<1>6. /\ BooleanError(Body, a) = None
      /\ IsTrue(Body, a) <=> r.transaction # None
  BY <1>1, <1>2, <1>4, <1>5, OptionalReads
<1>7. r.transaction # None => /\ TokenError(Body, a + 1, <<"bytes", "digest">>) = None
                              /\ ValueAt(Body, a + 1) = r.transaction
  <2>1. PICK b : b = a + 1
    OBVIOUS
  <2>2. b \in Nat /\ (r.transaction # None => b <= l /\ Body[b] = Digest(r.transaction))
    BY <1>4, <1>5, <2>1
  <2>3. r.transaction # None => /\ TokenError(Body, b, <<"bytes", "digest">>) = None
                                /\ ValueAt(Body, b) = r.transaction
    BY <1>1, <1>2, <2>2, TokenReads
  <2> QED
    BY <2>1, <2>3
<1> QED
  BY <1>2, <1>4, <1>5, <1>6, <1>7 DEF r

-----------------------------------------------------------------------------
(* The invariant is kept by every step *)

\* It holds when the call is made.
LEMMA RequestInit == Init => RequestInv
<1> SUFFICES ASSUME Init PROVE RequestInv
  OBVIOUS
<1>1. FromCase
  BY DEF Init, FromCase
<1>2. Bounded
  <2>1. Len(encoding) \in Nat
    BY <1>1, CaseFacts
  <2>2. 1 \in 1..(Len(encoding) + 1)
    BY <2>1
  <2> QED
    BY <2>2, RecordAssumption
    DEF Init, Bounded, Phases, AfterVerify, AfterPrefix, AfterIdentity, AfterExpected,
        AfterTarget, AfterAuthority, AfterCount, AfterDeltas, AfterKind, AfterName, AfterPlan,
        AfterApplication, AfterExpectedPackage
<1>3. Typed
  <2>1. <<>> \in Seq(ReadDeltas)
    OBVIOUS
  <2> QED
    BY <2>1 DEF Init, Typed, DraftTyped, NoDraft, AfterKind, AfterName, AfterPlan, AfterApplication,
                AfterExpectedPackage, AfterDeltas
<1>4. ResultInv /\ FailureInv
  BY DEF Init, ResultInv, FailureInv
<1>5. Intact
  BY DEF Init, Intact, HeaderIntact, DeltasIntact, DraftIntact, CursorIntact, AfterIdentity,
         AfterExpected, AfterTarget, AfterAuthority, AfterCount, AfterDeltas, AfterKind,
         AfterName, AfterPlan, AfterApplication, AfterExpectedPackage
<1> QED
  BY <1>1, <1>2, <1>3, <1>4, <1>5 DEF RequestInv

USE DEF Phases, AfterVerify, AfterPrefix, AfterIdentity, AfterExpected, AfterTarget,
        AfterAuthority, AfterCount, AfterDeltas, AfterKind, AfterName, AfterPlan,
        AfterApplication, AfterExpectedPackage

\* While the arguments stay, so does the record.
LEMMA ArgumentsStay ==
  ASSUME FromCase, UNCHANGED arguments
  PROVE  /\ FromCase' /\ Body' = Body
         /\ encoding' = encoding /\ snapshot' = snapshot /\ written' = written
         /\ (Home' <=> Home)
<1>1. encoding' = encoding /\ snapshot' = snapshot /\ written' = written
  BY DEF arguments
<1>2. FromCase'
  BY <1>1 DEF FromCase
<1> QED
  BY <1>1, <1>2 DEF Body, Home

\* The numbers of a call.
LEMMA NumberFacts ==
  ASSUME RequestInv
  PROVE  /\ position \in Nat \ {0} /\ left \in Nat /\ Len(deltas) \in Nat
         /\ Len(encoding) \in Nat /\ Len(Body) \in Nat /\ Len(Body) <= Len(encoding)
         /\ phase \in AfterCount => position > 6
<1>1. Len(encoding) \in Nat /\ Len(Body) \in Nat /\ Len(Body) <= Len(encoding)
  BY CaseFacts DEF RequestInv
<1>2. /\ position \in 1..(Len(encoding) + 1) /\ left \in 0..MaxCount
      /\ phase \in AfterCount => position > 6
  BY DEF RequestInv, Bounded
<1>3. Len(deltas) \in Nat
  BY DEF RequestInv, Typed
<1>4. position \in Nat \ {0} /\ left \in Nat
  <2>1. PICK n, m : n = Len(encoding) /\ m = MaxCount
    OBVIOUS
  <2>2. n \in Nat /\ m \in Nat
    BY <1>1, <2>1, RecordAssumption
  <2>3. position \in 1..(n + 1) /\ left \in 0..m
    BY <1>2, <2>1
  <2> QED
    BY <2>2, <2>3
<1> QED
  BY <1>1, <1>2, <1>3, <1>4

\* A refusal for a good reason keeps the invariant.
LEMMA FailKeeps ==
  ASSUME RequestInv, NEW e \in ErrorCodes, Fail(e), written # None => Deserves(e)
  PROVE  RequestInv'
<1>1. /\ code' = e /\ phase' = "failed" /\ UNCHANGED arguments
      /\ position' = position /\ fields' = fields /\ draft' = draft
      /\ deltas' = deltas /\ left' = left
  BY DEF Fail
<1>2. FromCase' /\ encoding' = encoding /\ written' = written /\ (Home' <=> Home)
  BY <1>1, ArgumentsStay DEF RequestInv
<1>3. Bounded'
  BY <1>1, <1>2, ErrorAssumption DEF RequestInv, Bounded
<1>4. Typed'
  BY <1>1 DEF RequestInv, Typed, DraftTyped
<1>5. ResultInv' /\ Intact'
  BY <1>1 DEF ResultInv, Intact
<1>6. FailureInv'
  BY <1>1, <1>2 DEF FailureInv, Deserves
<1> QED
  BY <1>2, <1>3, <1>4, <1>5, <1>6 DEF RequestInv

\* verified_body refuses no record that is intact.
LEMMA VerifyKeeps == RequestInv /\ Verify => RequestInv'
<1> SUFFICES ASSUME RequestInv, Verify PROVE RequestInv'
  OBVIOUS
<1>1. ASSUME VerifyError(encoding) # None, Fail(VerifyError(encoding)) PROVE RequestInv'
  <2>1. written = None
    BY <1>1, HeaderReads DEF RequestInv
  <2> QED
    BY <1>1, <2>1, FailKeeps, ErrorFacts
<1>2. ASSUME phase = "verify", phase' = "prefix",
             UNCHANGED <<arguments, position, fields, draft, deltas, left, result, code>>
      PROVE  RequestInv'
  <2>1. /\ FromCase' /\ encoding' = encoding /\ written' = written
        /\ position' = position /\ fields' = fields /\ draft' = draft
        /\ deltas' = deltas /\ left' = left /\ code' = code
    BY <1>2, ArgumentsStay DEF RequestInv
  <2>2. Bounded'
    BY <1>2, <2>1 DEF RequestInv, Bounded
  <2>3. Typed' /\ ResultInv' /\ FailureInv'
    BY <1>2, <2>1 DEF RequestInv, Typed, DraftTyped, ResultInv, FailureInv
  <2>4. Intact'
    BY <1>2, <2>1
    DEF RequestInv, Intact, HeaderIntact, DeltasIntact, DraftIntact, CursorIntact
  <2> QED
    BY <2>1, <2>2, <2>3, <2>4 DEF RequestInv
<1> QED
  BY <1>1, <1>2 DEF Verify

\* Nor does read_request_prefix.
LEMMA ReadPrefixKeeps == RequestInv /\ ReadPrefix => RequestInv'
<1> SUFFICES ASSUME RequestInv, ReadPrefix PROVE RequestInv'
  OBVIOUS
<1> DEFINE error == PrefixError(Body, "request", RequestVersion)
<1>1. ASSUME error # None, Fail(error) PROVE RequestInv'
  <2>1. written = None
    BY <1>1, HeaderReads DEF RequestInv
  <2> QED
    BY <1>1, <2>1, FailKeeps, ErrorFacts
<1>2. ASSUME error = None, phase = "prefix", phase' = "identity", position' = 3,
             UNCHANGED <<arguments, fields, draft, deltas, left, result, code>>
      PROVE  RequestInv'
  <2>1. /\ FromCase' /\ encoding' = encoding /\ written' = written
        /\ fields' = fields /\ draft' = draft
        /\ deltas' = deltas /\ left' = left /\ code' = code
    BY <1>2, ArgumentsStay DEF RequestInv
  <2>2. Bounded'
    <3>1. ~ Len(Body) < 2
      BY <1>2, ErrorAssumption DEF PrefixError, ErrorCodes
    <3>2. Len(Body) \in Nat /\ Len(encoding) \in Nat /\ Len(Body) <= Len(encoding)
      BY CaseFacts DEF RequestInv
    <3>3. 3 \in 1..(Len(encoding) + 1)
      BY <3>1, <3>2
    <3> QED
      BY <1>2, <2>1, <3>3 DEF RequestInv, Bounded
  <2>3. Typed' /\ ResultInv' /\ FailureInv'
    BY <1>2, <2>1 DEF RequestInv, Typed, DraftTyped, ResultInv, FailureInv
  <2>4. Intact'
    BY <1>2, <2>1
    DEF RequestInv, Intact, HeaderIntact, DeltasIntact, DraftIntact, CursorIntact
  <2> QED
    BY <2>1, <2>2, <2>3, <2>4 DEF RequestInv
<1> QED
  BY <1>1, <1>2 DEF ReadPrefix

\* The digests of the header are read as they were written.
LEMMA ReadIdentityKeeps == RequestInv /\ ReadIdentity => RequestInv'
<1> SUFFICES ASSUME RequestInv, ReadIdentity PROVE RequestInv'
  OBVIOUS
<1> DEFINE error == TokenError(Body, position, <<"bytes", "digest">>)
<1>1. /\ phase \in {"identity", "expected", "target"} /\ position \in 3..5
      /\ (phase = "identity" => position = 3) /\ (phase = "expected" => position = 4)
      /\ (phase = "target" => position = 5)
  <2>1. phase \in {"identity", "expected", "target"}
    BY DEF ReadIdentity
  <2>2. /\ (phase = "identity" => position = 3) /\ (phase = "expected" => position = 4)
        /\ (phase = "target" => position = 5)
    BY DEF RequestInv, Bounded
  <2> QED
    BY <2>1, <2>2
<1>2. ASSUME error # None, Fail(error) PROVE RequestInv'
  <2>1. written = None
    BY <1>1, <1>2, HeaderReads DEF RequestInv
  <2> QED
    BY <1>2, <2>1, FailKeeps, ErrorFacts
<1>3. ASSUME error = None, fields' = [fields EXCEPT ![phase] = ValueAt(Body, position)],
             position' = position + 1, phase' = AfterField[phase],
             UNCHANGED <<arguments, draft, deltas, left, result, code>>
      PROVE  RequestInv'
  <2>1. /\ FromCase' /\ encoding' = encoding /\ written' = written
        /\ draft' = draft /\ deltas' = deltas /\ left' = left /\ code' = code
    BY <1>3, ArgumentsStay DEF RequestInv
  <2>2. /\ phase = "identity" => phase' = "expected"
        /\ phase = "expected" => phase' = "target"
        /\ phase = "target" => phase' = "authority"
    BY <1>3 DEF AfterField
  <2>3. DOMAIN fields' = FieldNames
    BY <1>3 DEF RequestInv, Typed, DraftTyped
  <2>4. Bounded'
    <3>1. /\ position \in 1..Len(Body)
          /\ Len(Body) \in Nat /\ Len(encoding) \in Nat /\ Len(Body) <= Len(encoding)
      BY <1>1, <1>3, ReadFacts, CaseFacts DEF RequestInv
    <3>2. position + 1 \in 1..(Len(encoding) + 1)
      BY <3>1
    <3>3. /\ phase' = "expected" => position' = 4
          /\ phase' = "target" => position' = 5
          /\ phase' = "authority" => position' = 6
      BY <1>1, <1>3, <2>2
    <3> QED
      BY <1>1, <1>3, <2>1, <2>2, <3>2, <3>3 DEF RequestInv, Bounded
  <2>5. Typed' /\ ResultInv' /\ FailureInv'
    BY <1>1, <2>1, <2>2, <2>3 DEF RequestInv, Typed, DraftTyped, ResultInv, FailureInv
  <2>6. Intact'
    <3> SUFFICES ASSUME written # None
                 PROVE  (HeaderIntact /\ DeltasIntact /\ DraftIntact /\ CursorIntact)'
      BY <2>1 DEF Intact
    <3>1. HeaderIntact
      BY <1>1 DEF RequestInv, Intact
    <3>2. /\ ValueAt(Body, 3) = RequestIdentity(written)
          /\ ValueAt(Body, 4) = written.expected /\ ValueAt(Body, 5) = written.target
      BY HeaderReads DEF RequestInv
    <3>3. /\ fields'[phase] = ValueAt(Body, position)
          /\ \A n \in FieldNames \ {phase} : fields'[n] = fields[n]
      BY <1>1, <1>3 DEF RequestInv, Typed, DraftTyped, FieldNames
    <3>4. HeaderIntact'
      BY <1>1, <2>1, <2>2, <3>1, <3>2, <3>3 DEF HeaderIntact, FieldNames
    <3>5. (DeltasIntact /\ DraftIntact /\ CursorIntact)'
      BY <1>1, <2>1, <2>2 DEF RequestInv, Intact, DeltasIntact, DraftIntact, CursorIntact
    <3> QED
      BY <3>4, <3>5
  <2> QED
    BY <2>1, <2>4, <2>5, <2>6 DEF RequestInv
<1> QED
  BY <1>2, <1>3 DEF ReadIdentity

\* The snapshot a request names is the one that decides whether it can be made.
LEMMA AtHome ==
  ASSUME FromCase, written # None, Home
  PROVE  Makeable(written, snapshot) /\ written.target = snapshot.target
<1>1. PICK s \in Snapshots : Makeable(written, s)
  BY CaseFacts
<1>2. SnapshotIdentity(s) = written.expected /\ s.target = written.target
  BY <1>1 DEF Makeable, RequestMake
<1>3. s = snapshot
  <2>1. s \in SnapshotRecord /\ snapshot \in SnapshotRecord
    BY CaseFacts DEF Snapshots
  <2> QED
    BY <1>2, <2>1, SnapshotNamed DEF Home
<1> QED
  BY <1>1, <1>2, <1>3

\* A record is refused for its snapshot when it is another's.
LEMMA CheckAuthorityKeeps == RequestInv /\ CheckAuthority => RequestInv'
<1> SUFFICES ASSUME RequestInv, CheckAuthority PROVE RequestInv'
  OBVIOUS
<1>1. phase = "authority"
  BY DEF CheckAuthority
<1>2. written # None => fields.expected = written.expected /\ fields.target = written.target
  BY <1>1 DEF RequestInv, Intact, HeaderIntact
<1>3. ASSUME AuthorityError # None, Fail(AuthorityError) PROVE RequestInv'
  <2>1. AuthorityError = "expected_snapshot_mismatch"
    BY <1>3 DEF AuthorityError
  <2>2. written # None => ~Home
    BY <1>2, <1>3, AtHome DEF AuthorityError, Home, RequestInv
  <2>3. written # None => Deserves(AuthorityError)
    BY <2>1, <2>2 DEF Deserves
  <2> QED
    BY <1>3, <2>3, FailKeeps, ErrorFacts
<1>4. ASSUME AuthorityError = None, phase' = "count",
             UNCHANGED <<arguments, position, fields, draft, deltas, left, result, code>>
      PROVE  RequestInv'
  <2>1. /\ FromCase' /\ encoding' = encoding /\ written' = written /\ (Home' <=> Home)
        /\ position' = position /\ fields' = fields /\ draft' = draft
        /\ deltas' = deltas /\ left' = left /\ code' = code
    BY <1>4, ArgumentsStay DEF RequestInv
  <2>2. Bounded'
    BY <1>1, <1>4, <2>1 DEF RequestInv, Bounded
  <2>3. Typed' /\ ResultInv' /\ FailureInv'
    BY <1>1, <1>4, <2>1 DEF RequestInv, Typed, DraftTyped, ResultInv, FailureInv
  <2>4. written # None => Home
    BY <1>2, <1>4, ErrorAssumption DEF AuthorityError, ErrorCodes, Home
  <2>5. Intact'
    BY <1>1, <1>4, <2>1, <2>4
    DEF RequestInv, Intact, HeaderIntact, DeltasIntact, DraftIntact, CursorIntact
  <2> QED
    BY <2>1, <2>2, <2>3, <2>5 DEF RequestInv
<1> QED
  BY <1>3, <1>4 DEF CheckAuthority

\* A request is refused for its size only when it is larger than the bound.
LEMMA ReadCountKeeps == RequestInv /\ ReadCount => RequestInv'
<1> SUFFICES ASSUME RequestInv, ReadCount PROVE RequestInv'
  OBVIOUS
<1> DEFINE error == CountError(Body, position)
<1>1. phase = "count" /\ position = 6
  BY DEF ReadCount, RequestInv, Bounded
<1>2. ASSUME error # None, Fail(error) PROVE RequestInv'
  <2>1. written # None => Home /\ Cardinality(written.deltas) > MaxCount
    BY <1>1, <1>2, HeaderReads DEF RequestInv, Intact, HeaderIntact
  <2>2. written # None => Deserves(error)
    BY <2>1 DEF Deserves
  <2> QED
    BY <1>2, <2>2, FailKeeps, ErrorFacts
<1>3. ASSUME error = None, left' = ValueAt(Body, position), position' = position + 1,
             phase' = "kind", UNCHANGED <<arguments, fields, draft, deltas, result, code>>
      PROVE  RequestInv'
  <2>1. /\ FromCase' /\ encoding' = encoding /\ written' = written /\ (Home' <=> Home)
        /\ fields' = fields /\ draft' = draft /\ deltas' = deltas /\ code' = code
    BY <1>3, ArgumentsStay DEF RequestInv
  <2>2. position' = 7 /\ left' = ValueAt(Body, 6)
    BY <1>1, <1>3
  <2>3. Bounded'
    <3>1. /\ 6 \in 1..Len(Body) /\ ValueAt(Body, 6) \in Nat /\ ValueAt(Body, 6) <= MaxCount
          /\ Len(Body) \in Nat /\ Len(encoding) \in Nat /\ Len(Body) <= Len(encoding)
      BY <1>1, <1>3, ReadFacts, CaseFacts DEF RequestInv
    <3>2. 7 \in 1..(Len(encoding) + 1)
      BY <3>1
    <3>3. ValueAt(Body, 6) \in 0..MaxCount
      BY <3>1, RecordAssumption
    <3> QED
      BY <1>1, <1>3, <2>1, <2>2, <3>2, <3>3 DEF RequestInv, Bounded
  <2>4. Typed' /\ ResultInv' /\ FailureInv'
    BY <1>1, <1>3, <2>1 DEF RequestInv, Typed, DraftTyped, ResultInv, FailureInv
  <2>5. Intact'
    <3> SUFFICES ASSUME written # None
                 PROVE  (HeaderIntact /\ DeltasIntact /\ DraftIntact /\ CursorIntact)'
      BY <2>1 DEF Intact
    <3>1. HeaderIntact /\ deltas = <<>>
      BY <1>1 DEF RequestInv, Intact, DeltasIntact
    <3>2. Cardinality(written.deltas) \in Nat /\ ValueAt(Body, 6) = Cardinality(written.deltas)
      BY HeaderReads DEF RequestInv
    <3>3. Len(deltas) = 0
      BY <3>1
    <3>4. HeaderIntact' /\ DraftIntact'
      BY <1>1, <1>3, <2>1, <3>1 DEF HeaderIntact, DraftIntact
    <3>5. DeltasIntact'
      <4>1. Len(deltas') + left' = Cardinality(written'.deltas)
        BY <2>1, <2>2, <3>2, <3>3
      <4>2. \A k \in 1..Len(deltas') : FALSE
        BY <2>1, <3>3
      <4> QED
        BY <1>3, <4>1, <4>2 DEF DeltasIntact
    <3>6. CursorIntact'
      <4>1. At(written', Len(deltas')) = 7
        BY <2>1, <3>2, <3>3, BodyFacts
      <4> QED
        BY <1>3, <2>2, <4>1 DEF CursorIntact, Start
    <3> QED
      BY <3>4, <3>5, <3>6
  <2> QED
    BY <2>1, <2>3, <2>4, <2>5 DEF RequestInv
<1> QED
  BY <1>2, <1>3 DEF ReadCount

-----------------------------------------------------------------------------
(* The loop over the deltas *)

\* What the loop reads next of the record of a request.
LEMMA ComingReads ==
  ASSUME RequestInv, written # None, phase \in AfterKind \cup {"kind"}, left > 0
  PROVE  /\ Coming \in written.deltas /\ Coming \in Deltas /\ Start \in Nat /\ Start >= 7
         /\ At(written, Len(deltas) + 1)
              = Start + 6 + Present(Coming.expected) + Present(Coming.proposed)
         /\ ReadsAs(Start, Coming)
<1>1. PICK k : k = Len(deltas) + 1
  OBVIOUS
<1>2. Len(deltas) + left = Cardinality(written.deltas)
  BY DEF RequestInv, Intact, DeltasIntact
<1>3. Cardinality(written.deltas) \in Nat
  BY HeaderReads DEF RequestInv
<1>4. k \in 1..Cardinality(written.deltas) /\ k - 1 = Len(deltas)
  <2>1. Len(deltas) \in Nat /\ left \in Nat
    BY NumberFacts
  <2>2. PICK m, n : m = Len(deltas) /\ n = Cardinality(written.deltas)
    OBVIOUS
  <2>3. m \in Nat /\ left \in Nat /\ left > 0 /\ n \in Nat /\ m + left = n /\ k = m + 1
    BY <1>1, <1>2, <1>3, <2>1, <2>2
  <2>4. k \in 1..n /\ k - 1 = m
    BY <2>3
  <2> QED
    BY <2>2, <2>4
<1>5. PICK d, a : d = InNameOrder(written.deltas)[k] /\ a = At(written, k - 1)
  OBVIOUS
<1>6. d = Coming /\ a = Start
  BY <1>1, <1>4, <1>5 DEF Coming, Start
<1>7. /\ d \in written.deltas /\ d \in Deltas /\ a \in Nat /\ a >= 7
      /\ At(written, k) = a + 6 + Present(d.expected) + Present(d.proposed)
      /\ ReadsAs(a, d)
  BY <1>4, <1>5, DeltaReads DEF RequestInv
<1> QED
  BY <1>1, <1>6, <1>7

\* Only a local of the delta being read changes, and the cursor moves on.
LEMMA DraftStep ==
  ASSUME RequestInv, phase \in AfterKind \cup {"kind"}, left > 0,
         UNCHANGED <<arguments, fields, deltas, left, result, code>>,
         phase' \in AfterKind, position' \in 7..(Len(encoding) + 1), DraftTyped',
         written # None => (DraftIntact /\ CursorIntact)'
  PROVE  RequestInv'
<1>1. /\ FromCase' /\ encoding' = encoding /\ written' = written /\ (Home' <=> Home)
      /\ fields' = fields /\ deltas' = deltas /\ left' = left /\ code' = code
  BY ArgumentsStay DEF RequestInv
<1>2. Bounded'
  <2>1. PICK n : n = Len(encoding)
    OBVIOUS
  <2>2. n \in Nat /\ position' \in 7..(n + 1)
    BY <2>1, NumberFacts
  <2>3. position' \in 1..(n + 1) /\ position' > 6
    BY <2>2
  <2> QED
    BY <1>1, <2>1, <2>3 DEF RequestInv, Bounded
<1>3. Typed' /\ ResultInv' /\ FailureInv'
  BY <1>1 DEF RequestInv, Typed, ResultInv, FailureInv
<1>4. Intact'
  BY <1>1 DEF RequestInv, Intact, HeaderIntact, DeltasIntact
<1> QED
  BY <1>1, <1>2, <1>3, <1>4 DEF RequestInv

\* A token that was read leaves the cursor in the record.
LEMMA CursorMoves ==
  ASSUME FromCase, NEW i \in Nat, i > 6, NEW j \in Nat, i < j, j <= Len(Body) + 1
  PROVE  j \in 7..(Len(encoding) + 1)
<1>1. Len(Body) \in Nat /\ Len(encoding) \in Nat /\ Len(Body) <= Len(encoding)
  BY CaseFacts
<1> QED
  BY <1>1

\* The plain fields of a delta.
LEMMA ReadDeltaFieldKeeps == RequestInv /\ ReadDeltaField => RequestInv'
<1> SUFFICES ASSUME RequestInv, ReadDeltaField PROVE RequestInv'
  OBVIOUS
<1>1. phase \in {"kind", "name", "plan", "application"} /\ left > 0
  BY DEF ReadDeltaField
<1>2. position \in Nat /\ position > 6
  BY <1>1, NumberFacts
<1>3. ASSUME written # None
      PROVE  DeltaFieldError = None /\ DeltaFieldValue = Coming[phase]
  <2>1. PICK a, d : a = Start /\ d = Coming
    OBVIOUS
  <2>2. ReadsAs(a, d)
    BY <1>1, <1>3, <2>1, ComingReads
  <2>3. CursorIntact
    BY <1>1, <1>3 DEF RequestInv, Intact
  <2>4. CASE phase = "kind"
    BY <2>1, <2>2, <2>3, <2>4 DEF CursorIntact, ReadsAs, DeltaFieldError, DeltaFieldValue
  <2>5. CASE phase = "name"
    BY <2>1, <2>2, <2>3, <2>5 DEF CursorIntact, ReadsAs, DeltaFieldError, DeltaFieldValue
  <2>6. CASE phase = "plan"
    BY <2>1, <2>2, <2>3, <2>6 DEF CursorIntact, ReadsAs, DeltaFieldError, DeltaFieldValue
  <2>7. CASE phase = "application"
    BY <2>1, <2>2, <2>3, <2>7 DEF CursorIntact, ReadsAs, DeltaFieldError, DeltaFieldValue
  <2> QED
    BY <1>1, <2>4, <2>5, <2>6, <2>7
<1>4. ASSUME DeltaFieldError # None, Fail(DeltaFieldError) PROVE RequestInv'
  BY <1>3, <1>4, FailKeeps, ErrorFacts
<1>5. ASSUME DeltaFieldError = None,
             draft' = [draft EXCEPT ![phase] = DeltaFieldValue],
             position' = position + 1, phase' = AfterDraft[phase],
             UNCHANGED <<arguments, fields, deltas, left, result, code>>
      PROVE  RequestInv'
  <2>1. /\ phase = "kind" => phase' = "name"
        /\ phase = "name" => phase' = "plan"
        /\ phase = "plan" => phase' = "application"
        /\ phase = "application" => phase' = "expected_package"
    <3>1. /\ AfterDraft["kind"] = "name" /\ AfterDraft["name"] = "plan"
          /\ AfterDraft["plan"] = "application"
          /\ AfterDraft["application"] = "expected_package"
      BY DEF AfterDraft
    <3> QED
      BY <1>5, <3>1
  <2>2. /\ DOMAIN draft' = DraftNames /\ draft'[phase] = DeltaFieldValue
        /\ \A n \in DraftNames \ {phase} : draft'[n] = draft[n]
    BY <1>1, <1>5 DEF RequestInv, Typed, DraftTyped, DraftNames
  <2>3. position \in 1..Len(Body)
    <3>1. CASE phase = "kind"
      BY <1>2, <1>5, <3>1, ReadFacts DEF RequestInv, DeltaFieldError, CodeError
    <3>2. CASE phase = "name"
      BY <1>2, <1>5, <3>2, ReadFacts DEF RequestInv, DeltaFieldError
    <3>3. CASE phase \in {"plan", "application"}
      BY <1>2, <1>5, <3>3, ReadFacts DEF RequestInv, DeltaFieldError
    <3> QED
      BY <1>1, <3>1, <3>2, <3>3
  <2>4. position' \in 7..(Len(encoding) + 1)
    <3>1. Len(Body) \in Nat
      BY CaseFacts DEF RequestInv
    <3>2. position + 1 \in Nat /\ position < position + 1 /\ position + 1 <= Len(Body) + 1
      BY <1>2, <2>3, <3>1
    <3> QED
      BY <1>2, <1>5, <3>2, CursorMoves DEF RequestInv
  <2>5. /\ phase = "kind" => DeltaFieldValue \in DeltaKinds
        /\ phase = "name" => DeltaFieldValue \in Names
        /\ phase = "plan" => DeltaFieldValue \in Plans
        /\ phase = "application" => DeltaFieldValue \in Applications
    <3>1. CASE phase = "kind"
      <4>1. ValueAt(Body, position) \in DOMAIN DeltaKindCodes
        BY <1>2, <1>5, <3>1, ReadFacts DEF RequestInv, DeltaFieldError, CodeError
      <4> QED
        BY <3>1, <4>1, KindFacts DEF DeltaFieldValue
    <3>2. CASE phase = "name"
      BY <1>2, <1>5, <3>2, ReadFacts DEF RequestInv, DeltaFieldError, DeltaFieldValue
    <3>3. CASE phase \in {"plan", "application"}
      BY <1>2, <1>5, <3>3, ReadFacts DEF RequestInv, DeltaFieldError, DeltaFieldValue
    <3> QED
      BY <1>1, <3>1, <3>2, <3>3
  <2>6. DraftTyped'
    BY <1>1, <2>1, <2>2, <2>5 DEF RequestInv, Typed, DraftTyped, DraftNames
  <2>7. ASSUME written # None PROVE (DraftIntact /\ CursorIntact)'
    <3>1. DraftIntact /\ CursorIntact
      BY <1>1, <2>7 DEF RequestInv, Intact
    <3>2. Coming' = Coming /\ Start' = Start
      BY <1>5, ArgumentsStay DEF Coming, Start, RequestInv
    <3>3. DraftIntact'
      BY <1>1, <1>3, <2>1, <2>2, <2>7, <3>1, <3>2 DEF DraftIntact, DraftNames
    <3>4. CursorIntact'
      <4>1. PICK a : a = Start
        OBVIOUS
      <4>2. a \in Nat
        BY <1>1, <2>7, <4>1, ComingReads
      <4>3. /\ phase = "kind" => position' = a + 1
            /\ phase = "name" => position' = a + 2
            /\ phase = "plan" => position' = a + 3
            /\ phase = "application" => position' = a + 4
        <5>1. /\ phase = "kind" => position = a
              /\ phase = "name" => position = a + 1
              /\ phase = "plan" => position = a + 2
              /\ phase = "application" => position = a + 3
          BY <3>1, <4>1 DEF CursorIntact
        <5>2. position' = position + 1
          BY <1>5
        <5> QED
          BY <4>2, <5>1, <5>2
      <4> QED
        BY <1>1, <2>1, <3>2, <4>1, <4>3 DEF CursorIntact
    <3> QED
      BY <3>3, <3>4
  <2>8. phase' \in AfterKind
    BY <1>1, <2>1
  <2> QED
    BY <1>1, <1>5, <2>4, <2>6, <2>7, <2>8, DraftStep
<1> QED
  BY <1>4, <1>5 DEF ReadDeltaField

\* The package a delta expects.
LEMMA ReadExpectedPackageKeeps == RequestInv /\ ReadExpectedPackage => RequestInv'
<1> SUFFICES ASSUME RequestInv, ReadExpectedPackage PROVE RequestInv'
  OBVIOUS
<1> DEFINE error == OptionalError(<<"bytes", "digest">>)
<1>1. phase = "expected_package"
  BY DEF ReadExpectedPackage
<1>2. position \in Nat /\ position > 6 /\ left > 0
  BY <1>1, NumberFacts DEF RequestInv, Bounded
<1>3. ASSUME written # None
      PROVE  /\ error = None /\ OptionalValue = Coming.expected
             /\ AfterOptional = Start + 5 + Present(Coming.expected)
  <2>1. PICK a, d : a = Start /\ d = Coming
    OBVIOUS
  <2>2. ReadsAs(a, d) /\ a \in Nat
    BY <1>1, <1>2, <1>3, <2>1, ComingReads
  <2>3. position = a + 4
    BY <1>1, <1>3, <2>1 DEF RequestInv, Intact, CursorIntact
  <2>4. position + 1 = a + 5
    BY <2>2, <2>3
  <2>5. /\ BooleanError(Body, position) = None
        /\ IsTrue(Body, position) <=> d.expected # None
        /\ d.expected # None => /\ TokenError(Body, position + 1, <<"bytes", "digest">>) = None
                                /\ ValueAt(Body, position + 1) = d.expected
    BY <2>2, <2>3, <2>4 DEF ReadsAs
  <2>6. error = None /\ OptionalValue = d.expected
    BY <2>5 DEF OptionalError, OptionalValue, OptionalPresent
  <2>7. AfterOptional = a + 5 + Present(d.expected)
    BY <2>2, <2>3, <2>5 DEF AfterOptional, OptionalPresent, Present
  <2> QED
    BY <2>1, <2>6, <2>7
<1>4. ASSUME error # None, Fail(error) PROVE RequestInv'
  BY <1>3, <1>4, FailKeeps, ErrorFacts
<1>5. ASSUME error = None, draft' = [draft EXCEPT !.expected = OptionalValue],
             position' = AfterOptional, phase' = "proposed_package",
             UNCHANGED <<arguments, fields, deltas, left, result, code>>
      PROVE  RequestInv'
  <2>1. /\ DOMAIN draft' = DraftNames /\ draft'.expected = OptionalValue
        /\ \A n \in DraftNames \ {"expected"} : draft'[n] = draft[n]
    BY <1>5 DEF RequestInv, Typed, DraftTyped, DraftNames
  <2>2. /\ AfterOptional \in 1..(Len(Body) + 1) /\ AfterOptional > position
        /\ OptionalPresent => TokenError(Body, position + 1, <<"bytes", "digest">>) = None
        /\ ~OptionalPresent => OptionalValue = None
        /\ OptionalPresent => OptionalValue = ValueAt(Body, position + 1)
    <3>1. PICK shape : shape = <<"bytes", "digest">>
      OBVIOUS
    <3>2. FromCase /\ position \in Nat \ {0} /\ OptionalError(shape) = None
      <4>1. FromCase /\ position \in Nat \ {0}
        BY <1>2 DEF RequestInv
      <4>2. OptionalError(shape) = None
        BY <1>5, <3>1
      <4> QED
        BY <4>1, <4>2
    <3> QED
      BY <3>1, <3>2, OptionalRead
  <2>3. OptionalValue \in Plans \cup {None}
    <3>1. position + 1 \in Nat \ {0} /\ position + 1 > 6
      BY <1>2
    <3> QED
      BY <2>2, <3>1, ReadFacts DEF RequestInv
  <2>4. position' \in 7..(Len(encoding) + 1)
    <3>1. AfterOptional \in Nat /\ AfterOptional <= Len(Body) + 1
      BY <2>2, CaseFacts DEF RequestInv
    <3> QED
      BY <1>2, <1>5, <2>2, <3>1, CursorMoves DEF RequestInv
  <2>5. DraftTyped'
    BY <1>1, <1>5, <2>1, <2>3 DEF RequestInv, Typed, DraftTyped, DraftNames
  <2>6. ASSUME written # None PROVE (DraftIntact /\ CursorIntact)'
    <3>1. DraftIntact
      BY <1>1, <2>6 DEF RequestInv, Intact
    <3>2. Coming' = Coming /\ Start' = Start
      BY <1>5, ArgumentsStay DEF Coming, Start, RequestInv
    <3>3. DraftIntact'
      BY <1>1, <1>3, <1>5, <2>1, <2>6, <3>1, <3>2 DEF DraftIntact, DraftNames
    <3>4. CursorIntact'
      BY <1>3, <1>5, <2>6, <3>2 DEF CursorIntact
    <3> QED
      BY <3>3, <3>4
  <2> QED
    BY <1>1, <1>2, <1>5, <2>4, <2>5, <2>6, DraftStep
<1> QED
  BY <1>4, <1>5 DEF ReadExpectedPackage

\* A delta of a request that is at home proposes for the target of the snapshot.
LEMMA ProposedAtHome ==
  ASSUME FromCase, written # None, Home, NEW d \in written.deltas, d.proposed # None
  PROVE  d.proposed.name = d.name /\ d.proposed.target = snapshot.target
<1>1. PICK ds \in SetToSeqs(written.deltas) :
        /\ RequestAdmitted(snapshot, ds, written.transaction)
        /\ written = RequestMake(snapshot, ds, written.transaction)
  BY AtHome DEF Makeable
<1>2. written.deltas = Range(ds)
  BY <1>1 DEF RequestMake
<1> QED
  BY <1>1, <1>2 DEF RequestAdmitted, DeltaMatches

\* The package a delta proposes: the record of a snapshot of it alone.
LEMMA ReadProposedPackageKeeps == RequestInv /\ ReadProposedPackage => RequestInv'
<1> SUFFICES ASSUME RequestInv, ReadProposedPackage PROVE RequestInv'
  OBVIOUS
<1> DEFINE error == OptionalError(<<"bytes">>)
           decodes == ProposedDecodes(Body[position + 1], draft.name)
           value == IF OptionalPresent THEN CHOOSE p \in OptionalValue.packages : TRUE ELSE None
<1>1. phase = "proposed_package"
  BY DEF ReadProposedPackage
<1>2. position \in Nat /\ position > 6 /\ left > 0
  BY <1>1, NumberFacts DEF RequestInv, Bounded
<1>3. ASSUME written # None
      PROVE  /\ error = None /\ (OptionalPresent => decodes)
             /\ value = Coming.proposed
             /\ AfterOptional = At(written, Len(deltas) + 1)
  <2>1. PICK a, d, x : a = Start /\ d = Coming /\ x = Present(d.expected)
    OBVIOUS
  <2>2. /\ ReadsAs(a, d) /\ a \in Nat /\ d \in written.deltas
        /\ At(written, Len(deltas) + 1) = a + 6 + x + Present(d.proposed)
    BY <1>1, <1>2, <1>3, <2>1, ComingReads
  <2>3. position = a + 5 + x /\ draft.name = d.name
    BY <1>1, <1>3, <2>1 DEF RequestInv, Intact, CursorIntact, DraftIntact
  <2>4. x \in 0..1
    BY <2>1 DEF Present
  <2>5. position + 1 = a + 6 + x
    BY <2>2, <2>3, <2>4
  <2>6. PICK i, j : i = position /\ j = position + 1
    OBVIOUS
  <2>7. /\ BooleanError(Body, i) = None
        /\ IsTrue(Body, i) <=> d.proposed # None
        /\ d.proposed # None => /\ TokenError(Body, j, <<"bytes">>) = None
                                /\ Body[j][2] = "record"
                                /\ ValueAt(Body, j)
                                     = SnapshotMake(d.proposed.target, {d.proposed})
    BY <2>1, <2>2, <2>3, <2>5, <2>6 DEF ReadsAs
  <2>8. error = None /\ (OptionalPresent <=> d.proposed # None)
    BY <2>6, <2>7 DEF OptionalError, OptionalPresent
  <2>9. ASSUME d.proposed # None PROVE decodes /\ value = d.proposed
    <3>1. PICK p, s : p = d.proposed /\ s = SnapshotMake(p.target, {p})
      OBVIOUS
    <3>2. s.target = p.target /\ s.packages = {p}
      BY <3>1 DEF SnapshotMake
    <3>3. Last(Body[j]) = s /\ Body[j][2] = "record"
      BY <2>7, <2>9, <3>1 DEF ValueAt
    <3>4. p.name = d.name /\ p.target = snapshot.target
      BY <1>1, <1>3, <2>2, <2>9, <3>1, ProposedAtHome DEF RequestInv, Intact, HeaderIntact
    <3>5. Cardinality(s.packages) = 1
      BY <3>2, FS_Singleton
    <3>6. decodes
      BY <2>3, <2>6, <3>2, <3>3, <3>4, <3>5 DEF ProposedDecodes
    <3>7. OptionalValue = s
      BY <2>6, <2>8, <2>9, <3>3 DEF OptionalValue, ValueAt
    <3>8. value = p
      BY <2>8, <2>9, <3>2, <3>7
    <3> QED
      BY <3>1, <3>6, <3>8
  <2>10. d.proposed = None => value = d.proposed
    BY <2>8
  <2>11. AfterOptional = a + 6 + x + Present(d.proposed)
    <3>1. AfterOptional = IF d.proposed = None THEN position + 1 ELSE position + 2
      BY <2>8 DEF AfterOptional
    <3>2. position + 2 = a + 6 + x + 1
      BY <2>2, <2>3, <2>4
    <3> QED
      BY <2>2, <2>4, <2>5, <3>1, <3>2 DEF Present
  <2> QED
    BY <2>1, <2>2, <2>8, <2>9, <2>10, <2>11
<1>4. ASSUME error # None, Fail(error) PROVE RequestInv'
  BY <1>3, <1>4, FailKeeps, ErrorFacts
<1>5. ASSUME OptionalPresent, ~decodes, Fail("invalid_value") PROVE RequestInv'
  <2>1. written = None
    BY <1>3, <1>5
  <2> QED
    BY <1>5, <2>1, FailKeeps, ErrorFacts
<1>6. ASSUME error = None, OptionalPresent => decodes,
             draft' = [draft EXCEPT !.proposed = value],
             position' = AfterOptional, phase' = "build",
             UNCHANGED <<arguments, fields, deltas, left, result, code>>
      PROVE  RequestInv'
  <2>1. /\ AfterOptional \in 1..(Len(Body) + 1) /\ AfterOptional > position
        /\ OptionalPresent => TokenError(Body, position + 1, <<"bytes">>) = None
        /\ OptionalPresent => OptionalValue = ValueAt(Body, position + 1)
    <3>1. PICK shape : shape = <<"bytes">>
      OBVIOUS
    <3>2. FromCase /\ position \in Nat \ {0}
      BY <1>2 DEF RequestInv
    <3>3. OptionalError(shape) = None
      BY <1>6, <3>1
    <3> QED
      BY <3>1, <3>2, <3>3, OptionalRead
  <2>2. value \in Packages \cup {None}
    <3>1. ASSUME OptionalPresent PROVE value \in Packages
      <4>1. PICK s : s = ValueAt(Body, position + 1)
        OBVIOUS
      <4>2. Body[position + 1][2] = "record" /\ Cardinality(s.packages) = 1
        BY <1>6, <3>1, <4>1 DEF ProposedDecodes, ValueAt
      <4>3. s \in Snapshots
        <5>1. position + 1 \in Nat \ {0}
          BY <1>2
        <5> QED
          BY <2>1, <3>1, <4>1, <4>2, <5>1, ReadFacts DEF RequestInv
      <4>4. s.packages # {} /\ s.packages \subseteq Packages
        BY <4>2, <4>3, FS_EmptySet DEF Snapshots, SnapshotRecord
      <4>5. OptionalValue = s
        BY <2>1, <3>1, <4>1
      <4> QED
        BY <3>1, <4>4, <4>5
    <3> QED
      BY <3>1
  <2> HIDE DEF value
  <2>3. /\ DOMAIN draft' = DraftNames /\ draft'.proposed = value
        /\ \A n \in DraftNames \ {"proposed"} : draft'[n] = draft[n]
    BY <1>6 DEF RequestInv, Typed, DraftTyped, DraftNames
  <2>4. position' \in 7..(Len(encoding) + 1)
    <3>1. AfterOptional \in Nat /\ AfterOptional <= Len(Body) + 1
      BY <2>1, NumberFacts
    <3> QED
      BY <1>2, <1>6, <2>1, <3>1, CursorMoves DEF RequestInv
  <2>5. DraftTyped'
    BY <1>1, <1>6, <2>2, <2>3 DEF RequestInv, Typed, DraftTyped, DraftNames
  <2>6. ASSUME written # None PROVE (DraftIntact /\ CursorIntact)'
    <3>1. DraftIntact
      BY <1>1, <2>6 DEF RequestInv, Intact
    <3>2. /\ Coming' = Coming
          /\ At(written', Len(deltas') + 1) = At(written, Len(deltas) + 1)
      BY <1>6, ArgumentsStay DEF Coming, RequestInv
    <3>3. DraftIntact'
      BY <1>1, <1>3, <1>6, <2>3, <2>6, <3>1, <3>2 DEF DraftIntact, DraftNames
    <3>4. CursorIntact'
      BY <1>3, <1>6, <2>6, <3>2 DEF CursorIntact
    <3> QED
      BY <3>3, <3>4
  <2> QED
    BY <1>1, <1>2, <1>6, <2>4, <2>5, <2>6, DraftStep
<1> QED
  BY <1>4, <1>5, <1>6 DEF ReadProposedPackage

\* The factory that rebuilds a delta of a request returns that delta.
LEMMA BuildDeltaKeeps == RequestInv /\ BuildDelta => RequestInv'
<1> SUFFICES ASSUME RequestInv, BuildDelta PROVE RequestInv'
  OBVIOUS
<1> DEFINE admitted == InstallAdmitted(Built) \/ ReplaceAdmitted(Built) \/ RemoveAdmitted(Built)
<1>1. phase = "build"
  BY DEF BuildDelta
<1>2. left \in Nat /\ left > 0
  BY <1>1, NumberFacts DEF RequestInv, Bounded
<1>3. ASSUME written # None PROVE Built = Coming
  <2>1. /\ draft.kind = Coming.kind /\ draft.name = Coming.name /\ draft.plan = Coming.plan
        /\ draft.application = Coming.application /\ draft.expected = Coming.expected
        /\ draft.proposed = Coming.proposed
    BY <1>1, <1>3 DEF RequestInv, Intact, DraftIntact
  <2>2. PICK d : d = Coming
    OBVIOUS
  <2>3. d \in Deltas
    BY <1>1, <1>2, <1>3, <2>2, ComingReads
  <2>4. d \in DeltaRecord /\ (d.proposed # None => d.proposed.name = d.name)
    BY <2>3, DeltaProposes
  <2>5. Built = [kind |-> d.kind, name |-> d.name, expected |-> d.expected,
                 proposed |-> d.proposed, plan |-> d.plan, application |-> d.application]
    BY <2>1, <2>2, <2>4 DEF Built
  <2> QED
    BY <2>2, <2>4, <2>5 DEF DeltaRecord
<1>4. ASSUME ~admitted, Fail("invalid_value") PROVE RequestInv'
  <2>1. written = None
    <3> SUFFICES ASSUME written # None PROVE FALSE
      OBVIOUS
    <3>1. Coming \in Deltas
      BY <1>1, <1>2, ComingReads
    <3> QED
      BY <1>3, <1>4, <3>1 DEF Deltas
  <2> QED
    BY <1>4, <2>1, FailKeeps, ErrorFacts
<1>5. ASSUME admitted, deltas' = Append(deltas, Built), draft' = NoDraft,
             left' = left - 1, phase' = "kind",
             UNCHANGED <<arguments, position, fields, result, code>>
      PROVE  RequestInv'
  <2>1. /\ FromCase' /\ encoding' = encoding /\ written' = written /\ (Home' <=> Home)
        /\ position' = position /\ fields' = fields /\ code' = code
    BY <1>5, ArgumentsStay DEF RequestInv
  <2>2. Built \in ReadDeltas
    <3>1. /\ draft.kind \in DeltaKinds /\ draft.name \in Names /\ draft.plan \in Plans
          /\ draft.application \in Applications /\ draft.expected \in Plans \cup {None}
          /\ draft.proposed \in Packages \cup {None}
      BY <1>1 DEF RequestInv, Typed, DraftTyped
    <3>2. draft.proposed # None => draft.proposed.name \in Names
      BY <3>1, PackagesAssumption DEF PackageRecord
    <3>3. Built \in [kind : DeltaKinds, name : Names, expected : Plans \cup {None},
                     proposed : Packages \cup {None}, plan : Plans,
                     application : Applications]
      BY <3>1, <3>2 DEF Built
    <3> QED
      BY <1>5, <3>3 DEF ReadDeltas
  <2>3. PICK b, n : b = Built /\ n = Len(deltas)
    OBVIOUS
  <2>4. /\ deltas' \in Seq(ReadDeltas) /\ Len(deltas') = n + 1 /\ n \in Nat
        /\ deltas'[n + 1] = b /\ \A k \in 1..n : deltas'[k] = deltas[k]
    <3>1. deltas \in Seq(ReadDeltas)
      BY DEF RequestInv, Typed
    <3>2. deltas' = Append(deltas, b) /\ b \in ReadDeltas
      BY <1>5, <2>2, <2>3
    <3> QED
      BY <2>3, <3>1, <3>2
  <2>5. Bounded'
    <3>1. PICK m : m = MaxCount
      OBVIOUS
    <3>2. m \in Nat /\ left \in 0..m
      BY <3>1, RecordAssumption DEF RequestInv, Bounded
    <3>3. left' \in 0..m
      BY <1>2, <1>5, <3>2
    <3> QED
      BY <1>1, <1>5, <2>1, <3>1, <3>3 DEF RequestInv, Bounded
  <2>6. Typed'
    <3>1. DOMAIN draft' = DraftNames
      BY <1>5 DEF NoDraft
    <3> QED
      BY <1>5, <2>1, <2>4, <3>1 DEF RequestInv, Typed, DraftTyped
  <2>7. ResultInv' /\ FailureInv'
    BY <1>5 DEF ResultInv, FailureInv
  <2>8. Intact'
    <3> SUFFICES ASSUME written # None
                 PROVE  (HeaderIntact /\ DeltasIntact /\ DraftIntact /\ CursorIntact)'
      BY <2>1 DEF Intact
    <3>1. /\ HeaderIntact /\ n + left = Cardinality(written.deltas)
          /\ \A k \in 1..n : deltas[k] = InNameOrder(written.deltas)[k]
          /\ position = At(written, n + 1)
      BY <1>1, <2>3 DEF RequestInv, Intact, DeltasIntact, CursorIntact
    <3>2. HeaderIntact' /\ DraftIntact'
      BY <1>1, <1>5, <2>1, <3>1 DEF HeaderIntact, DraftIntact
    <3>3. b = InNameOrder(written.deltas)[n + 1]
      BY <1>3, <2>3 DEF Coming
    <3>4. \A k \in 1..(n + 1) : deltas'[k] = InNameOrder(written.deltas)[k]
      <4>1. \A k \in 1..(n + 1) : k \in 1..n \/ k = n + 1
        BY <2>4
      <4> QED
        BY <2>4, <3>1, <3>3, <4>1
    <3>5. (n + 1) + (left - 1) = Cardinality(written.deltas)
      <4>1. PICK c : c = Cardinality(written.deltas)
        OBVIOUS
      <4>2. (n + 1) + (left - 1) = c
        BY <1>2, <2>4, <3>1, <4>1
      <4> QED
        BY <4>1, <4>2
    <3>6. DeltasIntact'
      BY <1>5, <2>1, <2>4, <3>4, <3>5 DEF DeltasIntact
    <3>7. CursorIntact'
      BY <1>5, <2>1, <2>4, <3>1 DEF CursorIntact, Start
    <3> QED
      BY <3>2, <3>6, <3>7
  <2> QED
    BY <2>1, <2>5, <2>6, <2>7, <2>8 DEF RequestInv
<1> QED
  BY <1>4, <1>5 DEF BuildDelta

-----------------------------------------------------------------------------
(* The end of the record, and the request it makes *)

\* The transaction follows the last delta.
LEMMA ReadTransactionKeeps == RequestInv /\ ReadTransaction => RequestInv'
<1> SUFFICES ASSUME RequestInv, ReadTransaction PROVE RequestInv'
  OBVIOUS
<1> DEFINE error == OptionalError(<<"bytes", "digest">>)
<1>1. phase = "kind" /\ left = 0
  BY DEF ReadTransaction
<1>2. position \in Nat /\ position > 6
  BY <1>1, NumberFacts
<1>3. ASSUME written # None
      PROVE  /\ error = None /\ OptionalValue = written.transaction
             /\ AfterOptional = Len(Body) + 1
  <2>1. PICK a, n, x : /\ a = At(written, n) /\ n = Cardinality(written.deltas)
                       /\ x = written.transaction
    OBVIOUS
  <2>2. position = a
    <3>1. Len(deltas) + left = n /\ position = Start
      BY <1>1, <1>3, <2>1 DEF RequestInv, Intact, DeltasIntact, CursorIntact
    <3>2. PICK m : m = Len(deltas)
      OBVIOUS
    <3>3. m \in Nat
      BY <3>2, NumberFacts
    <3>4. m = n
      BY <1>1, <3>1, <3>2, <3>3
    <3> QED
      BY <2>1, <3>1, <3>2, <3>4 DEF Start
  <2>3. /\ a \in Nat /\ BooleanError(Body, a) = None
        /\ IsTrue(Body, a) <=> x # None
        /\ x # None => /\ TokenError(Body, a + 1, <<"bytes", "digest">>) = None
                       /\ ValueAt(Body, a + 1) = x
        /\ Len(Body) = a + Present(x)
    BY <1>3, <2>1, TransactionReads DEF RequestInv
  <2>4. error = None /\ OptionalValue = x /\ (OptionalPresent <=> x # None)
    BY <2>2, <2>3 DEF OptionalError, OptionalValue, OptionalPresent
  <2>5. PICK l : l = Len(Body)
    OBVIOUS
  <2>6. AfterOptional = l + 1
    BY <2>2, <2>3, <2>4, <2>5 DEF AfterOptional, Present
  <2> QED
    BY <2>1, <2>4, <2>5, <2>6
<1>4. ASSUME error # None, Fail(error) PROVE RequestInv'
  BY <1>3, <1>4, FailKeeps, ErrorFacts
<1>5. ASSUME error = None, fields' = [fields EXCEPT !.transaction = OptionalValue],
             position' = AfterOptional, phase' = "finish",
             UNCHANGED <<arguments, draft, deltas, left, result, code>>
      PROVE  RequestInv'
  <2>1. /\ FromCase' /\ Body' = Body /\ encoding' = encoding /\ written' = written
        /\ (Home' <=> Home) /\ draft' = draft /\ deltas' = deltas /\ left' = left
        /\ code' = code
    BY <1>5, ArgumentsStay DEF RequestInv
  <2>2. /\ DOMAIN fields' = FieldNames /\ fields'.transaction = OptionalValue
        /\ \A n \in FieldNames \ {"transaction"} : fields'[n] = fields[n]
    BY <1>5 DEF RequestInv, Typed, FieldNames
  <2>3. /\ AfterOptional \in 1..(Len(Body) + 1) /\ AfterOptional > position
        /\ OptionalPresent => TokenError(Body, position + 1, <<"bytes", "digest">>) = None
        /\ ~OptionalPresent => OptionalValue = None
        /\ OptionalPresent => OptionalValue = ValueAt(Body, position + 1)
    <3>1. PICK shape : shape = <<"bytes", "digest">>
      OBVIOUS
    <3>2. FromCase /\ position \in Nat \ {0}
      BY <1>2 DEF RequestInv
    <3>3. OptionalError(shape) = None
      BY <1>5, <3>1
    <3> QED
      BY <3>1, <3>2, <3>3, OptionalRead
  <2>4. OptionalValue \in OptionalTransaction
    <3>1. position + 1 \in Nat \ {0} /\ position + 1 > 6
      BY <1>2
    <3> QED
      BY <2>3, <3>1, ReadFacts DEF RequestInv, OptionalTransaction
  <2>5. Bounded'
    <3>1. position' \in 7..(Len(encoding) + 1)
      <4>1. AfterOptional \in Nat /\ AfterOptional <= Len(Body) + 1
        BY <2>3, NumberFacts
      <4> QED
        BY <1>2, <1>5, <2>3, <4>1, CursorMoves DEF RequestInv
    <3>2. PICK n : n = Len(encoding)
      OBVIOUS
    <3>3. n \in Nat /\ position' \in 7..(n + 1)
      BY <3>1, <3>2, NumberFacts
    <3>4. position' \in 1..(n + 1) /\ position' > 6
      BY <3>3
    <3> QED
      BY <1>1, <1>5, <2>1, <3>2, <3>4 DEF RequestInv, Bounded
  <2>6. Typed' /\ ResultInv' /\ FailureInv'
    BY <1>1, <1>5, <2>1, <2>2, <2>4 DEF RequestInv, Typed, DraftTyped, ResultInv, FailureInv
  <2>7. Intact'
    <3> SUFFICES ASSUME written # None
                 PROVE  (HeaderIntact /\ DeltasIntact /\ DraftIntact /\ CursorIntact)'
      BY <2>1 DEF Intact
    <3>1. HeaderIntact /\ DeltasIntact
      BY <1>1 DEF RequestInv, Intact
    <3>2. HeaderIntact'
      BY <1>1, <1>5, <2>1, <2>2, <3>1 DEF HeaderIntact, FieldNames
    <3>3. DeltasIntact'
      BY <1>1, <1>3, <1>5, <2>1, <2>2, <3>1 DEF DeltasIntact
    <3>4. DraftIntact' /\ CursorIntact'
      BY <1>3, <1>5, <2>1 DEF DraftIntact, CursorIntact
    <3> QED
      BY <3>2, <3>3, <3>4
  <2> QED
    BY <2>1, <2>5, <2>6, <2>7 DEF RequestInv
<1> QED
  BY <1>4, <1>5 DEF ReadTransaction

\* The record of a request ends with it.
LEMMA FinishKeeps == RequestInv /\ Finish => RequestInv'
<1> SUFFICES ASSUME RequestInv, Finish PROVE RequestInv'
  OBVIOUS
<1> DEFINE error == FinishError(Body, position)
<1>1. phase = "finish"
  BY DEF Finish
<1>2. ASSUME error # None, Fail(error) PROVE RequestInv'
  <2>1. written = None
    BY <1>1, <1>2 DEF RequestInv, Intact, CursorIntact, FinishError
  <2> QED
    BY <1>2, <2>1, FailKeeps, ErrorFacts
<1>3. ASSUME phase' = "rebuild",
             UNCHANGED <<arguments, position, fields, draft, deltas, left, result, code>>
      PROVE  RequestInv'
  <2>1. /\ FromCase' /\ encoding' = encoding /\ written' = written /\ (Home' <=> Home)
        /\ position' = position /\ fields' = fields /\ draft' = draft
        /\ deltas' = deltas /\ left' = left /\ code' = code
    BY <1>3, ArgumentsStay DEF RequestInv
  <2>2. Bounded'
    BY <1>1, <1>3, <2>1 DEF RequestInv, Bounded
  <2>3. Typed' /\ ResultInv' /\ FailureInv'
    BY <1>1, <1>3, <2>1 DEF RequestInv, Typed, DraftTyped, ResultInv, FailureInv
  <2>4. Intact'
    BY <1>1, <1>3, <2>1
    DEF RequestInv, Intact, HeaderIntact, DeltasIntact, DraftIntact, CursorIntact
  <2> QED
    BY <2>1, <2>2, <2>3, <2>4 DEF RequestInv
<1> QED
  BY <1>2, <1>3 DEF Finish

\* The deltas of a request, read back, make the request again.
LEMMA WrittenIsMade ==
  ASSUME RequestInv, written # None, phase \in AfterDeltas
  PROVE  /\ RequestAdmitted(snapshot, deltas, fields.transaction)
         /\ RequestMake(snapshot, deltas, fields.transaction) = written
<1> DEFINE D == written.deltas
           n == Cardinality(D)
<1>1. PICK ds \in SetToSeqs(D) :
        /\ RequestAdmitted(snapshot, ds, written.transaction)
        /\ written = RequestMake(snapshot, ds, written.transaction)
  <2>1. FromCase /\ Home
    BY DEF RequestInv, Intact, HeaderIntact
  <2> QED
    BY <2>1, AtHome DEF Makeable
<1>2. /\ left = 0 /\ Len(deltas) + left = n /\ fields.transaction = written.transaction
      /\ \A k \in 1..Len(deltas) : deltas[k] = InNameOrder(D)[k]
  BY DEF RequestInv, Intact, DeltasIntact
<1>3. D \in SUBSET Deltas /\ NameUnique(D)
  BY HeaderReads DEF RequestInv, Requests
<1>4. /\ n \in Nat /\ InNameOrder(D) \in [1..n -> D]
      /\ \A d \in D : \E i \in 1..n : InNameOrder(D)[i] = d
      /\ \A i, j \in 1..n : InNameOrder(D)[i].name = InNameOrder(D)[j].name => i = j
  BY <1>3, InNameOrderFacts
<1>5. Len(deltas) = n /\ DOMAIN deltas = 1..n
  <2>1. PICK m : m = Len(deltas)
    OBVIOUS
  <2>2. m \in Nat /\ DOMAIN deltas = 1..m
    BY <2>1 DEF RequestInv, Typed
  <2>3. m = n
    BY <1>2, <2>1, <2>2
  <2> QED
    BY <2>1, <2>2, <2>3
<1>6. D = Range(ds) /\ ds \in [1..n -> D]
  BY <1>1 DEF RequestMake, SetToSeqs
<1>7. Range(deltas) = D
  BY <1>2, <1>4, <1>5 DEF Range
<1>8. RequestAdmitted(snapshot, deltas, written.transaction)
  <2>1. \A i, j \in DOMAIN deltas : deltas[i].name = deltas[j].name => i = j
    BY <1>2, <1>4, <1>5
  <2>2. deltas # <<>>
    <3>1. ds # <<>>
      BY <1>1 DEF RequestAdmitted
    <3>2. n # 0
      <4> SUFFICES ASSUME n = 0 PROVE FALSE
        OBVIOUS
      <4>1. D = {}
        BY <1>4
      <4>2. DOMAIN ds = {}
        BY <1>6
      <4> QED
        BY <1>6, <3>1, <4>2
    <3> QED
      BY <1>5, <3>2
  <2>3. Len(deltas) > 1 => written.transaction # None
    <3>1. Len(ds) = n
      BY <1>4, <1>6
    <3> QED
      BY <1>1, <1>5, <3>1 DEF RequestAdmitted
  <2>4. \A d \in Range(deltas) :
          /\ DeltaMatches(snapshot, d)
          /\ d.proposed # None => d.proposed.transaction = written.transaction
    BY <1>1, <1>6, <1>7 DEF RequestAdmitted
  <2> QED
    BY <2>1, <2>2, <2>3, <2>4 DEF RequestAdmitted
<1>9. RequestMake(snapshot, deltas, written.transaction) = written
  BY <1>1, <1>6, <1>7 DEF RequestMake
<1> QED
  BY <1>2, <1>8, <1>9

\* No request that was made is refused when it is rebuilt.
LEMMA RebuildKeeps == RequestInv /\ Rebuild => RequestInv'
<1> SUFFICES ASSUME RequestInv, Rebuild PROVE RequestInv'
  OBVIOUS
<1>1. phase = "rebuild"
  BY DEF Rebuild
<1>2. ASSUME ~RequestAdmitted(snapshot, deltas, fields.transaction), Fail("invalid_value")
      PROVE  RequestInv'
  <2>1. written = None
    BY <1>1, <1>2, WrittenIsMade
  <2> QED
    BY <1>2, <2>1, FailKeeps, ErrorFacts
<1>3. ASSUME RequestAdmitted(snapshot, deltas, fields.transaction),
             result' = RequestMake(snapshot, deltas, fields.transaction), phase' = "confirm",
             UNCHANGED <<arguments, position, fields, draft, deltas, left, code>>
      PROVE  RequestInv'
  <2>1. /\ FromCase' /\ encoding' = encoding /\ snapshot' = snapshot /\ written' = written
        /\ (Home' <=> Home)
        /\ position' = position /\ fields' = fields /\ draft' = draft
        /\ deltas' = deltas /\ left' = left /\ code' = code
    BY <1>3, ArgumentsStay DEF RequestInv
  <2>2. Bounded'
    BY <1>1, <1>3, <2>1 DEF RequestInv, Bounded
  <2>3. Typed' /\ FailureInv'
    BY <1>1, <1>3, <2>1 DEF RequestInv, Typed, DraftTyped, FailureInv
  <2>4. ResultInv'
    BY <1>3, <2>1 DEF ResultInv
  <2>5. Intact'
    BY <1>1, <1>3, <2>1
    DEF RequestInv, Intact, HeaderIntact, DeltasIntact, DraftIntact, CursorIntact
  <2> QED
    BY <2>1, <2>2, <2>3, <2>4, <2>5 DEF RequestInv
<1> QED
  BY <1>2, <1>3 DEF Rebuild

\* Nor is its identity, or its encoding, found to differ.
LEMMA ConfirmKeeps == RequestInv /\ Confirm => RequestInv'
<1> SUFFICES ASSUME RequestInv, Confirm PROVE RequestInv'
  OBVIOUS
<1>1. phase = "confirm"
  BY DEF Confirm
<1>2. ASSUME ConfirmError # None, Fail(ConfirmError) PROVE RequestInv'
  <2>1. written = None
    <3> SUFFICES ASSUME written # None PROVE FALSE
      OBVIOUS
    <3>1. result = written
      BY <1>1, WrittenIsMade DEF RequestInv, ResultInv
    <3>2. fields.identity = RequestIdentity(written)
      BY <1>1 DEF RequestInv, Intact, HeaderIntact
    <3>3. encoding = EncodeRequest(written)
      BY CaseFacts DEF RequestInv
    <3> QED
      BY <1>2, <3>1, <3>2, <3>3 DEF ConfirmError
  <2> QED
    BY <1>2, <2>1, FailKeeps, ErrorFacts
<1>3. ASSUME ConfirmError = None, phase' = "accepted",
             UNCHANGED <<arguments, position, fields, draft, deltas, left, result, code>>
      PROVE  RequestInv'
  <2>1. /\ FromCase' /\ encoding' = encoding /\ snapshot' = snapshot /\ written' = written
        /\ (Home' <=> Home)
        /\ position' = position /\ fields' = fields /\ draft' = draft
        /\ deltas' = deltas /\ left' = left /\ result' = result /\ code' = code
    BY <1>3, ArgumentsStay DEF RequestInv
  <2>2. Bounded'
    BY <1>1, <1>3, <2>1 DEF RequestInv, Bounded
  <2>3. Typed' /\ FailureInv'
    BY <1>1, <1>3, <2>1 DEF RequestInv, Typed, DraftTyped, FailureInv
  <2>4. ResultInv'
    <3>1. ConfirmError' = ConfirmError
      BY <2>1 DEF ConfirmError
    <3> QED
      BY <1>1, <1>3, <2>1, <3>1 DEF RequestInv, ResultInv
  <2>5. Intact'
    BY <1>1, <1>3, <2>1
    DEF RequestInv, Intact, HeaderIntact, DeltasIntact, DraftIntact, CursorIntact
  <2> QED
    BY <2>1, <2>2, <2>3, <2>4, <2>5 DEF RequestInv
<1> QED
  BY <1>2, <1>3 DEF Confirm

\* A step that changes nothing keeps it.
LEMMA StutterKeeps == RequestInv /\ UNCHANGED vars => RequestInv'
<1> SUFFICES ASSUME RequestInv, UNCHANGED vars PROVE RequestInv'
  OBVIOUS
<1>1. /\ encoding' = encoding /\ snapshot' = snapshot /\ written' = written
      /\ phase' = phase /\ position' = position /\ fields' = fields /\ draft' = draft
      /\ deltas' = deltas /\ left' = left /\ result' = result /\ code' = code
  BY DEF vars, arguments
<1>2. FromCase' /\ Bounded' /\ Typed'
  BY <1>1 DEF RequestInv, FromCase, Bounded, Typed, DraftTyped
<1>3. ResultInv' /\ FailureInv'
  BY <1>1 DEF RequestInv, ResultInv, FailureInv, ConfirmError, Deserves, Home
<1>4. Intact'
  BY <1>1 DEF RequestInv, Intact, HeaderIntact, DeltasIntact, DraftIntact, CursorIntact,
              Home, Coming, Start, Body
<1> QED
  BY <1>2, <1>3, <1>4 DEF RequestInv

\* Every phase of decode_state_publication_request has established what RequestInv
\* says of it.
THEOREM RequestInvariant == Spec => []RequestInv
<1> HIDE DEF Phases, AfterVerify, AfterPrefix, AfterIdentity, AfterExpected, AfterTarget,
             AfterAuthority, AfterCount, AfterDeltas, AfterKind, AfterName, AfterPlan,
             AfterApplication, AfterExpectedPackage
<1>1. RequestInv /\ [Next]_vars => RequestInv'
  BY VerifyKeeps, ReadPrefixKeeps, ReadIdentityKeeps, CheckAuthorityKeeps,
     ReadCountKeeps, ReadDeltaFieldKeeps, ReadExpectedPackageKeeps,
     ReadProposedPackageKeeps, BuildDeltaKeeps, ReadTransactionKeeps, FinishKeeps,
     RebuildKeeps, ConfirmKeeps, StutterKeeps DEF Next, Done
<1> QED
  BY RequestInit, <1>1, PTL DEF Spec

-----------------------------------------------------------------------------
(* The properties of the decoder, for all values of the constants *)

\* A delta that was read and matches a snapshot is one a client could have made.
LEMMA MatchingIsDelta ==
  ASSUME NEW d \in ReadDeltas, NEW s \in Snapshots, DeltaMatches(s, d)
  PROVE  d \in Deltas
<1>1. /\ d.kind \in DeltaKinds /\ d.name \in Names /\ d.proposed \in Packages \cup {None}
      /\ d.plan \in Plans /\ d.application \in Applications
      /\ d = [kind |-> d.kind, name |-> d.name, expected |-> d.expected,
              proposed |-> d.proposed, plan |-> d.plan, application |-> d.application]
      /\ InstallAdmitted(d) \/ ReplaceAdmitted(d) \/ RemoveAdmitted(d)
  BY DEF ReadDeltas
<1>2. d.expected \in PackageIdentities \cup {None}
  <2>1. CASE d.kind = "install"
    BY <1>1, <2>1 DEF InstallAdmitted, ReplaceAdmitted, RemoveAdmitted
  <2>2. CASE d.kind # "install"
    <3>1. PICK p \in s.packages : PackageIdentity(p) = d.expected
      BY <2>2 DEF DeltaMatches, PriorMatches, FindPackage
    <3>2. p \in Packages
      BY DEF Snapshots, SnapshotRecord
    <3> QED
      BY <3>1, <3>2 DEF PackageIdentities
  <2> QED
    BY <2>1, <2>2
<1> QED
  BY <1>1, <1>2 DEF Deltas, DeltaRecord

\* A sequence of things that differ lists the set of them.
LEMMA ListsItsRange ==
  ASSUME NEW s, NEW n \in Nat, n = Len(s), s \in [1..n -> Range(s)],
         \A i, j \in 1..n : s[i] = s[j] => i = j
  PROVE  s \in SetToSeqs(Range(s))
<1> DEFINE S == Range(s)
<1>1. s \in Bijection(1..n, S)
  BY DEF Bijection, Injection, IsInjective, Surjection, Range
<1> HIDE DEF S
<1>2. Cardinality(S) = n
  BY <1>1, FS_CountingElements DEF ExistsBijection
<1>3. s \in [1..n -> S]
  BY DEF S
<1> QED
  BY <1>2, <1>3 DEF SetToSeqs, S

\* What is accepted is a request that could have been made.
LEMMA AcceptedFacts ==
  ASSUME RequestInv, phase = "accepted"
  PROVE  /\ result \in Requests /\ Makeable(result, snapshot)
         /\ encoding = EncodeRequest(result)
<1> DEFINE tx == fields.transaction
<1>1. /\ RequestAdmitted(snapshot, deltas, tx)
      /\ result = RequestMake(snapshot, deltas, tx)
      /\ deltas \in Seq(ReadDeltas) /\ tx \in OptionalTransaction
      /\ snapshot \in Snapshots
  BY CaseFacts DEF RequestInv, ResultInv, Typed
<1>2. \A d \in Range(deltas) : d \in ReadDeltas /\ DeltaMatches(snapshot, d)
  BY <1>1 DEF RequestAdmitted, Range
<1>3. Range(deltas) \subseteq Deltas
  BY <1>1, <1>2, MatchingIsDelta
<1>4. deltas \in Seq(DeltaRecord)
  <2>1. \A i \in 1..Len(deltas) : deltas[i] \in DeltaRecord
    BY <1>1, <1>3 DEF Range, Deltas
  <2> QED
    BY <1>1, <2>1
<1>5. result \in Requests
  BY <1>1, <1>3, <1>4, RequestType
<1>6. deltas \in SetToSeqs(Range(deltas))
  <2>1. PICK n : n = Len(deltas)
    OBVIOUS
  <2>2. n \in Nat /\ DOMAIN deltas = 1..n /\ deltas \in [1..n -> Range(deltas)]
    BY <1>1, <2>1 DEF Range
  <2>3. \A i, j \in 1..n : deltas[i] = deltas[j] => i = j
    BY <1>1, <2>2 DEF RequestAdmitted
  <2> QED
    BY <2>1, <2>2, <2>3, ListsItsRange
<1>7. Makeable(result, snapshot)
  <2>1. result.deltas = Range(deltas) /\ result.transaction = tx
    BY <1>1 DEF RequestMake
  <2> QED
    BY <1>1, <1>6, <2>1 DEF Makeable
<1>8. encoding = EncodeRequest(result)
  <2>1. ConfirmError = None
    BY DEF RequestInv, ResultInv
  <2>2. None # "identity_mismatch" /\ None # "invalid_value"
    BY ErrorAssumption DEF ErrorCodes
  <2> QED
    BY <2>1, <2>2 DEF ConfirmError
<1> QED
  BY <1>5, <1>7, <1>8

\* The cursor stays in the record, the loop within the bound of its count, every
\* delta that waits proposes what its kind does, a code is raised exactly on failure
\* and what is accepted is a request.
THEOREM RequestTypeCorrect == Spec => []RequestDecoderTypeOK
<1>1. RequestInv => RequestDecoderTypeOK
  <2> SUFFICES ASSUME RequestInv PROVE RequestDecoderTypeOK
    OBVIOUS
  <2>1. /\ position \in 1..(Len(encoding) + 1) /\ left \in 0..MaxCount
        /\ code \in ErrorCodes \cup {None} /\ (code # None <=> phase = "failed")
    BY DEF RequestInv, Bounded
  <2>2. \A d \in Range(deltas) : d \in ReadDeltas
    BY DEF RequestInv, Typed, Range
  <2>3. \A d \in ReadDeltas : d.proposed # None <=> d.kind # "remove"
    BY DEF ReadDeltas, InstallAdmitted, ReplaceAdmitted, RemoveAdmitted
  <2> QED
    BY <2>1, <2>2, <2>3, AcceptedFacts DEF RequestDecoderTypeOK
<1> QED
  BY RequestInvariant, <1>1, PTL

\* Whatever is decoded, whoever wrote it: an accepted record is the one encoding
\* of a request that could have been made against the retained snapshot.
THEOREM AcceptedIsMakeable == Spec => []OnlyMakeableAccepted
<1>1. RequestInv => OnlyMakeableAccepted
  BY AcceptedFacts DEF OnlyMakeableAccepted
<1> QED
  BY RequestInvariant, <1>1, PTL

\* A request of no more deltas than a reader admits survives the round trip under
\* the snapshot it was made against.
THEOREM RequestRoundTripHolds == Spec => []RequestRoundTrip
<1>1. RequestInv => RequestRoundTrip
  <2> SUFFICES ASSUME RequestInv, written # None, Home,
                      Cardinality(written.deltas) <= MaxCount
               PROVE  phase # "failed" /\ (phase = "accepted" => result = written)
    BY DEF RequestRoundTrip, Home
  <2>1. Cardinality(written.deltas) \in Nat
    BY HeaderReads DEF RequestInv
  <2>2. phase # "failed"
    <3>1. PICK n, m : n = Cardinality(written.deltas) /\ m = MaxCount
      OBVIOUS
    <3>2. n \in Nat /\ m \in Nat /\ n <= m
      BY <2>1, <3>1, RecordAssumption
    <3>3. ~ n > m
      BY <3>2
    <3> QED
      BY <3>1, <3>3 DEF RequestInv, FailureInv, Deserves
  <2>3. ASSUME phase = "accepted" PROVE result = written
    BY <2>3, WrittenIsMade DEF RequestInv, ResultInv
  <2> QED
    BY <2>2, <2>3
<1> QED
  BY RequestInvariant, <1>1, PTL

\* An intact record of a request made against another snapshot is refused by that
\* name, at any size.
THEOREM ForeignNamed == Spec => []ForeignSnapshotIsNamed
<1>1. RequestInv => ForeignSnapshotIsNamed
  <2> SUFFICES ASSUME RequestInv, written # None, ~Home
               PROVE  phase # "accepted" /\ code \in {None, "expected_snapshot_mismatch"}
    BY DEF ForeignSnapshotIsNamed, Home
  <2>1. phase # "accepted"
    BY DEF RequestInv, Intact, HeaderIntact
  <2>2. phase = "failed" => code = "expected_snapshot_mismatch"
    BY DEF RequestInv, FailureInv, Deserves
  <2>3. phase # "failed" => code = None
    BY DEF RequestInv, Bounded
  <2> QED
    BY <2>1, <2>2, <2>3
<1> QED
  BY RequestInvariant, <1>1, PTL

===============================================================================
