------------------------- MODULE SnapshotVectorProofs -------------------------
(***************************************************************************)
(* Proofs about SnapshotVector, for every order of names and every vector  *)
(* and request: the binary search finds what a scan would find, the edits  *)
(* in place keep the vector fit for it, and the call returns exactly the   *)
(* projection, or throws exactly where the projection is not admitted.     *)
(***************************************************************************)
EXTENDS SnapshotVector, PublicationProofs

-----------------------------------------------------------------------------
(* The inductive invariant *)

\* The vector is sorted and names no package twice.
StrictlySorted(v) == \A i, j \in DOMAIN v : i < j => Precedes(v[i].name, v[j].name)

\* What the deltas of done have made of the packages of s.
EditedBy(done, s) ==
  {p \in s.packages : \A d \in done : d.name # p.name}
    \cup {d.proposed : d \in {e \in done : e.proposed # None}}

\* The deltas that have been applied.
DoneDeltas == call.request.deltas \ Range(pending)

Mine ==
  /\ call.request # None
  /\ Prior.target = call.request.target
  /\ SnapshotIdentity(Prior) = call.request.expected

Increasing(q) == \A k, l \in DOMAIN q : k < l => q[k] < q[l]

StateInv ==
  /\ call \in Calls /\ packages \in Seq(Packages) /\ index \in 0..Len(packages)
  /\ phase \in {"check", "apply", "sort", "index", "made", "thrown"}
  /\ owners \in [Paths -> Seq(1..index)]

CheckInv ==
  phase = "check" =>
    /\ call.request # None /\ packages = call.input
    /\ pending \in InNameOrder(call.request.deltas)

ApplyInv ==
  phase = "apply" =>
    /\ Mine /\ pending \in Seq(call.request.deltas) /\ IsInjective(pending)
    /\ StrictlySorted(packages) /\ Range(packages) = EditedBy(DoneDeltas, Prior)
    /\ \A d \in DoneDeltas : PriorMatches(Prior, d)

\* The vector that snapshot::make is given, in whatever order it is by now.
MakeInv ==
  phase \in {"sort", "index", "made"} =>
    IF call.request = None
    THEN /\ Range(packages) = Range(call.input)
         /\ IsInjective(packages) <=> IsInjective(call.input)
    ELSE /\ Mine /\ \A d \in call.request.deltas : PriorMatches(Prior, d)
         /\ Range(packages) = ProjectedPackages(call.request, Prior)
         /\ IsInjective(packages)
         /\ \A p, q \in Range(packages) : p.name = q.name => p = q

IndexInv ==
  /\ phase \in {"check", "apply", "sort"} => index = 0
  /\ phase \in {"index", "made"} =>
       /\ Sorted(packages) /\ \A i \in 1..index : Indexable(i)
       /\ \A path \in Paths :
            /\ Increasing(owners[path])
            /\ Range(owners[path]) = {i \in 1..index : path \in packages[i].manifest}
  /\ phase = "made" => index = Len(packages)

Admitted ==
  IF call.request = None
  THEN SnapshotAdmitted(call.target, Range(call.input)) /\ IsInjective(call.input)
  ELSE ProjectAdmitted(call.request, Prior)

IInv ==
  /\ StateInv /\ CheckInv /\ ApplyInv /\ MakeInv /\ IndexInv
  /\ phase = "thrown" => ~Admitted

-----------------------------------------------------------------------------
(* The order of names *)

\* The rank of a name is its place in the order.
LEMMA RankType ==
  ASSUME NEW name \in Names
  PROVE  Rank(name) \in Nat /\ Rank(name) \in DOMAIN NameOrder /\ NameOrder[Rank(name)] = name
<1>1. \E i \in DOMAIN NameOrder : NameOrder[i] = name
  BY NameOrderAssumption DEF ToSet
<1>2. Rank(name) \in DOMAIN NameOrder /\ NameOrder[Rank(name)] = name
  BY <1>1 DEF Rank
<1> QED
  BY <1>2, NameOrderAssumption

\* Names are totally ordered.
LEMMA NamesOrdered ==
  ASSUME NEW a \in Names, NEW b \in Names, NEW c \in Names
  PROVE  /\ ~Precedes(a, a)
         /\ Precedes(a, b) => ~Precedes(b, a)
         /\ ~Precedes(a, b) /\ ~Precedes(b, a) => a = b
         /\ Precedes(a, b) /\ ~Precedes(c, b) => Precedes(a, c)
         /\ ~Precedes(b, a) /\ Precedes(b, c) => Precedes(a, c)
BY RankType DEF Precedes

\* A vector without repeated names is sorted exactly when it is strictly sorted.
LEMMA StrictlySortedIs ==
  ASSUME NEW v \in Seq(Packages)
  PROVE  StrictlySorted(v) <=>
           Sorted(v) /\ \A i, j \in DOMAIN v : v[i].name = v[j].name => i = j
<1>1. DOMAIN v \subseteq Nat /\ \A i \in DOMAIN v : v[i].name \in Names
  BY PackagesAssumption DEF PackageRecord
<1>2. ASSUME StrictlySorted(v), NEW i \in DOMAIN v, NEW j \in DOMAIN v
      PROVE  /\ i < j => ~Precedes(v[j].name, v[i].name)
             /\ v[i].name = v[j].name => i = j
  <2>1. i < j \/ j < i \/ i = j
    BY <1>1
  <2>2. /\ i < j => Precedes(v[i].name, v[j].name)
        /\ j < i => Precedes(v[j].name, v[i].name)
    BY <1>2 DEF StrictlySorted
  <2> QED
    BY <1>1, <2>1, <2>2, NamesOrdered
<1>3. ASSUME Sorted(v), \A i, j \in DOMAIN v : v[i].name = v[j].name => i = j,
             NEW i \in DOMAIN v, NEW j \in DOMAIN v, i < j
      PROVE  Precedes(v[i].name, v[j].name)
  <2>1. ~Precedes(v[j].name, v[i].name) /\ v[i].name # v[j].name
    BY <1>1, <1>3 DEF Sorted
  <2> QED
    BY <1>1, <2>1, NamesOrdered
<1> QED
  BY <1>2, <1>3 DEF StrictlySorted, Sorted

-----------------------------------------------------------------------------
(* The binary search *)

Spans(v) == (0..Len(v)) \X (0..Len(v))

\* One round of the search, given what the shorter spans give.
Narrowed(f, v, name, span) ==
  LET first  == span[1]
      last   == span[2]
      middle == first + (last - first) \div 2
  IN  IF first >= last THEN first
      ELSE IF Precedes(v[middle + 1].name, name) THEN f[<<middle + 1, last>>]
      ELSE f[<<first, middle>>]

\* The middle of a span that is not empty leaves two shorter spans.
LEMMA MiddleIs ==
  ASSUME NEW n \in Nat, NEW first \in 0..n, NEW last \in 0..n, first < last
  PROVE  LET middle == first + (last - first) \div 2 IN
         /\ middle \in 0..n /\ middle + 1 \in 0..n
         /\ first <= middle /\ middle < last
<1>1. \A d \in Nat : d > 0 => d \div 2 \in Nat /\ d \div 2 < d
  OBVIOUS
<1>2. last - first \in Nat /\ last - first > 0
  OBVIOUS
<1> QED
  BY <1>1, <1>2

\* The search reads only shorter spans.
LEMMA NarrowedReads ==
  ASSUME NEW v, Len(v) \in Nat, NEW name, NEW n \in Nat, NEW f, NEW g,
         \A p \in Spans(v) : p[2] - p[1] <= n => f[p] = g[p],
         NEW span \in Spans(v), span[2] - span[1] <= n + 1
  PROVE  Narrowed(f, v, name, span) = Narrowed(g, v, name, span)
<1> DEFINE first == span[1]
           last == span[2]
           middle == first + (last - first) \div 2
<1>1. first \in 0..Len(v) /\ last \in 0..Len(v)
  BY DEF Spans
<1>2. CASE first >= last
  BY <1>2 DEF Narrowed
<1>3. CASE first < last
  <2>1. /\ middle \in 0..Len(v) /\ middle + 1 \in 0..Len(v)
        /\ first <= middle /\ middle < last
    BY <1>1, <1>3, MiddleIs
  <2> HIDE DEF middle
  <2>2. <<middle + 1, last>> \in Spans(v) /\ <<first, middle>> \in Spans(v)
    BY <1>1, <2>1 DEF Spans
  <2>3. last - (middle + 1) <= n /\ middle - first <= n
    BY <1>1, <2>1
  <2>4. f[<<middle + 1, last>>] = g[<<middle + 1, last>>] /\ f[<<first, middle>>] = g[<<first, middle>>]
    BY <2>2, <2>3
  <2> QED
    BY <1>1, <1>3, <2>4 DEF Narrowed, middle
<1> QED
  BY <1>1, <1>2, <1>3

\* The search is defined: the recursion over spans has a solution.
LEMMA BisectionIs ==
  ASSUME NEW v, Len(v) \in Nat, NEW name
  PROVE  \A span \in Spans(v) :
           Bisection(v, name)[span] = Narrowed(Bisection(v, name), v, name, span)
<1> DEFINE Solves(f, n) ==
      \A p \in Spans(v) : p[2] - p[1] <= n => f[p] = Narrowed(f, v, name, p)
<1>0. \A p \in Spans(v) : p[1] \in 0..Len(v) /\ p[2] \in 0..Len(v) /\ p[2] - p[1] <= Len(v)
  BY DEF Spans
<1>1. Solves([p \in Spans(v) |-> p[1]], 0)
  <2> SUFFICES ASSUME NEW p \in Spans(v), p[2] - p[1] <= 0
               PROVE  p[1] = Narrowed([q \in Spans(v) |-> q[1]], v, name, p)
    OBVIOUS
  <2>1. p[1] >= p[2]
    BY <1>0
  <2> QED
    BY <2>1 DEF Narrowed
<1>2. ASSUME NEW n \in Nat, NEW f, Solves(f, n)
      PROVE  Solves([p \in Spans(v) |->
                       IF p[2] - p[1] <= n THEN f[p] ELSE Narrowed(f, v, name, p)], n + 1)
  <2> DEFINE g == [p \in Spans(v) |->
                     IF p[2] - p[1] <= n THEN f[p] ELSE Narrowed(f, v, name, p)]
  <2>1. \A p \in Spans(v) : p[2] - p[1] <= n => f[p] = g[p]
    OBVIOUS
  <2>2. \A p \in Spans(v) : g[p] = Narrowed(f, v, name, p)
    BY <1>2
  <2> HIDE DEF g
  <2>3. \A p \in Spans(v) : p[2] - p[1] <= n + 1 =>
          Narrowed(f, v, name, p) = Narrowed(g, v, name, p)
    BY <2>1, NarrowedReads
  <2>4. Solves(g, n + 1)
    BY <2>2, <2>3
  <2> QED
    BY <2>4 DEF g
<1> HIDE DEF Solves
<1>3. \E f : Solves(f, Len(v))
  <2> DEFINE T == {n \in Nat : ~ \E f : Solves(f, n)}
  <2>1. SUFFICES ASSUME T # {} PROVE FALSE
    OBVIOUS
  <2>2. PICK n \in T : \A m \in T : n <= m
    BY <2>1, LeastNatural
  <2>3. n # 0
    BY <1>1
  <2>4. n - 1 \in Nat /\ n - 1 \notin T
    BY <2>2, <2>3
  <2>5. PICK f : Solves(f, n - 1)
    BY <2>4
  <2>6. \E g : Solves(g, (n - 1) + 1)
    BY <1>2, <2>4, <2>5
  <2>7. (n - 1) + 1 = n
    BY <2>2
  <2> QED
    BY <2>2, <2>6, <2>7
<1>4. PICK f : Solves(f, Len(v))
  BY <1>3
<1> DEFINE IsIt(h) == h = [span \in Spans(v) |-> Narrowed(h, v, name, span)]
           g == [p \in Spans(v) |-> f[p]]
<1>5. IsIt(g)
  <2>1. \A p \in Spans(v) : f[p] = Narrowed(f, v, name, p)
    BY <1>0, <1>4 DEF Solves
  <2>2. \A p \in Spans(v) : p[2] - p[1] <= Len(v) => f[p] = g[p]
    OBVIOUS
  <2> HIDE DEF g
  <2>3. \A p \in Spans(v) : Narrowed(f, v, name, p) = Narrowed(g, v, name, p)
    <3> SUFFICES ASSUME NEW p \in Spans(v)
                 PROVE  Narrowed(f, v, name, p) = Narrowed(g, v, name, p)
      OBVIOUS
    <3>1. p[2] - p[1] <= Len(v) + 1
      BY <1>0
    <3> QED
      BY <2>2, <3>1, NarrowedReads
  <2> QED
    BY <2>1, <2>3 DEF g
<1>6. Bisection(v, name) = CHOOSE h : IsIt(h)
  BY DEF Bisection, Narrowed, Spans
<1> HIDE DEF IsIt
<1>7. IsIt(Bisection(v, name))
  BY <1>5, <1>6
<1> QED
  BY <1>7 DEF IsIt

\* Position k parts the vector: the names before it precede name, those after
\* it do not.
Parts(v, name, k) ==
  /\ k \in 0..Len(v)
  /\ \A j \in 1..k : Precedes(v[j].name, name)
  /\ \A j \in k + 1..Len(v) : ~Precedes(v[j].name, name)

\* In a sorted vector the search ends where the vector parts.
LEMMA BisectionParts ==
  ASSUME NEW v \in Seq(Packages), Sorted(v), NEW name \in Names
  PROVE  Parts(v, name, Bisection(v, name)[<<0, Len(v)>>])
<1> DEFINE b == Bisection(v, name)
           Encloses(p) ==
             /\ p[1] <= p[2]
             /\ \A j \in 1..p[1] : Precedes(v[j].name, name)
             /\ \A j \in p[2] + 1..Len(v) : ~Precedes(v[j].name, name)
           Finds(n) ==
             \A p \in Spans(v) : p[2] - p[1] <= n /\ Encloses(p) => Parts(v, name, b[p])
<1>0. /\ Len(v) \in Nat /\ DOMAIN v = 1..Len(v)
      /\ \A i \in 1..Len(v) : v[i].name \in Names
  BY PackagesAssumption DEF PackageRecord
<1>1. \A p \in Spans(v) : b[p] = Narrowed(b, v, name, p)
  BY <1>0, BisectionIs
<1> HIDE DEF b
<1>2. ASSUME NEW p \in Spans(v), p[1] = p[2], Encloses(p)
      PROVE  Parts(v, name, b[p])
  <2>1. p[1] \in 0..Len(v) /\ b[p] = p[1]
    BY <1>1, <1>2 DEF Narrowed, Spans
  <2> QED
    BY <1>2, <2>1 DEF Parts
<1>3. ASSUME NEW n \in Nat, Finds(n), NEW p \in Spans(v),
             p[2] - p[1] <= n + 1, p[1] < p[2], Encloses(p)
      PROVE  Parts(v, name, b[p])
  <2> DEFINE first == p[1]
             last == p[2]
             middle == first + (last - first) \div 2
  <2>1. first \in 0..Len(v) /\ last \in 0..Len(v)
    BY DEF Spans
  <2>2. /\ middle \in 0..Len(v) /\ middle + 1 \in 0..Len(v)
        /\ first <= middle /\ middle < last
    BY <1>0, <1>3, <2>1, MiddleIs
  <2>3. b[p] = IF Precedes(v[middle + 1].name, name) THEN b[<<middle + 1, last>>]
               ELSE b[<<first, middle>>]
    BY <1>1, <1>3, <2>1 DEF Narrowed
  <2> HIDE DEF middle
  <2>4. middle + 1 \in 1..Len(v)
    BY <2>1, <2>2
  <2>5. CASE Precedes(v[middle + 1].name, name)
    <3>1. ASSUME NEW j \in 1..middle + 1 PROVE Precedes(v[j].name, name)
      <4>1. CASE j = middle + 1
        BY <2>5, <4>1
      <4>2. CASE j < middle + 1
        <5>1. j \in 1..Len(v)
          BY <1>0, <2>4, <4>2
        <5>2. ~Precedes(v[middle + 1].name, v[j].name)
          BY <1>0, <2>4, <4>2, <5>1 DEF Sorted
        <5> QED
          BY <1>0, <2>4, <2>5, <5>1, <5>2, NamesOrdered
      <4> QED
        BY <2>2, <4>1, <4>2
    <3>2. <<middle + 1, last>> \in Spans(v) /\ last - (middle + 1) <= n
      BY <1>3, <2>1, <2>2 DEF Spans
    <3>3. Encloses(<<middle + 1, last>>)
      BY <1>3, <2>1, <2>2, <3>1
    <3>4. Parts(v, name, b[<<middle + 1, last>>])
      BY <1>3, <3>2, <3>3
    <3> QED
      BY <2>3, <2>5, <3>4
  <2>6. CASE ~Precedes(v[middle + 1].name, name)
    <3>1. ASSUME NEW j \in middle + 1..Len(v) PROVE ~Precedes(v[j].name, name)
      <4>1. CASE j = middle + 1
        BY <2>6, <4>1
      <4>2. CASE j > middle + 1
        <5>1. j \in 1..Len(v)
          BY <1>0, <2>4, <4>2
        <5>2. ~Precedes(v[j].name, v[middle + 1].name)
          BY <1>0, <2>4, <4>2, <5>1 DEF Sorted
        <5> QED
          BY <1>0, <2>4, <2>6, <5>1, <5>2, NamesOrdered
      <4> QED
        BY <2>2, <4>1, <4>2
    <3>2. <<first, middle>> \in Spans(v) /\ middle - first <= n
      BY <1>3, <2>1, <2>2 DEF Spans
    <3>3. Encloses(<<first, middle>>)
      BY <1>3, <2>1, <2>2, <3>1
    <3>4. Parts(v, name, b[<<first, middle>>])
      BY <1>3, <3>2, <3>3
    <3> QED
      BY <2>3, <2>6, <3>4
  <2> QED
    BY <2>5, <2>6
<1>4. Finds(0)
  <2> SUFFICES ASSUME NEW p \in Spans(v), p[2] - p[1] <= 0, Encloses(p)
               PROVE  Parts(v, name, b[p])
    OBVIOUS
  <2>1. p[1] = p[2]
    BY <1>0 DEF Spans
  <2> QED
    BY <1>2, <2>1
<1>5. ASSUME NEW n \in Nat, Finds(n) PROVE Finds(n + 1)
  <2> SUFFICES ASSUME NEW p \in Spans(v), p[2] - p[1] <= n + 1, Encloses(p)
               PROVE  Parts(v, name, b[p])
    OBVIOUS
  <2>1. p[1] = p[2] \/ p[1] < p[2]
    BY <1>0 DEF Spans
  <2> QED
    BY <1>2, <1>3, <1>5, <2>1
<1>6. Encloses(<<0, Len(v)>>) /\ <<0, Len(v)>> \in Spans(v)
  BY <1>0 DEF Spans
<1> HIDE DEF Finds
<1>7. Finds(Len(v))
  <2> DEFINE T == {n \in Nat : ~Finds(n)}
  <2>1. SUFFICES ASSUME T # {} PROVE FALSE
    BY <1>0
  <2>2. PICK n \in T : \A m \in T : n <= m
    BY <2>1, LeastNatural
  <2>3. n # 0
    BY <1>4
  <2>4. n - 1 \in Nat /\ n - 1 \notin T
    BY <2>2, <2>3
  <2>5. Finds((n - 1) + 1)
    BY <1>5, <2>4
  <2>6. (n - 1) + 1 = n
    BY <2>2
  <2> QED
    BY <2>2, <2>5, <2>6
<1>8. Len(v) - 0 <= Len(v)
  BY <1>0
<1> QED
  BY <1>6, <1>7, <1>8 DEF Finds, b

\* The search finds a package of the name if there is one, and otherwise where
\* it belongs.
LEMMA LowerBoundIs ==
  ASSUME NEW v \in Seq(Packages), StrictlySorted(v), NEW name \in Names
  PROVE  LET i == LowerBound(v, name) IN
         /\ i \in 1..Len(v) + 1
         /\ \A j \in 1..i - 1 : Precedes(v[j].name, name)
         /\ \A j \in i..Len(v) : v[j].name # name => Precedes(name, v[j].name)
         /\ PresentAt(v, i, name) <=> \E j \in DOMAIN v : v[j].name = name
         /\ PresentAt(v, i, name) => i \in DOMAIN v
         /\ \A j \in DOMAIN v : v[j].name = name => j = i
<1> DEFINE k == Bisection(v, name)[<<0, Len(v)>>]
           i == LowerBound(v, name)
<1>0. /\ Len(v) \in Nat /\ DOMAIN v = 1..Len(v)
      /\ \A j \in 1..Len(v) : v[j].name \in Names
  BY PackagesAssumption DEF PackageRecord
<1>1. Parts(v, name, k) /\ i = k + 1
  BY StrictlySortedIs, BisectionParts DEF LowerBound
<1> HIDE DEF k, i
<1>2. /\ k \in 0..Len(v)
      /\ \A j \in 1..i - 1 : Precedes(v[j].name, name)
      /\ \A j \in i..Len(v) : ~Precedes(v[j].name, name)
  BY <1>0, <1>1 DEF Parts
<1>3. i \in 1..Len(v) + 1 /\ i - 1 = k
  BY <1>0, <1>1, <1>2
<1>4. ASSUME NEW j \in i..Len(v), v[j].name # name PROVE Precedes(name, v[j].name)
  <2>1. j \in 1..Len(v)
    BY <1>0, <1>3
  <2> QED
    BY <1>0, <1>2, <1>4, <2>1, NamesOrdered
<1>5. ASSUME NEW j \in DOMAIN v, v[j].name = name PROVE j = i
  <2>1. j >= i
    <3>1. SUFFICES ASSUME j < i PROVE FALSE
      BY <1>0, <1>3
    <3>2. j \in 1..i - 1
      BY <1>0, <1>3, <3>1
    <3> QED
      BY <1>2, <1>5, <3>2, NamesOrdered
  <2>2. SUFFICES ASSUME i < j PROVE FALSE
    BY <1>0, <1>3, <2>1
  <2>3. i \in 1..Len(v) /\ i \in i..Len(v)
    BY <1>0, <1>3, <2>2
  <2>4. Precedes(v[i].name, v[j].name)
    BY <1>0, <2>2, <2>3 DEF StrictlySorted
  <2> QED
    BY <1>2, <1>5, <2>3, <2>4
<1>6. PresentAt(v, i, name) => i \in DOMAIN v /\ v[i].name = name
  BY <1>0, <1>3 DEF PresentAt
<1>7. PresentAt(v, i, name) <=> \E j \in DOMAIN v : v[j].name = name
  BY <1>0, <1>5, <1>6 DEF PresentAt
<1> QED
  BY <1>2, <1>3, <1>4, <1>5, <1>6, <1>7 DEF i

-----------------------------------------------------------------------------
(* The edits *)

\* One vector of packages after another.
LEMMA Joined ==
  ASSUME NEW a \in Seq(Packages), NEW b \in Seq(Packages)
  PROVE  /\ a \o b \in Seq(Packages) /\ Len(a \o b) = Len(a) + Len(b)
         /\ \A j \in 1..Len(a) : (a \o b)[j] = a[j]
         /\ \A j \in 1..Len(b) : (a \o b)[Len(a) + j] = b[j]
OBVIOUS

\* A vector with one package more.
LEMMA AppendedIs ==
  ASSUME NEW a \in Seq(Packages), NEW p \in Packages
  PROVE  \E h \in Seq(Packages) :
           /\ h = a \o <<p>> /\ Len(h) = Len(a) + 1 /\ h[Len(a) + 1] = p
           /\ \A j \in 1..Len(a) : h[j] = a[j]
<1>1. /\ a \o <<p>> \in Seq(Packages) /\ Len(a \o <<p>>) = Len(a) + 1
      /\ (a \o <<p>>)[Len(a) + 1] = p
      /\ \A j \in 1..Len(a) : (a \o <<p>>)[j] = a[j]
  OBVIOUS
<1> QED
  BY <1>1

\* Insertion moves what follows up by one.
LEMMA InsertAtIs ==
  ASSUME NEW v \in Seq(Packages), NEW i \in 1..Len(v) + 1, NEW p \in Packages
  PROVE  LET w == InsertAt(v, i, p) IN
         /\ w \in Seq(Packages) /\ Len(w) = Len(v) + 1 /\ w[i] = p
         /\ \A j \in 1..i - 1 : w[j] = v[j]
         /\ \A j \in i + 1..Len(v) + 1 : w[j] = v[j - 1]
<1>0. Len(v) \in Nat /\ i \in Nat /\ i - 1 \in 0..Len(v)
  OBVIOUS
<1>1. PICK a \in Seq(Packages) :
         a = SubSeq(v, 1, i - 1) /\ Len(a) = i - 1 /\ \A j \in 1..i - 1 : a[j] = v[j]
  <2> DEFINE part == SubSeq(v, 1, i - 1)
  <2>1. part \in Seq(Packages) /\ Len(part) = i - 1 /\ \A j \in 1..i - 1 : part[j] = v[j]
    BY <1>0
  <2> HIDE DEF part
  <2>2. \E a \in Seq(Packages) :
           a = part /\ Len(a) = i - 1 /\ \A j \in 1..i - 1 : a[j] = v[j]
    BY <2>1
  <2> QED
    BY <2>2 DEF part
<1>2. PICK b \in Seq(Packages) :
         /\ b = SubSeq(v, i, Len(v)) /\ Len(b) = Len(v) + 1 - i
         /\ \A j \in 1..Len(v) + 1 - i : b[j] = v[j + i - 1]
  <2> DEFINE part == SubSeq(v, i, Len(v))
  <2>1. /\ part \in Seq(Packages) /\ Len(part) = Len(v) + 1 - i
        /\ \A j \in 1..Len(v) + 1 - i : part[j] = v[j + i - 1]
    BY <1>0
  <2> HIDE DEF part
  <2>2. \E b \in Seq(Packages) :
           /\ b = part /\ Len(b) = Len(v) + 1 - i
           /\ \A j \in 1..Len(v) + 1 - i : b[j] = v[j + i - 1]
    BY <2>1
  <2> QED
    BY <2>2 DEF part
<1>3. PICK h \in Seq(Packages) :
         /\ h = a \o <<p>> /\ Len(h) = i /\ h[i] = p
         /\ \A j \in 1..i - 1 : h[j] = a[j]
  <2>1. PICK h \in Seq(Packages) :
           /\ h = a \o <<p>> /\ Len(h) = Len(a) + 1 /\ h[Len(a) + 1] = p
           /\ \A j \in 1..Len(a) : h[j] = a[j]
    BY AppendedIs
  <2>2. Len(a) = i - 1 /\ Len(a) + 1 = i
    BY <1>0, <1>1
  <2> QED
    BY <2>1, <2>2
<1> DEFINE w == InsertAt(v, i, p)
<1>4. w = h \o b
  BY <1>1, <1>2, <1>3 DEF InsertAt
<1> HIDE DEF w
<1>5. w \in Seq(Packages) /\ Len(w) = Len(v) + 1 /\ \A j \in 1..i : w[j] = h[j]
  <2>1. /\ w \in Seq(Packages) /\ Len(w) = Len(h) + Len(b)
        /\ \A j \in 1..Len(h) : w[j] = h[j]
    BY <1>4, Joined
  <2>2. Len(h) = i /\ Len(b) = Len(v) + 1 - i
    BY <1>2, <1>3, Zenon
  <2>3. i + (Len(v) + 1 - i) = Len(v) + 1
    BY <1>0
  <2> QED
    BY <2>1, <2>2, <2>3, Zenon
<1>6. \A j \in 1..Len(b) : w[i + j] = b[j]
  BY <1>3, <1>4, Joined
<1>7. w[i] = p /\ \A j \in 1..i - 1 : w[j] = v[j]
  BY <1>0, <1>1, <1>3, <1>5
<1>8. ASSUME NEW j \in i + 1..Len(v) + 1 PROVE w[j] = v[j - 1]
  <2>1. j - i \in 1..Len(v) + 1 - i /\ i + (j - i) = j /\ (j - i) + i - 1 = j - 1
    BY <1>0
  <2>2. w[i + (j - i)] = b[j - i]
    BY <1>2, <1>6, <2>1
  <2>3. b[j - i] = v[(j - i) + i - 1]
    BY <1>2, <2>1
  <2> QED
    BY <2>1, <2>2, <2>3
<1> QED
  BY <1>5, <1>7, <1>8 DEF w

\* Removal moves what follows down by one.
LEMMA RemoveAtIs ==
  ASSUME NEW v \in Seq(Packages), NEW i \in DOMAIN v
  PROVE  LET w == RemoveAt(v, i) IN
         /\ w \in Seq(Packages) /\ Len(w) = Len(v) - 1
         /\ \A j \in 1..i - 1 : w[j] = v[j]
         /\ \A j \in i..Len(v) - 1 : w[j] = v[j + 1]
<1>0. Len(v) \in Nat /\ i \in Nat /\ i \in 1..Len(v)
  OBVIOUS
<1>1. PICK a \in Seq(Packages) :
         a = SubSeq(v, 1, i - 1) /\ Len(a) = i - 1 /\ \A j \in 1..i - 1 : a[j] = v[j]
  <2> DEFINE part == SubSeq(v, 1, i - 1)
  <2>1. part \in Seq(Packages) /\ Len(part) = i - 1 /\ \A j \in 1..i - 1 : part[j] = v[j]
    BY <1>0
  <2> HIDE DEF part
  <2>2. \E a \in Seq(Packages) :
           a = part /\ Len(a) = i - 1 /\ \A j \in 1..i - 1 : a[j] = v[j]
    BY <2>1
  <2> QED
    BY <2>2 DEF part
<1>2. PICK b \in Seq(Packages) :
         /\ b = SubSeq(v, i + 1, Len(v)) /\ Len(b) = Len(v) - i
         /\ \A j \in 1..Len(v) - i : b[j] = v[j + i]
  <2> DEFINE part == SubSeq(v, i + 1, Len(v))
  <2>1. /\ part \in Seq(Packages) /\ Len(part) = Len(v) - i
        /\ \A j \in 1..Len(v) - i : part[j] = v[j + i]
    BY <1>0
  <2> HIDE DEF part
  <2>2. \E b \in Seq(Packages) :
           b = part /\ Len(b) = Len(v) - i /\ \A j \in 1..Len(v) - i : b[j] = v[j + i]
    BY <2>1
  <2> QED
    BY <2>2 DEF part
<1> DEFINE w == RemoveAt(v, i)
<1>3. w = a \o b
  BY <1>1, <1>2 DEF RemoveAt
<1> HIDE DEF w
<1>4. w \in Seq(Packages) /\ Len(w) = Len(v) - 1 /\ \A j \in 1..i - 1 : w[j] = v[j]
  <2>1. /\ w \in Seq(Packages) /\ Len(w) = Len(a) + Len(b)
        /\ \A j \in 1..Len(a) : w[j] = a[j]
    BY <1>3, Joined
  <2>2. /\ Len(a) = i - 1 /\ Len(b) = Len(v) - i
        /\ \A j \in 1..i - 1 : a[j] = v[j]
    BY <1>1, <1>2, Zenon
  <2>3. (i - 1) + (Len(v) - i) = Len(v) - 1
    BY <1>0
  <2> QED
    BY <2>1, <2>2, <2>3
<1>5. \A j \in 1..Len(b) : w[(i - 1) + j] = b[j]
  BY <1>1, <1>3, Joined
<1>6. ASSUME NEW j \in i..Len(v) - 1 PROVE w[j] = v[j + 1]
  <2> DEFINE k == j - (i - 1)
  <2>1. k \in 1..Len(v) - i /\ (i - 1) + k = j /\ k + i = j + 1
    BY <1>0
  <2> HIDE DEF k
  <2>2. w[(i - 1) + k] = b[k] /\ b[k] = v[k + i]
    BY <1>2, <1>5, <2>1
  <2> QED
    BY <2>1, <2>2
<1> QED
  BY <1>4, <1>6 DEF w

\* Installing a package where the search ends keeps the vector sorted.
LEMMA InsertKeeps ==
  ASSUME NEW v \in Seq(Packages), StrictlySorted(v), NEW p \in Packages,
         ~PresentAt(v, LowerBound(v, p.name), p.name)
  PROVE  LET w == InsertAt(v, LowerBound(v, p.name), p) IN
         /\ w \in Seq(Packages) /\ StrictlySorted(w)
         /\ Range(w) = Range(v) \cup {p}
<1> DEFINE i == LowerBound(v, p.name)
<1>0. p.name \in Names
  BY PackagesAssumption DEF PackageRecord
<1>1. /\ Len(v) \in Nat /\ DOMAIN v = 1..Len(v) /\ i \in 1..Len(v) + 1
      /\ \A j \in 1..i - 1 : Precedes(v[j].name, p.name)
      /\ \A j \in i..Len(v) : Precedes(p.name, v[j].name)
  BY <1>0, LowerBoundIs
<1> HIDE DEF i
<1>a. \A k \in 1..Len(v) + 1 : LET w == InsertAt(v, k, p) IN
        /\ w \in Seq(Packages) /\ Len(w) = Len(v) + 1 /\ w[k] = p
        /\ \A j \in 1..k - 1 : w[j] = v[j]
        /\ \A j \in k + 1..Len(v) + 1 : w[j] = v[j - 1]
  BY InsertAtIs
<1> DEFINE w == InsertAt(v, i, p)
<1>2. /\ w \in Seq(Packages) /\ Len(w) = Len(v) + 1 /\ w[i] = p
      /\ \A j \in 1..i - 1 : w[j] = v[j]
      /\ \A j \in i + 1..Len(v) + 1 : w[j] = v[j - 1]
  BY <1>1, <1>a DEF w
<1> HIDE DEF w
<1>3. DOMAIN w = 1..Len(v) + 1
  BY <1>1, <1>2
<1>4. ASSUME NEW j \in DOMAIN w, NEW k \in DOMAIN w, j < k
      PROVE  Precedes(w[j].name, w[k].name)
  <2>1. CASE k < i
    BY <1>1, <1>2, <1>3, <1>4, <2>1 DEF StrictlySorted
  <2>2. CASE k = i
    BY <1>1, <1>2, <1>3, <1>4, <2>2
  <2>3. CASE k > i /\ j < i
    BY <1>1, <1>2, <1>3, <1>4, <2>3 DEF StrictlySorted
  <2>4. CASE k > i /\ j = i
    BY <1>1, <1>2, <1>3, <1>4, <2>4
  <2>5. CASE k > i /\ j > i
    <3>1. j - 1 \in DOMAIN v /\ k - 1 \in DOMAIN v /\ j - 1 < k - 1
      BY <1>1, <1>3, <1>4, <2>5
    <3>2. w[j] = v[j - 1] /\ w[k] = v[k - 1]
      BY <1>1, <1>2, <1>3, <2>5
    <3> QED
      BY <3>1, <3>2 DEF StrictlySorted
  <2> QED
    BY <1>1, <1>3, <2>1, <2>2, <2>3, <2>4, <2>5
<1>5. Range(w) \subseteq Range(v) \cup {p}
  <2> SUFFICES ASSUME NEW j \in DOMAIN w PROVE w[j] \in Range(v) \cup {p}
    BY DEF Range
  <2>1. CASE j < i
    BY <1>1, <1>2, <1>3, <2>1 DEF Range
  <2>2. CASE j > i
    <3>1. j - 1 \in DOMAIN v /\ w[j] = v[j - 1]
      BY <1>1, <1>2, <1>3, <2>2
    <3> QED
      BY <3>1 DEF Range
  <2> QED
    BY <1>1, <1>2, <1>3, <2>1, <2>2
<1>6. Range(v) \cup {p} \subseteq Range(w)
  <2>1. p \in Range(w)
    BY <1>1, <1>2, <1>3 DEF Range
  <2>2. ASSUME NEW j \in DOMAIN v PROVE v[j] \in Range(w)
    <3>1. CASE j < i
      BY <1>1, <1>2, <1>3, <3>1 DEF Range
    <3>2. CASE j >= i
      <4>1. j + 1 \in DOMAIN w /\ w[j + 1] = v[j]
        BY <1>1, <1>2, <1>3, <3>2
      <4> QED
        BY <4>1 DEF Range
    <3> QED
      BY <1>1, <3>1, <3>2
  <2> QED
    BY <2>1, <2>2 DEF Range
<1> QED
  BY <1>2, <1>4, <1>5, <1>6 DEF StrictlySorted, w, i

\* So does erasing the package that it finds.
LEMMA RemoveKeepsOrder ==
  ASSUME NEW v \in Seq(Packages), StrictlySorted(v), NEW i \in DOMAIN v
  PROVE  LET w == RemoveAt(v, i) IN
         /\ w \in Seq(Packages) /\ StrictlySorted(w)
         /\ Range(w) = {q \in Range(v) : q.name # v[i].name}
<1> DEFINE w == RemoveAt(v, i)
<1>1. Len(v) \in Nat /\ DOMAIN v = 1..Len(v) /\ i \in 1..Len(v)
  OBVIOUS
<1>2. /\ w \in Seq(Packages) /\ Len(w) = Len(v) - 1
      /\ \A j \in 1..i - 1 : w[j] = v[j]
      /\ \A j \in i..Len(v) - 1 : w[j] = v[j + 1]
  BY RemoveAtIs
<1> HIDE DEF w
<1>3. DOMAIN w = 1..Len(v) - 1
  BY <1>1, <1>2
<1> DEFINE at(j) == IF j < i THEN j ELSE j + 1
<1>4. \A j \in DOMAIN w : at(j) \in DOMAIN v /\ at(j) # i /\ w[j] = v[at(j)]
  BY <1>1, <1>2, <1>3
<1>5. \A j, k \in DOMAIN w : j < k => at(j) < at(k)
  BY <1>1, <1>3
<1>6. \A j \in DOMAIN v : j # i => \E k \in DOMAIN w : at(k) = j
  <2> SUFFICES ASSUME NEW j \in DOMAIN v, j # i PROVE \E k \in DOMAIN w : at(k) = j
    OBVIOUS
  <2>1. CASE j < i
    BY <1>1, <1>3, <2>1
  <2>2. CASE j > i
    <3>1. j - 1 \in DOMAIN w /\ at(j - 1) = j
      BY <1>1, <1>3, <2>2
    <3> QED
      BY <3>1
  <2> QED
    BY <1>1, <2>1, <2>2
<1> HIDE DEF at
<1>7. StrictlySorted(w)
  BY <1>4, <1>5 DEF StrictlySorted
<1>8. \A j \in DOMAIN v : v[j].name = v[i].name <=> j = i
  BY StrictlySortedIs
<1>9. Range(w) = {q \in Range(v) : q.name # v[i].name}
  <2>1. ASSUME NEW j \in DOMAIN w PROVE w[j] \in Range(v) /\ w[j].name # v[i].name
    BY <1>4, <1>8 DEF Range
  <2>2. ASSUME NEW j \in DOMAIN v, v[j].name # v[i].name PROVE v[j] \in Range(w)
    BY <1>4, <1>6, <2>2 DEF Range
  <2> QED
    BY <2>1, <2>2 DEF Range
<1> QED
  BY <1>2, <1>7, <1>9 DEF w

\* And so does overwriting it by a package of the same name.
LEMMA ReplaceKeeps ==
  ASSUME NEW v \in Seq(Packages), StrictlySorted(v), NEW i \in DOMAIN v,
         NEW p \in Packages, p.name = v[i].name
  PROVE  LET w == [v EXCEPT ![i] = p] IN
         /\ w \in Seq(Packages) /\ StrictlySorted(w)
         /\ Range(w) = {q \in Range(v) : q.name # p.name} \cup {p}
<1> DEFINE w == [v EXCEPT ![i] = p]
<1>1. /\ w \in Seq(Packages) /\ DOMAIN w = DOMAIN v /\ w[i] = p
      /\ \A j \in DOMAIN v : j # i => w[j] = v[j]
  OBVIOUS
<1> HIDE DEF w
<1>2. StrictlySorted(w)
  <2>1. \A j \in DOMAIN v : w[j].name = v[j].name
    BY <1>1
  <2> QED
    BY <1>1, <2>1 DEF StrictlySorted
<1>3. \A j \in DOMAIN v : v[j].name = v[i].name <=> j = i
  BY StrictlySortedIs
<1>4. Range(w) = {q \in Range(v) : q.name # p.name} \cup {p}
  <2>1. ASSUME NEW j \in DOMAIN w
        PROVE  w[j] = p \/ (w[j] \in Range(v) /\ w[j].name # p.name)
    BY <1>1, <1>3 DEF Range
  <2>2. p \in Range(w)
    BY <1>1 DEF Range
  <2>3. ASSUME NEW j \in DOMAIN v, v[j].name # p.name PROVE v[j] \in Range(w)
    BY <1>1, <2>3 DEF Range
  <2> QED
    BY <2>1, <2>2, <2>3 DEF Range
<1> QED
  BY <1>1, <1>2, <1>4 DEF w

-----------------------------------------------------------------------------
(* The arguments and the deltas still to apply *)

\* What a projection is called with.
LEMMA ArgumentsAre ==
  ASSUME NEW k \in Calls, k.request # None
  PROVE  /\ k.request \in Requests /\ k.request.deltas \subseteq Deltas
         /\ IsFiniteSet(k.request.deltas) /\ k.input \in Seq(Packages)
         /\ SnapshotMake(k.target, Range(k.input)) \in Snapshots
         /\ StrictlySorted(k.input)
<1>1. /\ k.target \in Targets /\ k.input \in Seq(Packages)
      /\ k.request \in Requests /\ IsFiniteSet(k.request.deltas)
      /\ Sorted(k.input) /\ IsInjective(k.input)
      /\ SnapshotAdmitted(k.target, Range(k.input))
  BY CallsAssumption
<1>2. Range(k.input) \subseteq Packages
  BY <1>1 DEF Range
<1>3. SnapshotMake(k.target, Range(k.input)) \in Snapshots
  BY <1>1, <1>2 DEF SnapshotMake, Snapshots, SnapshotRecord
<1>4. \A i, j \in DOMAIN k.input : k.input[i].name = k.input[j].name => i = j
  BY <1>1 DEF SnapshotAdmitted, Range, IsInjective
<1>5. StrictlySorted(k.input)
  BY <1>1, <1>4, StrictlySortedIs
<1>6. k.request.deltas \subseteq Deltas
  BY <1>1 DEF Requests
<1> QED
  BY <1>1, <1>3, <1>5, <1>6

\* The deltas in the order of their names, each of them once.
LEMMA InNameOrderIs ==
  ASSUME NEW deltas \in SUBSET Deltas, IsFiniteSet(deltas), NEW q \in InNameOrder(deltas)
  PROVE  q \in Seq(deltas) /\ IsInjective(q) /\ Range(q) = deltas
<1>1. Cardinality(deltas) \in Nat
  BY FS_CardinalityType
<1>2. q \in [1..Cardinality(deltas) -> deltas] /\ Range(q) = deltas
  BY DEF InNameOrder
<1>3. q \in Seq(deltas)
  BY <1>1, <1>2
<1>4. ASSUME NEW i \in DOMAIN q, NEW j \in DOMAIN q, i < j PROVE q[i] # q[j]
  <2>1. Precedes(q[i].name, q[j].name)
    BY <1>4 DEF InNameOrder
  <2>2. q[i].name \in Names
    BY <1>2, DeltaProposes DEF DeltaRecord
  <2> QED
    BY <2>1, <2>2, NamesOrdered
<1>5. \A i, j \in DOMAIN q : i < j \/ j < i \/ i = j
  BY <1>1, <1>2
<1> QED
  BY <1>2, <1>3, <1>4, <1>5 DEF IsInjective

\* Applying the first pending delta leaves the others.
LEMMA PendingStep ==
  ASSUME NEW q \in Seq(Deltas), q # <<>>, IsInjective(q)
  PROVE  /\ Head(q) \in Range(q) /\ Tail(q) \in Seq(Deltas) /\ IsInjective(Tail(q))
         /\ Range(Tail(q)) = Range(q) \ {Head(q)}
<1>1. Len(q) \in Nat /\ Len(q) > 0 /\ DOMAIN q = 1..Len(q) /\ Head(q) = q[1]
  OBVIOUS
<1> DEFINE t == Tail(q)
<1>2. /\ t \in Seq(Deltas) /\ DOMAIN t = 1..Len(q) - 1
      /\ \A j \in 1..Len(q) - 1 : t[j] = q[j + 1]
  BY <1>1
<1> HIDE DEF t
<1>3. \A j \in DOMAIN t : j + 1 \in DOMAIN q /\ j + 1 # 1 /\ t[j] = q[j + 1]
  BY <1>1, <1>2
<1>4. \A j \in DOMAIN q : j # 1 => j - 1 \in DOMAIN t /\ t[j - 1] = q[j]
  <2> SUFFICES ASSUME NEW j \in DOMAIN q, j # 1
               PROVE  j - 1 \in DOMAIN t /\ t[j - 1] = q[j]
    OBVIOUS
  <2>1. j - 1 \in 1..Len(q) - 1 /\ (j - 1) + 1 = j
    BY <1>1
  <2> QED
    BY <1>2, <2>1
<1>5. IsInjective(t)
  <2> SUFFICES ASSUME NEW j \in DOMAIN t, NEW k \in DOMAIN t, t[j] = t[k]
               PROVE  j = k
    BY DEF IsInjective
  <2>1. j + 1 = k + 1
    BY <1>3 DEF IsInjective
  <2> QED
    BY <1>2, <2>1
<1>6. 1 \in DOMAIN q
  BY <1>1
<1>7. Range(t) = Range(q) \ {Head(q)}
  <2>1. ASSUME NEW j \in DOMAIN t PROVE t[j] \in Range(q) /\ t[j] # Head(q)
    BY <1>1, <1>3, <1>6 DEF IsInjective, Range
  <2>2. ASSUME NEW j \in DOMAIN q, q[j] # Head(q) PROVE q[j] \in Range(t)
    BY <1>1, <1>4, <2>2 DEF Range
  <2> QED
    BY <2>1, <2>2 DEF Range
<1> QED
  BY <1>1, <1>2, <1>5, <1>6, <1>7 DEF Range, t

\* One delta more: the package of its name, which no earlier delta touched, makes
\* way for the proposed one.
LEMMA OneMore ==
  ASSUME NEW r \in Requests, NEW s \in Snapshots, NEW done \in SUBSET r.deltas,
         NEW d \in r.deltas, d \notin done
  PROVE  LET edited == EditedBy(done, s) IN
         /\ edited \subseteq Packages
         /\ \A p : p \in edited /\ p.name = d.name <=> p \in FindPackage(s, d.name)
         /\ EditedBy(done \cup {d}, s) =
              {p \in edited : p.name # d.name} \cup ({d.proposed} \ {None})
<1>1. /\ r.deltas \subseteq Deltas /\ s.packages \subseteq Packages
      /\ \A e \in done : e.name # d.name
  BY DEF Requests, NameUnique, Snapshots, SnapshotRecord
<1>2. \A e \in r.deltas : e.proposed # None => e.proposed \in Packages /\ e.proposed.name = e.name
  BY <1>1, DeltaProposes
<1>3. EditedBy(done, s) \subseteq Packages
  BY <1>1, <1>2 DEF EditedBy
<1>4. \A p : p \in EditedBy(done, s) /\ p.name = d.name <=> p \in FindPackage(s, d.name)
  BY <1>1, <1>2 DEF EditedBy, FindPackage
<1>5. EditedBy(done \cup {d}, s) =
        {p \in EditedBy(done, s) : p.name # d.name} \cup ({d.proposed} \ {None})
  BY <1>1, <1>2 DEF EditedBy
<1> QED
  BY <1>3, <1>4, <1>5

-----------------------------------------------------------------------------
(* The projection keeps the invariant *)

\* The invariant holds of every call at first.
LEMMA InitKeeps ==
  ASSUME Init
  PROVE  IInv
<1>1. /\ call \in Calls /\ packages = call.input /\ index = 0
      /\ call.input \in Seq(Packages)
  BY CallsAssumption DEF Init
<1>2. StateInv
  BY <1>1 DEF Init, StateInv
<1>3. IndexInv
  BY <1>1 DEF Init, IndexInv
<1>4. CASE call.request = None
  <2>1. phase = "sort"
    BY <1>4 DEF Init
  <2> QED
    BY <1>1, <1>2, <1>3, <1>4, <2>1 DEF IInv, CheckInv, ApplyInv, MakeInv
<1>5. CASE call.request # None
  <2>1. phase = "check" /\ pending \in InNameOrder(call.request.deltas)
    BY <1>5 DEF Init
  <2> QED
    BY <1>1, <1>2, <1>3, <1>5, <2>1 DEF IInv, CheckInv, ApplyInv, MakeInv
<1> QED
  BY <1>4, <1>5

\* The checks keep the invariant.
LEMMA CheckKeeps ==
  ASSUME IInv, Check
  PROVE  IInv'
<1>1. /\ StateInv /\ IndexInv /\ phase = "check" /\ call.request # None
      /\ packages = call.input /\ pending \in InNameOrder(call.request.deltas)
      /\ UNCHANGED <<call, packages, pending, index, owners>>
  BY DEF IInv, CheckInv, Check, Throw
<1>2. StateInv' /\ IndexInv'
  BY <1>1 DEF StateInv, IndexInv, Check, Throw
<1>3. CASE phase' = "thrown"
  <2>1. ~(Prior.target = call.request.target /\ SnapshotIdentity(Prior) = call.request.expected)
    BY <1>3 DEF Check
  <2>2. ~Admitted'
    BY <1>1, <2>1 DEF Admitted, ProjectAdmitted, Prior
  <2> QED
    BY <1>2, <1>3, <2>2 DEF IInv, CheckInv, ApplyInv, MakeInv
<1>4. CASE phase' # "thrown"
  <2>1. phase' = "apply" /\ Mine
    BY <1>1, <1>4 DEF Check, Throw, Mine
  <2>2. /\ call.request.deltas \subseteq Deltas /\ IsFiniteSet(call.request.deltas)
        /\ StrictlySorted(packages)
    BY <1>1, ArgumentsAre DEF StateInv
  <2>3. /\ pending \in Seq(call.request.deltas) /\ IsInjective(pending)
        /\ Range(pending) = call.request.deltas
    BY <1>1, <2>2, InNameOrderIs
  <2>4. DoneDeltas = {}
    BY <2>3 DEF DoneDeltas
  <2>5. Range(packages) = EditedBy({}, Prior)
    BY <1>1 DEF EditedBy, Prior, SnapshotMake
  <2>6. ApplyInv'
    BY <1>1, <2>1, <2>2, <2>3, <2>4, <2>5
    DEF ApplyInv, Mine, DoneDeltas, Prior
  <2> QED
    BY <1>2, <2>1, <2>6 DEF IInv, CheckInv, MakeInv
<1> QED
  BY <1>3, <1>4

\* What the search finds for the first pending delta is the package the prior
\* snapshot holds under its name.
LEMMA ApplyFinds ==
  ASSUME IInv, phase = "apply", pending # <<>>
  PROVE  LET d == Head(pending)
             i == LowerBound(packages, d.name)
         IN  /\ d \in Deltas /\ d \in call.request.deltas /\ d \notin DoneDeltas
             /\ packages \in Seq(Packages) /\ StrictlySorted(packages)
             /\ {p \in Range(packages) : p.name = d.name} = FindPackage(Prior, d.name)
             /\ PresentAt(packages, i, d.name) <=> FindPackage(Prior, d.name) # {}
             /\ PresentAt(packages, i, d.name) =>
                  /\ i \in DOMAIN packages /\ packages[i].name = d.name
                  /\ FindPackage(Prior, d.name) = {packages[i]}
<1> DEFINE d == Head(pending)
           i == LowerBound(packages, d.name)
<1>1. /\ packages \in Seq(Packages) /\ StrictlySorted(packages) /\ call \in Calls
      /\ call.request # None /\ pending \in Seq(call.request.deltas) /\ IsInjective(pending)
      /\ Range(packages) = EditedBy(DoneDeltas, Prior)
  BY DEF IInv, StateInv, ApplyInv, Mine
<1>2. /\ call.request \in Requests /\ call.request.deltas \subseteq Deltas /\ Prior \in Snapshots
  BY <1>1, ArgumentsAre DEF Prior
<1>3. d \in Range(pending) /\ d \in call.request.deltas
  BY <1>1 DEF Range
<1>4. DoneDeltas \subseteq call.request.deltas /\ d \notin DoneDeltas /\ d \in Deltas
  BY <1>2, <1>3 DEF DoneDeltas
<1> HIDE DEF d
<1>5. {p \in Range(packages) : p.name = d.name} = FindPackage(Prior, d.name)
  <2>1. \A p : p \in EditedBy(DoneDeltas, Prior) /\ p.name = d.name <=>
                 p \in FindPackage(Prior, d.name)
    BY <1>2, <1>3, <1>4, OneMore
  <2> QED
    BY <1>1, <2>1
<1>6. d.name \in Names
  BY <1>4, DeltaProposes DEF DeltaRecord
<1>7. /\ PresentAt(packages, i, d.name) <=> \E j \in DOMAIN packages : packages[j].name = d.name
      /\ PresentAt(packages, i, d.name) => i \in DOMAIN packages
      /\ \A j \in DOMAIN packages : packages[j].name = d.name => j = i
  BY <1>1, <1>6, LowerBoundIs
<1> HIDE DEF i
<1>8. PresentAt(packages, i, d.name) <=> FindPackage(Prior, d.name) # {}
  BY <1>5, <1>7 DEF Range
<1>9. PresentAt(packages, i, d.name) =>
        /\ i \in DOMAIN packages /\ packages[i].name = d.name
        /\ FindPackage(Prior, d.name) = {packages[i]}
  <2> SUFFICES ASSUME PresentAt(packages, i, d.name)
               PROVE  /\ i \in DOMAIN packages /\ packages[i].name = d.name
                      /\ FindPackage(Prior, d.name) = {packages[i]}
    OBVIOUS
  <2>1. i \in DOMAIN packages /\ packages[i].name = d.name
    BY <1>7 DEF PresentAt
  <2>2. {p \in Range(packages) : p.name = d.name} = {packages[i]}
    BY <1>7, <2>1 DEF Range
  <2> QED
    BY <1>5, <2>1, <2>2
<1> QED
  BY <1>1, <1>3, <1>4, <1>5, <1>8, <1>9 DEF d, i

\* An edit that puts the proposed package in the place of the one named.
LEMMA EditKeeps ==
  ASSUME IInv, phase = "apply", pending # <<>>, NEW d, d = Head(pending),
         PriorMatches(Prior, d), NEW w \in Seq(Packages), StrictlySorted(w),
         Range(w) = {p \in Range(packages) : p.name # d.name} \cup ({d.proposed} \ {None}),
         Applied(w)
  PROVE  IInv'
<1>1. /\ StateInv /\ ApplyInv /\ IndexInv /\ call \in Calls /\ call.request # None
      /\ packages' = w /\ pending' = Tail(pending)
      /\ UNCHANGED <<call, phase, index, owners>>
  BY DEF IInv, StateInv, ApplyInv, Mine, Applied
<1>2. /\ call.request \in Requests /\ call.request.deltas \subseteq Deltas /\ Prior \in Snapshots
  BY <1>1, ArgumentsAre DEF Prior
<1>3. pending \in Seq(call.request.deltas) /\ IsInjective(pending)
  BY <1>1 DEF ApplyInv
<1>4. /\ d \in Range(pending) /\ IsInjective(Tail(pending))
      /\ Range(Tail(pending)) = Range(pending) \ {d}
  <2>1. pending \in Seq(Deltas)
    BY <1>2, <1>3
  <2> QED
    BY <1>3, <2>1, PendingStep
<1>5. Range(pending) \subseteq call.request.deltas /\ Tail(pending) \in Seq(call.request.deltas)
  BY <1>3 DEF Range
<1>6. /\ d \in call.request.deltas /\ d \notin DoneDeltas
      /\ DoneDeltas' = DoneDeltas \cup {d} /\ DoneDeltas \subseteq call.request.deltas
  BY <1>1, <1>4, <1>5 DEF DoneDeltas
<1>7. Range(w) = EditedBy(DoneDeltas \cup {d}, Prior)
  <2>1. Range(packages) = EditedBy(DoneDeltas, Prior)
    BY <1>1 DEF ApplyInv
  <2> QED
    BY <1>2, <1>6, <2>1, OneMore
<1>8. Prior' = Prior /\ Mine' = Mine /\ index = 0
  BY <1>1 DEF Prior, Mine, IndexInv
<1>9. StateInv' /\ IndexInv'
  BY <1>1, <1>8 DEF StateInv, IndexInv
<1>10. ApplyInv'
  BY <1>1, <1>4, <1>5, <1>6, <1>7, <1>8 DEF ApplyInv
<1> QED
  BY <1>1, <1>9, <1>10 DEF IInv, CheckInv, MakeInv

\* A delta the prior snapshot does not match.
LEMMA RefusalKeeps ==
  ASSUME IInv, phase = "apply", NEW d \in call.request.deltas, ~PriorMatches(Prior, d), Throw
  PROVE  IInv'
<1>1. /\ StateInv /\ IndexInv /\ call.request # None
      /\ phase' = "thrown" /\ UNCHANGED <<call, packages, pending, index, owners>>
  BY DEF IInv, ApplyInv, Mine, Throw
<1>2. ~Admitted'
  BY <1>1 DEF Admitted, ProjectAdmitted, Prior
<1>3. StateInv' /\ IndexInv'
  BY <1>1 DEF StateInv, IndexInv
<1> QED
  BY <1>1, <1>2, <1>3 DEF IInv, CheckInv, ApplyInv, MakeInv

\* Applying an installation keeps the invariant.
LEMMA ApplyInstallKeeps ==
  ASSUME IInv, ApplyInstall
  PROVE  IInv'
<1> DEFINE d == Head(pending)
           i == LowerBound(packages, d.name)
<1>1. phase = "apply" /\ pending # <<>> /\ d.kind = "install"
  BY DEF ApplyInstall
<1>2. /\ d \in Deltas /\ d \in call.request.deltas
      /\ packages \in Seq(Packages) /\ StrictlySorted(packages)
      /\ {p \in Range(packages) : p.name = d.name} = FindPackage(Prior, d.name)
      /\ PresentAt(packages, i, d.name) <=> FindPackage(Prior, d.name) # {}
  BY <1>1, ApplyFinds
<1>3. CASE PresentAt(packages, i, d.name)
  <2>1. Throw
    BY <1>3 DEF ApplyInstall
  <2>2. ~PriorMatches(Prior, d)
    BY <1>1, <1>2, <1>3 DEF PriorMatches
  <2> QED
    BY <1>1, <1>2, <2>1, <2>2, RefusalKeeps
<1>4. CASE ~PresentAt(packages, i, d.name)
  <2> DEFINE w == InsertAt(packages, i, d.proposed)
  <2>1. Applied(w)
    BY <1>4 DEF ApplyInstall
  <2>2. d.proposed # None /\ d.proposed \in Packages /\ d.proposed.name = d.name
    BY <1>1, <1>2, DeltaProposes DEF Deltas, InstallAdmitted, ReplaceAdmitted, RemoveAdmitted
  <2> HIDE DEF d
  <2>3. /\ w \in Seq(Packages) /\ StrictlySorted(w)
        /\ Range(w) = Range(packages) \cup {d.proposed}
    BY <1>2, <1>4, <2>2, InsertKeeps
  <2> HIDE DEF i, w
  <2>4. PriorMatches(Prior, d) /\ \A p \in Range(packages) : p.name # d.name
    BY <1>1, <1>2, <1>4 DEF PriorMatches
  <2>5. Range(w) = {p \in Range(packages) : p.name # d.name} \cup ({d.proposed} \ {None})
    BY <2>2, <2>3, <2>4
  <2>6. d = Head(pending)
    BY DEF d
  <2> QED
    BY <1>1, <2>1, <2>3, <2>4, <2>5, <2>6, EditKeeps
<1> QED
  BY <1>3, <1>4

\* Replace and remove go ahead exactly where the prior snapshot matches.
LEMMA ExpectedIs ==
  ASSUME IInv, phase = "apply", pending # <<>>, Head(pending).kind # "install"
  PROVE  LET d == Head(pending)
             i == LowerBound(packages, d.name)
         IN  ExpectedAt(i, d) <=> PriorMatches(Prior, d)
<1> DEFINE d == Head(pending)
           i == LowerBound(packages, d.name)
<1>1. /\ PresentAt(packages, i, d.name) <=> FindPackage(Prior, d.name) # {}
      /\ PresentAt(packages, i, d.name) => FindPackage(Prior, d.name) = {packages[i]}
  BY ApplyFinds
<1> HIDE DEF i
<1> QED
  BY <1>1 DEF ExpectedAt, PriorMatches, i

\* Applying a replacement keeps the invariant.
LEMMA ApplyReplaceKeeps ==
  ASSUME IInv, ApplyReplace
  PROVE  IInv'
<1> DEFINE d == Head(pending)
           i == LowerBound(packages, d.name)
<1>1. phase = "apply" /\ pending # <<>> /\ d.kind = "replace"
  BY DEF ApplyReplace
<1>2. /\ d \in Deltas /\ d \in call.request.deltas
      /\ packages \in Seq(Packages) /\ StrictlySorted(packages)
      /\ PresentAt(packages, i, d.name) => i \in DOMAIN packages /\ packages[i].name = d.name
  BY <1>1, ApplyFinds
<1>3. ExpectedAt(i, d) <=> PriorMatches(Prior, d)
  BY <1>1, ExpectedIs
<1>4. CASE ~ExpectedAt(i, d)
  <2>1. Throw
    BY <1>4 DEF ApplyReplace
  <2> QED
    BY <1>1, <1>2, <1>3, <1>4, <2>1, RefusalKeeps
<1>5. CASE ExpectedAt(i, d)
  <2> DEFINE w == [packages EXCEPT ![i] = d.proposed]
  <2>1. Applied(w)
    BY <1>5 DEF ApplyReplace
  <2>2. d.proposed # None /\ d.proposed \in Packages /\ d.proposed.name = d.name
    BY <1>1, <1>2, DeltaProposes DEF Deltas, InstallAdmitted, ReplaceAdmitted, RemoveAdmitted
  <2>3. i \in DOMAIN packages /\ packages[i].name = d.name
    BY <1>2, <1>5 DEF ExpectedAt
  <2> HIDE DEF d, i
  <2>4. /\ w \in Seq(Packages) /\ StrictlySorted(w)
        /\ Range(w) = {p \in Range(packages) : p.name # d.proposed.name} \cup {d.proposed}
    BY <1>2, <2>2, <2>3, ReplaceKeeps
  <2> HIDE DEF w
  <2>5. Range(w) = {p \in Range(packages) : p.name # d.name} \cup ({d.proposed} \ {None})
    BY <2>2, <2>4
  <2>6. d = Head(pending)
    BY DEF d
  <2> QED
    BY <1>1, <1>3, <1>5, <2>1, <2>4, <2>5, <2>6, EditKeeps
<1> QED
  BY <1>4, <1>5

\* Applying a removal keeps the invariant.
LEMMA ApplyRemoveKeeps ==
  ASSUME IInv, ApplyRemove
  PROVE  IInv'
<1> DEFINE d == Head(pending)
           i == LowerBound(packages, d.name)
<1>1. phase = "apply" /\ pending # <<>> /\ d.kind = "remove"
  BY DEF ApplyRemove
<1>2. /\ d \in Deltas /\ d \in call.request.deltas
      /\ packages \in Seq(Packages) /\ StrictlySorted(packages)
      /\ PresentAt(packages, i, d.name) => i \in DOMAIN packages /\ packages[i].name = d.name
  BY <1>1, ApplyFinds
<1>3. ExpectedAt(i, d) <=> PriorMatches(Prior, d)
  BY <1>1, ExpectedIs
<1>4. CASE ~ExpectedAt(i, d)
  <2>1. Throw
    BY <1>4 DEF ApplyRemove
  <2> QED
    BY <1>1, <1>2, <1>3, <1>4, <2>1, RefusalKeeps
<1>5. CASE ExpectedAt(i, d)
  <2> DEFINE w == RemoveAt(packages, i)
  <2>1. Applied(w)
    BY <1>5 DEF ApplyRemove
  <2>2. d.proposed = None
    BY <1>1, <1>2 DEF Deltas, InstallAdmitted, ReplaceAdmitted, RemoveAdmitted
  <2>3. i \in DOMAIN packages /\ packages[i].name = d.name
    BY <1>2, <1>5 DEF ExpectedAt
  <2> HIDE DEF d, i
  <2>4. /\ w \in Seq(Packages) /\ StrictlySorted(w)
        /\ Range(w) = {p \in Range(packages) : p.name # d.name}
    BY <1>2, <2>3, RemoveKeepsOrder
  <2> HIDE DEF w
  <2>5. Range(w) = {p \in Range(packages) : p.name # d.name} \cup ({d.proposed} \ {None})
    BY <2>2, <2>4
  <2>6. d = Head(pending)
    BY DEF d
  <2> QED
    BY <1>1, <1>3, <1>5, <2>1, <2>4, <2>5, <2>6, EditKeeps
<1> QED
  BY <1>4, <1>5

\* Going on to the sort keeps the invariant.
LEMMA AllAppliedKeeps ==
  ASSUME IInv, AllApplied
  PROVE  IInv'
<1>1. /\ StateInv /\ ApplyInv /\ IndexInv /\ phase = "apply" /\ pending = <<>>
      /\ phase' = "sort" /\ UNCHANGED <<call, packages, pending, index, owners>>
  BY DEF IInv, AllApplied
<1>2. /\ Mine /\ DoneDeltas = call.request.deltas /\ packages \in Seq(Packages)
      /\ StrictlySorted(packages) /\ Range(packages) = EditedBy(DoneDeltas, Prior)
      /\ \A d \in DoneDeltas : PriorMatches(Prior, d)
  BY <1>1 DEF StateInv, ApplyInv, DoneDeltas, Range
<1>3. Range(packages) = ProjectedPackages(call.request, Prior)
  BY <1>2 DEF EditedBy, ProjectedPackages
<1>4. \A i, j \in DOMAIN packages : packages[i].name = packages[j].name => i = j
  BY <1>2, StrictlySortedIs
<1>5. /\ IsInjective(packages)
      /\ \A p, q \in Range(packages) : p.name = q.name => p = q
  BY <1>4 DEF IsInjective, Range
<1>6. MakeInv'
  BY <1>1, <1>2, <1>3, <1>5 DEF MakeInv, Mine, Prior
<1>7. StateInv' /\ IndexInv'
  BY <1>1 DEF StateInv, IndexInv
<1> QED
  BY <1>1, <1>6, <1>7 DEF IInv, CheckInv, ApplyInv

-----------------------------------------------------------------------------
(* snapshot::make keeps the invariant *)

\* An injection of an interval into itself leaves nothing out.
LEMMA InjectionsCover ==
  ASSUME NEW n \in Nat, NEW f \in [1..n -> 1..n], IsInjective(f)
  PROVE  \A i \in 1..n : \E j \in 1..n : f[j] = i
<1>1. IsFiniteSet(1..n)
  BY FS_Interval
<1>2. f \in Injection(1..n, 1..n)
  BY DEF Injection, IsInjective
<1>3. f \in Surjection(1..n, 1..n)
  BY <1>1, <1>2, FS_Injection
<1> QED
  BY <1>3 DEF Surjection

\* A rearranged vector holds the same packages, as often as before.
LEMMA RearrangementIs ==
  ASSUME NEW v \in Seq(Packages), NEW w \in Rearrangements(v)
  PROVE  /\ w \in Seq(Packages) /\ Len(w) = Len(v) /\ Range(w) = Range(v)
         /\ IsInjective(w) <=> IsInjective(v)
<1>1. PICK f \in [DOMAIN v -> DOMAIN v] :
         IsInjective(f) /\ w = [i \in DOMAIN v |-> v[f[i]]]
  BY DEF Rearrangements
<1>2. Len(v) \in Nat /\ DOMAIN v = 1..Len(v)
  OBVIOUS
<1>3. w \in Seq(Packages) /\ Len(w) = Len(v) /\ DOMAIN w = DOMAIN v
  BY <1>1, <1>2
<1>4. \A i \in DOMAIN v : \E j \in DOMAIN v : f[j] = i
  <2>1. PICK n \in Nat : DOMAIN v = 1..n
    BY <1>2
  <2>2. f \in [1..n -> 1..n]
    BY <2>1
  <2>3. \A i \in 1..n : \E j \in 1..n : f[j] = i
    BY <1>1, <2>2, InjectionsCover
  <2> QED
    BY <2>1, <2>3
<1>5. \A i \in DOMAIN w : f[i] \in DOMAIN v /\ w[i] = v[f[i]]
  BY <1>1
<1>6. Range(w) = Range(v)
  BY <1>3, <1>4, <1>5 DEF Range
<1>7. IsInjective(v) => IsInjective(w)
  BY <1>1, <1>3, <1>5 DEF IsInjective
<1>8. ASSUME IsInjective(w), NEW a \in DOMAIN v, NEW b \in DOMAIN v, v[a] = v[b]
      PROVE  a = b
  <2>1. PICK i \in DOMAIN v : f[i] = a
    BY <1>4
  <2>2. PICK j \in DOMAIN v : f[j] = b
    BY <1>4
  <2>3. w[i] = w[j]
    BY <1>3, <1>5, <1>8, <2>1, <2>2
  <2> QED
    BY <1>3, <1>8, <2>1, <2>2, <2>3 DEF IsInjective
<1> QED
  BY <1>3, <1>6, <1>7, <1>8 DEF IsInjective

\* Sorting keeps the invariant.
LEMMA SortKeeps ==
  ASSUME IInv, Sort
  PROVE  IInv'
<1>1. /\ StateInv /\ MakeInv /\ IndexInv /\ phase = "sort" /\ phase' = "index"
      /\ packages' \in Rearrangements(packages) /\ Sorted(packages')
      /\ UNCHANGED <<call, pending, index, owners>>
  BY DEF IInv, Sort
<1>2. packages \in Seq(Packages) /\ index = 0 /\ owners \in [Paths -> Seq(1..index)]
  BY <1>1 DEF StateInv, IndexInv
<1>3. /\ packages' \in Seq(Packages) /\ Len(packages') = Len(packages)
      /\ Range(packages') = Range(packages)
      /\ IsInjective(packages') <=> IsInjective(packages)
  BY <1>1, <1>2, RearrangementIs
<1>4. StateInv'
  BY <1>1, <1>2, <1>3 DEF StateInv
<1>5. MakeInv'
  BY <1>1, <1>3 DEF MakeInv, Mine, Prior
<1>6. ASSUME NEW path \in Paths
      PROVE  /\ Increasing(owners[path])
             /\ Range(owners[path]) = {i \in 1..0 : path \in packages'[i].manifest}
  <2>1. owners[path] \in Seq(1..0)
    BY <1>2
  <2>2. DOMAIN owners[path] = {}
    BY <2>1
  <2> QED
    BY <2>2 DEF Increasing, Range
<1>7. IndexInv'
  BY <1>1, <1>2, <1>6 DEF IndexInv
<1> QED
  BY <1>1, <1>4, <1>5, <1>7 DEF IInv, CheckInv, ApplyInv

\* Once every package has been looked at, no name is held twice.
LEMMA IndexedIs ==
  ASSUME IInv, phase \in {"index", "made"}, index = Len(packages)
  PROVE  /\ packages \in Seq(Packages) /\ StrictlySorted(packages)
         /\ \A i, j \in DOMAIN packages : packages[i].name = packages[j].name => i = j
         /\ \A i \in DOMAIN packages : packages[i].target = call.target
<1>1. /\ packages \in Seq(Packages) /\ Sorted(packages)
      /\ \A i \in 1..Len(packages) : Indexable(i)
  BY DEF IInv, StateInv, IndexInv
<1>2. /\ Len(packages) \in Nat /\ DOMAIN packages = 1..Len(packages)
      /\ \A i \in DOMAIN packages : packages[i].name \in Names
  BY <1>1, PackagesAssumption DEF PackageRecord
<1>3. ASSUME NEW i \in DOMAIN packages, NEW j \in DOMAIN packages, i < j
      PROVE  Precedes(packages[i].name, packages[j].name)
  <2>1. i + 1 \in DOMAIN packages /\ i + 1 > 1 /\ (i + 1) - 1 = i /\ i < i + 1
    BY <1>2, <1>3
  <2>2. packages[i].name # packages[i + 1].name
    BY <1>1, <1>2, <2>1 DEF Indexable
  <2>3. ~Precedes(packages[i + 1].name, packages[i].name)
    BY <1>1, <2>1 DEF Sorted
  <2>4. Precedes(packages[i].name, packages[i + 1].name)
    BY <1>2, <2>1, <2>2, <2>3, NamesOrdered
  <2>5. i + 1 = j \/ i + 1 < j
    BY <1>2, <1>3
  <2>6. i + 1 < j => ~Precedes(packages[j].name, packages[i + 1].name)
    BY <1>1, <2>1 DEF Sorted
  <2> QED
    BY <1>2, <2>1, <2>4, <2>5, <2>6, NamesOrdered
<1>4. StrictlySorted(packages)
  BY <1>3 DEF StrictlySorted
<1>5. \A i \in DOMAIN packages : packages[i].target = call.target
  BY <1>1, <1>2 DEF Indexable
<1> QED
  BY <1>1, <1>4, <1>5, StrictlySortedIs

\* A vector without a repeated name or a foreign target is an admitted one.
LEMMA IndexedAdmitted ==
  ASSUME IInv, phase \in {"index", "made"}, index = Len(packages)
  PROVE  Admitted
<1>1. /\ packages \in Seq(Packages)
      /\ \A i, j \in DOMAIN packages : packages[i].name = packages[j].name => i = j
      /\ \A i \in DOMAIN packages : packages[i].target = call.target
  BY IndexedIs
<1>2. SnapshotAdmitted(call.target, Range(packages)) /\ IsInjective(packages)
  BY <1>1 DEF SnapshotAdmitted, Range, IsInjective
<1>3. MakeInv
  BY DEF IInv
<1>4. CASE call.request = None
  BY <1>2, <1>3, <1>4 DEF MakeInv, Admitted
<1>5. CASE call.request # None
  <2>1. /\ Mine /\ \A d \in call.request.deltas : PriorMatches(Prior, d)
        /\ Range(packages) = ProjectedPackages(call.request, Prior)
    BY <1>3, <1>5 DEF MakeInv
  <2>2. Prior.target = call.target
    BY DEF Prior, SnapshotMake
  <2> QED
    BY <1>2, <1>5, <2>1, <2>2 DEF Admitted, ProjectAdmitted, Mine
<1> QED
  BY <1>4, <1>5

\* A package that cannot be indexed is one the vector should not hold.
LEMMA UnindexableRefused ==
  ASSUME IInv, phase = "index", NEW i \in DOMAIN packages, ~Indexable(i)
  PROVE  ~Admitted
<1>1. packages \in Seq(Packages) /\ MakeInv
  BY DEF IInv, StateInv
<1>2. DOMAIN packages \subseteq Nat /\ packages[i] \in Range(packages)
  BY <1>1 DEF Range
<1>3. CASE packages[i].target # call.target
  <2>1. ~SnapshotAdmitted(call.target, Range(packages))
    BY <1>2, <1>3 DEF SnapshotAdmitted
  <2>2. CASE call.request = None
    BY <1>1, <2>1, <2>2 DEF MakeInv, Admitted
  <2>3. CASE call.request # None
    <3>1. Range(packages) = ProjectedPackages(call.request, Prior) /\ Mine
      BY <1>1, <2>3 DEF MakeInv
    <3>2. Prior.target = call.target
      BY DEF Prior, SnapshotMake
    <3> QED
      BY <2>1, <2>3, <3>1, <3>2 DEF Admitted, ProjectAdmitted, Mine
  <2> QED
    BY <2>2, <2>3
<1>4. CASE packages[i].target = call.target
  <2>1. i > 1 /\ packages[i - 1].name = packages[i].name
    BY <1>4 DEF Indexable
  <2>2. i - 1 \in DOMAIN packages /\ i - 1 # i
    BY <1>1, <2>1
  <2>3. packages[i - 1] \in Range(packages)
    BY <2>2 DEF Range
  <2>4. ~(IsInjective(packages) /\ \A p, q \in Range(packages) : p.name = q.name => p = q)
    BY <1>2, <2>1, <2>2, <2>3 DEF IsInjective
  <2>5. call.request = None
    BY <1>1, <2>4 DEF MakeInv
  <2> QED
    BY <1>1, <2>4, <2>5 DEF MakeInv, Admitted, SnapshotAdmitted
<1> QED
  BY <1>3, <1>4

\* Indices into a vector are indices into a longer one.
LEMMA IndicesAre ==
  ASSUME NEW m \in Nat, NEW n \in Nat, m <= n, NEW o \in Seq(1..m)
  PROVE  /\ Len(o) \in Nat /\ DOMAIN o = 1..Len(o) /\ \A k \in DOMAIN o : o[k] \in 1..m
         /\ o \in Seq(1..n)
<1>1. Len(o) \in Nat /\ DOMAIN o = 1..Len(o) /\ \A k \in DOMAIN o : o[k] \in 1..m
  OBVIOUS
<1>2. \A k \in DOMAIN o : o[k] \in 1..n
  BY <1>1
<1> QED
  BY <1>1, <1>2

\* Indexing a package keeps the invariant.
LEMMA IndexKeeps ==
  ASSUME IInv, Index
  PROVE  IInv'
<1> DEFINE i == index + 1
<1>1. /\ StateInv /\ MakeInv /\ IndexInv /\ phase = "index" /\ index < Len(packages)
      /\ UNCHANGED <<call, packages, pending>>
  BY DEF IInv, Index, Throw
<1>2. /\ packages \in Seq(Packages) /\ index \in Nat /\ i \in DOMAIN packages
      /\ i \in 0..Len(packages) /\ owners \in [Paths -> Seq(1..index)]
  BY <1>1 DEF StateInv
<1>3. CASE ~Indexable(i)
  <2>1. phase' = "thrown" /\ UNCHANGED <<index, owners>>
    BY <1>3 DEF Index, Throw
  <2>2. ~Admitted
    BY <1>1, <1>2, <1>3, UnindexableRefused
  <2>3. ~Admitted'
    BY <1>1, <2>2 DEF Admitted, Prior
  <2>4. StateInv' /\ IndexInv'
    BY <1>1, <2>1 DEF StateInv, IndexInv
  <2> QED
    BY <2>1, <2>3, <2>4 DEF IInv, CheckInv, ApplyInv, MakeInv
<1>4. CASE Indexable(i)
  <2>1. /\ phase' = phase /\ index' = i
        /\ owners' = [path \in Paths |->
                        IF path \in packages[i].manifest
                        THEN Append(owners[path], i) ELSE owners[path]]
    BY <1>4 DEF Index, Throw
  <2> HIDE DEF i
  <2>2. i = index + 1
    BY DEF i
  <2>3. ASSUME NEW path \in Paths
        PROVE  /\ owners'[path] \in Seq(1..i) /\ Increasing(owners'[path])
               /\ Range(owners'[path]) = {k \in 1..i : path \in packages[k].manifest}
    <3> DEFINE o == owners[path]
    <3>1. /\ o \in Seq(1..index) /\ Increasing(o)
          /\ Range(o) = {k \in 1..index : path \in packages[k].manifest}
      BY <1>1, <1>2 DEF IndexInv
    <3> HIDE DEF o
    <3>2. /\ Len(o) \in Nat /\ DOMAIN o = 1..Len(o) /\ \A k \in DOMAIN o : o[k] \in 1..index
          /\ o \in Seq(1..i)
      <4>1. i \in Nat /\ index <= i
        BY <1>2, <2>2
      <4> QED
        BY <1>2, <3>1, <4>1, IndicesAre
    <3>3. \A k \in 1..i : k \in 1..index \/ k = i
      BY <1>2, <2>2
    <3>4. \A k \in 1..index : k \in 1..i /\ k < i
      BY <1>2, <2>2
    <3>5. CASE path \in packages[i].manifest
      <4> DEFINE a == Append(o, i)
      <4>1. owners'[path] = a
        BY <2>1, <3>5 DEF o
      <4>2. i \in 1..i
        BY <1>2, <2>2
      <4>3. DOMAIN a = 1..Len(o) + 1 /\ a[Len(o) + 1] = i /\ \A k \in 1..Len(o) : a[k] = o[k]
        BY <3>1, <3>2
      <4>4. a \in Seq(1..i)
        BY <3>2, <4>2
      <4> HIDE DEF a
      <4>5. Increasing(a)
        <5> SUFFICES ASSUME NEW k \in DOMAIN a, NEW l \in DOMAIN a, k < l
                     PROVE  a[k] < a[l]
          BY DEF Increasing
        <5>1. k \in DOMAIN o /\ (l \in DOMAIN o \/ l = Len(o) + 1)
          BY <3>2, <4>3
        <5> QED
          BY <3>1, <3>2, <3>4, <4>3, <5>1 DEF Increasing
      <4>6. Range(a) = Range(o) \cup {i}
        <5>1. Len(o) + 1 \in DOMAIN a /\ \A k \in DOMAIN a : k \in DOMAIN o \/ k = Len(o) + 1
          BY <3>2, <4>3
        <5>2. DOMAIN o \subseteq DOMAIN a
          BY <3>2, <4>3
        <5> QED
          BY <3>2, <4>3, <5>1, <5>2 DEF Range
      <4>7. Range(a) = {k \in 1..i : path \in packages[k].manifest}
        BY <3>1, <3>3, <3>4, <3>5, <4>2, <4>6
      <4> QED
        BY <4>1, <4>4, <4>5, <4>7
    <3>6. CASE path \notin packages[i].manifest
      <4>1. owners'[path] = o
        BY <2>1, <3>6 DEF o
      <4>2. o \in Seq(1..i)
        BY <3>2
      <4>3. Range(o) = {k \in 1..i : path \in packages[k].manifest}
        BY <3>1, <3>3, <3>4, <3>6
      <4> QED
        BY <3>1, <4>1, <4>2, <4>3
    <3> QED
      BY <3>5, <3>6
  <2>4. StateInv'
    <3>1. owners' \in [Paths -> Seq(1..i)]
      BY <2>1, <2>3
    <3> QED
      BY <1>1, <1>2, <2>1, <3>1 DEF StateInv
  <2>5. IndexInv'
    <3>1. \A k \in 1..i : Indexable(k)
      BY <1>1, <1>2, <1>4, <2>2 DEF IndexInv
    <3>2. Indexable(1)' \in BOOLEAN /\ \A k : Indexable(k)' <=> Indexable(k)
      BY <1>1 DEF Indexable
    <3> QED
      BY <1>1, <2>1, <2>3, <3>1, <3>2 DEF IndexInv
  <2>6. MakeInv'
    BY <1>1, <2>1 DEF MakeInv, Mine, Prior
  <2> QED
    BY <1>1, <2>1, <2>4, <2>5, <2>6 DEF IInv, CheckInv, ApplyInv
<1> QED
  BY <1>3, <1>4

\* identify_ownership never meets two claims of one package on a path.
LEMMA ClaimsDiffer ==
  ASSUME IInv, phase = "index", index = Len(packages), NEW path \in Paths
  PROVE  IsInjective(Claims(path))
<1>1. /\ packages \in Seq(Packages)
      /\ \A i, j \in DOMAIN packages : packages[i].name = packages[j].name => i = j
  BY IndexedIs
<1> DEFINE o == owners[path]
<1>2. o \in Seq(1..Len(packages)) /\ Increasing(o)
  BY DEF IInv, StateInv, IndexInv
<1> HIDE DEF o
<1>3. /\ DOMAIN o \subseteq Nat /\ DOMAIN packages = 1..Len(packages)
      /\ \A k \in DOMAIN o : o[k] \in Nat /\ o[k] \in DOMAIN packages
  BY <1>1, <1>2
<1>4. ASSUME NEW k \in DOMAIN o, NEW l \in DOMAIN o,
             PackageIdentity(packages[o[k]]) = PackageIdentity(packages[o[l]])
      PROVE  k = l
  <2>1. packages[o[k]].name = packages[o[l]].name
    BY <1>4, IdentityNames
  <2>2. o[k] = o[l]
    BY <1>1, <1>3, <2>1
  <2>3. ~(k < l) /\ ~(l < k)
    BY <1>2, <1>3, <2>2 DEF Increasing
  <2> QED
    BY <1>3, <2>3
<1>5. /\ DOMAIN Claims(path) = DOMAIN o
      /\ \A k \in DOMAIN o : Claims(path)[k] = PackageIdentity(packages[o[k]])
  BY DEF Claims, o
<1> QED
  BY <1>4, <1>5 DEF IsInjective

\* Identifying the snapshot keeps the invariant.
LEMMA IdentifyKeeps ==
  ASSUME IInv, Identify
  PROVE  IInv'
<1>1. /\ StateInv /\ MakeInv /\ IndexInv /\ phase = "index" /\ index = Len(packages)
      /\ UNCHANGED <<call, packages, pending, index, owners>>
  BY DEF IInv, Identify
<1>2. phase' = "made"
  BY <1>1, ClaimsDiffer DEF Identify
<1>3. StateInv' /\ MakeInv'
  BY <1>1, <1>2 DEF StateInv, MakeInv, Mine, Prior
<1>4. IndexInv'
  BY <1>1, <1>2 DEF IndexInv, Indexable
<1> QED
  BY <1>2, <1>3, <1>4 DEF IInv, CheckInv, ApplyInv

\* Standing still keeps the invariant.
LEMMA StutterKeeps ==
  ASSUME IInv, UNCHANGED vars
  PROVE  IInv'
<1>1. UNCHANGED <<call, phase, packages, pending, index, owners>>
  BY DEF vars
<1>2. /\ Prior' = Prior /\ Mine' = Mine /\ DoneDeltas' = DoneDeltas
      /\ Admitted' = Admitted /\ \A i : Indexable(i)' <=> Indexable(i)
  BY <1>1 DEF Prior, Mine, DoneDeltas, Admitted, Indexable
<1>3. StateInv' /\ CheckInv' /\ ApplyInv'
  BY <1>1, <1>2 DEF IInv, StateInv, CheckInv, ApplyInv
<1>4. MakeInv' /\ IndexInv'
  BY <1>1, <1>2 DEF IInv, MakeInv, IndexInv
<1> QED
  BY <1>1, <1>2, <1>3, <1>4 DEF IInv

\* Every step keeps the invariant.
LEMMA NextKeeps ==
  ASSUME IInv, [Next]_vars
  PROVE  IInv'
BY CheckKeeps, ApplyInstallKeeps, ApplyReplaceKeeps, ApplyRemoveKeeps, AllAppliedKeeps,
   SortKeeps, IndexKeeps, IdentifyKeeps, StutterKeeps
DEF Next, Done

-----------------------------------------------------------------------------
(* The theorems *)

\* In every reachable state the parts of the invariant hold.
LEMMA AlwaysIInv == Spec => []IInv
<1>1. Init => IInv
  BY InitKeeps
<1>2. IInv /\ [Next]_vars => IInv'
  BY NextKeeps
<1> QED
  BY <1>1, <1>2, PTL DEF Spec

\* The vector holds installed packages only, and the index positions in it.
THEOREM VectorTypeCorrect == Spec => []VectorTypeOK
<1>1. ASSUME IInv PROVE VectorTypeOK
  <2>1. /\ packages \in Seq(Packages) /\ index \in 0..Len(packages)
        /\ phase \in {"check", "apply", "sort", "index", "made", "thrown"}
        /\ owners \in [Paths -> Seq(1..index)]
    BY <1>1 DEF IInv, StateInv
  <2>2. Range(packages) \subseteq Packages
    BY <2>1 DEF Range
  <2>3. \A path \in Paths : Range(owners[path]) \subseteq 1..index
    BY <2>1 DEF Range
  <2> QED
    BY <2>1, <2>2, <2>3 DEF VectorTypeOK
<1> QED
  BY <1>1, AlwaysIInv, PTL

\* Each in-place edit of project_publication_request leaves a vector that the next
\* binary search can rely on.
THEOREM EditsKeepOrder == Spec => []SortedWhileEdited
<1>1. ASSUME IInv PROVE SortedWhileEdited
  BY <1>1, StrictlySortedIs DEF IInv, StateInv, ApplyInv, SortedWhileEdited
<1> QED
  BY <1>1, AlwaysIInv, PTL

\* The vector that a projection returns holds what the sets of Publication say.
THEOREM ProjectionHolds == Spec => []EditsMakeTheProjection
<1>1. ASSUME IInv PROVE EditsMakeTheProjection
  BY <1>1 DEF IInv, MakeInv, EditsMakeTheProjection
<1> QED
  BY <1>1, AlwaysIInv, PTL

\* Exceptions leave project_publication_request and snapshot::make for exactly the
\* arguments that the sets of Publication refuse.
THEOREM RefusalHolds == Spec => []RefusesExactly
<1>1. ASSUME IInv PROVE RefusesExactly
  <2>1. phase = "thrown" => ~Admitted
    BY <1>1 DEF IInv
  <2>2. phase = "made" => Admitted
    BY <1>1, IndexedAdmitted DEF IInv, IndexInv
  <2> QED
    BY <2>1, <2>2 DEF RefusesExactly, Admitted
<1> QED
  BY <1>1, AlwaysIInv, PTL

\* find_package and owners answer on every complete snapshot as a scan would.
THEOREM LookupsHold == Spec => []LookupsAnswerTheVector
<1>1. ASSUME IInv, phase = "made" PROVE LookupsAnswerTheVector
  <2>1. /\ packages \in Seq(Packages) /\ StrictlySorted(packages) /\ index = Len(packages)
        /\ \A path \in Paths :
             /\ Increasing(owners[path])
             /\ Range(owners[path]) = {i \in 1..index : path \in packages[i].manifest}
    BY <1>1, IndexedIs DEF IInv, IndexInv
  <2>2. DOMAIN packages = 1..Len(packages)
    BY <2>1
  <2>3. ASSUME NEW name \in Names
        PROVE  Find(packages, name) = {p \in Range(packages) : p.name = name}
    <3> DEFINE i == LowerBound(packages, name)
    <3>1. /\ PresentAt(packages, i, name) <=> \E j \in DOMAIN packages : packages[j].name = name
          /\ PresentAt(packages, i, name) => i \in DOMAIN packages
          /\ \A j \in DOMAIN packages : packages[j].name = name => j = i
      BY <2>1, LowerBoundIs
    <3>2. Find(packages, name) = IF PresentAt(packages, i, name) THEN {packages[i]} ELSE {}
      BY DEF Find
    <3> HIDE DEF i
    <3> QED
      BY <3>1, <3>2 DEF Range, PresentAt
  <2> QED
    BY <2>1, <2>2, <2>3 DEF LookupsAnswerTheVector, Increasing
<1>2. IInv => LookupsAnswerTheVector
  BY <1>1 DEF LookupsAnswerTheVector
<1> QED
  BY <1>2, AlwaysIInv, PTL

===============================================================================
