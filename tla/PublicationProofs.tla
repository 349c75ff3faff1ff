--------------------------- MODULE PublicationProofs ---------------------------
(***************************************************************************)
(* What the value modules guarantee, for every set of packages: requests,  *)
(* projections and receipts are well typed, a request projects onto the    *)
(* snapshot it was made for and changes it, and identities name values.    *)
(* The proofs about the store and about checkpoints rest on these lemmas.  *)
(***************************************************************************)
EXTENDS PublicationReceipt, FiniteSetTheorems, NaturalsInduction, WellFoundedInduction, TLAPS

-----------------------------------------------------------------------------
(* Counting *)

\* A non-empty set of naturals has a least element.
LEMMA LeastNatural ==
  ASSUME NEW T, T \subseteq Nat, T # {}
  PROVE  \E x \in T : \A y \in T : x <= y
<1>1. PICK x \in T : \A y \in T : <<y, x>> \notin OpToRel(<, Nat)
  BY NatLessThanWellFounded, WFMin, Zenon
<1>2. ASSUME NEW y \in T PROVE ~ (y < x)
  <2>1. x \in Nat /\ y \in Nat
    OBVIOUS
  <2>2. <<y, x>> \notin OpToRel(<, Nat)
    BY <1>1
  <2> QED
    BY <2>1, <2>2, Zenon DEF OpToRel
<1> QED
  BY <1>2

\* The elements of S of a lower rank than e.
Lower(S, rank, e) == {d \in S : rank[d] < rank[e]}

\* Every element of S has a rank of its own.
Ranks(rank, S) ==
  /\ IsFiniteSet(S) /\ rank \in [S -> Nat]
  /\ \A d, e \in S : rank[d] = rank[e] => d = e

\* The i-th element of o has i - 1 elements of S below it.
Lists(o, S, rank) ==
  /\ o \in [1..Cardinality(S) -> S]
  /\ \A i \in 1..Cardinality(S) : Cardinality(Lower(S, rank, o[i])) = i - 1

\* The number of elements below it tells an element of S apart, when rank does.
LEMMA LowerFacts ==
  ASSUME NEW S, NEW rank, Ranks(rank, S)
  PROVE  /\ Cardinality(S) \in Nat
         /\ \A e \in S : Cardinality(Lower(S, rank, e)) \in 0..(Cardinality(S) - 1)
         /\ \A d, e \in S : Cardinality(Lower(S, rank, d)) = Cardinality(Lower(S, rank, e)) => d = e
         /\ \A i \in 1..Cardinality(S) : \E e \in S : Cardinality(Lower(S, rank, e)) = i - 1
<1> DEFINE n == Cardinality(S)
           Below(e) == Lower(S, rank, e)
<1> USE DEF Ranks
<1>1. \A e \in S : rank[e] \in Nat
  OBVIOUS
<1>2. n \in Nat
  BY FS_CardinalityType
<1>3. ASSUME NEW e \in S
      PROVE  Cardinality(Below(e)) \in 0..(n - 1) /\ IsFiniteSet(Below(e))
  <2>1. Below(e) \subseteq S /\ Below(e) # S
    BY <1>1 DEF Lower
  <2>2. /\ IsFiniteSet(Below(e)) /\ Cardinality(Below(e)) <= n
        /\ Cardinality(Below(e)) = n => Below(e) = S
    BY <2>1, FS_Subset
  <2>3. Cardinality(Below(e)) \in Nat
    BY <2>2, FS_CardinalityType
  <2> QED
    BY <1>2, <2>1, <2>2, <2>3
<1>4. ASSUME NEW d \in S, NEW e \in S, rank[d] < rank[e]
      PROVE  Cardinality(Below(d)) < Cardinality(Below(e))
  <2>1. Below(d) \subseteq Below(e) /\ Below(d) # Below(e)
    <3>1. d \in Below(e) /\ d \notin Below(d)
      BY <1>1, <1>4 DEF Lower
    <3>2. Below(d) \subseteq Below(e)
      BY <1>1, <1>4 DEF Lower
    <3> QED
      BY <3>1, <3>2
  <2>2. /\ Cardinality(Below(d)) <= Cardinality(Below(e))
        /\ Cardinality(Below(d)) = Cardinality(Below(e)) => Below(d) = Below(e)
    BY <1>3, <2>1, FS_Subset
  <2>3. Cardinality(Below(d)) \in Int /\ Cardinality(Below(e)) \in Int
    BY <1>2, <1>3
  <2> QED
    BY <2>1, <2>2, <2>3
<1>5. ASSUME NEW d \in S, NEW e \in S, Cardinality(Below(d)) = Cardinality(Below(e))
      PROVE  d = e
  <2>1. Cardinality(Below(d)) \in Int
    BY <1>2, <1>3
  <2>2. ~ rank[d] < rank[e] /\ ~ rank[e] < rank[d]
    BY <1>4, <1>5, <2>1
  <2> QED
    BY <1>1, <2>2
<1>6. ASSUME NEW i \in 1..n
      PROVE  \E e \in S : Cardinality(Below(e)) = i - 1
  <2> DEFINE f == [e \in S |-> Cardinality(Below(e))]
  <2>1. f \in Injection(S, 0..(n - 1))
    BY <1>3, <1>5 DEF Injection, IsInjective
  <2>2. IsFiniteSet(0..(n - 1)) /\ Cardinality(0..(n - 1)) = n
    <3>1. 0 \in Int /\ n - 1 \in Int
      BY <1>2
    <3>2. /\ IsFiniteSet(0..(n - 1))
          /\ Cardinality(0..(n - 1)) = IF 0 > n - 1 THEN 0 ELSE (n - 1) - 0 + 1
      BY <3>1, FS_Interval
    <3> QED
      BY <1>2, <3>2
  <2>3. f \in Surjection(S, 0..(n - 1))
    BY <2>1, <2>2, FS_Injection
  <2>4. i - 1 \in 0..(n - 1)
    BY <1>2
  <2> QED
    BY <2>3, <2>4 DEF Surjection
<1> QED
  BY <1>2, <1>3, <1>5, <1>6

\* A vector that lists S in the order of a rank has every element once.
LEMMA ListingFacts ==
  ASSUME NEW S, NEW rank, Ranks(rank, S), NEW o, Lists(o, S, rank)
  PROVE  /\ Cardinality(S) \in Nat
         /\ \A e \in S : \E i \in 1..Cardinality(S) : o[i] = e
         /\ \A i, j \in 1..Cardinality(S) : o[i] = o[j] => i = j
<1> DEFINE n == Cardinality(S)
<1>1. n \in Nat
  BY LowerFacts
<1>2. ASSUME NEW i \in 1..n, NEW j \in 1..n, o[i] = o[j] PROVE i = j
  <2>1. i - 1 = j - 1
    BY <1>2 DEF Lists
  <2> QED
    BY <2>1
<1>3. ASSUME NEW e \in S PROVE \E i \in 1..n : o[i] = e
  <2> DEFINE i == Cardinality(Lower(S, rank, e)) + 1
  <2>1. i \in 1..n /\ Cardinality(Lower(S, rank, e)) = i - 1
    BY <1>1, LowerFacts
  <2>2. Cardinality(Lower(S, rank, o[i])) = Cardinality(Lower(S, rank, e)) /\ o[i] \in S
    BY <2>1 DEF Lists
  <2>3. o[i] = e
    BY <2>2, LowerFacts
  <2> QED
    BY <2>1, <2>3
<1> QED
  BY <1>1, <1>2, <1>3

-----------------------------------------------------------------------------
(* Requests and projections *)

\* A request returned by state_publication_request::make is well formed.
LEMMA RequestType ==
  ASSUME NEW s \in Snapshots, NEW deltas \in Seq(DeltaRecord),
         NEW transaction \in OptionalTransaction,
         Range(deltas) \subseteq Deltas,
         RequestAdmitted(s, deltas, transaction)
  PROVE  RequestMake(s, deltas, transaction) \in Requests
<1> DEFINE r == RequestMake(s, deltas, transaction)
<1>1. SnapshotIdentity(s) \in SnapshotIdentities /\ s.target \in Targets
  BY DEF Snapshots, SnapshotRecord, SnapshotIdentities
<1>2. r.deltas = Range(deltas)
  BY DEF RequestMake
<1>3. NameUnique(r.deltas)
  BY <1>2 DEF NameUnique, RequestAdmitted, Range
<1>4. r \in [expected : SnapshotIdentities, target : Targets,
             deltas : SUBSET Deltas, transaction : OptionalTransaction]
  BY <1>1 DEF RequestMake
<1> QED
  BY <1>3, <1>4 DEF Requests

\* A proposed package of a delta is an installed package of the delta's name.
LEMMA DeltaProposes ==
  ASSUME NEW d \in Deltas
  PROVE  /\ d \in DeltaRecord
         /\ d.proposed # None => d.proposed \in Packages /\ d.proposed.name = d.name
  BY DEF Deltas, DeltaRecord, InstallAdmitted, ReplaceAdmitted, RemoveAdmitted

\* project_publication_request returns a snapshot.
LEMMA ProjectType ==
  ASSUME NEW r \in Requests, NEW s \in Snapshots, ProjectAdmitted(r, s)
  PROVE  Project(r, s) \in Snapshots
<1>1. ProjectedPackages(r, s) \subseteq Packages
  <2>1. r.deltas \subseteq Deltas /\ s.packages \subseteq Packages
    BY DEF Requests, Snapshots, SnapshotRecord
  <2> QED
    BY <2>1, DeltaProposes DEF ProjectedPackages
<1>2. SnapshotAdmitted(r.target, ProjectedPackages(r, s))
  BY DEF ProjectAdmitted
<1>3. r.target \in Targets
  BY DEF Requests
<1> QED
  BY <1>1, <1>2, <1>3 DEF Project, SnapshotMake, Snapshots, SnapshotRecord

\* The projection does what the request promises: the named packages become the
\* proposed ones or disappear, all others stay.
LEMMA ProjectAccomplishes ==
  ASSUME NEW r \in Requests, NEW s \in Snapshots, ProjectAdmitted(r, s)
  PROVE  Accomplishes(r, s, Project(r, s))
<1> DEFINE t == Project(r, s)
<1>1. SnapshotIdentity(s) = r.expected /\ t.target = s.target
  BY DEF ProjectAdmitted, Project, SnapshotMake
<1>2. ASSUME NEW name \in Names
      PROVE  FindPackage(t, name) =
               IF \E d \in r.deltas : d.name = name
               THEN {d.proposed : d \in {e \in r.deltas : e.name = name}} \ {None}
               ELSE FindPackage(s, name)
  <2>1. t.packages = ProjectedPackages(r, s)
    BY DEF Project, SnapshotMake
  <2>2. \A d \in r.deltas : d.proposed # None => d.proposed.name = d.name
    BY DeltaProposes DEF Requests
  <2>3. CASE \E d \in r.deltas : d.name = name
    <3>1. ASSUME NEW p \in FindPackage(t, name)
          PROVE  p \in {d.proposed : d \in {e \in r.deltas : e.name = name}} \ {None}
      BY <2>1, <2>2, <2>3, <3>1 DEF FindPackage, ProjectedPackages
    <3>2. ASSUME NEW p \in {d.proposed : d \in {e \in r.deltas : e.name = name}} \ {None}
          PROVE  p \in FindPackage(t, name)
      BY <2>1, <2>2, <3>2 DEF FindPackage, ProjectedPackages
    <3> QED
      BY <2>3, <3>1, <3>2
  <2>4. CASE ~ \E d \in r.deltas : d.name = name
    BY <2>1, <2>2, <2>4 DEF FindPackage, ProjectedPackages
  <2> QED
    BY <2>3, <2>4
<1> QED
  BY <1>1, <1>2 DEF Accomplishes

-----------------------------------------------------------------------------
(* Receipts *)

\* The identity of a request is an identity.
LEMMA RequestIdentityType ==
  ASSUME NEW r \in Requests
  PROVE  RequestIdentity(r) \in RequestIdentities
<1>1. /\ r.expected \in SnapshotIdentities /\ r.target \in Targets
      /\ r.deltas \subseteq Deltas /\ r.transaction \in OptionalTransaction
  BY DEF Requests
<1>2. ASSUME NEW d \in Deltas
      PROVE  DeltaFields(d) \in DeltaKinds \X Names \X Plans \X Applications
                \X (PackageIdentities \cup {None})
                \X (PackageIdentities \cup {None})
  <2>1. d.proposed # None => PackageIdentity(d.proposed) \in PackageIdentities
    BY DeltaProposes DEF PackageIdentities
  <2> QED
    BY <2>1, DeltaProposes DEF DeltaFields, DeltaRecord
<1>3. {DeltaFields(d) : d \in r.deltas} \subseteq
        DeltaKinds \X Names \X Plans \X Applications
          \X (PackageIdentities \cup {None}) \X (PackageIdentities \cup {None})
  BY <1>1, <1>2
<1> QED
  BY <1>1, <1>3 DEF RequestIdentity, RequestIdentities

\* Every receipt the library builds has the type of a receipt.
LEMMA ReceiptType ==
  ASSUME NEW r \in Requests, NEW s \in Snapshots, NEW f \in Seq(FormatBytes),
         NEW outcome \in Outcomes, NEW atomicity \in Boundaries \cup {"none"},
         NEW resulting \in SnapshotIdentities \cup {None},
         NEW evidence \in Seq(Evidence)
  PROVE  ReceiptMake(r, s, f, outcome, atomicity, resulting, evidence)
           \in ReceiptRecord
<1>1. RequestIdentity(r) \in RequestIdentities
  BY RequestIdentityType
<1>2. SnapshotIdentity(s) \in SnapshotIdentities
  BY DEF Snapshots, SnapshotRecord, SnapshotIdentities
<1>3. DurabilityOf(outcome) \in Durabilities
  BY DEF DurabilityOf, Durabilities, Outcomes, BackendOutcomes
<1>4. Range(evidence) \subseteq Evidence
  BY DEF Range
<1>5. r.expected \in SnapshotIdentities /\ r.target \in Targets
  BY DEF Requests
<1> QED
  BY <1>1, <1>2, <1>3, <1>4, <1>5 DEF ReceiptMake, ReceiptRecord

-----------------------------------------------------------------------------
(* Identities *)

\* Packages are told apart by their identities at least as far as their names.
LEMMA IdentityNames ==
  ASSUME NEW p, NEW q, PackageIdentity(p) = PackageIdentity(q)
  PROVE  p.name = q.name
BY DEF PackageIdentity, ReceiptIdentity, ControlIdentity

\* Each delta changes the state it applies to.
LEMMA ProjectionDiffers ==
  ASSUME NEW r \in Requests, NEW s \in Snapshots, ProjectAdmitted(r, s),
         NEW d \in r.deltas
  PROVE  SnapshotIdentity(Project(r, s)) # SnapshotIdentity(s)
<1> DEFINE t == Project(r, s)
           Ids(u) == {PackageIdentity(p) : p \in u.packages}
<1>1. SUFFICES Ids(t) # Ids(s)
  BY DEF SnapshotIdentity
<1>2. d \in Deltas /\ d.name \in Names /\ PriorMatches(s, d)
  BY DeltaProposes DEF Requests, ProjectAdmitted, Deltas, DeltaRecord
<1>3. FindPackage(t, d.name) = {d.proposed} \ {None}
  <2>1. Accomplishes(r, s, t)
    BY ProjectAccomplishes
  <2>2. {e \in r.deltas : e.name = d.name} = {d}
    BY DEF Requests, NameUnique
  <2> QED
    BY <1>2, <2>1, <2>2 DEF Accomplishes
<1>4. CASE d.kind = "install"
  <2>1. d.proposed # None /\ FindPackage(s, d.name) = {}
    BY <1>2, <1>4 DEF Deltas, InstallAdmitted, ReplaceAdmitted, RemoveAdmitted, PriorMatches
  <2>2. d.proposed \in t.packages /\ d.proposed.name = d.name
    BY <1>3, <2>1 DEF FindPackage
  <2>3. PackageIdentity(d.proposed) \notin Ids(s)
    BY <2>1, <2>2, IdentityNames DEF FindPackage
  <2> QED
    BY <2>2, <2>3
<1>5. CASE d.kind # "install"
  <2>1. PICK q \in FindPackage(s, d.name) : PackageIdentity(q) = d.expected
    BY <1>2, <1>5 DEF PriorMatches
  <2>2. d.proposed # None => d.expected # PackageIdentity(d.proposed)
    BY <1>2, <1>5 DEF Deltas, InstallAdmitted, ReplaceAdmitted, RemoveAdmitted
  <2>3. PackageIdentity(q) \in Ids(s) /\ q.name = d.name
    BY <2>1 DEF FindPackage
  <2>4. ASSUME NEW p \in t.packages, PackageIdentity(p) = PackageIdentity(q)
        PROVE  FALSE
    <3>1. p \in FindPackage(t, d.name)
      BY <2>3, <2>4, IdentityNames DEF FindPackage
    <3> QED
      BY <1>3, <2>1, <2>2, <2>4, <3>1
  <2> QED
    BY <2>3, <2>4
<1> QED
  BY <1>4, <1>5

\* A package is named by its identity: every field of it enters the record.
LEMMA PackageNamed ==
  ASSUME NEW p \in PackageRecord, NEW q \in PackageRecord,
         PackageIdentity(p) = PackageIdentity(q)
  PROVE  p = q
<1>1. /\ ControlIdentity(p) = ControlIdentity(q) /\ p.target = q.target
      /\ p.manifest = q.manifest /\ p.plan = q.plan /\ p.application = q.application
      /\ p.transaction = q.transaction
  BY DEF PackageIdentity, ReceiptIdentity
<1>2. p.name = q.name /\ p.control = q.control
  BY <1>1 DEF ControlIdentity
<1> QED
  BY <1>1, <1>2 DEF PackageRecord

\* A snapshot is named by its identity.
LEMMA SnapshotNamed ==
  ASSUME NEW s \in SnapshotRecord, NEW t \in SnapshotRecord,
         SnapshotIdentity(s) = SnapshotIdentity(t)
  PROVE  s = t
<1>1. /\ s.target = t.target
      /\ {PackageIdentity(p) : p \in s.packages} = {PackageIdentity(p) : p \in t.packages}
  BY DEF SnapshotIdentity
<1>2. s.packages \subseteq PackageRecord /\ t.packages \subseteq PackageRecord
  BY PackagesAssumption DEF SnapshotRecord
<1>3. ASSUME NEW p \in s.packages PROVE p \in t.packages
  BY <1>1, <1>2, PackageNamed
<1>4. ASSUME NEW p \in t.packages PROVE p \in s.packages
  BY <1>1, <1>2, PackageNamed
<1> QED
  BY <1>1, <1>3, <1>4 DEF SnapshotRecord

\* What make() checks of the deltas is all that the projection requires.
LEMMA RequestProjects ==
  ASSUME NEW r \in Requests, NEW s \in Snapshots,
         r.target = s.target, r.expected = SnapshotIdentity(s),
         \A d \in r.deltas : DeltaMatches(s, d)
  PROVE  ProjectAdmitted(r, s)
<1>1. \A d \in r.deltas : PriorMatches(s, d)
  BY DEF DeltaMatches
<1>2. ASSUME NEW p \in ProjectedPackages(r, s) PROVE p.target = r.target
  BY DEF ProjectedPackages, DeltaMatches, Snapshots, SnapshotAdmitted
<1>3. ASSUME NEW p \in ProjectedPackages(r, s), NEW q \in ProjectedPackages(r, s),
             p.name = q.name
      PROVE  p = q
  <2>1. ASSUME NEW d \in r.deltas, d.proposed # None PROVE d.proposed.name = d.name
    BY <2>1 DEF DeltaMatches
  <2>2. CASE p \in s.packages /\ q \in s.packages
    BY <1>3, <2>2 DEF Snapshots, SnapshotAdmitted
  <2>3. CASE \E d, e \in r.deltas : /\ d.proposed # None /\ d.proposed = p
                                    /\ e.proposed # None /\ e.proposed = q
    BY <1>3, <2>1, <2>3 DEF Requests, NameUnique
  <2> QED
    BY <1>3, <2>1, <2>2, <2>3 DEF ProjectedPackages
<1> QED
  BY <1>1, <1>2, <1>3 DEF ProjectAdmitted, SnapshotAdmitted

===============================================================================
