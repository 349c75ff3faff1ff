---------------------------- MODULE SnapshotVector ----------------------------
(***************************************************************************)
(* project_publication_request and snapshot::make on the vectors they work *)
(* on: the projection edits a copy of the prior vector in place, finding   *)
(* each package by binary search, and snapshot::make sorts the vector and  *)
(* then indexes it by position.  Publication states the same as sets; the  *)
(* properties below say that the two agree.                                *)
(***************************************************************************)
EXTENDS Publication, SequencesExt

CONSTANTS
  NameOrder,   \* the byte order of package names, as a sequence
  Calls        \* [request, target, input]: request = None calls snapshot::make

ASSUME NameOrderAssumption ==
  NameOrder \in Seq(Names) /\ ToSet(NameOrder) = Names /\ IsInjective(NameOrder)

VARIABLES
  call,       \* the arguments
  phase,
  packages,   \* the vector
  pending,    \* the deltas still to apply, in name order
  index,      \* packages indexed so far
  owners      \* path -> positions of the packages that own it

vars == <<call, phase, packages, pending, index, owners>>

-----------------------------------------------------------------------------
(* The vector *)

Rank(name) == CHOOSE i \in DOMAIN NameOrder : NameOrder[i] = name

Precedes(n, m) == Rank(n) < Rank(m)

Sorted(v) == \A i, j \in DOMAIN v : i < j => ~Precedes(v[j].name, v[i].name)

\* std::lower_bound by package name: bisection, whatever the vector holds.  A
\* span <<first, last>> is narrowed until nothing is left between its ends.
Bisection(v, name) ==
  LET bound[span \in (0..Len(v)) \X (0..Len(v))] ==
        LET first  == span[1]
            last   == span[2]
            middle == first + (last - first) \div 2
        IN  IF first >= last THEN first
            ELSE IF Precedes(v[middle + 1].name, name) THEN bound[<<middle + 1, last>>]
            ELSE bound[<<first, middle>>]
  IN  bound

LowerBound(v, name) == Bisection(v, name)[<<0, Len(v)>>] + 1

PresentAt(v, i, name) == i <= Len(v) /\ v[i].name = name

\* find_package, on a complete snapshot.
Find(v, name) ==
  LET i == LowerBound(v, name) IN IF PresentAt(v, i, name) THEN {v[i]} ELSE {}

\* snapshot::make is called with any vector; project_publication_request with any
\* request, and with the vector of a complete snapshot.
ASSUME CallsAssumption ==
  \A k \in Calls :
    /\ k.target \in Targets /\ k.input \in Seq(Packages)
    /\ k.request # None =>
         /\ k.request \in Requests /\ IsFiniteSet(k.request.deltas)
         /\ Sorted(k.input) /\ IsInjective(k.input)
         /\ SnapshotAdmitted(k.target, Range(k.input))

-----------------------------------------------------------------------------
(* project_publication_request *)

\* The deltas of a request as it keeps them, in the order of their names.
InNameOrder(deltas) ==
  {q \in [1..Cardinality(deltas) -> deltas] :
     /\ Range(q) = deltas
     /\ \A i, j \in DOMAIN q : i < j => Precedes(q[i].name, q[j].name)}

Prior == SnapshotMake(call.target, Range(call.input))

Init ==
  /\ call \in Calls
  /\ packages = call.input
  /\ phase = IF call.request = None THEN "sort" ELSE "check"
  /\ pending \in IF call.request = None THEN {<<>>} ELSE InNameOrder(call.request.deltas)
  /\ index = 0 /\ owners = [path \in Paths |-> <<>>]

Throw == phase' = "thrown" /\ UNCHANGED <<call, packages, pending, index, owners>>

Check ==
  LET mine == Prior.target = call.request.target
              /\ SnapshotIdentity(Prior) = call.request.expected
  IN
  /\ phase = "check"
  /\ \/ ~mine /\ Throw
     \/ /\ mine /\ phase' = "apply"
        /\ UNCHANGED <<call, packages, pending, index, owners>>

Applied(v) ==
  packages' = v /\ pending' = Tail(pending) /\ UNCHANGED <<call, phase, index, owners>>

\* Mutant: an installed package is put at the end of the vector.
InstallAtEnd ==
  /\ phase = "apply" /\ pending # <<>> /\ Head(pending).kind = "install"
  /\ LET d == Head(pending)
         i == LowerBound(packages, d.name)
     IN  IF PresentAt(packages, i, d.name) THEN Throw
         ELSE Applied(Append(packages, d.proposed))

\* Request and snapshot agree since Check: no admitted delta throws any more.
ApplyInstall ==
  /\ phase = "apply" /\ pending # <<>> /\ Head(pending).kind = "install"
  /\ LET d == Head(pending)
         i == LowerBound(packages, d.name)
     IN  IF PresentAt(packages, i, d.name) THEN Throw
         ELSE Applied(InsertAt(packages, i, d.proposed))

\* Replace and remove demand the very package the delta expects.
ExpectedAt(i, d) ==
  PresentAt(packages, i, d.name) /\ PackageIdentity(packages[i]) = d.expected

ApplyReplace ==
  /\ phase = "apply" /\ pending # <<>> /\ Head(pending).kind = "replace"
  /\ LET d == Head(pending)
         i == LowerBound(packages, d.name)
     IN  IF ExpectedAt(i, d) THEN Applied([packages EXCEPT ![i] = d.proposed])
         ELSE Throw

\* Mutant: a removed package is found but not erased.
RemoveKeeps ==
  /\ phase = "apply" /\ pending # <<>> /\ Head(pending).kind = "remove"
  /\ LET d == Head(pending)
         i == LowerBound(packages, d.name)
     IN  IF ExpectedAt(i, d) THEN Applied(packages) ELSE Throw

ApplyRemove ==
  /\ phase = "apply" /\ pending # <<>> /\ Head(pending).kind = "remove"
  /\ LET d == Head(pending)
         i == LowerBound(packages, d.name)
     IN  IF ExpectedAt(i, d) THEN Applied(RemoveAt(packages, i)) ELSE Throw

AllApplied ==
  /\ phase = "apply" /\ pending = <<>>
  /\ phase' = "sort"
  /\ UNCHANGED <<call, packages, pending, index, owners>>

-----------------------------------------------------------------------------
(* snapshot::make *)

Rearrangements(v) == {[i \in DOMAIN v |-> v[f[i]]] :
                       f \in {g \in [DOMAIN v -> DOMAIN v] : IsInjective(g)}}

\* Mutant: the vector is taken to be sorted already.
SortTrusted ==
  /\ phase = "sort"
  /\ phase' = "index"
  /\ UNCHANGED <<call, packages, pending, index, owners>>

\* std::sort is not stable: equal names may come out in any order.
Sort ==
  /\ phase = "sort"
  /\ packages' \in {v \in Rearrangements(packages) : Sorted(v)}
  /\ phase' = "index"
  /\ UNCHANGED <<call, pending, index, owners>>

\* Mutant: a repeated name is not looked for.
IndexableOfAnyName(i) == packages[i].target = call.target

\* One package of the loop: its target, the name before it, then its manifest.
Indexable(i) ==
  /\ packages[i].target = call.target
  /\ i > 1 => packages[i - 1].name # packages[i].name

\* Mutant: the positions are one too small.
IndexFromZero ==
  /\ phase = "index" /\ index < Len(packages)
  /\ LET i == index + 1 IN
     \/ ~Indexable(i) /\ Throw
     \/ /\ Indexable(i)
        /\ owners' = [path \in Paths |->
                        IF path \in packages[i].manifest
                        THEN Append(owners[path], index) ELSE owners[path]]
        /\ index' = i
        /\ UNCHANGED <<call, phase, packages, pending>>

Index ==
  /\ phase = "index" /\ index < Len(packages)
  /\ LET i == index + 1 IN
     \/ ~Indexable(i) /\ Throw
     \/ /\ Indexable(i)
        /\ owners' = [path \in Paths |->
                        IF path \in packages[i].manifest
                        THEN Append(owners[path], i) ELSE owners[path]]
        /\ index' = i
        /\ UNCHANGED <<call, phase, packages, pending>>

\* identify_ownership refuses two claims of one package on a path.
Claims(path) == [k \in DOMAIN owners[path] |-> PackageIdentity(packages[owners[path][k]])]

Identify ==
  /\ phase = "index" /\ index = Len(packages)
  /\ phase' = IF \A path \in Paths : IsInjective(Claims(path))
              THEN "made" ELSE "thrown"
  /\ UNCHANGED <<call, packages, pending, index, owners>>

\* The call has returned or thrown.
Done ==
  /\ phase \in {"made", "thrown"}
  /\ UNCHANGED vars

Next ==
  \/ Check \/ ApplyInstall \/ ApplyReplace \/ ApplyRemove \/ AllApplied
  \/ Sort \/ Index \/ Identify \/ Done

Spec == Init /\ [][Next]_vars

-----------------------------------------------------------------------------
(* Correctness *)

\* The vector holds installed packages only, and the index positions in it.
VectorTypeOK ==
  /\ phase \in {"check", "apply", "sort", "index", "made", "thrown"}
  /\ Range(packages) \subseteq Packages /\ index \in 0..Len(packages)
  /\ \A path \in Paths : Range(owners[path]) \subseteq 1..index

\* Each in-place edit leaves the vector fit for the next binary search.
SortedWhileEdited ==
  phase = "apply" => Sorted(packages)
    /\ \A i, j \in DOMAIN packages : packages[i].name = packages[j].name => i = j

\* A projection that returns holds exactly the packages the request's deltas
\* make of the prior ones.
EditsMakeTheProjection ==
  phase = "made" /\ call.request # None =>
    Range(packages) = ProjectedPackages(call.request, Prior)

\* Exceptions leave exactly for the arguments the sets refuse: a request admitted
\* for a snapshot is never refused by its projection, nor a snapshot by its sort.
RefusesExactly ==
  LET admitted == IF call.request = None
                  THEN SnapshotAdmitted(call.target, Range(call.input))
                         /\ IsInjective(call.input)
                  ELSE ProjectAdmitted(call.request, Prior)
  IN  (phase = "thrown" => ~admitted) /\ (phase = "made" => admitted)

\* In a complete snapshot, find_package and owners answer as a scan would: the
\* index lists, in their order, the positions in the sorted vector of exactly the
\* packages that own the path.
LookupsAnswerTheVector ==
  phase = "made" =>
    /\ \A name \in Names :
         Find(packages, name) = {p \in Range(packages) : p.name = name}
    /\ \A path \in Paths :
         /\ \A k, l \in DOMAIN owners[path] : k < l => owners[path][k] < owners[path][l]
         /\ Range(owners[path]) = {i \in DOMAIN packages : path \in packages[i].manifest}

===============================================================================
