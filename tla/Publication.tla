------------------------------ MODULE Publication ------------------------------
(***************************************************************************)
(* Package-state deltas, publication requests and their projection onto    *)
(* the snapshot they were made for.                                        *)
(*                                                                         *)
(* The library sorts every vector of deltas by package name and refuses a  *)
(* repeated name, so a request holds a name-unique SET of deltas; its      *)
(* input is still the caller's sequence.  SnapshotVector checks that the  *)
(* library's in-place edits of the sorted vector compute the set written   *)
(* here.                                                                   *)
(***************************************************************************)
EXTENDS InstalledState, Sequences, Functions

DeltaKinds == {"install", "replace", "remove"}

DeltaRecord ==
  [kind        : DeltaKinds,
   name        : Names,
   expected    : PackageIdentities \cup {None},
   proposed    : Packages \cup {None},
   plan        : Plans,
   application : Applications]

-----------------------------------------------------------------------------
(* package_state_delta: one predicate per factory, on the fields it is given *)

\* validate_receipt_evidence
ReceiptRetains(p, plan, application) ==
  p.plan = plan /\ p.application = application

InstallAdmitted(d) ==
  /\ d.kind = "install" /\ d.expected = None
  /\ d.proposed # None /\ d.name = d.proposed.name
  /\ ReceiptRetains(d.proposed, d.plan, d.application)

\* Mutant: a replacement by the very same package is let through.
UnchangedReplaceAdmitted(d) ==
  /\ d.kind = "replace" /\ d.expected # None
  /\ d.proposed # None /\ d.name = d.proposed.name
  /\ ReceiptRetains(d.proposed, d.plan, d.application)

ReplaceAdmitted(d) ==
  /\ d.kind = "replace" /\ d.expected # None
  /\ d.proposed # None /\ d.name = d.proposed.name
  /\ ReceiptRetains(d.proposed, d.plan, d.application)
  /\ d.expected # PackageIdentity(d.proposed)

RemoveAdmitted(d) ==
  /\ d.kind = "remove" /\ d.expected # None
  /\ d.proposed = None /\ d.name \in Names

\* The deltas a factory can return.
Deltas ==
  {d \in DeltaRecord :
     InstallAdmitted(d) \/ ReplaceAdmitted(d) \/ RemoveAdmitted(d)}

-----------------------------------------------------------------------------
(* state_publication_request::make *)

\* What install requires of the snapshot, and what replace and remove do.
PriorMatches(s, d) ==
  IF d.kind = "install"
  THEN FindPackage(s, d.name) = {}
  ELSE \E p \in FindPackage(s, d.name) : PackageIdentity(p) = d.expected

\* validate_against_snapshot
DeltaMatches(s, d) ==
  /\ PriorMatches(s, d)
  /\ d.proposed # None =>
       d.proposed.name = d.name /\ d.proposed.target = s.target

\* Mutant: the transaction evidence of proposed packages is not compared.
TransactionBlindAdmitted(s, deltas, transaction) ==
  /\ deltas # <<>>
  /\ \A i, j \in DOMAIN deltas : deltas[i].name = deltas[j].name => i = j
  /\ Len(deltas) > 1 => transaction # None
  /\ \A d \in Range(deltas) : DeltaMatches(s, d)

\* Mutant: a request may name a package twice.
RepeatedNameAdmitted(s, deltas, transaction) ==
  /\ deltas # <<>>
  /\ Len(deltas) > 1 => transaction # None
  /\ \A d \in Range(deltas) :
       /\ DeltaMatches(s, d)
       /\ d.proposed # None => d.proposed.transaction = transaction

RequestAdmitted(s, deltas, transaction) ==
  /\ deltas # <<>>
  /\ \A i, j \in DOMAIN deltas : deltas[i].name = deltas[j].name => i = j
  /\ Len(deltas) > 1 => transaction # None
  /\ \A d \in Range(deltas) :
       /\ DeltaMatches(s, d)
       /\ d.proposed # None => d.proposed.transaction = transaction

RequestMake(s, deltas, transaction) ==
  [expected    |-> SnapshotIdentity(s),
   target      |-> s.target,
   deltas      |-> Range(deltas),
   transaction |-> transaction]

NameUnique(deltas) ==
  \A d, e \in deltas : d.name = e.name => d = e

Requests ==
  {r \in [expected : SnapshotIdentities, target : Targets,
          deltas : SUBSET Deltas, transaction : OptionalTransaction] :
     NameUnique(r.deltas)}

\* The identity cites a proposed package by its identity.
DeltaFields(d) ==
  <<d.kind, d.name, d.plan, d.application, d.expected,
    IF d.proposed = None THEN None ELSE PackageIdentity(d.proposed)>>

RequestIdentities ==
  {"state-publication-request"} \X SnapshotIdentities \X Targets
    \X (SUBSET (DeltaKinds \X Names \X Plans \X Applications
                   \X (PackageIdentities \cup {None})
                   \X (PackageIdentities \cup {None})))
    \X OptionalTransaction

RequestIdentity(r) ==
  <<"state-publication-request", r.expected, r.target,
    {DeltaFields(d) : d \in r.deltas}, r.transaction>>

-----------------------------------------------------------------------------
(* project_publication_request *)

\* Mutant: a removed package is not erased.
ProjectionWithoutErase(r, s) ==
  {p \in s.packages :
     \A d \in r.deltas : d.name = p.name => d.kind = "remove"}
    \cup {d.proposed : d \in {e \in r.deltas : e.proposed # None}}

ProjectedPackages(r, s) ==
  {p \in s.packages : \A d \in r.deltas : d.name # p.name}
    \cup {d.proposed : d \in {e \in r.deltas : e.proposed # None}}

ProjectAdmitted(r, s) ==
  /\ s.target = r.target
  /\ SnapshotIdentity(s) = r.expected
  /\ \A d \in r.deltas : PriorMatches(s, d)
  /\ SnapshotAdmitted(r.target, ProjectedPackages(r, s))

Project(r, s) == SnapshotMake(r.target, ProjectedPackages(r, s))

-----------------------------------------------------------------------------
(* What a request promises, name by name, without saying how *)

\* Snapshot t is what request r makes of snapshot s: every package it names is
\* the proposed one, or gone, and no other package changes.
Accomplishes(r, s, t) ==
  /\ SnapshotIdentity(s) = r.expected
  /\ t.target = s.target
  /\ \A name \in Names :
       FindPackage(t, name) =
         IF \E d \in r.deltas : d.name = name
         THEN {d.proposed : d \in {e \in r.deltas : e.name = name}} \ {None}
         ELSE FindPackage(s, name)

===============================================================================
