---------------------------- MODULE InstalledState ----------------------------
(***************************************************************************)
(* The immutable values libpkgstate owns and the identities it derives for *)
(* them: installed packages, ownership inventories and complete snapshots. *)
(*                                                                         *)
(* An identity is the SHA-256 of a domain-separated canonical record.  It  *)
(* is modelled by the record that is hashed, a tuple headed by its domain: *)
(* two identities are equal exactly when the hashed records are, which is  *)
(* what the library assumes of SHA-256.  External identities (targets,     *)
(* plans, evidence) are opaque values, as they are in the code.            *)
(***************************************************************************)
CONSTANTS
  Names,         \* package names
  Targets,       \* state target bindings
  Paths,         \* normalized package paths
  Controls,      \* the rest of an installed control: source, reason, build
  Plans,         \* operation-plan identities
  Applications,  \* application-evidence identities
  Transactions,  \* transaction-evidence identities
  Packages,      \* the installed packages that callers hold
  None           \* an absent optional

OptionalTransaction == Transactions \cup {None}

\* An installed_package is its installation receipt: the control, the target
\* it was admitted for, the ownership manifest (path-unique, so a set of
\* paths), and the plan, application and optional transaction evidence.
PackageRecord ==
  [name        : Names,
   control     : Controls,
   target      : Targets,
   manifest    : SUBSET Paths,
   plan        : Plans,
   application : Applications,
   transaction : OptionalTransaction]

ASSUME PackagesAssumption == Packages \subseteq PackageRecord
ASSUME NoneAssumption ==
  None \notin Packages /\ None \notin Transactions

-----------------------------------------------------------------------------
(* Identities *)

\* installed_control: the release name enters through the source record.
ControlIdentity(p) == <<"installed-control", p.name, p.control>>

ReceiptIdentity(p) ==
  <<"installation-receipt", ControlIdentity(p), p.target, p.manifest,
    p.plan, p.application, p.transaction>>

PackageIdentity(p) == <<"installed-package", ReceiptIdentity(p)>>

PackageIdentities == {PackageIdentity(p) : p \in Packages}

OwnersOf(packages, path) == {p \in packages : path \in p.manifest}

OwnedPaths(packages) == UNION {p.manifest : p \in packages}

\* The inventory lists, path by path, the identities of the owners.
OwnershipIdentity(packages) ==
  <<"ownership-inventory",
    {<<path, {PackageIdentity(p) : p \in OwnersOf(packages, path)}>> :
        path \in OwnedPaths(packages)}>>

SnapshotIdentity(s) ==
  <<"installed-state-snapshot", s.target,
    {PackageIdentity(p) : p \in s.packages}, OwnershipIdentity(s.packages)>>

-----------------------------------------------------------------------------
(* Snapshots *)

\* A vector sorted by name without duplicate names is a name-unique set.
SnapshotRecord == [target : Targets, packages : SUBSET Packages]

SnapshotIdentities == {SnapshotIdentity(s) : s \in SnapshotRecord}

\* snapshot::make refuses a package of another target and a repeated name.
SnapshotAdmitted(target, packages) ==
  /\ \A p \in packages : p.target = target
  /\ \A p, q \in packages : p.name = q.name => p = q

SnapshotMake(target, packages) == [target |-> target, packages |-> packages]

Snapshots ==
  {s \in SnapshotRecord : SnapshotAdmitted(s.target, s.packages)}

\* find_package: at most one element in an admitted snapshot.
FindPackage(s, name) == {p \in s.packages : p.name = name}

===============================================================================
