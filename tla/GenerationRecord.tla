---------------------------- MODULE GenerationRecord ----------------------------
(***************************************************************************)
(* A complete installed-state snapshot in full detail: the checks of its   *)
(* factories, its identity, and the canonical generation record a store    *)
(* persists it as.                                                         *)
(*                                                                         *)
(* Values are records named after the accessors.  A record on disk is a    *)
(* sequence of tokens, one per writer call.  One digest stands for the     *)
(* five fields of a target binding, and one for the thirteen digests of a  *)
(* build other than its source record: all are opaque and handled alike.   *)
(***************************************************************************)
EXTENDS CanonicalText

CONSTANTS
  None,     \* an absent optional
  MaxI64    \* the largest signed integer

ASSUME MaxAssumption == MaxI64 \in Nat

MinI64 == -MaxI64 - 1

-----------------------------------------------------------------------------
(* What the factories require of the fields they are given *)

\* declaration_provenance
ProvenanceAdmitted(v) ==
  LineSafe(v.document) /\ LineSafe(v.path) /\ v.line # 0 /\ v.column # 0

ProvenanceKey(v) ==
  <<StringKey(v.document), StringKey(v.path), <<v.line>>, <<v.column>>>>

\* profile_expansion_step: the member is a package or a profile.
StepAdmitted(v) ==
  /\ ProfileAtom(v.profile)
  /\ \/ v.kind = 1 /\ PackageAtom(v.member)
     \/ v.kind = 2 /\ ProfileAtom(v.member)

StepKey(v) ==
  <<StringKey(v.profile), <<v.kind>>, StringKey(v.member)>> \o ProvenanceKey(v.provenance)

OriginKey(v) ==
  ProvenanceKey(v.declaration)
    \o FlattenSeq([i \in DOMAIN v.expansion |-> StepKey(v.expansion[i])])

\* package_requirement: some origin, none twice, expansions end at the package.
RequirementAdmitted(v) ==
  /\ PackageAtom(v.package)
  /\ v.origins # <<>> /\ DistinctBy(v.origins, OriginKey)
  /\ \A i \in DOMAIN v.origins : v.origins[i].expansion # <<>> =>
       LET leaf == Last(v.origins[i].expansion)
       IN  leaf.kind = 1 /\ leaf.member = v.package

PackageKey(v) == <<StringKey(v.package)>>

ProgramAdmitted(v) == v.action \in 1..4 /\ v.language = 1 /\ TextSafe(v.material)

ActionKey(v) == <<<<v.action>>>>

LifecycleAdmitted(v) == v.action \in 1..4

LifecycleKey(v) == <<<<v.action>>, StringKey(v.requirement.package)>>

ProfileAdmitted(v) ==
  /\ ProfileAtom(v.profile)
  /\ v.declarations # <<>> /\ DistinctBy(v.declarations, ProvenanceKey)

ProfileKey(v) == <<StringKey(v.profile)>>

TextKey(s) == <<StringKey(s)>>

\* architecture_binding: an empty declaration permits every architecture.
Permits(declared, selected) ==
  /\ \A i \in DOMAIN declared : PackageAtom(declared[i])
  /\ PackageAtom(selected) /\ DistinctBy(declared, TextKey)
  /\ declared # <<>> => selected \in ToSet(declared)

\* package_release, package_metadata, package_source_record
SourceAdmitted(v) ==
  /\ PackageAtom(v.name) /\ VersionSafe(v.version) /\ v.release # 0
  /\ LineSafe(v.summary)
  /\ v.description # None => TextSafe(v.description)
  /\ v.homepage # None => LineSafe(v.homepage)
  /\ v.licenses # <<>> /\ DistinctBy(v.licenses, TextKey)
  /\ \A i \in DOMAIN v.licenses : LineSafe(v.licenses[i])
  /\ DistinctBy(v.runtime, PackageKey) /\ DistinctBy(v.programs, ActionKey)
  /\ DistinctBy(v.lifecycle, LifecycleKey) /\ DistinctBy(v.profiles, ProfileKey)
  /\ Permits(v.declaredBuild, v.build) /\ Permits(v.declaredTarget, v.target)

SourceSorted(v) ==
  [v EXCEPT !.licenses = SortedBy(@, TextKey),
            !.runtime = SortedBy(@, PackageKey),
            !.programs = SortedBy(@, ActionKey),
            !.lifecycle = SortedBy(@, LifecycleKey),
            !.declaredBuild = SortedBy(@, TextKey),
            !.declaredTarget = SortedBy(@, TextKey),
            !.profiles = SortedBy(@, ProfileKey)]

SourceIdentity(v) == DigestText(<<"package-source-record", v>>)

\* installation_reason: exactly the payload of its kind.
ReasonAdmitted(v) ==
  /\ v.package # None => PackageAtom(v.package)
  /\ v.profile # None => ProfileAtom(v.profile.name)
  /\ v.package # None <=> v.kind = 2
  /\ v.profile # None <=> v.kind = 3
  /\ v.policy # None <=> v.kind = 4
  /\ v.policy # None => LineSafe(v.policy)
  /\ v.kind \in 1..4

\* installed_control: the build names the source record it was made from.
ControlAdmitted(v) ==
  ReasonAdmitted(v.reason) /\ v.sourceRecord = SourceIdentity(v.source)

\* Mutant: the kind does not decide which data the object has.
EntryOfAnyShape(v) ==
  /\ Parsable(v.path)
  /\ v.hardlink # None => Parsable(v.hardlink)
  /\ v.kind \in 1..8 /\ v.mode <= 4095 /\ v.nanoseconds < 1000000000
  /\ v.symlink # None => LineSafe(v.symlink)
  /\ v.origin \in 1..2
  /\ v.rejected # None => v.rejected.side \in 1..2

\* installed_object_timestamp, installed_object_metadata, owned_entry.  The
\* kinds are 1 regular, 3 symlink, 5 and 6 devices, and four others without data.
EntryAdmitted(v) ==
  /\ Parsable(v.path)
  /\ v.hardlink # None => Parsable(v.hardlink)
  /\ v.kind \in 1..8 /\ v.mode <= 4095 /\ v.nanoseconds < 1000000000
  /\ v.size # None <=> v.kind = 1
  /\ v.content # None <=> v.kind = 1
  /\ v.hardlink # None => v.kind = 1
  /\ v.symlink # None <=> v.kind = 3
  /\ v.symlink # None => LineSafe(v.symlink)
  /\ v.device # None <=> v.kind \in {5, 6}
  /\ v.origin \in 1..2
  /\ v.rejected # None => v.rejected.side \in 1..2

EntryNormal(v) ==
  [v EXCEPT !.path = Normalized(@),
            !.hardlink = IF @ = None THEN None ELSE Normalized(@)]

EntryKey(v) == <<StringKey(v.path)>>

\* installation_receipt
ReceiptAdmitted(v) == DistinctBy(v.manifest, EntryKey)

NameKey(v) == <<StringKey(v.control.source.name)>>

SnapshotAdmitted(v) == DistinctBy(v.packages, NameKey)

-----------------------------------------------------------------------------
(* Identities: the hashed records, each naming its parts by their identity *)

ControlIdentity(v) ==
  <<"installed-control", SourceIdentity(v.source), v.reason, v.sourceRecord, v.build>>

ReceiptIdentity(v, binding) ==
  <<"installation-receipt", ControlIdentity(v.control), binding, v.manifest,
    v.plan, v.application, v.transaction>>

PackageIdentity(v, binding) == <<"installed-package", ReceiptIdentity(v, binding)>>

OwnedPaths(v) == {e.path : e \in UNION {ToSet(r.manifest) : r \in ToSet(v.packages)}}

OwnershipIdentity(v) ==
  <<"ownership-inventory",
    {<<path, {PackageIdentity(r, v.binding) :
                r \in {q \in ToSet(v.packages) : \E e \in ToSet(q.manifest) : e.path = path}}>> :
       path \in OwnedPaths(v)}>>

SnapshotIdentity(v) ==
  <<"installed-state-snapshot", v.binding,
    [i \in DOMAIN v.packages |-> PackageIdentity(v.packages[i], v.binding)],
    OwnershipIdentity(v)>>

-----------------------------------------------------------------------------
(* writer *)

Magic(kind) == <<"raw", kind>>
U8(n) == <<"u8", n>>
U16(n) == <<"u16", n>>
U32(n) == <<"u32", n>>
U64(n) == <<"u64", n>>
Boolean(b) == U8(IF b THEN 1 ELSE 0)
Bytes(s) == <<"bytes", s>>

\* Sign and magnitude; the smallest integer is negated only after adding one.
I64(n) == <<Boolean(n < 0), U64(IF n < 0 THEN -(n + 1) + 1 ELSE n)>>

Optional(v, Encode(_)) ==
  IF v = None THEN <<Boolean(FALSE)>> ELSE <<Boolean(TRUE)>> \o Encode(v)

EncodeAll(seq, Encode(_)) ==
  <<U64(Len(seq))>> \o FlattenSeq([i \in DOMAIN seq |-> Encode(seq[i])])

EncodeText(s) == <<Bytes(s)>>

EncodeSize(n) == <<U64(n)>>

EncodeProvenance(v) ==
  <<Bytes(v.document), Bytes(v.path), U32(v.line), U32(v.column)>>

EncodeStep(v) ==
  <<Bytes(v.profile), U8(v.kind), Bytes(v.member)>> \o EncodeProvenance(v.provenance)

EncodeOrigin(v) == EncodeProvenance(v.declaration) \o EncodeAll(v.expansion, EncodeStep)

EncodeRequirement(v) == <<Bytes(v.package)>> \o EncodeAll(v.origins, EncodeOrigin)

EncodeProgram(v) == <<U8(v.action), U8(v.language), Bytes(v.material)>>

EncodeLifecycle(v) == <<U8(v.action)>> \o EncodeRequirement(v.requirement)

EncodeProfile(v) ==
  <<Bytes(v.profile), Bytes(v.identity)>> \o EncodeAll(v.declarations, EncodeProvenance)

EncodeSource(v) ==
  <<Bytes(v.identity), Bytes(v.name), Bytes(v.version), U32(v.release), Bytes(v.summary)>>
  \o Optional(v.description, EncodeText) \o Optional(v.homepage, EncodeText)
  \o EncodeAll(v.licenses, EncodeText) \o EncodeAll(v.runtime, EncodeRequirement)
  \o EncodeAll(v.programs, EncodeProgram) \o EncodeAll(v.lifecycle, EncodeLifecycle)
  \o EncodeAll(v.declaredBuild, EncodeText) \o EncodeAll(v.declaredTarget, EncodeText)
  \o <<Bytes(v.build), Bytes(v.target)>>
  \o EncodeAll(v.profiles, EncodeProfile) \o <<Bytes(v.snapshot)>>

EncodeIssuer(v) == <<Bytes(v.name), Bytes(v.identity)>>

EncodeControl(v) ==
  EncodeSource(v.source) \o <<U8(v.reason.kind)>>
  \o Optional(v.reason.package, EncodeText) \o Optional(v.reason.profile, EncodeIssuer)
  \o Optional(v.reason.policy, EncodeText)
  \o <<Bytes(v.sourceRecord), Bytes(v.build)>>

EncodeDevice(v) == <<U64(v.major), U64(v.minor)>>

EncodeRejected(v) == <<U8(v.side), Bytes(v.identity)>>

EncodeEntry(v) ==
  <<Bytes(v.path), U8(v.kind), U32(v.mode), U64(v.uid), U64(v.gid)>>
  \o I64(v.seconds) \o <<U32(v.nanoseconds)>>
  \o Optional(v.size, EncodeSize) \o Optional(v.content, EncodeText)
  \o Optional(v.symlink, EncodeText) \o Optional(v.device, EncodeDevice)
  \o Optional(v.hardlink, EncodeText)
  \o <<U8(v.origin)>> \o Optional(v.rejected, EncodeRejected)

EncodeReceipt(v) ==
  <<U16(1)>> \o EncodeControl(v.control) \o EncodeAll(v.manifest, EncodeEntry)
  \o <<Bytes(v.plan), Bytes(v.application)>> \o Optional(v.transaction, EncodeText)

EncodeSnapshot(v) ==
  <<Magic("snapshot"), U16(1), U16(1), Bytes(v.binding)>>
  \o EncodeAll(v.packages, EncodeReceipt)

===============================================================================
