---------------------------- MODULE RequestDecoding ----------------------------
(***************************************************************************)
(* encode_state_publication_request and, step by step, its inverse: a      *)
(* controller that persisted a request rebuilds it under the snapshot it   *)
(* retained, delta by delta through the public factories.                  *)
(***************************************************************************)
EXTENDS EvidenceRecord

CONSTANT Cases   \* what is decoded: [encoding, snapshot, written]

VARIABLES
  encoding, snapshot,   \* the arguments
  written,              \* history: the request encoding encodes, or None
  phase,
  position,             \* the reader's cursor
  fields,               \* the locals by name, None until read
  draft,                \* the locals of the delta being read, alike
  deltas, left,         \* the delta loop
  result,               \* the reconstructed request
  code                  \* the error raised, or None

arguments == <<encoding, snapshot, written>>
vars == <<arguments, phase, position, fields, draft, deltas, left, result, code>>

-----------------------------------------------------------------------------
(* encode_state_publication_request *)

RequestVersion == 1

NameRank(name) == CHOOSE i \in DOMAIN NameOrder : NameOrder[i] = name

\* The sorted vector of a name-unique set of deltas: before the i-th come i - 1.
InNameOrder(ds) ==
  [i \in 1..Cardinality(ds) |->
     CHOOSE d \in ds :
       Cardinality({e \in ds : NameRank(e.name) < NameRank(d.name)}) = i - 1]

\* encode_proposed_package: a snapshot of the package alone.
PackageBody(p) == Record(SnapshotMake(p.target, {p}))

\* Mutant: only a replacement records the package it expects.
DeltaBodyReplaceOnly(d) ==
  <<U8(Encode(DeltaKindCodes, d.kind)), Text(d.name),
    Digest(d.plan), Digest(d.application)>>
  \o (IF d.kind = "replace" THEN Optional(d.expected, Digest(d.expected))
      ELSE <<Boolean(FALSE)>>)
  \o Optional(d.proposed, PackageBody(d.proposed))

DeltaBody(d) ==
  <<U8(Encode(DeltaKindCodes, d.kind)), Text(d.name),
    Digest(d.plan), Digest(d.application)>>
  \o Optional(d.expected, Digest(d.expected))
  \o Optional(d.proposed, PackageBody(d.proposed))

Header(r) ==
  <<Magic("request"), U16(RequestVersion),
    Digest(RequestIdentity(r)),
    Digest(r.expected), Digest(r.target),
    U64(Cardinality(r.deltas))>>

\* The writer after the header and the first k deltas.
Output(r) ==
  LET output[k \in 0..Cardinality(r.deltas)] ==
        IF k = 0 THEN Header(r)
        ELSE output[k - 1] \o DeltaBody(InNameOrder(r.deltas)[k])
  IN  output

RequestBody(r) ==
  Output(r)[Cardinality(r.deltas)] \o Optional(r.transaction, Digest(r.transaction))

EncodeRequest(r) == Seal(RequestBody(r))

-----------------------------------------------------------------------------
(* decode_state_publication_request *)

\* The deltas ds, in some order, make request r against snapshot s.
Makeable(r, s) ==
  \E ds \in SetToSeqs(r.deltas) :
    RequestAdmitted(s, ds, r.transaction) /\ r = RequestMake(s, ds, r.transaction)

\* What is written is what the encoder returned for a request that was made.  A
\* proposed package is a generation record, and a digest carries no domain: any
\* that stands behind the header is plan, application or transaction evidence.
ASSUME CasesAssumption ==
  \A case \in Cases :
    /\ case.snapshot \in Snapshots
    /\ case.written # None =>
         /\ case.written \in Requests /\ \E s \in Snapshots : Makeable(case.written, s)
         /\ Sealable(RequestBody(case.written))
         /\ case.encoding = EncodeRequest(case.written)
    /\ case.encoding \in Seq(Range(case.encoding))
    /\ \A i \in DOMAIN case.encoding :
         /\ Token(case.encoding[i], Names)
         /\ IsPrefix(<<"bytes", "record">>, case.encoding[i]) =>
              Last(case.encoding[i]) \in Snapshots
         /\ i > 6 /\ IsPrefix(<<"bytes", "digest">>, case.encoding[i]) =>
              Last(case.encoding[i]) \in Plans \cap Applications \cap Transactions

FieldNames == {"identity", "expected", "target", "transaction"}

DraftNames == {"kind", "name", "plan", "application", "expected", "proposed"}

NoDraft == [name \in DraftNames |-> None]

Body == Front(encoding)

Init ==
  /\ \E case \in Cases :
       /\ encoding = case.encoding /\ snapshot = case.snapshot
       /\ written = case.written
  /\ phase = "verify" /\ position = 1
  /\ fields = [name \in FieldNames |-> None] /\ draft = NoDraft
  /\ deltas = <<>> /\ left = 0
  /\ result = None /\ code = None

Fail(error) ==
  /\ code' = error /\ phase' = "failed"
  /\ UNCHANGED <<arguments, position, fields, draft, deltas, left, result>>

Verify ==
  /\ phase = "verify"
  /\ \/ VerifyError(encoding) # None /\ Fail(VerifyError(encoding))
     \/ /\ VerifyError(encoding) = None
        /\ phase' = "prefix"
        /\ UNCHANGED <<arguments, position, fields, draft, deltas, left, result, code>>

ReadPrefix ==
  LET error == PrefixError(Body, "request", RequestVersion) IN
  /\ phase = "prefix"
  /\ \/ error # None /\ Fail(error)
     \/ /\ error = None
        /\ phase' = "identity" /\ position' = 3
        /\ UNCHANGED <<arguments, fields, draft, deltas, left, result, code>>

\* The three digests of the header, by the phase that reads them.
AfterField == [identity |-> "expected", expected |-> "target", target |-> "authority"]

ReadIdentity ==
  LET error == TokenError(Body, position, <<"bytes", "digest">>) IN
  /\ phase \in {"identity", "expected", "target"}
  /\ \/ error # None /\ Fail(error)
     \/ /\ error = None
        /\ fields' = [fields EXCEPT ![phase] = ValueAt(Body, position)]
        /\ position' = position + 1
        /\ phase' = AfterField[phase]
        /\ UNCHANGED <<arguments, draft, deltas, left, result, code>>

\* Mutant: the record may belong to another snapshot of the target.
AuthorityTargetOnly ==
  IF fields.target # snapshot.target THEN "expected_snapshot_mismatch" ELSE None

AuthorityError ==
  IF \/ fields.expected # SnapshotIdentity(snapshot)
     \/ fields.target # snapshot.target
  THEN "expected_snapshot_mismatch" ELSE None

CheckAuthority ==
  /\ phase = "authority"
  /\ \/ AuthorityError # None /\ Fail(AuthorityError)
     \/ /\ AuthorityError = None
        /\ phase' = "count"
        /\ UNCHANGED <<arguments, position, fields, draft, deltas, left, result, code>>

ReadCount ==
  LET error == CountError(Body, position) IN
  /\ phase = "count"
  /\ \/ error # None /\ Fail(error)
     \/ /\ error = None
        /\ left' = ValueAt(Body, position) /\ position' = position + 1
        /\ phase' = "kind"
        /\ UNCHANGED <<arguments, fields, draft, deltas, result, code>>

\* The plain fields of a delta, by the phase that reads them: each fills the local
\* of its name and hands over to the next.
AfterDraft ==
  [kind |-> "name", name |-> "plan", plan |-> "application",
   application |-> "expected_package"]

DeltaFieldError ==
  CASE phase = "kind" -> CodeError(Body, position, DeltaKindCodes)
    [] phase = "name" -> TokenError(Body, position, <<"bytes", "text">>)
    [] OTHER -> TokenError(Body, position, <<"bytes", "digest">>)

DeltaFieldValue ==
  IF phase = "kind" THEN DeltaKindCodes[ValueAt(Body, position)] ELSE ValueAt(Body, position)

ReadDeltaField ==
  /\ phase \in {"kind", "name", "plan", "application"} /\ left > 0
  /\ \/ DeltaFieldError # None /\ Fail(DeltaFieldError)
     \/ /\ DeltaFieldError = None
        /\ draft' = [draft EXCEPT ![phase] = DeltaFieldValue]
        /\ position' = position + 1
        /\ phase' = AfterDraft[phase]
        /\ UNCHANGED <<arguments, fields, deltas, left, result, code>>

\* An optional: its presence, then the value.
OptionalError(shape) ==
  IF BooleanError(Body, position) # None THEN BooleanError(Body, position)
  ELSE IF IsTrue(Body, position) THEN TokenError(Body, position + 1, shape)
  ELSE None

OptionalPresent == IsTrue(Body, position)

OptionalValue == IF OptionalPresent THEN ValueAt(Body, position + 1) ELSE None

AfterOptional == IF OptionalPresent THEN position + 2 ELSE position + 1

ReadExpectedPackage ==
  LET error == OptionalError(<<"bytes", "digest">>) IN
  /\ phase = "expected_package"
  /\ \/ error # None /\ Fail(error)
     \/ /\ error = None
        /\ draft' = [draft EXCEPT !.expected = OptionalValue]
        /\ position' = AfterOptional
        /\ phase' = "proposed_package"
        /\ UNCHANGED <<arguments, fields, deltas, left, result, code>>

\* decode_proposed_package: anything but a generation record is refused.
ProposedDecodes(token, name) ==
  LET s == Last(token) IN
  /\ token[2] = "record"
  /\ s.target = snapshot.target /\ Cardinality(s.packages) = 1
  /\ \A p \in s.packages : p.name = name

ReadProposedPackage ==
  LET error == OptionalError(<<"bytes">>)
      decodes == ProposedDecodes(Body[position + 1], draft.name)
  IN
  /\ phase = "proposed_package"
  /\ \/ error # None /\ Fail(error)
     \/ /\ error = None /\ OptionalPresent /\ ~decodes
        /\ Fail("invalid_value")
     \/ /\ error = None
        /\ OptionalPresent => decodes
        /\ draft' = [draft EXCEPT !.proposed =
             IF OptionalPresent THEN CHOOSE p \in OptionalValue.packages : TRUE ELSE None]
        /\ position' = AfterOptional
        /\ phase' = "build"
        /\ UNCHANGED <<arguments, fields, deltas, left, result, code>>

\* Install and replace take their name from the proposed package, remove the one
\* that was read.
Built ==
  [kind |-> draft.kind,
   name |-> IF draft.proposed = None THEN draft.name ELSE draft.proposed.name,
   expected |-> draft.expected, proposed |-> draft.proposed,
   plan |-> draft.plan, application |-> draft.application]

\* The shape checks and the factory of the kind.
BuildDelta ==
  /\ phase = "build"
  /\ \/ /\ ~(InstallAdmitted(Built) \/ ReplaceAdmitted(Built) \/ RemoveAdmitted(Built))
        /\ Fail("invalid_value")
     \/ /\ InstallAdmitted(Built) \/ ReplaceAdmitted(Built) \/ RemoveAdmitted(Built)
        /\ deltas' = Append(deltas, Built) /\ draft' = NoDraft
        /\ left' = left - 1 /\ phase' = "kind"
        /\ UNCHANGED <<arguments, position, fields, result, code>>

ReadTransaction ==
  LET error == OptionalError(<<"bytes", "digest">>) IN
  /\ phase = "kind" /\ left = 0
  /\ \/ error # None /\ Fail(error)
     \/ /\ error = None
        /\ fields' = [fields EXCEPT !.transaction = OptionalValue]
        /\ position' = AfterOptional
        /\ phase' = "finish"
        /\ UNCHANGED <<arguments, draft, deltas, left, result, code>>

Finish ==
  LET error == FinishError(Body, position) IN
  /\ phase = "finish"
  /\ \/ error # None /\ Fail(error)
     \/ /\ error = None
        /\ phase' = "rebuild"
        /\ UNCHANGED <<arguments, position, fields, draft, deltas, left, result, code>>

Rebuild ==
  /\ phase = "rebuild"
  /\ \/ /\ ~RequestAdmitted(snapshot, deltas, fields.transaction)
        /\ Fail("invalid_value")
     \/ /\ RequestAdmitted(snapshot, deltas, fields.transaction)
        /\ result' = RequestMake(snapshot, deltas, fields.transaction)
        /\ phase' = "confirm"
        /\ UNCHANGED <<arguments, position, fields, draft, deltas, left, code>>

\* Mutant: the encoding is not compared with the encoding of the result.
ConfirmIdentityOnly ==
  IF RequestIdentity(result) # fields.identity THEN "identity_mismatch" ELSE None

\* The identity, then require_canonical_request.
ConfirmError ==
  IF RequestIdentity(result) # fields.identity THEN "identity_mismatch"
  ELSE IF EncodeRequest(result) # encoding THEN "invalid_value"
  ELSE None

Confirm ==
  /\ phase = "confirm"
  /\ \/ ConfirmError # None /\ Fail(ConfirmError)
     \/ /\ ConfirmError = None
        /\ phase' = "accepted"
        /\ UNCHANGED <<arguments, position, fields, draft, deltas, left, result, code>>

\* The call has returned or thrown.
Done ==
  /\ phase \in {"accepted", "failed"}
  /\ UNCHANGED vars

Next ==
  \/ Verify \/ ReadPrefix \/ ReadIdentity \/ CheckAuthority \/ ReadCount
  \/ ReadDeltaField \/ ReadExpectedPackage \/ ReadProposedPackage \/ BuildDelta
  \/ ReadTransaction \/ Finish \/ Rebuild \/ Confirm \/ Done

Spec == Init /\ [][Next]_vars

-----------------------------------------------------------------------------
(* Correctness *)

\* The cursor stays in the record, the loop within the bound of its count, every
\* delta that waits for the request proposes what its kind does, and what is
\* accepted is a request.
RequestDecoderTypeOK ==
  /\ position \in 1..(Len(encoding) + 1) /\ left \in 0..MaxCount
  /\ \A d \in Range(deltas) : d.proposed # None <=> d.kind # "remove"
  /\ code \in ErrorCodes \cup {None} /\ (code # None <=> phase = "failed")
  /\ phase = "accepted" => result \in Requests

\* Whatever was stored, a request comes back only when the client could have made
\* it against the retained snapshot, and only from the one record of it: two
\* records that differ never give the same request.
OnlyMakeableAccepted ==
  phase = "accepted" => Makeable(result, snapshot) /\ encoding = EncodeRequest(result)

\* A retained request decodes, under its own snapshot, to itself, as far as the
\* reader's bound on a collection admits its deltas.
RequestRoundTrip ==
  /\ written # None /\ written.expected = SnapshotIdentity(snapshot)
  /\ Cardinality(written.deltas) <= MaxCount
  =>
    phase # "failed" /\ (phase = "accepted" => result = written)

\* MIGRATION.md: controllers may persist the encoding of a request, and decode it
\* under the exact expected snapshot.  A record the encoder returned is not refused
\* for its size.
EncodedIsDecodable == written # None => code # "limit_exceeded"

\* Under any other snapshot the intact record of a request is refused as such,
\* even if the request would have been admitted there.
ForeignSnapshotIsNamed ==
  written # None /\ written.expected # SnapshotIdentity(snapshot) =>
    phase # "accepted" /\ code \in {None, "expected_snapshot_mismatch"}

===============================================================================
