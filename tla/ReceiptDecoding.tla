---------------------------- MODULE ReceiptDecoding ----------------------------
(***************************************************************************)
(* encode_state_publication_receipt and, step by step, its inverse.        *)
(*                                                                         *)
(* A controller that persisted a receipt decodes it after a restart, with  *)
(* the request it retained and the prior snapshot it believes in.  What it *)
(* reads may be torn, belong to another call, or have been written by      *)
(* somebody else.                                                          *)
(***************************************************************************)
EXTENDS EvidenceRecord

CONSTANT Cases   \* what is decoded: [encoding, request, prior, written]

VARIABLES
  encoding, request, prior,  \* the arguments
  written,                   \* history: the receipt encoding encodes, or None
  phase,
  position,                  \* the reader's cursor
  fields,                    \* the locals by name, None until read
  evidence, left,            \* the evidence loop
  result,                    \* the reconstructed receipt
  code                       \* the error raised, or None

arguments == <<encoding, request, prior, written>>
vars == <<arguments, phase, position, fields, evidence, left, result, code>>

-----------------------------------------------------------------------------
(* encode_state_publication_receipt *)

ByteRank(e) == CHOOSE i \in DOMAIN EvidenceOrder : EvidenceOrder[i] = e

\* The evidence of S in byte order: before the i-th of it come i - 1 others.
InByteOrder(S) ==
  [i \in 1..Cardinality(S) |->
     CHOOSE e \in S : Cardinality({d \in S : ByteRank(d) < ByteRank(e)}) = i - 1]

ReceiptVersion == 1

ReceiptBody(rc) ==
  <<Magic("receipt"), U16(ReceiptVersion),
    Digest(PublicationReceiptIdentity(rc)),
    Digest(rc.request),
    Digest(rc.expected), Digest(rc.actualPrior),
    Digest(rc.target),
    Text(rc.format),
    U8(Encode(OutcomeCodes, rc.outcome)),
    U8(Encode(DurabilityCodes, rc.durability)),
    U8(Encode(AtomicityCodes, rc.atomicity))>>
  \o Optional(rc.resulting, Digest(rc.resulting))
  \o <<U64(Cardinality(rc.evidence))>>
  \o [i \in 1..Cardinality(rc.evidence) |->
        Digest(InByteOrder(rc.evidence)[i])]

EncodeReceipt(rc) == Seal(ReceiptBody(rc))

-----------------------------------------------------------------------------
(* decode_state_publication_receipt *)

Body == Front(encoding)

\* Mutant: durability and atomicity are read in the other order.
LayoutSwapped ==
  <<[name |-> "identity",    shape |-> <<"bytes", "digest">>, codes |-> <<>>],
    [name |-> "request",     shape |-> <<"bytes", "digest">>, codes |-> <<>>],
    [name |-> "expected",    shape |-> <<"bytes", "digest">>, codes |-> <<>>],
    [name |-> "actualPrior", shape |-> <<"bytes", "digest">>, codes |-> <<>>],
    [name |-> "target",      shape |-> <<"bytes", "digest">>, codes |-> <<>>],
    [name |-> "format",      shape |-> <<"bytes", "text">>, codes |-> <<>>],
    [name |-> "outcome",     shape |-> <<"u8">>, codes |-> OutcomeCodes],
    [name |-> "atomicity",   shape |-> <<"u8">>, codes |-> AtomicityCodes],
    [name |-> "durability",  shape |-> <<"u8">>, codes |-> DurabilityCodes],
    [name |-> "present",     shape |-> <<"u8">>, codes |-> <<>>]>>

\* The fixed fields in wire order: the local they fill, their shape, and the
\* enumeration they are a code of.
Layout ==
  <<[name |-> "identity",    shape |-> <<"bytes", "digest">>, codes |-> <<>>],
    [name |-> "request",     shape |-> <<"bytes", "digest">>, codes |-> <<>>],
    [name |-> "expected",    shape |-> <<"bytes", "digest">>, codes |-> <<>>],
    [name |-> "actualPrior", shape |-> <<"bytes", "digest">>, codes |-> <<>>],
    [name |-> "target",      shape |-> <<"bytes", "digest">>, codes |-> <<>>],
    [name |-> "format",      shape |-> <<"bytes", "text">>, codes |-> <<>>],
    [name |-> "outcome",     shape |-> <<"u8">>, codes |-> OutcomeCodes],
    [name |-> "durability",  shape |-> <<"u8">>, codes |-> DurabilityCodes],
    [name |-> "atomicity",   shape |-> <<"u8">>, codes |-> AtomicityCodes],
    [name |-> "present",     shape |-> <<"u8">>, codes |-> <<>>]>>

\* 64 MiB of receipt hold fewer digests than the reader's bound on a collection.
ASSUME ReceiptBound == MaxRecord <= MaxCount

\* What is written is what the encoder returned for a receipt.  A digest carries no
\* domain: any that stands where evidence is read is an evidence identity.
ASSUME CasesAssumption ==
  \A case \in Cases :
    /\ case.request \in Requests /\ case.prior \in Snapshots
    /\ case.written # None =>
         /\ case.written \in ReceiptRecord
         /\ Sealable(ReceiptBody(case.written))
         /\ case.encoding = EncodeReceipt(case.written)
    /\ case.encoding \in Seq(Range(case.encoding))
    /\ \A i \in DOMAIN case.encoding :
         /\ Token(case.encoding[i], Seq(FormatBytes))
         /\ i > Len(Layout) + 3 /\ IsPrefix(<<"bytes", "digest">>, case.encoding[i]) =>
              Last(case.encoding[i]) \in Evidence

Field(i) == Layout[i - 2]

FieldNames == {Layout[i].name : i \in DOMAIN Layout} \cup {"resulting"}

\* What reading the fixed field at position i raises, and what it yields.
FieldError(i) ==
  IF Field(i).name = "present" THEN BooleanError(Body, i)
  ELSE IF Field(i).codes # <<>> THEN CodeError(Body, i, Field(i).codes)
  ELSE TokenError(Body, i, Field(i).shape)

FieldValue(i) ==
  IF Field(i).name = "present" THEN IsTrue(Body, i)
  ELSE IF Field(i).codes # <<>> THEN Field(i).codes[ValueAt(Body, i)]
  ELSE ValueAt(Body, i)

Init ==
  /\ \E case \in Cases :
       /\ encoding = case.encoding /\ written = case.written
       /\ request = case.request /\ prior = case.prior
  /\ phase = "verify" /\ position = 1
  /\ fields = [name \in FieldNames |-> None] /\ evidence = <<>> /\ left = 0
  /\ result = None /\ code = None

\* Raise the error, or do the step.
Fail(error) ==
  /\ code' = error /\ phase' = "failed"
  /\ UNCHANGED <<arguments, position, fields, evidence, left, result>>

Verify ==
  /\ phase = "verify"
  /\ \/ VerifyError(encoding) # None /\ Fail(VerifyError(encoding))
     \/ /\ VerifyError(encoding) = None
        /\ phase' = "prefix"
        /\ UNCHANGED <<arguments, position, fields, evidence, left, result, code>>

ReadPrefix ==
  LET error == PrefixError(Body, "receipt", ReceiptVersion) IN
  /\ phase = "prefix"
  /\ \/ error # None /\ Fail(error)
     \/ /\ error = None
        /\ phase' = "fields" /\ position' = 3
        /\ UNCHANGED <<arguments, fields, evidence, left, result, code>>

ReadField ==
  LET name  == Field(position).name
      error == FieldError(position)
  IN
  /\ phase = "fields"
  /\ \/ error # None /\ Fail(error)
     \/ /\ error = None
        /\ fields' = [fields EXCEPT ![name] = FieldValue(position)]
        /\ position' = position + 1
        /\ phase' = IF name = "target" THEN "authority"
                    ELSE IF name = "present" THEN "resulting" ELSE "fields"
        /\ UNCHANGED <<arguments, evidence, left, result, code>>

\* Mutant: the request a receipt belongs to is not compared.
AuthorityWithoutRequest ==
  IF \/ fields.actualPrior # SnapshotIdentity(prior)
     \/ fields.target # request.target \/ prior.target # request.target
  THEN "actual_prior_mismatch" ELSE None

AuthorityError ==
  IF \/ fields.request # RequestIdentity(request)
     \/ fields.expected # request.expected
  THEN "request_mismatch"
  ELSE IF \/ fields.actualPrior # SnapshotIdentity(prior)
          \/ fields.target # request.target \/ prior.target # request.target
  THEN "actual_prior_mismatch" ELSE None

CheckAuthority ==
  /\ phase = "authority"
  /\ \/ AuthorityError # None /\ Fail(AuthorityError)
     \/ /\ AuthorityError = None
        /\ phase' = "fields"
        /\ UNCHANGED <<arguments, position, fields, evidence, left, result, code>>

ReadResulting ==
  LET error == IF fields.present
               THEN TokenError(Body, position, <<"bytes", "digest">>) ELSE None
  IN
  /\ phase = "resulting"
  /\ \/ error # None /\ Fail(error)
     \/ /\ error = None
        /\ fields' = [fields EXCEPT !.resulting =
                        IF fields.present THEN ValueAt(Body, position) ELSE None]
        /\ position' = IF fields.present THEN position + 1 ELSE position
        /\ phase' = "count"
        /\ UNCHANGED <<arguments, evidence, left, result, code>>

ReadCount ==
  LET error == CountError(Body, position) IN
  /\ phase = "count"
  /\ \/ error # None /\ Fail(error)
     \/ /\ error = None
        /\ left' = ValueAt(Body, position) /\ position' = position + 1
        /\ phase' = "evidence"
        /\ UNCHANGED <<arguments, fields, evidence, result, code>>

ReadEvidence ==
  LET error == TokenError(Body, position, <<"bytes", "digest">>) IN
  /\ phase = "evidence" /\ left > 0
  /\ \/ error # None /\ Fail(error)
     \/ /\ error = None
        /\ evidence' = Append(evidence, ValueAt(Body, position))
        /\ position' = position + 1 /\ left' = left - 1
        /\ UNCHANGED <<arguments, phase, fields, result, code>>

Finish ==
  LET error == FinishError(Body, position) IN
  /\ phase = "evidence" /\ left = 0
  /\ \/ error # None /\ Fail(error)
     \/ /\ error = None
        /\ phase' = "rebuild"
        /\ UNCHANGED <<arguments, position, fields, evidence, left, result, code>>

\* What each outcome demands of the fields beside it.
FieldsAgree ==
  /\ fields.durability = DurabilityOf(fields.outcome)
  /\ fields.atomicity = "none" <=> fields.outcome \notin Attempted
  /\ fields.outcome \notin Attempted => fields.resulting = None

\* require_projected, and the check of the indeterminate factory.
ResultingAgrees ==
  IF fields.resulting = None
  THEN fields.outcome \notin {"published", "published_durability_unconfirmed"}
  ELSE /\ ProjectAdmitted(request, prior)
       /\ fields.resulting = SnapshotIdentity(Project(request, prior))

\* Mutant: the factories of the decoded receipt accept any prior snapshot.
RebuildableForAnyPrior ==
  /\ FieldsAgree /\ ResultingAgrees
  /\ ReceiptFormatAdmitted(fields.format) /\ EvidenceAdmitted(evidence)

\* The receipt factory for the decoded outcome returns.
Rebuildable ==
  /\ FieldsAgree /\ ResultingAgrees
  /\ IF fields.outcome = "stale_expected_state"
     THEN RequireStale(request, prior) ELSE RequireCurrent(request, prior)
  /\ ReceiptFormatAdmitted(fields.format) /\ EvidenceAdmitted(evidence)

Rebuild ==
  /\ phase = "rebuild"
  /\ \/ ~Rebuildable /\ Fail("invalid_value")
     \/ /\ Rebuildable
        /\ result' = ReceiptMake(request, prior, fields.format, fields.outcome,
                                 fields.atomicity, fields.resulting, evidence)
        /\ phase' = "confirm"
        /\ UNCHANGED <<arguments, position, fields, evidence, left, code>>

\* Mutant: the encoding is not compared with the encoding of the result.
ConfirmIdentityOnly ==
  IF PublicationReceiptIdentity(result) # fields.identity
  THEN "identity_mismatch" ELSE None

\* The identity, then require_canonical_receipt.
ConfirmError ==
  IF PublicationReceiptIdentity(result) # fields.identity THEN "identity_mismatch"
  ELSE IF EncodeReceipt(result) # encoding THEN "invalid_value"
  ELSE None

Confirm ==
  /\ phase = "confirm"
  /\ \/ ConfirmError # None /\ Fail(ConfirmError)
     \/ /\ ConfirmError = None
        /\ phase' = "accepted"
        /\ UNCHANGED <<arguments, position, fields, evidence, left, result, code>>

\* The call has returned or thrown.
Done ==
  /\ phase \in {"accepted", "failed"}
  /\ UNCHANGED vars

Next ==
  \/ Verify \/ ReadPrefix \/ ReadField \/ CheckAuthority \/ ReadResulting
  \/ ReadCount \/ ReadEvidence \/ Finish \/ Rebuild \/ Confirm \/ Done

Spec == Init /\ [][Next]_vars

-----------------------------------------------------------------------------
(* Correctness *)

Phases ==
  {"verify", "prefix", "fields", "authority", "resulting", "count", "evidence",
   "rebuild", "confirm", "accepted", "failed"}

\* The cursor stays in the record, what the loop may reserve is bounded, a code is
\* raised exactly on failure and what is accepted is a receipt.
DecoderTypeOK ==
  /\ phase \in Phases /\ position \in 1..(Len(encoding) + 1)
  /\ left \in 0..MaxCount /\ Len(evidence) <= MaxCount
  /\ code \in ErrorCodes \cup {None} /\ (code # None <=> phase = "failed")
  /\ phase = "accepted" => result \in ReceiptRecord

\* The receipts that canonical_store or a receipt factory can have returned for
\* the request and the prior snapshot.
CouldBeIssued(rc, r, s) ==
  LET b == [outcome     |-> rc.outcome,
            atomicity   |-> rc.atomicity,
            established |-> rc.resulting # None,
            evidence    |-> InByteOrder(rc.evidence)]
  IN
  \/ /\ RequireStale(r, s) /\ ReceiptFormatAdmitted(rc.format)
     /\ rc = [StaleReceipt(r, s, rc.format) EXCEPT !.evidence = rc.evidence]
  \/ /\ rc.outcome \in BackendOutcomes /\ BackendResultAdmitted(b)
     /\ ReceiptAdmitted(r, s, Project(r, s), rc.format, b)
     /\ rc = ReceiptOf(r, s, Project(r, s), rc.format, b)

\* Recovery never reports more than the store did: an accepted record is the
\* one encoding of a receipt that could have been issued for exactly this request
\* and this prior snapshot, whoever wrote the record.
OnlyIssuableAccepted ==
  phase = "accepted" =>
    CouldBeIssued(result, request, prior) /\ encoding = EncodeReceipt(result)

\* The encoding of a receipt issued for this request and this prior snapshot is
\* never refused and gives the same receipt back.
RoundTrip ==
  written # None /\ CouldBeIssued(written, request, prior) =>
    phase # "failed" /\ (phase = "accepted" => result = written)

\* An intact receipt of another request is refused by that name, before anything
\* else in it can be; so is, next, one of another actual prior snapshot.
MisfiledIsNamed ==
  phase = "failed" /\ written # None =>
    /\ written.request # RequestIdentity(request) => code = "request_mismatch"
    /\ written.request = RequestIdentity(request)
         /\ written.expected = request.expected
         /\ written.actualPrior # SnapshotIdentity(prior)
       => code = "actual_prior_mismatch"

\* "Input exceeds the documented byte ceiling", says the header of the code.
LimitMeansOversize ==
  code = "limit_exceeded" => Len(encoding) > MaxRecord

===============================================================================
