-------------------------- MODULE PublicationReceipt --------------------------
(***************************************************************************)
(* What a storage backend may report of one publication attempt, and the   *)
(* typed receipt the library builds from it.  Both sides validate: the     *)
(* store before it lets the backend publish, the receipt factories after.  *)
(***************************************************************************)
EXTENDS Publication

CONSTANT Evidence   \* subordinate backend evidence identities

Boundaries == {"complete_state_object_replace", "immutable_generation_selection"}

BackendOutcomes ==
  {"published", "request_rejected", "failed_before_publication",
   "published_durability_unconfirmed", "indeterminate"}

Outcomes == BackendOutcomes \cup {"stale_expected_state"}

\* The outcomes after which the backend may have changed the visible state.
Attempted ==
  {"published", "published_durability_unconfirmed", "indeterminate"}

Durabilities == {"not_attempted", "confirmed", "unconfirmed", "indeterminate"}

-----------------------------------------------------------------------------
(* Storage-format identifiers: sequences of byte classes *)

LineUnsafe == {"nul", "lf", "cr"}

FormatBytes == LineUnsafe \cup {"graphic"}

\* Mutant: the store refuses only the empty format.
StoreFormatNonEmpty(format) == format # <<>>

\* canonical_store.cpp and publication_receipt.cpp each validate the format.
StoreFormatAdmitted(format) ==
  format # <<>> /\ \A i \in DOMAIN format : format[i] \notin LineUnsafe

ReceiptFormatAdmitted(format) ==
  format # <<>> /\ \A i \in DOMAIN format : format[i] \notin LineUnsafe

-----------------------------------------------------------------------------
(* state_publication_backend_result *)

BackendResultRecord ==
  [outcome : BackendOutcomes, atomicity : Boundaries \cup {"none"},
   established : BOOLEAN, evidence : Seq(Evidence)]

\* normalize_evidence refuses a repeated identity.
EvidenceAdmitted(evidence) == IsInjective(evidence)

\* The factories: a boundary where publication was attempted, none otherwise;
\* only an indeterminate attempt chooses whether the result is established.
BackendResultAdmitted(b) ==
  /\ EvidenceAdmitted(b.evidence)
  /\ b.atomicity = "none" <=> b.outcome \notin Attempted
  /\ b.outcome # "indeterminate" => b.established = (b.outcome \in Attempted)

-----------------------------------------------------------------------------
(* state_publication_receipt *)

ReceiptRecord ==
  [request     : RequestIdentities,
   expected    : SnapshotIdentities,
   actualPrior : SnapshotIdentities,
   target      : Targets,
   format      : Seq(FormatBytes),
   outcome     : Outcomes,
   durability  : Durabilities,
   atomicity   : Boundaries \cup {"none"},
   resulting   : SnapshotIdentities \cup {None},
   evidence    : SUBSET Evidence]

\* Mutant: whatever may have published is classified as durable.
OptimisticDurability(outcome) ==
  IF outcome \in Attempted THEN "confirmed" ELSE "not_attempted"

\* The durability each factory writes beside its outcome.
DurabilityOf(outcome) ==
  CASE outcome = "published" -> "confirmed"
    [] outcome = "published_durability_unconfirmed" -> "unconfirmed"
    [] outcome = "indeterminate" -> "indeterminate"
    [] OTHER -> "not_attempted"

RequireCurrent(r, prior) ==
  prior.target = r.target /\ SnapshotIdentity(prior) = r.expected

RequireStale(r, prior) ==
  prior.target = r.target /\ SnapshotIdentity(prior) # r.expected

\* validate_result, and the check of the result an indeterminate receipt cites.
ResultAdmitted(r, prior, result) ==
  /\ result.target = r.target
  /\ ProjectAdmitted(r, prior)
  /\ SnapshotIdentity(result) = SnapshotIdentity(Project(r, prior))

\* The factory compare_and_publish calls for the reported outcome returns.
ReceiptAdmitted(r, prior, result, format, b) ==
  /\ RequireCurrent(r, prior)
  /\ b.outcome \in Attempted => b.atomicity # "none"
  /\ b.outcome \in Attempted /\ b.established => ResultAdmitted(r, prior, result)
  /\ ReceiptFormatAdmitted(format)
  /\ EvidenceAdmitted(b.evidence)

ReceiptMake(r, prior, format, outcome, atomicity, resulting, evidence) ==
  [request     |-> RequestIdentity(r),
   expected    |-> r.expected,
   actualPrior |-> SnapshotIdentity(prior),
   target      |-> r.target,
   format      |-> format,
   outcome     |-> outcome,
   durability  |-> DurabilityOf(outcome),
   atomicity   |-> atomicity,
   resulting   |-> resulting,
   evidence    |-> Range(evidence)]

\* identify_receipt cites every field.
PublicationReceiptIdentity(rc) == <<"state-publication-receipt", rc>>

\* Mutant: an indeterminate receipt always cites the result.
ReceiptAlwaysCiting(r, prior, result, format, b) ==
  ReceiptMake(r, prior, format, b.outcome, b.atomicity,
              IF b.outcome \in Attempted THEN SnapshotIdentity(result) ELSE None,
              b.evidence)

\* The result is cited when the backend established it.
ReceiptOf(r, prior, result, format, b) ==
  ReceiptMake(r, prior, format, b.outcome, b.atomicity,
              IF b.established THEN SnapshotIdentity(result) ELSE None,
              b.evidence)

StaleReceipt(r, prior, format) ==
  ReceiptMake(r, prior, format, "stale_expected_state", "none", None, <<>>)

===============================================================================
