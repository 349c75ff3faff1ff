---------------------------- MODULE EvidenceRecord ----------------------------
(***************************************************************************)
(* The durable records of publication evidence: how a request or a receipt *)
(* is framed, sealed and read back.                                        *)
(*                                                                         *)
(* A record is a sequence of tokens, one per writer call, and ends with a  *)
(* checksum token over all the others.  A token is a tuple headed by its   *)
(* wire shape; reading a token of another shape stands for what the reader *)
(* makes of misaligned bytes, an invalid value.  Digests carry no domain   *)
(* on the wire: one of another kind of identity is read like any other.    *)
(* SHA-256 is collision free: a checksum is the body it covers.            *)
(***************************************************************************)
EXTENDS PublicationReceipt, SequencesExt

CONSTANTS
  EvidenceOrder,   \* the byte order of evidence identities, as a sequence
  NameOrder,       \* the byte order of package names, as a sequence
  MaxRecord,       \* bound: tokens of the longest record
  MaxCount,        \* bound: elements of the longest collection
  TokenBytes       \* bytes of the shortest element of a collection

ASSUME RecordAssumption ==
  /\ EvidenceOrder \in Seq(Evidence) /\ ToSet(EvidenceOrder) = Evidence
  /\ IsInjective(EvidenceOrder)
  /\ NameOrder \in Seq(Names) /\ ToSet(NameOrder) = Names /\ IsInjective(NameOrder)
  /\ MaxRecord \in Nat /\ MaxCount \in Nat /\ TokenBytes \in Nat \ {0}

-----------------------------------------------------------------------------
(* writer *)

Magic(kind) == <<"raw", kind>>
U16(n) == <<"u16", n>>
U8(n) == <<"u8", n>>
U64(n) == <<"u64", n>>
Boolean(b) == U8(IF b THEN 1 ELSE 0)
Text(value) == <<"bytes", "text", value>>
Record(value) == <<"bytes", "record", value>>
Digest(identity) == <<"bytes", "digest", identity>>

\* What a token can be, given the texts that are written in records of its kind.
Token(t, texts) ==
  \/ t[1] \in {"raw", "checksum"} /\ t = <<t[1], t[2]>>
  \/ t[1] \in {"u8", "u16", "u64"} /\ t = <<t[1], t[2]>> /\ t[2] \in Nat
  \/ /\ t[1] = "bytes" /\ t = <<t[1], t[2], t[3]>>
     /\ t[2] \in {"text", "record", "digest"}
     /\ t[2] = "text" => t[3] \in texts

Optional(value, token) == <<Boolean(value # None)>> \o (IF value = None THEN <<>> ELSE <<token>>)

Checksum(body) == <<"checksum", body>>

\* append_checksum
Sealable(body) == Len(body) < MaxRecord

Seal(body) == Append(body, Checksum(body))

-----------------------------------------------------------------------------
(* The wire codes of the enumerations: positions in these sequences *)

DeltaKindCodes == <<"install", "replace", "remove">>

OutcomeCodes ==
  <<"published", "stale_expected_state", "request_rejected",
    "failed_before_publication", "published_durability_unconfirmed",
    "indeterminate">>

DurabilityCodes == <<"not_attempted", "confirmed", "unconfirmed", "indeterminate">>

AtomicityCodes ==
  <<"none", "complete_state_object_replace", "immutable_generation_selection">>

Encode(codes, value) == CHOOSE n \in DOMAIN codes : codes[n] = value

-----------------------------------------------------------------------------
(* reader: what reading the token at a position raises, None when it is read *)

ErrorCodes ==
  {"limit_exceeded", "truncated", "trailing_data", "invalid_magic",
   "unsupported_version", "checksum_mismatch", "expected_snapshot_mismatch",
   "request_mismatch", "actual_prior_mismatch", "identity_mismatch",
   "invalid_value"}

ASSUME ErrorAssumption == None \notin ErrorCodes

\* verified_body
VerifyError(encoding) ==
  CASE Len(encoding) > MaxRecord -> "limit_exceeded"
    [] encoding = <<>> -> "truncated"
    [] OTHER -> IF Last(encoding) = Checksum(Front(encoding))
                THEN None ELSE "checksum_mismatch"

\* read_request_prefix, read_receipt_prefix: two tokens.
PrefixError(body, kind, version) ==
  IF body = <<>> \/ Head(body) # Magic(kind) THEN "invalid_magic"
  ELSE IF Len(body) < 2 THEN "truncated"
  ELSE IF body[2] # U16(version) THEN "unsupported_version"
  ELSE None

Remaining(body, position) == Len(body) - position + 1

TokenError(body, position, shape) ==
  IF position > Len(body) THEN "truncated"
  ELSE IF ~IsPrefix(shape, body[position]) THEN "invalid_value"
  ELSE None

ByteError(body, position, values) ==
  IF TokenError(body, position, <<"u8">>) # None
  THEN TokenError(body, position, <<"u8">>)
  ELSE IF body[position][2] \in values THEN None ELSE "invalid_value"

BooleanError(body, position) == ByteError(body, position, {0, 1})

CodeError(body, position, codes) == ByteError(body, position, DOMAIN codes)

\* Mutant: the count is taken as it stands.
CountUnbounded(body, position) == TokenError(body, position, <<"u64">>)

\* count: bounded by what is left of the record before anything is reserved.
CountError(body, position) ==
  IF TokenError(body, position, <<"u64">>) # None
  THEN TokenError(body, position, <<"u64">>)
  ELSE IF \/ body[position][2] > MaxCount
          \/ body[position][2] > TokenBytes * (Remaining(body, position) - 1)
       THEN "limit_exceeded"
       ELSE None

FinishError(body, position) ==
  IF position = Len(body) + 1 THEN None ELSE "trailing_data"

ValueAt(body, position) == Last(body[position])

IsTrue(body, position) == ValueAt(body, position) = 1

===============================================================================
