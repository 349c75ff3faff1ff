----------------------------- MODULE HashedRecord -----------------------------
(***************************************************************************)
(* The canonical records that identities are the SHA-256 of, byte by byte: *)
(* what each append call of a canonical_record adds, and which calls the   *)
(* identify functions make for a value.                                    *)
(*                                                                         *)
(* Values have the shape they have in GenerationRecord, except that every  *)
(* identity inside them is its digest, a short string of bytes: it was     *)
(* computed, or received, before.  A call is a token of the writer there.  *)
(* The owned-entry, requirement and provenance parts of a record are the   *)
(* same calls, in the same order, as those of the generation writer, but   *)
(* for the digests, which are binary here and text there.                  *)
(***************************************************************************)
EXTENDS GenerationRecord

CONSTANTS
  Width16,    \* bytes of a u16, a u32 and a u64
  Width32,
  Width64,
  MagicBytes  \* the bytes that every record starts with

Octet == 0..255

\* value >> 8 * k, one byte after another.
Shifted(n, k) ==
  LET shifted[i \in 0..k] == IF i = 0 THEN n ELSE shifted[i - 1] \div 256
  IN  shifted[k]

\* The integers of so many bytes.
Unsigned(width) == {n \in Nat : Shifted(n, width) = 0}

ASSUME WidthAssumption ==
  /\ Width16 \in Nat \ {0} /\ Width32 \in Nat \ {0} /\ Width64 \in Nat \ {0}
  /\ MagicBytes \in Seq(Octet)
  /\ 1 \in Unsigned(Width16) /\ MaxI64 + 1 \in Unsigned(Width64)

\* The domains of owned identities.  Each is a constant that validate_domain
\* accepts; one byte stands for its text.
Domains ==
  <<"package-source-record", "installed-control", "installation-receipt",
    "installed-package", "ownership-inventory", "managed-target", "state-store",
    "root-view", "state-backend", "publication-domain", "target-binding",
    "installed-snapshot", "publication-request", "publication-receipt">>

DomainBytes(domain) == <<CHOOSE n \in DOMAIN Domains : Domains[n] = domain>>

-----------------------------------------------------------------------------
(* canonical_record *)

BigEndian(n, width) == [i \in 1..width |-> Shifted(n, width - i) % 256]

Framed(bytes) == BigEndian(Len(bytes), Width64) \o bytes

Digest(d) == <<"digest", d>>

\* Representation version 1, algorithm 1, and the bytes.
DigestBytes(d) == BigEndian(1, Width16) \o BigEndian(1, Width16) \o Framed(d)

\* Mutant: the length of a string is not written.
AppendedUnframed(call) ==
  CASE call[1] = "u8"     -> <<call[2]>>
    [] call[1] = "u16"    -> BigEndian(call[2], Width16)
    [] call[1] = "u32"    -> BigEndian(call[2], Width32)
    [] call[1] = "u64"    -> BigEndian(call[2], Width64)
    [] call[1] = "bytes"  -> StringKey(call[2])
    [] call[1] = "digest" -> DigestBytes(call[2])

Appended(call) ==
  CASE call[1] = "u8"     -> <<call[2]>>
    [] call[1] = "u16"    -> BigEndian(call[2], Width16)
    [] call[1] = "u32"    -> BigEndian(call[2], Width32)
    [] call[1] = "u64"    -> BigEndian(call[2], Width64)
    [] call[1] = "bytes"  -> Framed(StringKey(call[2]))
    [] call[1] = "digest" -> DigestBytes(call[2])

\* append_i64: the smallest integer is negated only after adding one.
SignAndMagnitude(n) == <<Boolean(n < 0), U64(IF n < 0 THEN -(n + 1) + 1 ELSE n)>>

\* The constructor.
Header(domain) == MagicBytes \o BigEndian(1, Width16) \o Framed(DomainBytes(domain))

-----------------------------------------------------------------------------
(* The calls of the identify functions *)

Digests(seq) == [i \in DOMAIN seq |-> Digest(seq[i])]

EncodeDigest(d) == <<Digest(d)>>

RequirementCalls(v) == EncodeRequirement(v)

LifecycleCalls(v) == <<U8(v.action)>> \o RequirementCalls(v.requirement)

ProfileCalls(v) ==
  <<Bytes(v.profile), Digest(v.identity)>> \o EncodeAll(v.declarations, EncodeProvenance)

SourceCalls(v) ==
  <<Digest(v.identity), Bytes(v.name), Bytes(v.version), U32(v.release), Bytes(v.summary)>>
  \o Optional(v.description, EncodeText) \o Optional(v.homepage, EncodeText)
  \o EncodeAll(v.licenses, EncodeText) \o EncodeAll(v.runtime, RequirementCalls)
  \o EncodeAll(v.programs, EncodeProgram) \o EncodeAll(v.lifecycle, LifecycleCalls)
  \o EncodeAll(v.declaredBuild, EncodeText) \o EncodeAll(v.declaredTarget, EncodeText)
  \o <<Bytes(v.build), Bytes(v.target)>>
  \o EncodeAll(v.profiles, ProfileCalls) \o <<Digest(v.snapshot)>>

IssuerCalls(v) == <<Bytes(v.name), Digest(v.identity)>>

\* build: the fourteen digests of a build, in the order they are appended.
ControlCalls(v) ==
  <<Digest(v.source), U8(v.reason.kind)>>
  \o Optional(v.reason.package, EncodeText) \o Optional(v.reason.profile, IssuerCalls)
  \o Optional(v.reason.policy, EncodeText)
  \o Digests(v.build)

RejectedCalls(v) == <<U8(v.side), Digest(v.identity)>>

\* Mutant: the owner is appended with as few bytes as the mode.
EntryCallsNarrowed(v) ==
  <<Bytes(v.path), U8(v.kind), U32(v.mode), U32(v.uid), U64(v.gid)>>
  \o SignAndMagnitude(v.seconds) \o <<U32(v.nanoseconds)>>
  \o Optional(v.size, EncodeSize) \o Optional(v.content, EncodeDigest)
  \o Optional(v.symlink, EncodeText) \o Optional(v.device, EncodeDevice)
  \o Optional(v.hardlink, EncodeText)
  \o <<U8(v.origin)>> \o Optional(v.rejected, RejectedCalls)

EntryCalls(v) ==
  <<Bytes(v.path), U8(v.kind), U32(v.mode), U64(v.uid), U64(v.gid)>>
  \o SignAndMagnitude(v.seconds) \o <<U32(v.nanoseconds)>>
  \o Optional(v.size, EncodeSize) \o Optional(v.content, EncodeDigest)
  \o Optional(v.symlink, EncodeText) \o Optional(v.device, EncodeDevice)
  \o Optional(v.hardlink, EncodeText)
  \o <<U8(v.origin)>> \o Optional(v.rejected, RejectedCalls)

ReceiptCalls(v) ==
  <<U16(1), Digest(v.control), Digest(v.binding)>> \o EncodeAll(v.manifest, EntryCalls)
  \o <<Digest(v.plan), Digest(v.application)>> \o Optional(v.transaction, EncodeDigest)

PackageCalls(v) == <<Digest(v.receipt)>>

BindingCalls(v) ==
  Digests(<<v.managedTarget, v.stateStore, v.rootView, v.stateBackend, v.publicationDomain>>)

ClaimCalls(v) == <<Bytes(v.path)>> \o EncodeAll(v.owners, EncodeDigest)

OwnershipCalls(v) == EncodeAll(v.claims, ClaimCalls)

SnapshotCalls(v) ==
  <<U16(1), Digest(v.binding)>> \o EncodeAll(v.packages, EncodeDigest)
  \o <<Digest(v.ownership)>>

DeltaCalls(v) ==
  <<U8(v.kind), Bytes(v.name), Digest(v.plan), Digest(v.application)>>
  \o Optional(v.expected, EncodeDigest) \o Optional(v.proposed, EncodeDigest)

RequestCalls(v) ==
  <<U16(1), Digest(v.expected), Digest(v.target)>> \o EncodeAll(v.deltas, DeltaCalls)
  \o Optional(v.transaction, EncodeDigest)

PublicationReceiptCalls(v) ==
  <<U16(1), Digest(v.request), Digest(v.expected), Digest(v.actualPrior),
    Digest(v.target), Bytes(v.format), U8(v.outcome), U8(v.durability), U8(v.atomicity)>>
  \o Optional(v.resulting, EncodeDigest) \o EncodeAll(v.evidence, EncodeDigest)

Calls(domain, v) ==
  CASE domain = "package-source-record" -> SourceCalls(v)
    [] domain = "installed-control"     -> ControlCalls(v)
    [] domain = "installation-receipt"  -> ReceiptCalls(v)
    [] domain = "installed-package"     -> PackageCalls(v)
    [] domain = "ownership-inventory"   -> OwnershipCalls(v)
    [] domain = "target-binding"        -> BindingCalls(v)
    [] domain = "installed-snapshot"    -> SnapshotCalls(v)
    [] domain = "publication-request"   -> RequestCalls(v)
    [] domain = "publication-receipt"   -> PublicationReceiptCalls(v)

\* What a sequence of calls appends.
Coded(cs) == FlattenSeq([i \in DOMAIN cs |-> Appended(cs[i])])

\* The whole record of a value.
RecordOf(domain, v) == Header(domain) \o Coded(Calls(domain, v))

-----------------------------------------------------------------------------
(* The text of a digest: v1 : sha256 : hexadecimal, each word one token *)

HexDigits == <<"0", "1", "2", "3", "4", "5", "6", "7", "8", "9",
               "a", "b", "c", "d", "e", "f">>

\* Mutant: capital digits are read as well.
HexValueOfEitherCase(char) ==
  LET values == {n \in DOMAIN HexDigits : char \in {HexDigits[n], IF n = 11 THEN "A" ELSE ""}}
  IN  IF values = {} THEN None ELSE (CHOOSE n \in values : TRUE) - 1

\* parse_hex_digit: lowercase only; None where it throws.
HexValue(char) ==
  LET values == {n \in DOMAIN HexDigits : HexDigits[n] = char}
  IN  IF values = {} THEN None ELSE (CHOOSE n \in values : TRUE) - 1

\* digest_value::string: two digits for each byte, the high one first.
HexOf(d) ==
  [i \in 1..(2 * Len(d)) |->
     HexDigits[(IF i % 2 = 1 THEN d[(i + 1) \div 2] \div 16 ELSE d[i \div 2] % 16) + 1]]

DigestString(d) == <<"v1", ":", "sha256", ":">> \o HexOf(d)

\* find: the first separator at or after i, or one past the end.
SeparatorFrom(input, i) ==
  CHOOSE j \in i..(Len(input) + 1) :
    /\ j > Len(input) \/ input[j] = ":"
    /\ \A k \in i..(j - 1) : input[k] # ":"

First(input) == SeparatorFrom(input, 1)
Second(input) == SeparatorFrom(input, First(input) + 1)

\* Two separators, no more and no fewer.
WellFormed(input) ==
  /\ First(input) <= Len(input)
  /\ Second(input) <= Len(input)
  /\ SeparatorFrom(input, Second(input) + 1) > Len(input)

Version(input) == SubSeq(input, 1, First(input) - 1)
Algorithm(input) == SubSeq(input, First(input) + 1, Second(input) - 1)
Hexadecimal(input) == SubSeq(input, Second(input) + 1, Len(input))

\* digest_value::parse, the checks in its order.
ParseError(input, size) ==
  IF ~WellFormed(input) THEN "invalid_format"
  ELSE IF Version(input) # <<"v1">> THEN "unsupported_version"
  ELSE IF Algorithm(input) # <<"sha256">> THEN "unsupported_algorithm"
  ELSE IF Len(Hexadecimal(input)) # 2 * size THEN "invalid_length"
  ELSE IF \E i \in 1..(2 * size) : HexValue(Hexadecimal(input)[i]) = None
       THEN "invalid_hex"
  ELSE None

ParsedDigest(input, size) ==
  [i \in 1..size |->
     16 * HexValue(Hexadecimal(input)[2 * i - 1]) + HexValue(Hexadecimal(input)[2 * i])]

===============================================================================
