---------------------------- MODULE Identification ----------------------------
(***************************************************************************)
(* The life of an identity: a value is appended field by field to a        *)
(* canonical record, the record is hashed or the hash fails, the digest    *)
(* is written down as text, the text may be damaged, and is parsed.        *)
(*                                                                         *)
(* SHA-256 is external: it yields some digest, or OpenSSL fails.  What the *)
(* library itself owes is that one record stands for one value, and one    *)
(* text for one digest.                                                    *)
(***************************************************************************)
EXTENDS HashedRecord

CONSTANTS
  Values,      \* the values to identify, by domain
  DigestSize,  \* bytes of a digest
  AllDigests,  \* the digests that hashing may yield
  Characters   \* the tokens that damage may leave in a text

ASSUME DigestAssumption ==
  /\ DigestSize \in Unsigned(Width64) \ {0}
  /\ AllDigests \subseteq [1..DigestSize -> Octet]

-----------------------------------------------------------------------------
(* What the fields of a value hold *)

DigestValue == [1..DigestSize -> Octet]

Text == {s \in Seq(Byte) : Len(s) \in Unsigned(Width64)}

ListOf(T) == {s \in Seq(T) : Len(s) \in Unsigned(Width64)}

OptionOf(T) == T \cup {None}

Provenance ==
  [document : Text, path : Text, line : Unsigned(Width32), column : Unsigned(Width32)]

ExpansionStep ==
  [profile : Text, kind : Octet, member : Text, provenance : Provenance]

Origin == [declaration : Provenance, expansion : ListOf(ExpansionStep)]

Requirement == [package : Text, origins : ListOf(Origin)]

Program == [action : Octet, language : Octet, material : Text]

Lifecycle == [action : Octet, requirement : Requirement]

ProfileRecord ==
  [profile : Text, identity : DigestValue, declarations : ListOf(Provenance)]

SourceRecord ==
  [identity : DigestValue, name : Text, version : Text, release : Unsigned(Width32),
   summary : Text, description : OptionOf(Text), homepage : OptionOf(Text),
   licenses : ListOf(Text), runtime : ListOf(Requirement), programs : ListOf(Program),
   lifecycle : ListOf(Lifecycle), declaredBuild : ListOf(Text), declaredTarget : ListOf(Text),
   build : Text, target : Text, profiles : ListOf(ProfileRecord), snapshot : DigestValue]

Issuer == [name : Text, identity : DigestValue]

Reason ==
  [kind : Octet, package : OptionOf(Text), profile : OptionOf(Issuer), policy : OptionOf(Text)]

Control == [source : DigestValue, reason : Reason, build : [1..14 -> DigestValue]]

Device == [major : Unsigned(Width64), minor : Unsigned(Width64)]

Rejected == [side : Octet, identity : DigestValue]

Entry ==
  [path : Text, kind : Octet, mode : Unsigned(Width32), uid : Unsigned(Width64),
   gid : Unsigned(Width64), seconds : MinI64..MaxI64, nanoseconds : Unsigned(Width32),
   size : OptionOf(Unsigned(Width64)), content : OptionOf(DigestValue),
   symlink : OptionOf(Text), device : OptionOf(Device), hardlink : OptionOf(Text),
   origin : Octet, rejected : OptionOf(Rejected)]

Receipt ==
  [control : DigestValue, binding : DigestValue, manifest : ListOf(Entry),
   plan : DigestValue, application : DigestValue, transaction : OptionOf(DigestValue)]

Binding ==
  [managedTarget : DigestValue, stateStore : DigestValue, rootView : DigestValue,
   stateBackend : DigestValue, publicationDomain : DigestValue]

Claim == [path : Text, owners : ListOf(DigestValue)]

Snapshot ==
  [binding : DigestValue, packages : ListOf(DigestValue), ownership : DigestValue]

Delta ==
  [kind : Octet, name : Text, plan : DigestValue, application : DigestValue,
   expected : OptionOf(DigestValue), proposed : OptionOf(DigestValue)]

Request ==
  [expected : DigestValue, target : DigestValue, deltas : ListOf(Delta),
   transaction : OptionOf(DigestValue)]

PublicationReceipt ==
  [request : DigestValue, expected : DigestValue, actualPrior : DigestValue,
   target : DigestValue, format : Text, outcome : Octet, durability : Octet,
   atomicity : Octet, resulting : OptionOf(DigestValue), evidence : ListOf(DigestValue)]

\* The values of each domain that has records of its own: what a value owns.
ValueOf(domain) ==
  CASE domain = "package-source-record" -> SourceRecord
    [] domain = "installed-control"     -> Control
    [] domain = "installation-receipt"  -> Receipt
    [] domain = "installed-package"     -> [receipt : DigestValue]
    [] domain = "ownership-inventory"   -> [claims : ListOf(Claim)]
    [] domain = "target-binding"        -> Binding
    [] domain = "installed-snapshot"    -> Snapshot
    [] domain = "publication-request"   -> Request
    [] domain = "publication-receipt"   -> PublicationReceipt

HashedDomains ==
  {"package-source-record", "installed-control", "installation-receipt", "installed-package",
   "ownership-inventory", "target-binding", "installed-snapshot", "publication-request",
   "publication-receipt"}

ASSUME ValuesAssumption ==
  /\ DOMAIN Values \subseteq HashedDomains
  /\ \A domain \in DOMAIN Values : Values[domain] \subseteq ValueOf(domain)

\* The append calls, each with what its parameter can hold: a wider value
\* would be narrowed on the way in, and another one recorded in its place.
Token ==
  ({"u8"} \X Octet) \cup ({"u16"} \X Unsigned(Width16)) \cup ({"u32"} \X Unsigned(Width32))
    \cup ({"u64"} \X Unsigned(Width64)) \cup ({"bytes"} \X Text) \cup ({"digest"} \X DigestValue)

\* The errors of sha256 and of parse.
Errors ==
  {"state_error", "invalid_format", "unsupported_version", "unsupported_algorithm",
   "invalid_length", "invalid_hex"}

ASSUME NoneAssumption == None \notin Errors /\ None \notin 0..15

VARIABLES
  pc,       \* where the identity is in its life
  subject,  \* the domain and value being identified
  calls,    \* the append calls still to make
  record,   \* canonical_record::bytes_
  digest,   \* the digest_value
  text,     \* what was written of it
  thrown    \* the error of sha256 or parse

vars == <<pc, subject, calls, record, digest, text, thrown>>

Inputs == UNION {{domain} \X Values[domain] : domain \in DOMAIN Values}

Init ==
  /\ pc = "idle"
  /\ subject = None /\ calls = <<>> /\ record = <<>>
  /\ digest = None /\ text = <<>> /\ thrown = None

\* canonical_record(domain)
Open ==
  /\ pc = "idle"
  /\ \E input \in Inputs :
       /\ subject' = input
       /\ calls' = Calls(input[1], input[2])
       /\ record' = Header(input[1])
  /\ pc' = "appending"
  /\ UNCHANGED <<digest, text, thrown>>

AppendNext ==
  /\ pc = "appending" /\ calls # <<>>
  /\ record' = record \o Appended(Head(calls))
  /\ calls' = Tail(calls)
  /\ UNCHANGED <<pc, subject, digest, text, thrown>>

\* from_sha256(record.sha256()): the record is destroyed, the identity stays.
Hash ==
  /\ pc = "appending" /\ calls = <<>>
  /\ digest' \in AllDigests
  /\ pc' = "identified" /\ subject' = None /\ record' = <<>>
  /\ UNCHANGED <<calls, text, thrown>>

\* sha256 throws state_error, and with it the factory of the value.
HashFails ==
  /\ pc = "appending" /\ calls = <<>>
  /\ thrown' = "state_error"
  /\ pc' = "refused" /\ subject' = None /\ record' = <<>>
  /\ UNCHANGED <<calls, digest, text>>

Write ==
  /\ pc = "identified"
  /\ text' = DigestString(digest)
  /\ pc' = "written"
  /\ UNCHANGED <<subject, calls, record, digest, thrown>>

\* One token of the text is replaced, dropped or inserted.
Damage ==
  /\ pc = "written"
  /\ \E i \in DOMAIN text :
       \/ \E char \in Characters :
            \/ text' = [text EXCEPT ![i] = char]
            \/ text' = InsertAt(text, i, char)
       \/ text' = RemoveAt(text, i)
  /\ pc' = "damaged" /\ digest' = None
  /\ UNCHANGED <<subject, calls, record, thrown>>

Parse ==
  /\ pc \in {"written", "damaged"}
  /\ IF ParseError(text, DigestSize) = None
     THEN digest' = ParsedDigest(text, DigestSize) /\ thrown' = None /\ pc' = "parsed"
     ELSE digest' = None /\ thrown' = ParseError(text, DigestSize) /\ pc' = "refused"
  /\ UNCHANGED <<subject, calls, record, text>>

Next ==
  Open \/ AppendNext \/ Hash \/ HashFails \/ Write \/ Damage \/ Parse

Spec == Init /\ [][Next]_vars

-----------------------------------------------------------------------------
(* Correctness *)

\* Every record, with the domain and value it is of.
Recorded == {<<RecordOf(input[1], input[2]), input>> : input \in Inputs}

WholeRecords == {entry[1] : entry \in Recorded}

Spellings == {DigestString(d) : d \in AllDigests}

\* No identify function passes an append call more than its parameter holds, so
\* that nothing is narrowed before it is hashed; what is hashed is a string of
\* bytes, and a digest is one of the digest size.
IdentificationTypeOK ==
  /\ pc \in {"idle", "appending", "identified", "written", "damaged", "parsed", "refused"}
  /\ subject \in Inputs \cup {None}
  /\ calls \in Seq(Token)
  /\ \A i \in DOMAIN record : record[i] \in Octet
  /\ digest = None \/ digest \in DigestValue
  /\ thrown \in Errors \cup {None}

\* The bytes that are hashed for a value are hashed for no other value of any
\* domain, and no record goes on where another one ends: whatever SHA-256 keeps
\* apart, an identity keeps apart.
RecordNamesValue ==
  pc = "appending" =>
    IF calls = <<>>
    THEN \A entry \in Recorded : entry[1] = record => entry[2] = subject
    ELSE record \notin WholeRecords

\* A digest has one spelling: what parse accepts, damaged or not, is exactly
\* what string() returns for the digest it yields, and no text that string()
\* can return is refused.
TextNamesDigest ==
  /\ pc = "parsed" => text = DigestString(digest)
  /\ pc = "refused" /\ thrown # "state_error" => text \notin Spellings

===============================================================================
