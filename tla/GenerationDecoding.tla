--------------------------- MODULE GenerationDecoding ---------------------------
(***************************************************************************)
(* decode_generation_snapshot and decode_generation_binding, read by read. *)
(*                                                                         *)
(* The decoders call one another as the record nests.  Script says, for    *)
(* each of them, what it reads and in which order; a frame is one decoder  *)
(* in progress; stack holds the frames, the innermost first.  The reads    *)
(* are the reader's, and the end of a frame is the factory that checks     *)
(* and sorts what was read.                                                *)
(***************************************************************************)
EXTENDS GenerationRecord

CONSTANTS
  Cases,       \* what is decoded: [kind, encoding, written]
  TokenBytes   \* bytes one token stands for, where a count is bounded by bytes

ASSUME TokenAssumption == TokenBytes \in Nat \ {0}

VARIABLES
  kind,      \* "snapshot" or "binding": which decoder was called
  encoding,  \* its argument
  written,   \* history: the value whose record encoding is or was
  phase,
  position,  \* the reader's cursor
  stack,     \* the decoders in progress
  result     \* what the decoder returns

arguments == <<kind, encoding, written>>
vars == <<arguments, phase, position, stack, result>>

-----------------------------------------------------------------------------
(* What each decoder reads *)

Reads(field, item) == [field |-> field, item |-> item]

Expect(token) == Reads("expected", <<"expect", token>>)
Read(shape, field) == Reads(field, <<shape>>)
Call(decoder, field) == Reads(field, <<"call", decoder>>)
Maybe(item, field) == Reads(field, <<"optional", item>>)
List(item, field) == Reads(field, <<"list", item>>)

Binding == <<Read("digest", "binding")>>

Provenance ==
  <<Read("text", "document"), Read("text", "path"), Read("u32", "line"), Read("u32", "column")>>

Step ==
  <<Read("text", "profile"), Read("u8", "kind"), Read("text", "member"),
    Call("provenance", "provenance")>>

Origin == <<Call("provenance", "declaration"), List(<<"call", "step">>, "expansion")>>

Requirement == <<Read("text", "package"), List(<<"call", "origin">>, "origins")>>

Program == <<Read("u8", "action"), Read("u8", "language"), Read("text", "material")>>

Lifecycle == <<Read("u8", "action"), Call("requirement", "requirement")>>

Profile ==
  <<Read("text", "profile"), Read("digest", "identity"),
    List(<<"call", "provenance">>, "declarations")>>

Source ==
  <<Read("digest", "identity"), Read("text", "name"), Read("text", "version"),
    Read("u32", "release"), Read("text", "summary"),
    Maybe(<<"text">>, "description"), Maybe(<<"text">>, "homepage"),
    List(<<"text">>, "licenses"),
    List(<<"call", "requirement">>, "runtime"), List(<<"call", "program">>, "programs"),
    List(<<"call", "lifecycle">>, "lifecycle"),
    List(<<"text">>, "declaredBuild"), List(<<"text">>, "declaredTarget"),
    Read("text", "build"), Read("text", "target"),
    List(<<"call", "profile">>, "profiles"), Read("digest", "snapshot")>>

Issuer == <<Read("text", "name"), Read("digest", "identity")>>

Reason ==
  <<Read("u8", "kind"), Maybe(<<"text">>, "package"),
    Maybe(<<"call", "issuer">>, "profile"), Maybe(<<"text">>, "policy")>>

Control ==
  <<Call("source", "source"), Call("reason", "reason"),
    Read("digest", "sourceRecord"), Read("digest", "build")>>

Device == <<Read("u64", "major"), Read("u64", "minor")>>

Rejected == <<Read("u8", "side"), Read("digest", "identity")>>

Entry ==
  <<Read("text", "path"), Read("u8", "kind"), Read("u32", "mode"),
    Read("u64", "uid"), Read("u64", "gid"),
    Read("i64", "seconds"), Read("u32", "nanoseconds"),
    Maybe(<<"u64">>, "size"), Maybe(<<"digest">>, "content"),
    Maybe(<<"text">>, "symlink"), Maybe(<<"call", "device">>, "device"),
    Maybe(<<"text">>, "hardlink"),
    Read("u8", "origin"), Maybe(<<"call", "rejected">>, "rejected")>>

Receipt ==
  <<Expect(U16(1)), Call("control", "control"),
    List(<<"call", "entry">>, "manifest"),
    Read("digest", "plan"), Read("digest", "application"),
    Maybe(<<"digest">>, "transaction")>>

Snapshot ==
  <<Expect(Magic("snapshot")), Expect(U16(1)), Expect(U16(1))>> \o Binding
    \o <<List(<<"call", "receipt">>, "packages")>>

BindingRecord == <<Expect(Magic("binding")), Expect(U16(1))>> \o Binding

EncodeBinding(v) == <<Magic("binding"), U16(1), Bytes(v.binding)>>

Script(decoder) ==
  CASE decoder = "provenance" -> Provenance
    [] decoder = "step" -> Step
    [] decoder = "origin" -> Origin
    [] decoder = "requirement" -> Requirement
    [] decoder = "program" -> Program
    [] decoder = "lifecycle" -> Lifecycle
    [] decoder = "profile" -> Profile
    [] decoder = "source" -> Source
    [] decoder = "issuer" -> Issuer
    [] decoder = "reason" -> Reason
    [] decoder = "control" -> Control
    [] decoder = "device" -> Device
    [] decoder = "rejected" -> Rejected
    [] decoder = "entry" -> Entry
    [] decoder = "receipt" -> Receipt
    [] decoder = "snapshot" -> Snapshot
    [] decoder = "binding" -> BindingRecord

\* The factory at the end of a decoder returns.
Admits(decoder, v) ==
  CASE decoder = "provenance" -> ProvenanceAdmitted(v)
    [] decoder = "step" -> StepAdmitted(v)
    [] decoder = "requirement" -> RequirementAdmitted(v)
    [] decoder = "program" -> ProgramAdmitted(v)
    [] decoder = "lifecycle" -> LifecycleAdmitted(v)
    [] decoder = "profile" -> ProfileAdmitted(v)
    [] decoder = "source" -> SourceAdmitted(v)
    [] decoder = "reason" -> ReasonAdmitted(v)
    [] decoder = "control" -> ControlAdmitted(v)
    [] decoder = "entry" -> EntryAdmitted(v)
    [] decoder = "receipt" -> ReceiptAdmitted(v)
    [] OTHER -> TRUE

\* And what it returns: vectors sorted, paths normalized.
Made(decoder, v) ==
  CASE decoder = "requirement" -> [v EXCEPT !.origins = SortedBy(@, OriginKey)]
    [] decoder = "profile" -> [v EXCEPT !.declarations = SortedBy(@, ProvenanceKey)]
    [] decoder = "source" -> SourceSorted(v)
    [] decoder = "entry" -> EntryNormal(v)
    [] decoder = "receipt" -> [v EXCEPT !.manifest = SortedBy(@, EntryKey)]
    [] OTHER -> v

-----------------------------------------------------------------------------
(* reader *)

Frame(decoder, rest) == [decoder |-> decoder, rest |-> rest, got |-> <<>>]

Top == Head(stack)
Item == Head(Top.rest).item
Reading(shapes) == phase = "read" /\ Top.rest # <<>> /\ Item[1] \in shapes

\* A frame that has read one more value: a list grows, a record gets a field.
Filled(frame, v) ==
  [frame EXCEPT
     !.rest = Tail(@),
     !.got = IF frame.decoder = "list" THEN Append(@, v)
             ELSE IF Head(frame.rest).field = "expected" THEN @
             ELSE @ @@ (Head(frame.rest).field :> v)]

HasShape(i, shape) == i <= Len(encoding) /\ encoding[i][1] = shape

IsBoolean(i) == HasShape(i, "u8") /\ encoding[i][2] \in {0, 1}

Readable ==
  CASE Item[1] = "text" -> HasShape(position, "bytes")
    [] Item[1] = "digest" -> HasShape(position, "bytes") /\ IsDigest(encoding[position][2])
    [] Item[1] = "expect" -> position <= Len(encoding) /\ encoding[position] = Item[2]
    [] OTHER -> HasShape(position, Item[1])

Throw == phase' = "refused" /\ UNCHANGED <<arguments, position, stack, result>>

Init ==
  /\ \E case \in Cases :
       kind = case.kind /\ encoding = case.encoding /\ written = case.written
  /\ phase = "read" /\ position = 1
  /\ stack = <<Frame(kind, Script(kind))>>
  /\ result = None

\* u8, u16, u32, u64, bytes, read_digest, expect
ReadToken ==
  /\ Reading({"u8", "u16", "u32", "u64", "text", "digest", "expect"})
  /\ IF ~Readable THEN Throw
     ELSE /\ stack' = <<Filled(Top, encoding[position][2])>> \o Tail(stack)
          /\ position' = position + 1
          /\ UNCHANGED <<arguments, phase, result>>

\* Mutant: the limit is that of a positive integer.
MagnitudeLimitSymmetric(negative) == MaxI64

\* i64: a sign and a magnitude; one more magnitude is negative than positive.
MagnitudeLimit(negative) == IF negative THEN MaxI64 + 1 ELSE MaxI64

ReadI64 ==
  LET negative == encoding[position][2] = 1
      magnitude == encoding[position + 1][2]
  IN
  /\ Reading({"i64"})
  /\ IF ~(IsBoolean(position) /\ HasShape(position + 1, "u64"))
        \/ magnitude > MagnitudeLimit(negative)
     THEN Throw
     ELSE /\ stack' = <<Filled(Top, IF negative THEN -magnitude ELSE magnitude)>> \o Tail(stack)
          /\ position' = position + 2
          /\ UNCHANGED <<arguments, phase, result>>

\* The boolean before an optional; the value is read next if it is there.
ReadPresence ==
  /\ Reading({"optional"})
  /\ IF ~IsBoolean(position) THEN Throw
     ELSE /\ stack' = <<IF encoding[position][2] = 1
                        THEN [Top EXCEPT !.rest[1].item = @[2]]
                        ELSE Filled(Top, None)>> \o Tail(stack)
          /\ position' = position + 1
          /\ UNCHANGED <<arguments, phase, result>>

\* Mutant: the number in the record is believed.
PlausibleAlways(n) == TRUE

\* No more elements than there are bytes left.
Plausible(n) == n <= TokenBytes * (Len(encoding) - position)

\* count
ReadCount ==
  LET n == encoding[position][2] IN
  /\ Reading({"list"})
  /\ IF ~HasShape(position, "u64") \/ ~Plausible(n) THEN Throw
     ELSE /\ stack' = <<Frame("list", [i \in 1..n |-> Reads("element", Item[2])])>> \o stack
          /\ position' = position + 1
          /\ UNCHANGED <<arguments, phase, result>>

CallDecoder ==
  /\ Reading({"call"})
  /\ stack' = <<Frame(Item[2], Script(Item[2]))>> \o stack
  /\ UNCHANGED <<arguments, phase, position, result>>

\* A decoder has read everything: its factory returns to its caller or throws.
Return ==
  /\ phase = "read" /\ Top.rest = <<>> /\ Len(stack) > 1
  /\ IF ~Admits(Top.decoder, Top.got) THEN Throw
     ELSE /\ stack' = <<Filled(stack[2], Made(Top.decoder, Top.got))>> \o SubSeq(stack, 3, Len(stack))
          /\ UNCHANGED <<arguments, phase, position, result>>

\* finish, and snapshot::make of what was read
Finish ==
  LET read == Top.got IN
  /\ phase = "read" /\ Top.rest = <<>> /\ Len(stack) = 1
  /\ IF \/ position # Len(encoding) + 1
        \/ kind = "snapshot" /\ ~SnapshotAdmitted(read)
     THEN Throw
     ELSE /\ result' = IF kind = "snapshot"
                       THEN [read EXCEPT !.packages = SortedBy(@, NameKey)] ELSE read
          /\ phase' = "confirm"
          /\ UNCHANGED <<arguments, position, stack>>

Encode(v) == IF kind = "snapshot" THEN EncodeSnapshot(v) ELSE EncodeBinding(v)

\* Mutant: what was decoded is returned without encoding it again.
ConfirmNothing ==
  /\ phase = "confirm"
  /\ phase' = "decoded"
  /\ UNCHANGED <<arguments, position, stack, result>>

\* require_canonical_encoding
Confirm ==
  /\ phase = "confirm"
  /\ IF Encode(result) # encoding THEN Throw
     ELSE phase' = "decoded" /\ UNCHANGED <<arguments, position, stack, result>>

\* The decoder has returned or thrown.
Done == phase \in {"decoded", "refused"} /\ UNCHANGED vars

Next ==
  \/ ReadToken \/ ReadI64 \/ ReadPresence \/ ReadCount \/ CallDecoder \/ Return
  \/ Finish \/ Confirm \/ Done

Spec == Init /\ [][Next]_vars

-----------------------------------------------------------------------------
(* Correctness *)

\* The cursor stays in the record, the decoders and lists in progress are at most
\* thirteen however a record nests, and what they still have to read is bounded
\* by the record, not by a count in it.
GenerationTypeOK ==
  /\ phase \in {"read", "confirm", "decoded", "refused"}
  /\ position \in 1..(Len(encoding) + 1)
  /\ Len(stack) \in 1..13
  /\ \A i \in DOMAIN stack :
       stack[i].decoder = "list" => Len(stack[i].rest) <= TokenBytes * Len(encoding)

Increasing(seq, Key(_)) ==
  \A i \in 1..(Len(seq) - 1) : KeyLess(Key(seq[i]), Key(seq[i + 1]))

\* A manifest entry as it would be installed: one spelling of its path, the data
\* of its kind and no other.
Complete(e) ==
  /\ e.path = Normalized(e.path) /\ Parsable(e.path)
  /\ {f \in {"size", "content", "symlink", "device"} : e[f] # None} =
       CASE e.kind = 1 -> {"size", "content"}
         [] e.kind = 3 -> {"symlink"}
         [] e.kind \in {5, 6} -> {"device"}
         [] OTHER -> {}
  /\ e.seconds \in MinI64..MaxI64

\* Nothing incomplete comes out of a record: the packages of a decoded snapshot
\* are in strict order, and each has a build of its own source record, a reason
\* with the payload of its kind, requirements that their expansions reach, and a
\* manifest of complete objects in strict order.
OnlyCompleteAccepted ==
  phase = "decoded" /\ kind = "snapshot" =>
    /\ Increasing(result.packages, NameKey)
    /\ \A r \in ToSet(result.packages) :
         LET s == r.control.source IN
         /\ r.control.sourceRecord = SourceIdentity(s)
         /\ Cardinality({f \in {"package", "profile", "policy"} : r.control.reason[f] # None})
              = IF r.control.reason.kind = 1 THEN 0 ELSE 1
         /\ Increasing(s.programs, ActionKey) /\ Increasing(s.runtime, PackageKey)
         /\ Increasing(s.lifecycle, LifecycleKey) /\ Increasing(s.profiles, ProfileKey)
         /\ \A q \in ToSet(s.runtime) \cup {l.requirement : l \in ToSet(s.lifecycle)} :
              \A o \in ToSet(q.origins) :
                o.expansion # <<>> => Last(o.expansion).member = q.package
         /\ Increasing(r.manifest, EntryKey)
         /\ \A e \in ToSet(r.manifest) : Complete(e)

\* The identity of a snapshot is as good as its record: a record that differs in
\* anything from the one written decodes, if it decodes at all, to a snapshot of
\* another identity.
IdentityTellsRecordsApart ==
  phase = "decoded" /\ kind = "snapshot" =>
    (SnapshotIdentity(result) = SnapshotIdentity(written) <=> encoding = EncodeSnapshot(written))

\* A store reads back what it persisted: the record of a snapshot decodes to it.
GenerationRoundTrip ==
  encoding = Encode(written) =>
    /\ phase # "refused"
    /\ phase = "decoded" => result = written

\* DESIGN.md: "Decode verifies framing, version, normalized structure, every
\* state-owned identity, target binding, and canonical re-encoding."  Of the
\* identities of the decoded snapshot only source records are in the record.
IdentityVerified ==
  phase = "decoded" /\ kind = "snapshot" =>
    SnapshotIdentity(result) = SnapshotIdentity(written)

===============================================================================
