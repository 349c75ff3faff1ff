# libpkgstate in TLA+

libpkgstate keeps the authority over what a package manager believes is
installed: complete records of installed packages, snapshots of them, requests
that replace one snapshot by the next, and receipts of such attempts.  It does no
I/O.  A storage provider (libpkgstate-posix is the reference one, in another
repository) implements two virtual interfaces, and the library runs the
publication protocol over them and owns the bytes of everything that is stored.

This directory models that protocol and those records, checks them with TLC on
small instances and proves nearly all of what the runs check with TLAPS.

## The system

| component | state it keeps | operations | correct when |
|---|---|---|---|
| canonical store (`canonical_store.cpp`) | none of its own; the provider keeps the visible generation, a publication lock and what is on stable storage | `compare_and_publish` = begin, copy, compare, project, publish, receipt | no lost update; receipts are true, also after a crash; no exception once the store has changed; the lock is never left behind |
| request and deltas (`publication_request.cpp`) | immutable values | `install`, `replace`, `remove`, `make` | a request fits the snapshot it was made for, and its packages name their own evidence |
| projection (`publication_projection.cpp`) | a sorted vector edited in place | `project_publication_request` | the result is what the deltas say, name by name |
| snapshot (`snapshot.cpp`) | sorted packages, an index from path to vector positions | `make`, `find_package`, `owners` | one package per name, one target, the index answers for the vector it sits beside |
| receipt (`publication_receipt.cpp`) | immutable value | one factory per outcome | outcome, durability, atomicity and cited snapshot agree |
| evidence codec (`publication_codec.cpp`) | a cursor | encode and decode requests and receipts | decode returns what was encoded, or something that could have been made, or refuses by name |
| generation codec (`generation_codec.cpp`) | a cursor, nested decoders | encode and decode snapshots and bindings | one record per snapshot, only complete snapshots |
| package paths (`package_path.cpp`) | a normalized string | `parse`, `parent`, `filename`, `is_ancestor_of` | one spelling per object, nothing outside the root |
| digests and hashed records (`digest.cpp`, `canonical_record.cpp`) | the bytes appended so far | the append calls, `sha256`, `string`, `parse` | one record per value of any domain, one text per digest |
| values (`model.cpp`, `package_source_record.cpp`, `installed_control.cpp`, `owned_entry.cpp`, `installation_receipt.cpp`) | immutable values | factories that check, sort and hash | what they return is complete and in canonical order |

How they interact: a controller reads a snapshot, makes a request of it, may
persist the request's record, and calls `compare_and_publish`.  The store asks the
provider for a transaction, which takes the lock and rereads; compares; projects
the request; has the provider publish the result; and makes a receipt that the
controller may persist.  After a crash the controller decodes both records under
the snapshots it retained.  The provider stores generation records.  Every value
is named by the SHA-256 of its canonical record.

What is hard: several controllers at once; snapshots copied before a virtual call
and used after it; providers that publish without knowing whether it lasts, or
whether it happened; a process or the machine dying between any two steps; a
retained request passed again; calls that throw after their effect; records that
come back torn, damaged, misfiled or in another order; checkpoints whose parts
were written at different moments; counts, signs and prefixes at their
boundaries.  `PROJECT.json`
lists each hazard at its line.

## The modules

`InstalledState` is the vocabulary: packages, snapshots as sets of packages, and
identities.  An identity is the record that is hashed, each part named by its own
identity: equality of identities is equality of what was hashed.  That the bytes
which are hashed tell all values apart is checked by `Identification`; that
SHA-256 does not collide is assumed throughout.

`Publication` has one predicate per factory of `publication_request.cpp`
(`InstallAdmitted`, `RequestAdmitted`, ...), the value made when it holds, and the
projection as a set.  `PublicationReceipt` does the same for backend results and
receipts.  `Accomplishes` says independently of the projection what a request
promises.

`CanonicalStore` composes them: `chain` is the generations, the last one visible;
`durable` how many of them a power failure leaves; `holder` the lock;
`prior`, `format`, `proposal`, `report` are the locals of `compare_and_publish`,
per client; `touched` remembers what a call did to the store.  The actions follow
the function: `Begin` (157-163, lock, reread and the two copies), `Refuse` and
`AnswerStale` (164-173), `Derive` (175), `Publish` (177), `Settle` (180-217).
Nothing of another client is visible between the lines of one action, since the
function shares no state outside the provider.  `Publish` lets the backend report
anything its result factories admit, whether or not the generation became
visible, as far as `MayBeVisible` (the contract) allows.  `PublishThrows` is a
`publish` that throws, before or after its effect, and `DigestFails` is OpenSSL
failing where a result or a receipt is hashed: they raise the `Breakdowns`, which
can hide an effect, as against the library's own `Refusals`.  The environment is
`Sync`, `CrashClient` and `PowerFailure`.  `Boundary` is the backend's own.

`PublicationRegister` is the abstract specification: a history that grows by whole
requests made for the state they replace, that loses only what is not permanent,
and whose receipts are true when handed out.  No locks, no steps.

`SnapshotVector` runs `snapshot::make` and the projection as the code does, one
edit, one sort and one indexing step at a time, and is checked to compute the sets
above, so that the store may use the sets.

`EvidenceRecord`, `RequestDecoding` and `ReceiptDecoding` are the evidence codec.
A record is a sequence of tokens, one for every writer call; decoding is a machine
with a cursor, one action per read or check, and the failure codes of the code.
`GenerationRecord` and `GenerationDecoding` are the generation codec: `Script`
says what each `decode_x` function reads, `stack` holds the decoders in progress,
and the end of a frame is the factory that checks and sorts.  `CanonicalText`
holds the byte classes that the checks of strings tell apart, and `PackagePath`
the parse loop.

`HashedRecord` is `canonical_record` down to its bytes (length frames, flags, tags,
big-endian integers, sign and magnitude) and the calls that every `identify`
function makes.  `Identification` is the life of an identity: appended call by
call, hashed or not, written as text, the text perhaps damaged, and parsed.

`Checkpoint` composes the store with the codecs.  A controller reads the store,
makes a request, writes the expected snapshot and the request's record, calls,
obtains the actual prior snapshot, writes it and the receipt's record, and removes
the records when it has acted.  It may die, the call may break, or the machine may
lose its power anywhere; what is left are the files written so far, the one being
written whole or torn.  `Restart` decodes them: without a request there was no job,
without a receipt the request is passed again, with both the job is settled.
`EncodedRequest`, `RequestDecodes`, `ReceiptDecodes` and the rest are the codecs on
whole values; that they are what the token machines do is what `request_decode`,
`receipt_decode` and `generation` show.  The call is one step, because the lock is
held from the comparison to the receipt (`LockDiscipline`), and a call that ends in
its middle is `PublishBreaks`.

### What the data abstractions are

* A token of the wrong shape stands for misaligned bytes.  The decoders accept a
  byte string only when encoding the result gives it back, so an accepted byte
  string always is the token sequence of some value.
* Text that no factory would accept is enumerated in the generation codec and for
  paths; in the evidence codec only the storage format has unsafe bytes.
* The proposed package inside a request record is one token: its own record is
  the subject of the generation codec.
* One digest stands for the five digests of a target binding, and one for the
  thirteen opaque digests of a build: they are read and written alike.
  All digest strings share one place in the byte order, so no instance sorts two.
* `MaxRecord`, `MaxCount`, `TokenBytes` and `MaxI64` scale the byte ceiling, the
  collection bound, the size of an element and the 64-bit integers.  What depends
  on them is only how a count or a magnitude compares with them.
* In hashed records a digest is two bytes and integers are scaled (`Width16`,
  `Width32`, `Width64`: one, two and three bytes, all different, so that a value
  passed to a call of the wrong width does not fit); the frames, their order and the
  domain are kept.
* Memory is unlimited.  OpenSSL may fail where a store call or an identification
  hashes.

## The runs

| run | question | bounds, and why they are enough |
|---|---|---|
| `store` | Can concurrency, retries, any backend outcome, a call that breaks or a crash lose an update, repeat one, falsify a receipt, or have a check refuse after an effect? | Two clients, three calls, one crash or power failure, any call broken; two package names, inputs that make valid single and composed requests, requests for other stores, and inputs each factory must refuse. Three calls are the fewest with a publication, its undoing and a retry of the first request; the second client supplies the interference. |
| `store_live` | Does the locked sequence implement the register? Does every call end? | Two calls. |
| `vector` | Do the in-place edits and the index compute what the sets say? | Every vector of up to three of seven packages; every request three snapshots admit, on eight stored snapshots: insertion before, between and after, and deltas that shift the positions of later ones. |
| `request_decode` | What does recovery get from request records? | Every request over four packages and five snapshots, under its own and every other snapshot; two composed requests damaged at every token, cut, extended, reordered, resealed, and under another request's identity. |
| `receipt_decode` | What does recovery get from receipt records? | Every combination of outcome, durability, atomicity, result and evidence for two requests and their snapshots; issued receipts misfiled under each other request and prior; damage as above. |
| `generation` | What does a store get back from generation records? | Five snapshots that between them have every optional part, every vector and the extreme timestamps; a replacement, loss, doubling or cut at every token; every order and repetition of every vector, also with the build's source identity recomputed. |
| `path` | What does `parse` accept and return? | Every string of up to five bytes over letter, dot and separator, and up to three with unsafe bytes. Five bytes spell a component between separators, repeated and trailing separators, and `.` and `..` before, after and beside a component (`../a`, `a/..`, `./a//`, `a/./a`). |
| `identity_record` | Does a hashed record, and the text of its digest, stand for one value? | 1,516 values of nine domains, in families whose members differ where two neighbouring fields could run into each other: optional parts, strings of any length, nested lists, flags, extreme and neighbouring integers, integers that only a `u64` holds, digests in a row. Every token of a digest's text replaced, dropped or doubled. |
| `checkpoint` | What does a controller know after a crash? | Two controllers, three jobs, one crash, power failure or broken call; a removal, the installation that undoes it, and a composed request with transaction evidence. Three jobs let the state return to what an earlier request expects while its records are still there. The outcomes are `published` and `indeterminate`: the others leave a receipt record of the same shape, and `receipt_decode` has them all. |
| `limit_code`, `request_count`, `generation_identity` | Violations, see below. | As the run they vary; `request_count` scales the collection bound to one. |

What they show:

* `LockDiscipline`: the client inside the lock is alone, its copy of the prior
  snapshot is the state until it publishes, and what it checked before `publish`
  holds after it.  `Lineage`: each generation is its request's effect on the one
  before.  `Provenance`: a package enters only under the evidence its receipt
  names.  `Progressive`: a publication changes the state's identity, so its
  request is spent.  `ExceptionMeansUntouched`: the checks repeated by the receipt
  factories after `publish` cannot fail, so only a breakdown hides an effect.
  `RetryIsNotRepeated`: after one, passing the retained request again is safe as
  long as its effect is the current state.  `ConfirmedIsPermanent`, `CitationIsTrue`:
  what receipts claim is so, and remains so after a power failure.
* `ImplementsRegister` (refinement) and `EveryCallReturns`.
* `SortedWhileEdited`, `EditsMakeTheProjection`, `RefusesExactly`,
  `LookupsAnswerTheVector`: vector and sets agree, also on what they refuse.
* `OnlyMakeableAccepted`, `OnlyIssuableAccepted`: decoding returns nothing that the
  controller could not have made, or the store issued.  `RequestRoundTrip`,
  `RoundTrip`, `ForeignSnapshotIsNamed`, `MisfiledIsNamed`: intact records come
  back, misfiled ones are refused with the code that says so.
* `OnlyCompleteAccepted`, `IdentityTellsRecordsApart`, `GenerationRoundTrip`:
  generation records and snapshot identities correspond one to one, and only
  complete snapshots are decoded.
* `ParsesToNormalForm`, `AncestryIsStructural`: strings behave like the component
  sequences they spell.

* `RecordNamesValue`: no two values of any domains have one record, and no record
  is the beginning of another.  `IdentificationTypeOK`: no `identify` function passes
  an append call more than its parameter holds, where C++ would narrow it silently.
  `TextNamesDigest`: what `parse` accepts is what
  `string` writes.
* `RestartUnderstands`: the records left by a failure give back the request and an
  answer that some call of the job returned.  It has one exception, which the code
  imposes: a stale receipt cites the actual prior snapshot by identity only, its
  record decodes only under that snapshot, and `compare_and_publish` does not hand
  it out.  A controller that reads the store afterwards may find a later state and
  then cannot read its own receipt record back.  `NoOrphanedEffect`: every
  generation was made by a request that is settled or still in its records.
  `RecoveredConfirmationHolds`: a confirmed receipt read back is true and permanent.

### Fairness

Safety needs none.  `EveryCallReturns` assumes weak fairness of the library's own
steps of each client: a running thread keeps running, and a lock that is free and
wanted is granted to somebody.  Nothing is assumed of the environment, of calls or
of requests.  The number of calls is bounded: with calls arriving for ever, a
waiting client could be passed over for ever unless the provider's lock is fair,
which the contract does not promise.  What the run shows is that no path out of
the function keeps the lock.

Deadlock is checked where clients may always make another request and where the
decoders rest in their final state.  `identity_record` and `checkpoint` do not
check it: an identity ends when its text is parsed, and controllers stop when
`MaxJobs` is reached.

## The proofs

`CanonicalStoreProofs` proves, for all sets of clients, packages, inputs, formats
and bounds that satisfy `StoreAssumption`, `AbsenceAssumption` and the assumptions
of the modules below:

* `TypeCorrect`, `DisciplineHolds`: `[]TypeOK` and `[]LockDiscipline`.  They are
  proved together: `IInv == TypeOK /\ LockDiscipline` is inductive and neither
  conjunct is.  `LockDiscipline` is more than mutual exclusion because mutual
  exclusion alone says nothing of the copies: the conjuncts for `derived` and
  `reported` carry what was checked across the virtual calls.  Each action is
  handled per client: the client that moves, and the bystanders, which are
  outside the lock (`Exclusion`) and therefore undisturbed (`Bystander`).
* `LineageHolds`: by `ChainSteps`, a step appends one projection of the current
  state, falls back to a prefix, or leaves the chain alone; by
  `ProjectAccomplishes`, a projection does what its request promises.
* `ExceptionsAreHarmless`: by `SettleReturns`, what `CheckedBefore` keeps is what
  the receipt factories require, so `Settle` never raises.

The second half of the module builds on that invariant:

* `ProvenanceHolds`, `ProgressHolds`: they need what `make()` guarantees beyond the
  type of a request and a client keeps (`Retained`: deltas, and one transaction).
  `ProjectionDiffers` shows delta by delta that a projection has another identity.
* `RetryHolds`: by `LineageHolds` the state that a request made came from the one it
  expects, by `ProgressHolds` it is another one, and by `LockDiscipline` a client
  past the comparison holds a request for the current one.
* `ConfirmedHolds`: by `ChainKeeps`, no step disturbs the durable prefix, which only
  grows; by `SettledReceipt`, a confirmed receipt describes its last element.
* `CitationHolds`: by `AnswerSteps`, a receipt appears only where its own call ends.
* `StoreRefinesRegister`: each action is a step of the register or a stutter;
  `SettledIsTrue` goes through the outcomes.

`PublicationProofs` holds what the modules of proofs share: which values the
factories of requests, results and receipts return, and what it takes for a set
listed by rank to be a sorted sequence that holds each element once (`LowerFacts`,
`ListingFacts`).

`CheckpointProofs` proves, for any number of controllers, jobs and failures:

* `CheckpointTypeCorrect`, `RestartHolds`, `EffectsAreKept`, `ConfirmationsHold`:
  `[]CheckpointTypeOK`, `[]RestartUnderstands`, `[]NoOrphanedEffect`,
  `[]RecoveredConfirmationHolds`.  The inductive invariant ties the
  three places where a controller keeps things to each other: what each step has in
  memory is what its files decode to (`JobInv`), every answer obtained is one that
  a call of this job returns, and a confirmed one describes a durable generation
  (`AnswersInv`), and a whole receipt record is the encoding of such an answer,
  beside the snapshot it decodes under (`ReceiptInv`).  `NoOrphanedEffect` is
  kept because a request is whole on disk before its call begins and is removed
  only when the job is settled; `RestartUnderstands` because what a crash may leave
  of a write in progress (`Leftovers`) is the files before it or after it.

`SnapshotVectorProofs` proves, for vectors and requests of any length:

* `VectorTypeCorrect`, `EditsKeepOrder`, `ProjectionHolds`, `RefusalHolds`,
  `LookupsHold`.  The inductive invariant relates the vector to the set after each
  edit: sorted and name-unique, and equal as a set to the prior packages with
  the deltas done so far applied, in whatever order a name-ordered walk takes them.  The binary search (`Bisection`, the recursion of `lower_bound` as a function on
  intervals) returns the only place a sorted vector has for a name; this, and
  what else goes by induction on a number, is proved by the least counterexample.

`ReceiptDecodingProofs` proves, for any record of any length, any request and any
snapshot:

* `DecoderTypeCorrect`, `AcceptedIsIssuable`, `RoundTripHolds`, `MisfiledNamed`:
  `[]DecoderTypeOK`, `[]OnlyIssuableAccepted`, `[]RoundTrip`, `[]MisfiledIsNamed`.
  The inductive invariant `DecoderInv` says what each phase has established: the
  arguments are one of the cases, the cursor is inside the record, the record is
  sealed and within its ceiling once it is verified, every field read is the value
  of its token, and the evidence read is what stands behind its count.
  `AcceptedIsIssuable` follows at the last two steps, where the factory returns and
  the result is encoded again.  For the other two, `FailureInv` says why a decoder of
  an encoded receipt may have failed: the lemmas on the layout show that the tokens
  it reads are those `ReceiptBody` wrote, so no check before the authority fails, those
  of the authority fail exactly for a foreign receipt, and none after them can.
  The evidence is a set in the receipt and a sorted sequence in its record: that
  `InByteOrder` lists every identity once, in byte order, is proved by counting the
  identities below each (`ByteRank` is a bijection, by the pigeonhole principle).

`RequestDecodingProofs` proves, for any record, any snapshot and requests of any
number of deltas:

* `RequestTypeCorrect`, `AcceptedIsMakeable`, `RequestRoundTripHolds`,
  `ForeignNamed`: `[]RequestDecoderTypeOK`, `[]OnlyMakeableAccepted`,
  `[]RequestRoundTrip`, `[]ForeignSnapshotIsNamed`.  The inductive invariant
  `RequestInv` has the same parts as that of the receipts, and one for the loop over
  deltas (`Intact`): where the record is an encoded request, the deltas read so far
  are the first of that request in name order, and the cursor stands where their
  tokens end.  The writer's `Output` is a recursive function; that what it writes
  for `k` deltas begins with what it writes for fewer (`OutputGrows`) is
  proved by the least counterexample.  `FailureInv` leaves an encoded request two
  reasons to be refused: another snapshot, or more deltas than the collection bound
  (`Deserves`).  `RequestRoundTrip` excludes the second by its hypothesis, and
  the finding `request_count` is what happens without it.

`PackagePathProofs` proves, for byte strings of any length:

* `PathTypeCorrect`, `ParseHolds`, `AncestryHolds`: `[]PathTypeOK`,
  `[]ParsesToNormalForm`, `[]AncestryIsStructural`.  The inductive invariant
  `PathInv` says that the components kept so far are those of the scanned part of
  the input (`Kept`), that none of them leaves the root, and, in the end, that the
  value is what they join to.  Both are flattenings, so a step of the loop is a step
  of `FlatFacts`.  The components of what components join to are those components
  again (`NormalForm`), which makes the value the one normal form.  Ancestry of two
  values is then prefixing of their components: a separator after the shorter one
  makes a string prefix end where a component does.

`IdentificationProofs` proves, for all values of the nine hashed domains, whatever
their lists hold and however they nest:

* `IdentityTypeCorrect`, `RecordsNameValues`, `TextsNameDigests`:
  `[]IdentificationTypeOK`, `[]RecordNamesValue`, `[]TextNamesDigest`.
  The argument for records is compositional.  `Tells(c, v, d, w)` says of the calls
  `c` made for `v` and `d` made for `w` that, whatever bytes follow each of them,
  the bytes agree only if `v = w` and what follows agrees too.  It holds of
  single calls (`IntegersTell`, `TextTells`, `DigestTells`), of a row of calls that
  has it part by part (`TellsThen`), of optional values (`FlaggedTells`), of lists
  behind their count (`ListTells`) and of signed times (`SignAndMagnitudeTells`),
  and so, type by type, of every `identify` function (`CallsTell`).
  Headers are equally long and tell the domain (`HeaderFacts`).  `Tells` speaks of
  what follows because a list would otherwise not compose: that is
  also why no record continues another.  The inductive invariant
  (`RecordInProgress`) ties the record to the calls made and those to come, all of
  them within their parameters (`Token`), which is the part of `IdentificationTypeOK`
  that depends on the `identify` functions.
  For texts, `AcceptedSpelling` and `SpellingAccepted` are the two directions between
  what `parse` accepts and what `string` writes; `TextInProgress` carries them.

What is assumed of the constants: that the identities are built as `InstalledState`
says and that `None` is none of them or of the error codes (`AbsenceAssumption`,
`ErrorAssumption`); that a call of the vector is for a prior snapshot as `snapshot::make`
returns it, and a request of finitely many deltas (`CallsAssumption`); that names and digests have a total order, given as the sequence
that lists them (`RecordAssumption`); that a case of a decoder is, for receipts, a
sequence of tokens, a request and a snapshot and that, where a receipt is named, the
tokens are its encoding and within the ceiling, which the encoder checks too, and,
for requests, a sequence of tokens and a snapshot, where a named request could be
made against some snapshot, a proposed package is that of a snapshot, and a digest
may stand for a plan, an application or a transaction, since a record does not say
which (`CasesAssumption` of each module); that a path is a byte string
(`InputsAssumption`); that integers have one byte at least, the magic is bytes, and
the largest magnitude of a time fits 64 bits (`WidthAssumption`); that a digest has
at least one byte and its length fits a frame (`DigestAssumption`); that the values
to identify are of the types their fields have (`ValuesAssumption`); and that a
record at the ceiling holds fewer digests than the collection bound (`ReceiptBound`:
64 MiB have no room for 1 048 576 digests of more than 64 bytes).  TLC evaluates
each on every run of its module.

Only model-checked: `EveryCallReturns` (liveness is beyond the prover) and the four
invariants of the generation decoder.  Its stack of nested decoders reads lists of
records in lists of records: what it computes for every record is an induction over
the nesting of the data and the frames of the stack together.

## Findings

* `limit_code`: the evidence decoder reports `limit_exceeded` for a count larger
  than what is left of the record; the header says that code means the byte
  ceiling was exceeded.
* `request_count`: the request encoder does not know the collection bound of its
  decoder.  A request of more than 1 048 576 deltas encodes (its record is below
  the 1 GiB ceiling) and cannot be decoded again.  Receipts are not affected:
  their 64 MiB ceiling is reached first.
* `generation_identity`: DESIGN.md and the manual say that decoding a generation
  verifies every state-owned identity; the record holds none but that of the source
  records, so a record with one valid field altered decodes to another snapshot.
  Its identity differs (`IdentityTellsRecordsApart`), and comparing it is left to
  the reader.

## Not modelled

The storage provider and the adapters, beyond their contract.  The comparison
operators and the lookups of immutable values, which compare or search member by
member.  Exception texts and the error hierarchy.  Memory exhaustion.  SHA-256
itself.  ABI checks, CI, documentation tools.

## Plan

Order of work, most important first; the first eight are done.

1. Store sequence, its environment and its register: `CanonicalStore`,
   `PublicationRegister`; all safety properties and the refinement proved.
2. Vector and index: `SnapshotVector`.
3. Evidence codec: `RequestDecoding`, `ReceiptDecoding`.
4. Generation codec: `GenerationRecord`, `GenerationDecoding`.
5. Paths: `PackagePath`.
6. Controllers that persist requests and receipts around the store and recover
   after a crash: `Checkpoint`.
7. Digest text and the unambiguity of hashed records: `HashedRecord`,
   `Identification`.
8. Proofs beyond the store: `CheckpointProofs`, `SnapshotVectorProofs`,
   `ReceiptDecodingProofs`, `RequestDecodingProofs`, `PackagePathProofs`,
   `IdentificationProofs`.
9. Proofs of the generation decoder.
