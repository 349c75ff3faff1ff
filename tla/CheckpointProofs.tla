--------------------------- MODULE CheckpointProofs ---------------------------
(***************************************************************************)
(* Proofs about Checkpoint, for every set of controllers, packages and     *)
(* inputs and every bound that satisfies its assumptions: what a restart   *)
(* reads in the records of a controller is what was written there, and it  *)
(* is true of the store, whoever crashed and wherever.                     *)
(***************************************************************************)
EXTENDS Checkpoint, PublicationProofs

-----------------------------------------------------------------------------
(* The inductive invariant *)

\* Every snapshot that can be the state of the store.
OfStore == {s \in Snapshots : s.target = StoreTarget}

ChainOfStore ==
  /\ \A i \in 1..Len(chain) : chain[i].state \in OfStore
  /\ \A i \in 2..Len(chain) : chain[i].by \in Requests

\* The request decodes under the snapshot that it was made for.
MadeOf(r, s) ==
  s \in OfStore /\ r \in Requests /\ RequestDecodes(EncodedRequest(r), s)

\* The records of c still hold its job, or they do not and no attempt was made.
HasJob(c) == Whole(disk[c].request) /\ MadeOf(Retained(c), Base(c))

NoJob(c) ==
  /\ ~Whole(disk[c].request) /\ disk[c].seen = None /\ disk[c].receipt = None
  /\ answers[c] = {}

\* What memory and disk hold at each step of a job.
JobInv(c) ==
  /\ pc[c] \in {"idle", "made"} => disk[c] = Blank /\ answers[c] = {}
  /\ pc[c] \in {"idle", "down"} => memory[c] = Blank
  /\ pc[c] = "made" => MadeOf(memory[c].request, memory[c].base)
  /\ pc[c] \in {"saved", "answered", "observed", "persisted"} =>
       HasJob(c) /\ memory[c].base = Base(c) /\ memory[c].request = Retained(c)
  /\ pc[c] = "down" => HasJob(c) \/ NoJob(c)
  /\ pc[c] \in {"answered", "observed"} => memory[c].receipt \in answers[c]
  /\ pc[c] = "observed" =>
       /\ memory[c].seen \in OfStore
       /\ \/ memory[c].receipt.outcome = "stale_expected_state"
          \/ memory[c].seen = memory[c].base

\* The receipt is one that compare_and_publish returns for r under s or, when it
\* is stale, under another snapshot.
Issued(rc, r, s) ==
  /\ rc.request = RequestIdentity(r) /\ rc.expected = r.expected /\ rc.target = r.target
  /\ rc.durability = DurabilityOf(rc.outcome)
  /\ rc.atomicity = "none" <=> rc.outcome \notin Attempted
  /\ rc.outcome \in {"published", "published_durability_unconfirmed"} => rc.resulting # None
  /\ rc.outcome \notin Attempted => rc.resulting = None
  /\ rc.resulting # None => rc.resulting = SnapshotIdentity(Project(r, s))
  /\ rc.outcome = "stale_expected_state" <=> rc.actualPrior # r.expected

\* What r made of s is a generation that no power failure takes away.
Established(r, s) ==
  \E i \in 2..durable :
    /\ chain[i].by = r /\ chain[i - 1].state = s
    /\ chain[i].state = Project(r, s)

AnswersInv(c) ==
  \A rc \in answers[c] :
    /\ Issued(rc, Retained(c), Base(c))
    /\ rc.durability = "confirmed" => Established(Retained(c), Base(c))

\* What the receipt and the snapshot beside it may be.
ReceiptInv(c) ==
  /\ DecodedSnapshot(disk[c].seen) \in OrNone(OfStore)
  /\ Whole(disk[c].receipt) =>
       /\ \E rc \in answers[c] : disk[c].receipt = EncodedReceipt(rc)
       /\ \/ disk[c].receipt.fields.outcome = "stale_expected_state"
          \/ /\ DecodedSnapshot(disk[c].seen) = Base(c)
             /\ pc[c] \in {"persisted", "down"}

IInv ==
  /\ CheckpointTypeOK /\ ChainOfStore /\ NoOrphanedEffect
  /\ \A c \in Controllers : JobInv(c) /\ AnswersInv(c) /\ ReceiptInv(c)

-----------------------------------------------------------------------------
(* Records and what they decode to *)

\* A request is read back under the snapshot that it was made for.
LEMMA RequestReads ==
  ASSUME NEW r, NEW s, MadeOf(r, s)
  PROVE  /\ Whole(EncodedRequest(r)) /\ EncodedRequest(r) \in RequestFiles
         /\ DecodedRequest(EncodedRequest(r), s) = r
         /\ ProjectAdmitted(r, s)
<1>1. r \in Requests /\ s \in Snapshots
  BY DEF MadeOf, OfStore
<1>2. EncodedRequest(r) \in RequestFiles
  BY <1>1, RequestIdentityType DEF EncodedRequest, RequestFiles, Requests
<1>3. Whole(EncodedRequest(r)) /\ s # None
  BY <1>1, <1>2, AbsenceAssumption DEF Whole
<1>4. RequestDecodes(EncodedRequest(r), s)
  BY DEF MadeOf
<1>5. Rebuilt(EncodedRequest(r), s) = r
  BY <1>1, <1>4 DEF Rebuilt, EncodedRequest, RequestDecodes, Requests
<1>6. ProjectAdmitted(r, s)
  BY <1>1, <1>4, RequestProjects DEF RequestDecodes, EncodedRequest
<1> QED
  BY <1>2, <1>3, <1>4, <1>5, <1>6 DEF DecodedRequest, Whole

\* The snapshot of a generation is read back.
LEMMA SnapshotReads ==
  ASSUME NEW s \in Snapshots
  PROVE  /\ EncodedSnapshot(s) \in SnapshotFiles
         /\ DecodedSnapshot(EncodedSnapshot(s)) = s /\ s # None
<1>1. EncodedSnapshot(s) \in SnapshotFiles
  BY DEF EncodedSnapshot, SnapshotFiles
<1>2. EncodedSnapshot(s) \notin {None, Torn}
  BY <1>1, AbsenceAssumption
<1> QED
  BY <1>1, <1>2, AbsenceAssumption DEF DecodedSnapshot, EncodedSnapshot

\* make() returns a request of the snapshot it is given.
LEMMA RequestMadeOf ==
  ASSUME NEW s \in OfStore, NEW deltas \in Seq(DeltaRecord),
         NEW transaction \in OptionalTransaction,
         Range(deltas) \subseteq Deltas,
         RequestAdmitted(s, deltas, transaction)
  PROVE  MadeOf(RequestMake(s, deltas, transaction), s)
<1> DEFINE r == RequestMake(s, deltas, transaction)
<1>1. r \in Requests
  BY RequestType DEF OfStore
<1>2. /\ r.expected = SnapshotIdentity(s) /\ r.target = s.target
      /\ r.deltas = Range(deltas) /\ r.transaction = transaction
  BY DEF RequestMake
<1>3. NameUnique(r.deltas) /\ r.deltas \subseteq Deltas
  BY <1>1 DEF Requests
<1>4. Range(deltas) # {}
  <2>1. 1 \in DOMAIN deltas
    BY DEF RequestAdmitted
  <2> QED
    BY <2>1 DEF Range
<1>5. ASSUME NEW d \in Range(deltas), NEW f \in Range(deltas), d # f
      PROVE  transaction # None
  <2>1. PICK i \in DOMAIN deltas, j \in DOMAIN deltas : deltas[i] = d /\ deltas[j] = f
    BY DEF Range
  <2>2. Len(deltas) > 1
    BY <1>5, <2>1
  <2> QED
    BY <2>2 DEF RequestAdmitted
<1>6. \A d \in Range(deltas) :
        DeltaMatches(s, d) /\ (d.proposed # None => d.proposed.transaction = transaction)
  BY DEF RequestAdmitted
<1>7. Rebuilt(EncodedRequest(r), s) = r
  BY <1>2 DEF Rebuilt, EncodedRequest, RequestMake
<1>8. RequestDecodes(EncodedRequest(r), s)
  BY <1>2, <1>3, <1>4, <1>5, <1>6, <1>7 DEF RequestDecodes, EncodedRequest
<1> QED
  BY <1>1, <1>8 DEF MadeOf

\* A receipt of a retained request is read back beside the snapshot that it
\* names as its actual prior, and nothing else is read back of its record.
LEMMA ReceiptReads ==
  ASSUME NEW r, NEW s, MadeOf(r, s),
         NEW rc \in ReceiptRecord, Issued(rc, r, s), NEW t
  PROVE  /\ DecodedReceipt(EncodedReceipt(rc), r, t) \in {None, rc}
         /\ t \in OfStore /\ SnapshotIdentity(t) = rc.actualPrior =>
              DecodedReceipt(EncodedReceipt(rc), r, t) = rc
<1> DEFINE e == EncodedReceipt(rc)
<1>1. e.fields = rc /\ e.identity = PublicationReceiptIdentity(rc)
  BY DEF EncodedReceipt
<1>2. e \in ReceiptFiles
  BY DEF EncodedReceipt, ReceiptFiles, PublicationReceiptIdentity
<1>3. e \notin {None, Torn} /\ r # None
  BY <1>2, AbsenceAssumption DEF MadeOf
<1>4. ReceiptDecodes(e, r, t) => Reissued(rc, r, t) = rc
  BY <1>1 DEF ReceiptDecodes, PublicationReceiptIdentity
<1>5. ASSUME t \in OfStore, SnapshotIdentity(t) = rc.actualPrior
      PROVE  ReceiptDecodes(e, r, t)
  <2>1. /\ r \in Requests /\ s \in Snapshots /\ s.target = StoreTarget
        /\ t \in Snapshots /\ t.target = StoreTarget /\ s.target = r.target
        /\ SnapshotIdentity(s) = r.expected
    BY <1>5 DEF MadeOf, OfStore, RequestDecodes, EncodedRequest
  <2>2. rc.outcome # "stale_expected_state" => t = s
    BY <1>5, <2>1, SnapshotNamed DEF Issued, Snapshots
  <2>3. rc.resulting # None => t = s /\ ProjectAdmitted(r, t)
    <3>1. rc.resulting # None => rc.outcome # "stale_expected_state"
      BY DEF Issued, Attempted
    <3> QED
      BY <2>2, <3>1, RequestReads
  <2>4. Reissued(rc, r, t) = rc
    <3>1. rc.resulting =
            IF rc.resulting = None THEN None ELSE SnapshotIdentity(Project(r, t))
      BY <2>3 DEF Issued
    <3> QED
      BY <1>5, <3>1 DEF Reissued, ReceiptMake, Issued, ReceiptRecord
  <2>5. IF rc.outcome = "stale_expected_state" THEN RequireStale(r, t)
        ELSE RequireCurrent(r, t)
    BY <1>5, <2>1 DEF RequireStale, RequireCurrent, Issued
  <2> QED
    BY <1>1, <1>5, <2>1, <2>3, <2>4, <2>5 DEF ReceiptDecodes, Issued
<1>6. t \in OfStore => t # None
  BY AbsenceAssumption DEF OfStore
<1> QED
  BY <1>1, <1>3, <1>4, <1>5, <1>6 DEF DecodedReceipt
-----------------------------------------------------------------------------
(* The store *)

Generation == [state : Snapshots, by : OrNone(Requests)]

\* A step takes no durable generation away.
StoreKept ==
  /\ durable' \in Nat /\ durable <= durable' /\ durable' <= Len(chain')
  /\ \A i \in 1..durable : chain'[i] = chain[i]

\* The current generation is one of the store.
LEMMA CurrentType ==
  ASSUME IInv
  PROVE  /\ chain \in Seq(Generation) /\ durable \in Nat /\ Len(chain) \in Nat
         /\ 1 <= durable /\ durable <= Len(chain)
         /\ Current \in OfStore
<1>1. chain \in Seq(Generation) /\ durable \in 1..Len(chain)
  BY DEF IInv, CheckpointTypeOK, Generation
<1>2. Len(chain) \in Nat /\ durable \in Nat /\ 1 <= durable /\ durable <= Len(chain)
  BY <1>1
<1>3. Len(chain) \in 1..Len(chain)
  BY <1>2
<1> QED
  BY <1>1, <1>2, <1>3 DEF IInv, ChainOfStore, Current

\* Whoever holds the state that its request expects can project the request.
LEMMA Projects ==
  ASSUME IInv, NEW c \in Controllers, pc[c] = "saved",
         SnapshotIdentity(Current) = memory[c].request.expected
  PROVE  /\ Current = Base(c) /\ memory[c].request = Retained(c)
         /\ ProjectAdmitted(Retained(c), Current)
         /\ Project(Retained(c), Current) \in OfStore
<1>1. /\ MadeOf(Retained(c), Base(c)) /\ memory[c].request = Retained(c)
  BY DEF IInv, JobInv, HasJob
<1>2. /\ Base(c) \in OfStore /\ Retained(c) \in Requests
      /\ Retained(c).expected = SnapshotIdentity(Base(c))
      /\ Retained(c).target = Base(c).target
  BY <1>1 DEF MadeOf, RequestDecodes, EncodedRequest
<1>3. Current = Base(c)
  BY <1>1, <1>2, CurrentType, SnapshotNamed DEF OfStore, Snapshots
<1>4. ProjectAdmitted(Retained(c), Current)
  BY <1>1, <1>3, RequestReads
<1>5. Project(Retained(c), Current) \in Snapshots
  BY <1>2, <1>4, CurrentType, ProjectType DEF OfStore
<1> QED
  BY <1>1, <1>2, <1>3, <1>4, <1>5 DEF OfStore, Project, SnapshotMake

\* The store moves when somebody publishes its request or the power fails.
LEMMA ChainSteps ==
  ASSUME IInv, [Next]_vars
  PROVE  \/ chain' = chain /\ durable' = durable
         \/ \E c \in Controllers :
              /\ pc[c] = "saved" /\ disk' = disk
              /\ Current = Base(c) /\ ProjectAdmitted(Retained(c), Current)
              /\ Project(Retained(c), Current) \in OfStore /\ Retained(c) \in Requests
              /\ chain' = Append(chain, [state |-> Project(Retained(c), Current),
                                        by |-> Retained(c)])
              /\ durable' \in {durable, Len(chain')}
         \/ \E n \in durable..Len(chain) : chain' = SubSeq(chain, 1, n) /\ durable' = n
<1> DEFINE Extends ==
      \E c \in Controllers :
        /\ pc[c] = "saved" /\ disk' = disk
        /\ Current = Base(c) /\ ProjectAdmitted(Retained(c), Current)
        /\ Project(Retained(c), Current) \in OfStore /\ Retained(c) \in Requests
        /\ chain' = Append(chain, [state |-> Project(Retained(c), Current),
                                  by |-> Retained(c)])
        /\ durable' \in {durable, Len(chain')}
<1>1. ASSUME NEW c \in Controllers, pc[c] = "saved", disk' = disk,
             SnapshotIdentity(Current) = memory[c].request.expected,
             chain' = Extended(memory[c].request, TRUE),
             durable' \in {durable, Len(chain')}
      PROVE  Extends
  <2>1. /\ Current = Base(c) /\ memory[c].request = Retained(c)
        /\ ProjectAdmitted(Retained(c), Current)
        /\ Project(Retained(c), Current) \in OfStore
    BY <1>1, Projects
  <2>2. Retained(c) \in Requests
    BY <1>1 DEF IInv, JobInv, HasJob, MadeOf
  <2> QED
    BY <1>1, <2>1, <2>2 DEF Extended
<1>2. ASSUME NEW c \in Controllers, Publish(c)
      PROVE  (chain' = chain /\ durable' = durable) \/ Extends
  <2>1. CASE SnapshotIdentity(Current) # memory[c].request.expected
    BY <1>2, <2>1 DEF Publish, storeVars
  <2>2. CASE SnapshotIdentity(Current) = memory[c].request.expected
    <3>1. PICK b \in Reports, visible \in BOOLEAN :
            /\ b.established => visible
            /\ chain' = Extended(memory[c].request, visible)
            /\ durable' = IF b.outcome = "published" THEN Len(chain') ELSE durable
      BY <1>2, <2>2 DEF Publish
    <3>2. CASE visible
      BY <1>1, <1>2, <2>2, <3>1, <3>2 DEF Publish
    <3>3. CASE ~visible
      <4>1. b.outcome # "published"
        BY <3>1, <3>3 DEF Reports, BackendResultAdmitted, Attempted
      <4> QED
        BY <3>1, <3>3, <4>1 DEF Extended
    <3> QED
      BY <3>2, <3>3
  <2> QED
    BY <2>1, <2>2
<1>3. ASSUME NEW c \in Controllers, PublishBreaks(c)
      PROVE  (chain' = chain /\ durable' = durable) \/ Extends
  <2>1. PICK visible \in BOOLEAN :
          /\ visible => SnapshotIdentity(Current) = memory[c].request.expected
          /\ chain' = Extended(memory[c].request, visible)
    BY <1>3 DEF PublishBreaks
  <2>2. CASE visible
    BY <1>1, <1>3, <2>1, <2>2 DEF PublishBreaks
  <2>3. CASE ~visible
    BY <1>3, <2>1, <2>3 DEF PublishBreaks, Extended
  <2> QED
    BY <2>2, <2>3
<1>4. ASSUME NEW c \in Controllers,
             \/ Prepare(c) \/ Write(c) \/ Observe(c) \/ Finish(c) \/ Restart(c) \/ Crash(c)
      PROVE  chain' = chain /\ durable' = durable
  BY <1>4 DEF Prepare, Write, Observe, Finish, Restart, Crash, storeVars
<1>5. ASSUME PowerFailure
      PROVE  \E n \in durable..Len(chain) : chain' = SubSeq(chain, 1, n) /\ durable' = n
  BY <1>5 DEF PowerFailure
<1>6. ASSUME UNCHANGED vars PROVE chain' = chain /\ durable' = durable
  BY <1>6 DEF vars, storeVars
<1> HIDE DEF Extends
<1>7. \/ chain' = chain /\ durable' = durable
      \/ Extends
      \/ \E n \in durable..Len(chain) : chain' = SubSeq(chain, 1, n) /\ durable' = n
  BY <1>2, <1>3, <1>4, <1>5, <1>6 DEF Next
<1> QED
  BY <1>7 DEF Extends

\* The store goes on as a store whatever the controllers do.
LEMMA StoreInv ==
  ASSUME IInv, [Next]_vars
  PROVE  /\ StoreKept /\ ChainOfStore'
         /\ chain' \in Seq(Generation) /\ durable' \in 1..Len(chain')
<1>0. /\ chain \in Seq(Generation) /\ durable \in Nat /\ Len(chain) \in Nat
      /\ 1 <= durable /\ durable <= Len(chain) /\ ChainOfStore
  BY CurrentType DEF IInv
<1>1. CASE chain' = chain /\ durable' = durable
  BY <1>0, <1>1 DEF StoreKept, ChainOfStore
<1>2. ASSUME NEW c \in Controllers,
             Project(Retained(c), Current) \in OfStore, Retained(c) \in Requests,
             chain' = Append(chain, [state |-> Project(Retained(c), Current),
                                    by |-> Retained(c)]),
             durable' \in {durable, Len(chain')}
      PROVE  /\ StoreKept /\ ChainOfStore'
             /\ chain' \in Seq(Generation) /\ durable' \in 1..Len(chain')
  <2> DEFINE g == [state |-> Project(Retained(c), Current), by |-> Retained(c)]
  <2>1. g \in Generation /\ g.state \in OfStore /\ g.by \in Requests
    BY <1>2 DEF Generation, OfStore, OrNone
  <2> HIDE DEF g
  <2>2. /\ chain' \in Seq(Generation) /\ Len(chain') = Len(chain) + 1
        /\ \A i \in 1..Len(chain) : chain'[i] = chain[i]
        /\ chain'[Len(chain) + 1] = g
    BY <1>0, <1>2, <2>1 DEF g
  <2>3. ChainOfStore'
    BY <1>0, <2>1, <2>2 DEF ChainOfStore
  <2> QED
    BY <1>0, <1>2, <2>2, <2>3 DEF StoreKept
<1>3. ASSUME NEW n \in durable..Len(chain), chain' = SubSeq(chain, 1, n), durable' = n
      PROVE  /\ StoreKept /\ ChainOfStore'
             /\ chain' \in Seq(Generation) /\ durable' \in 1..Len(chain')
  <2>1. n \in Nat /\ 1 <= n /\ n <= Len(chain)
    BY <1>0
  <2>2. /\ chain' \in Seq(Generation) /\ Len(chain') = n
        /\ \A i \in 1..n : chain'[i] = chain[i]
    BY <1>0, <1>3, <2>1
  <2> QED
    BY <1>0, <1>3, <2>1, <2>2 DEF StoreKept, ChainOfStore
<1> QED
  BY <1>1, <1>2, <1>3, ChainSteps

-----------------------------------------------------------------------------
(* Receipts *)

\* What compare_and_publish returns of the snapshot that the request expects.
LEMMA ReceiptOfType ==
  ASSUME NEW r, NEW s, MadeOf(r, s), NEW b \in Reports
  PROVE  LET rc == ReceiptOf(r, s, Project(r, s), Format, b) IN
         rc \in ReceiptRecord /\ Issued(rc, r, s)
<1> DEFINE rc == ReceiptOf(r, s, Project(r, s), Format, b)
           resulting == IF b.established THEN SnapshotIdentity(Project(r, s)) ELSE None
<1>1. /\ r \in Requests /\ s \in Snapshots /\ Project(r, s) \in Snapshots
      /\ r.expected = SnapshotIdentity(s)
  BY RequestReads, ProjectType DEF MadeOf, OfStore, RequestDecodes, EncodedRequest
<1>2. /\ b.outcome \in BackendOutcomes /\ b.outcome # "stale_expected_state"
      /\ b.atomicity \in Boundaries \cup {"none"}
      /\ b.evidence \in Seq(Evidence) /\ b.established \in BOOLEAN
  BY CheckpointAssumption DEF Reports, BackendOutcomes
<1>3. resulting \in SnapshotIdentities \cup {None}
  BY <1>1 DEF Snapshots, SnapshotRecord, SnapshotIdentities
<1>4. rc = ReceiptMake(r, s, Format, b.outcome, b.atomicity, resulting, b.evidence)
  BY DEF ReceiptOf
<1>5. rc \in ReceiptRecord
  <2>1. Format \in Seq(FormatBytes) /\ b.outcome \in Outcomes
    BY <1>2, CheckpointAssumption DEF Outcomes
  <2> HIDE DEF rc, resulting
  <2> QED
    BY <1>1, <1>2, <1>3, <1>4, <2>1, ReceiptType
<1>6. /\ b.atomicity = "none" <=> b.outcome \notin Attempted
      /\ b.outcome # "indeterminate" => b.established = (b.outcome \in Attempted)
  BY DEF Reports, BackendResultAdmitted
<1>7. SnapshotIdentity(Project(r, s)) # None
  BY <1>1, AbsenceAssumption DEF Snapshots, SnapshotIdentities
<1>8. Issued(rc, r, s)
  <2>1. /\ rc.request = RequestIdentity(r) /\ rc.expected = r.expected
        /\ rc.target = r.target /\ rc.outcome = b.outcome
        /\ rc.durability = DurabilityOf(b.outcome) /\ rc.atomicity = b.atomicity
        /\ rc.resulting = resulting /\ rc.actualPrior = SnapshotIdentity(s)
    BY <1>4 DEF ReceiptMake
  <2>2. b.outcome \notin Attempted => ~b.established
    BY <1>2, <1>6 DEF Attempted
  <2>3. b.outcome \in {"published", "published_durability_unconfirmed"} => b.established
    BY <1>6 DEF Attempted
  <2> QED
    BY <1>1, <1>2, <1>6, <1>7, <2>1, <2>2, <2>3 DEF Issued
<1> QED
  BY <1>5, <1>8

\* What it returns when the store has moved on.
LEMMA StaleReceiptType ==
  ASSUME NEW r, NEW s, MadeOf(r, s), NEW t \in OfStore,
         SnapshotIdentity(t) # r.expected
  PROVE  /\ StaleReceipt(r, t, Format) \in ReceiptRecord
         /\ Issued(StaleReceipt(r, t, Format), r, s)
<1> DEFINE rc == StaleReceipt(r, t, Format)
<1>1. rc = ReceiptMake(r, t, Format, "stale_expected_state", "none", None, <<>>)
  BY DEF StaleReceipt
<1>2. rc \in ReceiptRecord
  <2>1. r \in Requests /\ t \in Snapshots /\ Format \in Seq(FormatBytes)
    BY CheckpointAssumption DEF MadeOf, OfStore
  <2>2. /\ "stale_expected_state" \in Outcomes /\ "none" \in Boundaries \cup {"none"}
        /\ None \in SnapshotIdentities \cup {None} /\ <<>> \in Seq(Evidence)
    BY DEF Outcomes
  <2> HIDE DEF rc
  <2> QED
    BY <1>1, <2>1, <2>2, ReceiptType
<1>3. Issued(rc, r, s)
  BY <1>1 DEF Issued, ReceiptMake, Attempted
<1> QED
  BY <1>2, <1>3

-----------------------------------------------------------------------------
(* Type correctness *)

PlaceSet == {"idle", "made", "saved", "answered", "observed", "persisted", "down"}

MemoryRecord ==
  [base : OrNone(Snapshots), request : OrNone(Requests), seen : OrNone(Snapshots),
   receipt : OrNone(ReceiptRecord)]

DiskRecord ==
  [base : FileOf(SnapshotFiles), request : FileOf(RequestFiles),
   seen : FileOf(SnapshotFiles), receipt : FileOf(ReceiptFiles)]

\* A controller that has nothing has records of the right types.
LEMMA BlankType == Blank \in MemoryRecord /\ Blank \in DiskRecord
BY DEF Blank, Files, MemoryRecord, DiskRecord, OrNone, FileOf

\* The type invariant, one variable after another.
LEMMA TypeParts ==
  CheckpointTypeOK <=>
    /\ chain \in Seq(Generation) /\ durable \in 1..Len(chain)
    /\ pc \in [Controllers -> PlaceSet]
    /\ memory \in [Controllers -> MemoryRecord]
    /\ disk \in [Controllers -> DiskRecord]
    /\ answers \in [Controllers -> SUBSET ReceiptRecord]
    /\ settled \subseteq Requests
    /\ jobs \in 0..MaxJobs /\ failures \in 0..MaxFailures
BY DEF CheckpointTypeOK, Generation, PlaceSet, MemoryRecord, DiskRecord

\* The values that a controller writes have records of their kind.
LEMMA EncodedType ==
  ASSUME IInv, NEW c \in Controllers
  PROVE  /\ pc[c] = "made" =>
              /\ EncodedSnapshot(memory[c].base) \in SnapshotFiles
              /\ EncodedRequest(memory[c].request) \in RequestFiles
         /\ pc[c] = "observed" =>
              /\ EncodedSnapshot(memory[c].seen) \in SnapshotFiles
              /\ memory[c].receipt \in ReceiptRecord
              /\ EncodedReceipt(memory[c].receipt) \in ReceiptFiles
<1>1. ASSUME pc[c] = "made"
      PROVE  /\ EncodedSnapshot(memory[c].base) \in SnapshotFiles
             /\ EncodedRequest(memory[c].request) \in RequestFiles
  <2>1. MadeOf(memory[c].request, memory[c].base)
    BY <1>1 DEF IInv, JobInv
  <2>2. memory[c].base \in Snapshots
    BY <2>1 DEF MadeOf, OfStore
  <2> QED
    BY <2>1, <2>2, RequestReads, SnapshotReads
<1>2. ASSUME pc[c] = "observed"
      PROVE  /\ EncodedSnapshot(memory[c].seen) \in SnapshotFiles
             /\ memory[c].receipt \in ReceiptRecord
             /\ EncodedReceipt(memory[c].receipt) \in ReceiptFiles
  <2>1. memory[c].seen \in Snapshots /\ memory[c].receipt \in answers[c]
    BY <1>2 DEF IInv, JobInv, OfStore
  <2>2. memory[c].receipt \in ReceiptRecord
    BY <2>1, TypeParts DEF IInv
  <2> QED
    BY <2>1, <2>2, SnapshotReads
       DEF EncodedReceipt, ReceiptFiles, PublicationReceiptIdentity
<1> QED
  BY <1>1, <1>2

\* Which files a step writes, and what their first n leave.
LEMMA WritingAt ==
  /\ Writing("made") = <<"base", "request">>
  /\ Writing("observed") = <<"seen", "receipt">>
  /\ \A step : step \notin {"made", "observed"} => Writing(step) = <<>>
<1>1. Writing("made") = <<"base", "request">> /\ Writing("observed") = <<"seen", "receipt">>
  BY DEF Writing
<1>2. ASSUME NEW step, step \notin {"made", "observed"} PROVE Writing(step) = <<>>
  BY <1>2 DEF Writing
<1> QED
  BY <1>1, <1>2

\* The first files of two.
LEMMA FirstFiles ==
  ASSUME NEW a, NEW b
  PROVE  /\ Range(SubSeq(<<a, b>>, 1, 0)) = {}
         /\ Range(SubSeq(<<a, b>>, 1, 1)) = {a}
         /\ Range(SubSeq(<<a, b>>, 1, 2)) = {a, b}
<1>1. Range(SubSeq(<<a, b>>, 1, 0)) = {}
  BY DEF Range
<1>2. Range(SubSeq(<<a, b>>, 1, 1)) = {a}
  BY DEF Range
<1>3. Range(SubSeq(<<a, b>>, 1, 2)) = {a, b}
  BY DEF Range
<1> QED
  BY <1>1, <1>2, <1>3

\* No file is among none.
LEMMA NothingWritten == Range(SubSeq(<<>>, 1, 0)) = {}
BY DEF Range

\* The records that the files of a step leave when it is interrupted or done,
\* written out.
LEMMA MadeWrites ==
  ASSUME NEW c \in Controllers, pc[c] = "made", disk[c] \in DiskRecord
  PROVE  /\ Written(c, 0) = disk[c]
         /\ Written(c, 1) = [disk[c] EXCEPT !["base"] = EncodedSnapshot(memory[c].base)]
         /\ Written(c, 2) = [disk[c] EXCEPT !["base"] = EncodedSnapshot(memory[c].base),
                                            !["request"] = EncodedRequest(memory[c].request)]
<1>1. /\ Encoded("base", memory[c]["base"]) = EncodedSnapshot(memory[c].base)
      /\ Encoded("request", memory[c]["request"]) = EncodedRequest(memory[c].request)
  BY DEF Encoded
<1>2. DOMAIN disk[c] = Files
  BY DEF DiskRecord, Files
<1>3. Written(c, 0) = disk[c]
  <2>1. Written(c, 0) = [f \in Files |-> disk[c][f]]
    BY WritingAt, FirstFiles DEF Written
  <2> QED
    BY <1>2, <2>1 DEF DiskRecord, Files
<1>4. Written(c, 1) = [f \in Files |->
        IF f \in {"base"} THEN Encoded(f, memory[c][f]) ELSE disk[c][f]]
  BY WritingAt, FirstFiles DEF Written
<1>5. Written(c, 2) = [f \in Files |->
        IF f \in {"base", "request"} THEN Encoded(f, memory[c][f]) ELSE disk[c][f]]
  BY WritingAt, FirstFiles DEF Written
<1>6. Written(c, 1) = [disk[c] EXCEPT !["base"] = EncodedSnapshot(memory[c].base)]
  BY <1>1, <1>2, <1>4 DEF Files
<1>7. Written(c, 2) = [disk[c] EXCEPT !["base"] = EncodedSnapshot(memory[c].base),
                                      !["request"] = EncodedRequest(memory[c].request)]
  BY <1>1, <1>2, <1>5 DEF Files
<1> QED
  BY <1>3, <1>6, <1>7

\* What is on disk while the observation is written.
LEMMA ObservedWrites ==
  ASSUME NEW c \in Controllers, pc[c] = "observed", disk[c] \in DiskRecord
  PROVE  /\ Written(c, 0) = disk[c]
         /\ Written(c, 1) = [disk[c] EXCEPT !["seen"] = EncodedSnapshot(memory[c].seen)]
         /\ Written(c, 2) = [disk[c] EXCEPT !["seen"] = EncodedSnapshot(memory[c].seen),
                                            !["receipt"] = EncodedReceipt(memory[c].receipt)]
<1>1. /\ Encoded("seen", memory[c]["seen"]) = EncodedSnapshot(memory[c].seen)
      /\ Encoded("receipt", memory[c]["receipt"]) = EncodedReceipt(memory[c].receipt)
  BY DEF Encoded
<1>2. DOMAIN disk[c] = Files
  BY DEF DiskRecord, Files
<1>3. Written(c, 0) = disk[c]
  <2>1. Written(c, 0) = [f \in Files |-> disk[c][f]]
    BY WritingAt, FirstFiles DEF Written
  <2> QED
    BY <1>2, <2>1 DEF DiskRecord, Files
<1>4. Written(c, 1) = [f \in Files |->
        IF f \in {"seen"} THEN Encoded(f, memory[c][f]) ELSE disk[c][f]]
  BY WritingAt, FirstFiles DEF Written
<1>5. Written(c, 2) = [f \in Files |->
        IF f \in {"seen", "receipt"} THEN Encoded(f, memory[c][f]) ELSE disk[c][f]]
  BY WritingAt, FirstFiles DEF Written
<1>6. Written(c, 1) = [disk[c] EXCEPT !["seen"] = EncodedSnapshot(memory[c].seen)]
  BY <1>1, <1>2, <1>4 DEF Files
<1>7. Written(c, 2) = [disk[c] EXCEPT !["seen"] = EncodedSnapshot(memory[c].seen),
                                      !["receipt"] = EncodedReceipt(memory[c].receipt)]
  BY <1>1, <1>2, <1>5 DEF Files
<1> QED
  BY <1>3, <1>6, <1>7

\* The records that may be left: those of a step that writes nothing, the whole
\* job or none of it, or its answer beside the snapshot that it needs.
LeftBy(c, left) ==
  /\ left \in DiskRecord
  /\ pc[c] \notin {"made", "observed"} => left = disk[c]
  /\ pc[c] = "made" =>
       /\ left.seen = None /\ left.receipt = None
       /\ \/ ~Whole(left.request)
          \/ /\ left.request = EncodedRequest(memory[c].request)
             /\ left.base = EncodedSnapshot(memory[c].base)
  /\ pc[c] = "observed" =>
       /\ left.base = disk[c].base /\ left.request = disk[c].request
       /\ left.seen \in {disk[c].seen, Torn, EncodedSnapshot(memory[c].seen)}
       /\ \/ left.receipt = Torn
          \/ left.receipt = disk[c].receipt
          \/ /\ left.receipt = EncodedReceipt(memory[c].receipt)
             /\ left.seen = EncodedSnapshot(memory[c].seen)

\* What an interrupted write may leave on disk.
LEMMA LeftoversAre ==
  ASSUME IInv, NEW c \in Controllers, NEW left \in Leftovers(c)
  PROVE  LeftBy(c, left)
<1> DEFINE files == Writing(pc[c])
<1>0. disk[c] \in DiskRecord
  BY TypeParts DEF IInv
<1>1. ASSUME pc[c] \notin {"made", "observed"} PROVE left = disk[c]
  <2>1. files = <<>>
    BY <1>1, WritingAt
  <2>2. Written(c, 0) = [f \in Files |-> disk[c][f]]
    BY <2>1, NothingWritten DEF Written
  <2>3. Written(c, 0) = disk[c]
    BY <1>0, <2>2 DEF DiskRecord, Files
  <2>4. Leftovers(c) = {Written(c, 0)}
    BY <2>1 DEF Leftovers
  <2> QED
    BY <2>3, <2>4
<1>2. CASE pc[c] = "made"
  <2>1. files = <<"base", "request">>
    BY <1>2, WritingAt
  <2>2. left \in {Written(c, 0), Written(c, 1), Written(c, 2),
                  [Written(c, 0) EXCEPT !["base"] = Torn],
                  [Written(c, 1) EXCEPT !["request"] = Torn]}
    BY <2>1 DEF Leftovers
  <2>3. disk[c] = Blank
    BY <1>2 DEF IInv, JobInv
  <2>4. /\ EncodedSnapshot(memory[c].base) \in SnapshotFiles
        /\ EncodedRequest(memory[c].request) \in RequestFiles
    BY <1>2, EncodedType
  <2>5. /\ left.seen = None /\ left.receipt = None
        /\ \/ left.request \in {None, Torn}
           \/ /\ left.request = EncodedRequest(memory[c].request)
              /\ left.base = EncodedSnapshot(memory[c].base)
    BY <1>0, <1>2, <2>2, <2>3, MadeWrites DEF Blank, Files
  <2>6. left \in DiskRecord
    BY <1>0, <1>2, <2>2, <2>4, MadeWrites DEF DiskRecord, FileOf
  <2> QED
    BY <1>2, <2>5, <2>6 DEF Whole, LeftBy
<1>3. CASE pc[c] = "observed"
  <2>1. files = <<"seen", "receipt">>
    BY <1>3, WritingAt
  <2>2. left \in {Written(c, 0), Written(c, 1), Written(c, 2),
                  [Written(c, 0) EXCEPT !["seen"] = Torn],
                  [Written(c, 1) EXCEPT !["receipt"] = Torn]}
    BY <2>1 DEF Leftovers
  <2>3. /\ EncodedSnapshot(memory[c].seen) \in SnapshotFiles
        /\ EncodedReceipt(memory[c].receipt) \in ReceiptFiles
    BY <1>3, EncodedType
  <2>4. /\ left.base = disk[c].base /\ left.request = disk[c].request
        /\ left.seen \in {disk[c].seen, Torn, EncodedSnapshot(memory[c].seen)}
        /\ \/ left.receipt = Torn
           \/ left.receipt = disk[c].receipt
           \/ /\ left.receipt = EncodedReceipt(memory[c].receipt)
              /\ left.seen = EncodedSnapshot(memory[c].seen)
    BY <1>0, <1>3, <2>2, ObservedWrites DEF DiskRecord
  <2>5. left \in DiskRecord
    BY <1>0, <1>3, <2>2, <2>3, ObservedWrites DEF DiskRecord, FileOf
  <2> QED
    BY <1>3, <2>4, <2>5 DEF LeftBy
<1> QED
  BY <1>0, <1>1, <1>2, <1>3 DEF LeftBy

\* What is read back of a receipt is one of the answers.
LEMMA VerdictIs ==
  ASSUME IInv, NEW c \in Controllers
  PROVE  /\ Verdict(c) \in OrNone(answers[c]) /\ answers[c] \subseteq ReceiptRecord
         /\ Whole(disk[c].receipt) =>
              \E rc \in answers[c] :
                /\ disk[c].receipt = EncodedReceipt(rc)
                /\ HasJob(c) /\ Issued(rc, Retained(c), Base(c))
                /\ Verdict(c) \in {None, rc}
         /\ ~Whole(disk[c].receipt) => Verdict(c) = None
<1>1. answers[c] \subseteq ReceiptRecord
  BY TypeParts DEF IInv
<1>2. ASSUME Whole(disk[c].receipt)
      PROVE  \E rc \in answers[c] :
               /\ disk[c].receipt = EncodedReceipt(rc)
               /\ HasJob(c) /\ Issued(rc, Retained(c), Base(c))
               /\ Verdict(c) \in {None, rc}
  <2>1. PICK rc \in answers[c] : disk[c].receipt = EncodedReceipt(rc)
    BY <1>2 DEF IInv, ReceiptInv
  <2>2. HasJob(c)
    BY <2>1, TypeParts DEF IInv, JobInv, NoJob, PlaceSet
  <2>3. Issued(rc, Retained(c), Base(c))
    BY <2>1 DEF IInv, AnswersInv
  <2>4. Verdict(c) \in {None, rc}
    BY <1>1, <2>1, <2>2, <2>3, ReceiptReads DEF Verdict, HasJob
  <2> QED
    BY <2>1, <2>2, <2>3, <2>4
<1>3. ~Whole(disk[c].receipt) => Verdict(c) = None
  BY DEF Whole, Verdict, DecodedReceipt
<1> QED
  BY <1>1, <1>2, <1>3 DEF OrNone

\* The first state is of the types.
LEMMA InitType == Init => CheckpointTypeOK
<1> SUFFICES ASSUME Init PROVE CheckpointTypeOK
  OBVIOUS
<1> DEFINE first == [state |-> SnapshotMake(StoreTarget, InitialPackages), by |-> None]
<1>1. SnapshotMake(StoreTarget, InitialPackages) \in Snapshots
  BY CheckpointAssumption DEF SnapshotMake, Snapshots, SnapshotRecord
<1>2. first \in Generation
  BY <1>1 DEF Generation, OrNone
<1>3. chain = <<first>> /\ durable = 1
  BY DEF Init
<1> HIDE DEF first
<1>4. chain \in Seq(Generation) /\ durable \in 1..Len(chain)
  BY <1>2, <1>3
<1>5. /\ pc \in [Controllers -> PlaceSet] /\ memory \in [Controllers -> MemoryRecord]
      /\ disk \in [Controllers -> DiskRecord]
      /\ answers \in [Controllers -> SUBSET ReceiptRecord]
  BY BlankType DEF Init, PlaceSet
<1>6. settled \subseteq Requests /\ jobs \in 0..MaxJobs /\ failures \in 0..MaxFailures
  BY CheckpointAssumption DEF Init
<1> QED
  BY <1>4, <1>5, <1>6, TypeParts

\* The invariant holds at first.
LEMMA InitInv == Init => IInv
<1> SUFFICES ASSUME Init PROVE IInv
  OBVIOUS
<1>1. CheckpointTypeOK
  BY InitType
<1>2. /\ Len(chain) = 1 /\ chain[1].state = SnapshotMake(StoreTarget, InitialPackages)
  BY DEF Init
<1>3. SnapshotMake(StoreTarget, InitialPackages) \in OfStore
  BY CheckpointAssumption DEF SnapshotMake, Snapshots, SnapshotRecord, OfStore
<1>4. ChainOfStore /\ NoOrphanedEffect
  BY <1>2, <1>3 DEF ChainOfStore, NoOrphanedEffect
<1>5. ASSUME NEW c \in Controllers PROVE JobInv(c) /\ AnswersInv(c) /\ ReceiptInv(c)
  <2>1. /\ pc[c] = "idle" /\ disk[c] = Blank /\ memory[c] = Blank /\ answers[c] = {}
        /\ Blank.seen = None /\ Blank.receipt = None
    BY DEF Init, Blank, Files
  <2> QED
    BY <2>1 DEF JobInv, AnswersInv, ReceiptInv, DecodedSnapshot, OrNone, Whole
<1> QED
  BY <1>1, <1>4, <1>5 DEF IInv

\* Every step keeps the types.
LEMMA NextType == ASSUME IInv, [Next]_vars PROVE CheckpointTypeOK'
<1> USE DEF vars, storeVars, historyVars, Goto
<1>0. /\ chain' \in Seq(Generation) /\ durable' \in 1..Len(chain')
  BY StoreInv
<1>1. /\ pc \in [Controllers -> PlaceSet] /\ memory \in [Controllers -> MemoryRecord]
      /\ disk \in [Controllers -> DiskRecord]
      /\ answers \in [Controllers -> SUBSET ReceiptRecord]
      /\ settled \subseteq Requests /\ jobs \in 0..MaxJobs /\ failures \in 0..MaxFailures
      /\ MaxJobs \in Nat /\ MaxFailures \in Nat
  BY TypeParts, CheckpointAssumption DEF IInv
<1> DEFINE Rest ==
      /\ pc \in [Controllers -> PlaceSet] /\ memory \in [Controllers -> MemoryRecord]
      /\ disk \in [Controllers -> DiskRecord]
      /\ answers \in [Controllers -> SUBSET ReceiptRecord]
      /\ settled \subseteq Requests /\ jobs \in 0..MaxJobs /\ failures \in 0..MaxFailures
<1>2. ASSUME NEW c \in Controllers, Prepare(c) PROVE Rest'
  <2>1. PICK input \in Inputs :
          /\ Range(input[1]) \subseteq Deltas
          /\ RequestAdmitted(Current, input[1], input[2])
          /\ memory' = [memory EXCEPT ![c] =
               [Blank EXCEPT !["base"] = Current,
                             !["request"] = RequestMake(Current, input[1], input[2])]]
    BY <1>2 DEF Prepare
  <2>2. input[1] \in Seq(DeltaRecord) /\ input[2] \in OptionalTransaction
    BY CheckpointAssumption
  <2>3. Current \in Snapshots /\ RequestMake(Current, input[1], input[2]) \in Requests
    BY <2>1, <2>2, CurrentType, RequestType DEF OfStore
  <2>4. [Blank EXCEPT !["base"] = Current,
                      !["request"] = RequestMake(Current, input[1], input[2])]
          \in MemoryRecord
    BY <2>3 DEF Blank, Files, MemoryRecord, OrNone
  <2> QED
    <3>1. memory' \in [Controllers -> MemoryRecord]
      BY <1>1, <2>1, <2>4
    <3>2. jobs' \in 0..MaxJobs
      BY <1>1, <1>2 DEF Prepare
    <3>3. pc' \in [Controllers -> PlaceSet]
      BY <1>1, <1>2 DEF Prepare, PlaceSet
    <3> QED
      BY <1>1, <1>2, <3>1, <3>2, <3>3 DEF Prepare
<1>3. ASSUME NEW c \in Controllers, Write(c) PROVE Rest'
  <2>1. Written(c, 2) \in DiskRecord
    <3>1. Len(Writing(pc[c])) = 2
      BY <1>3, WritingAt DEF Write
    <3>2. Written(c, 2) \in Leftovers(c)
      BY <3>1 DEF Leftovers
    <3> QED
      BY <3>2, LeftoversAre DEF LeftBy
  <2> QED
    BY <1>1, <1>3, <2>1 DEF Write, PlaceSet
<1>4. ASSUME NEW c \in Controllers, Publish(c) PROVE Rest'
  <2>1. \E rc \in ReceiptRecord :
          /\ memory' = [memory EXCEPT ![c].receipt = rc]
          /\ answers' = [answers EXCEPT ![c] = @ \cup {rc}]
    <3>1. MadeOf(Retained(c), Base(c)) /\ memory[c].request = Retained(c)
      BY <1>4 DEF IInv, JobInv, HasJob, Publish
    <3>2. CASE SnapshotIdentity(Current) # memory[c].request.expected
      BY <1>4, <3>1, <3>2, CurrentType, StaleReceiptType DEF Publish
    <3>3. CASE SnapshotIdentity(Current) = memory[c].request.expected
      <4>1. PICK b \in Reports :
              LET rc == ReceiptOf(memory[c].request, Current,
                                  Project(memory[c].request, Current), Format, b)
              IN  /\ memory' = [memory EXCEPT ![c].receipt = rc]
                  /\ answers' = [answers EXCEPT ![c] = @ \cup {rc}]
        BY <1>4, <3>3 DEF Publish
      <4>2. Current = Base(c)
        BY <1>4, <3>3, Projects DEF Publish
      <4> QED
        BY <3>1, <4>1, <4>2, ReceiptOfType
    <3> QED
      BY <3>2, <3>3
  <2>2. PICK rc \in ReceiptRecord :
          /\ memory' = [memory EXCEPT ![c].receipt = rc]
          /\ answers' = [answers EXCEPT ![c] = @ \cup {rc}]
    BY <2>1
  <2>3. memory' \in [Controllers -> MemoryRecord]
    BY <1>1, <2>2 DEF MemoryRecord, OrNone
  <2>4. answers' \in [Controllers -> SUBSET ReceiptRecord]
    BY <1>1, <2>2
  <2> QED
    BY <1>1, <1>4, <2>3, <2>4 DEF Publish, PlaceSet
<1>5. ASSUME NEW c \in Controllers, PublishBreaks(c) PROVE Rest'
  BY <1>1, <1>5, BlankType DEF PublishBreaks, PlaceSet
<1>6. ASSUME NEW c \in Controllers, Observe(c) PROVE Rest'
  <2>1. Current \in OrNone(Snapshots) /\ memory[c].base \in OrNone(Snapshots)
    BY <1>1, CurrentType DEF OfStore, OrNone, MemoryRecord
  <2>2. memory' \in [Controllers -> MemoryRecord]
    BY <1>1, <1>6, <2>1 DEF Observe, MemoryRecord
  <2> QED
    BY <1>1, <1>6, <2>2 DEF Observe, PlaceSet
<1>7. ASSUME NEW c \in Controllers, Finish(c) PROVE Rest'
  <2>1. memory[c].request \in Requests
    BY <1>7 DEF IInv, JobInv, HasJob, MadeOf, Finish
  <2> QED
    BY <1>1, <1>7, <2>1, BlankType DEF Finish, PlaceSet
<1>8. ASSUME NEW c \in Controllers, Crash(c) PROVE Rest'
  BY <1>1, <1>8, BlankType, LeftoversAre DEF Crash, PlaceSet, LeftBy
<1>9. ASSUME NEW c \in Controllers, Restart(c) PROVE Rest'
  <2>1. CASE Retained(c) = None
    BY <1>1, <1>9, <2>1, BlankType DEF Restart, PlaceSet
  <2>2. CASE Retained(c) # None
    <3>1. HasJob(c)
      BY <1>9, <2>2
         DEF IInv, JobInv, NoJob, Restart, Retained, DecodedRequest, Whole
    <3>2. /\ Base(c) \in OrNone(Snapshots) /\ Retained(c) \in OrNone(Requests)
          /\ DecodedSnapshot(disk[c].seen) \in OrNone(Snapshots)
          /\ Verdict(c) \in OrNone(ReceiptRecord)
      BY <3>1, VerdictIs DEF HasJob, MadeOf, OfStore, OrNone, IInv, ReceiptInv
    <3>3. Recovered(c) \in MemoryRecord
      BY <3>2 DEF Recovered, MemoryRecord
    <3> QED
      BY <1>1, <1>9, <2>2, <3>3 DEF Restart, PlaceSet
  <2> QED
    BY <2>1, <2>2
<1>10. ASSUME PowerFailure PROVE Rest'
  <2>1. disk' \in [Controllers -> DiskRecord]
    BY <1>10, LeftoversAre DEF PowerFailure, LeftBy
  <2> QED
    BY <1>1, <1>10, <2>1, BlankType DEF PowerFailure, PlaceSet
<1>11. ASSUME UNCHANGED vars PROVE Rest'
  BY <1>1, <1>11
<1> HIDE DEF Rest
<1>12. Rest'
  BY <1>2, <1>3, <1>4, <1>5, <1>6, <1>7, <1>8, <1>9, <1>10, <1>11 DEF Next
<1> QED
  BY <1>0, <1>12
     DEF Rest, CheckpointTypeOK, Generation, PlaceSet, MemoryRecord, DiskRecord

-----------------------------------------------------------------------------
(* The invariant of each controller *)

ControllerInv(c) == JobInv(c) /\ AnswersInv(c) /\ ReceiptInv(c)

\* The answers of a job stay true while its base and request are kept.
LEMMA AnswersStay ==
  ASSUME IInv, [Next]_vars, NEW c \in Controllers,
         Base(c)' = Base(c), Retained(c)' = Retained(c)
  PROVE  /\ \A rc \in answers[c] :
              /\ Issued(rc, Retained(c)', Base(c)')
              /\ rc.durability = "confirmed" => Established(Retained(c), Base(c))'
         /\ answers'[c] = answers[c] => AnswersInv(c)'
<1> SUFFICES ASSUME NEW rc \in answers[c]
             PROVE  /\ Issued(rc, Retained(c)', Base(c)')
                    /\ rc.durability = "confirmed" =>
                         Established(Retained(c), Base(c))'
  BY DEF AnswersInv
<1>1. /\ Issued(rc, Retained(c), Base(c))
      /\ rc.durability = "confirmed" => Established(Retained(c), Base(c))
  BY DEF IInv, AnswersInv
<1>2. Established(Retained(c), Base(c)) => Established(Retained(c), Base(c))'
  <2>1. SUFFICES ASSUME Established(Retained(c), Base(c))
                 PROVE  \E i \in 2..durable' :
                          /\ chain'[i].by = Retained(c) /\ chain'[i - 1].state = Base(c)
                          /\ chain'[i].state = Project(Retained(c), Base(c))
    BY DEF Established
  <2>2. PICK i \in 2..durable :
          /\ chain[i].by = Retained(c) /\ chain[i - 1].state = Base(c)
          /\ chain[i].state = Project(Retained(c), Base(c))
    BY <2>1 DEF Established
  <2>3. durable \in Nat /\ i \in 1..durable /\ i - 1 \in 1..durable
    BY CurrentType
  <2>4. durable' \in Nat /\ durable <= durable'
        /\ chain'[i] = chain[i] /\ chain'[i - 1] = chain[i - 1]
    BY <2>3, StoreInv DEF StoreKept
  <2> QED
    BY <2>2, <2>3, <2>4
<1> QED
  BY <1>1, <1>2

\* A controller that takes no part in a step keeps its invariant.
LEMMA Bystander ==
  ASSUME IInv, [Next]_vars, NEW c \in Controllers,
         pc'[c] = pc[c], memory'[c] = memory[c], disk'[c] = disk[c],
         answers'[c] = answers[c]
  PROVE  ControllerInv(c)'
<1>1. Base(c)' = Base(c) /\ Retained(c)' = Retained(c)
  BY DEF Base, Retained
<1>2. AnswersInv(c)'
  BY <1>1, AnswersStay
<1>3. HasJob(c)' <=> HasJob(c)
  BY <1>1 DEF HasJob
<1>4. NoJob(c)' <=> NoJob(c)
  BY DEF NoJob
<1>5. JobInv(c)'
  BY <1>1, <1>3, <1>4 DEF IInv, JobInv
<1>6. ReceiptInv(c)'
  BY <1>1 DEF IInv, ReceiptInv
<1> QED
  BY <1>2, <1>5, <1>6 DEF ControllerInv

\* A controller that goes down leaves its job whole or not begun.
LEMMA GoingDown ==
  ASSUME IInv, [Next]_vars, NEW c \in Controllers, pc[c] # "idle",
         pc'[c] = "down", memory'[c] = Blank, LeftBy(c, disk'[c]),
         answers'[c] = answers[c]
  PROVE  ControllerInv(c)'
<1>0. JobInv(c) /\ AnswersInv(c) /\ ReceiptInv(c) /\ pc[c] \in PlaceSet
  BY TypeParts DEF IInv
<1>1. CASE pc[c] = "made"
  <2>1. /\ disk'[c].seen = None /\ disk'[c].receipt = None /\ answers'[c] = {}
    BY <1>0, <1>1 DEF LeftBy, JobInv
  <2>2. CASE ~Whole(disk'[c].request)
    BY <2>1, <2>2
       DEF ControllerInv, JobInv, AnswersInv, ReceiptInv, NoJob, DecodedSnapshot, Whole, OrNone
  <2>3. CASE /\ Whole(disk'[c].request)
             /\ disk'[c].request = EncodedRequest(memory[c].request)
             /\ disk'[c].base = EncodedSnapshot(memory[c].base)
    <3>1. MadeOf(memory[c].request, memory[c].base)
      BY <1>0, <1>1 DEF JobInv
    <3>2. Base(c)' = memory[c].base
      BY <2>3, <3>1, SnapshotReads DEF Base, MadeOf, OfStore
    <3>3. Retained(c)' = memory[c].request
      BY <2>3, <3>1, <3>2, RequestReads DEF Retained
    <3>4. HasJob(c)'
      BY <2>3, <3>1, <3>2, <3>3 DEF HasJob
    <3> QED
      BY <2>1, <3>4
         DEF ControllerInv, JobInv, AnswersInv, ReceiptInv, DecodedSnapshot, Whole, OrNone
  <2> QED
    BY <1>1, <2>2, <2>3 DEF LeftBy
<1>2. CASE pc[c] = "observed"
  <2>1. Base(c)' = Base(c) /\ Retained(c)' = Retained(c)
    BY <1>2 DEF LeftBy, Base, Retained
  <2>2. HasJob(c) /\ HasJob(c)'
    BY <1>0, <1>2, <2>1 DEF HasJob, LeftBy, JobInv
  <2>3. /\ memory[c].seen \in OfStore /\ memory[c].receipt \in answers[c]
        /\ DecodedSnapshot(EncodedSnapshot(memory[c].seen)) = memory[c].seen
    BY <1>0, <1>2, SnapshotReads DEF JobInv, OfStore
  <2>4. DecodedSnapshot(disk'[c].seen) \in OrNone(OfStore)
    BY <1>0, <1>2, <2>3 DEF LeftBy, ReceiptInv, DecodedSnapshot, OrNone
  <2>5. CASE disk'[c].receipt = Torn
    BY <2>2, <2>4, <2>5, <2>1, AnswersStay DEF ControllerInv, JobInv, ReceiptInv, Whole
  <2>6. CASE disk'[c].receipt = disk[c].receipt
    <3>1. Whole(disk[c].receipt) =>
            disk[c].receipt.fields.outcome = "stale_expected_state"
      BY <1>0, <1>2 DEF ReceiptInv
    <3>2. ReceiptInv(c)'
      BY <1>0, <2>4, <2>6, <3>1 DEF ReceiptInv
    <3> QED
      BY <2>1, <2>2, <3>2, AnswersStay DEF ControllerInv, JobInv
  <2>7. CASE /\ disk'[c].receipt = EncodedReceipt(memory[c].receipt)
             /\ disk'[c].seen = EncodedSnapshot(memory[c].seen)
    <3>1. disk'[c].receipt.fields = memory[c].receipt
      BY <2>7 DEF EncodedReceipt
    <3>2. \/ memory[c].receipt.outcome = "stale_expected_state"
          \/ DecodedSnapshot(disk'[c].seen) = Base(c)'
      BY <1>0, <1>2, <2>1, <2>3, <2>7 DEF JobInv
    <3>3. ReceiptInv(c)'
      BY <2>3, <2>4, <2>7, <3>1, <3>2 DEF ReceiptInv
    <3> QED
      BY <2>1, <2>2, <3>3, AnswersStay DEF ControllerInv, JobInv
  <2> QED
    BY <1>2, <2>5, <2>6, <2>7 DEF LeftBy
<1>3. CASE pc[c] \notin {"made", "observed"}
  <2>1. disk'[c] = disk[c]
    BY <1>3 DEF LeftBy
  <2>2. Base(c)' = Base(c) /\ Retained(c)' = Retained(c)
    BY <2>1 DEF Base, Retained
  <2>3. HasJob(c) \/ NoJob(c)
    BY <1>0, <1>3 DEF JobInv, PlaceSet
  <2>4. HasJob(c)' \/ NoJob(c)'
    BY <2>1, <2>2, <2>3 DEF HasJob, NoJob
  <2>5. ReceiptInv(c)'
    BY <1>0, <2>1, <2>2 DEF ReceiptInv
  <2> QED
    BY <2>2, <2>4, <2>5, AnswersStay DEF ControllerInv, JobInv
<1> QED
  BY <1>1, <1>2, <1>3

\* Writing files keeps the invariant of the controller.
LEMMA WriteInv ==
  ASSUME IInv, [Next]_vars, NEW c \in Controllers, Write(c)
  PROVE  ControllerInv(c)'
<1> USE DEF storeVars, historyVars, Goto
<1>0. /\ JobInv(c) /\ AnswersInv(c) /\ ReceiptInv(c) /\ disk[c] \in DiskRecord
      /\ disk'[c] = Written(c, 2) /\ memory'[c] = memory[c] /\ answers'[c] = answers[c]
      /\ pc'[c] = IF pc[c] = "made" THEN "saved" ELSE "persisted"
  BY TypeParts DEF IInv, Write
<1>1. CASE pc[c] = "made"
  <2>1. /\ disk'[c].base = EncodedSnapshot(memory[c].base)
        /\ disk'[c].request = EncodedRequest(memory[c].request)
        /\ disk'[c].seen = None /\ disk'[c].receipt = None
        /\ answers'[c] = {} /\ pc'[c] = "saved"
    BY <1>0, <1>1, MadeWrites DEF JobInv, Blank, Files
  <2>2. MadeOf(memory[c].request, memory[c].base)
    BY <1>0, <1>1 DEF JobInv
  <2>3. Base(c)' = memory[c].base
    BY <2>1, <2>2, SnapshotReads DEF Base, MadeOf, OfStore
  <2>4. Retained(c)' = memory[c].request
    BY <2>1, <2>2, <2>3, RequestReads DEF Retained
  <2>5. HasJob(c)'
    BY <2>1, <2>2, <2>3, <2>4, RequestReads DEF HasJob
  <2> QED
    BY <1>0, <2>1, <2>3, <2>4, <2>5
       DEF ControllerInv, JobInv, AnswersInv, ReceiptInv, DecodedSnapshot, Whole, OrNone
<1>2. CASE pc[c] = "observed"
  <2>1. /\ disk'[c].base = disk[c].base /\ disk'[c].request = disk[c].request
        /\ disk'[c].seen = EncodedSnapshot(memory[c].seen)
        /\ disk'[c].receipt = EncodedReceipt(memory[c].receipt)
        /\ pc'[c] = "persisted"
    BY <1>0, <1>2, ObservedWrites DEF DiskRecord
  <2>2. Base(c)' = Base(c) /\ Retained(c)' = Retained(c)
    BY <2>1 DEF Base, Retained
  <2>3. HasJob(c)' /\ memory[c].base = Base(c) /\ memory[c].request = Retained(c)
    BY <1>0, <1>2, <2>1, <2>2 DEF HasJob, JobInv
  <2>4. /\ memory[c].seen \in OfStore /\ memory[c].receipt \in answers[c]
        /\ DecodedSnapshot(EncodedSnapshot(memory[c].seen)) = memory[c].seen
    BY <1>0, <1>2, SnapshotReads DEF JobInv, OfStore
  <2>5. disk'[c].receipt.fields = memory[c].receipt
    BY <2>1 DEF EncodedReceipt
  <2>6. ReceiptInv(c)'
    BY <1>0, <1>2, <2>1, <2>2, <2>3, <2>4, <2>5 DEF ReceiptInv, JobInv, OrNone
  <2> QED
    BY <1>0, <2>1, <2>2, <2>3, <2>6, AnswersStay DEF ControllerInv, JobInv
<1> QED
  BY <1>1, <1>2 DEF Write

\* Preparing a request keeps the invariant of the controller.
LEMMA PrepareInv ==
  ASSUME IInv, [Next]_vars, NEW c \in Controllers, Prepare(c)
  PROVE  ControllerInv(c)'
<1> USE DEF storeVars, historyVars, Goto
<1>0. /\ JobInv(c) /\ AnswersInv(c) /\ ReceiptInv(c)
      /\ memory \in [Controllers -> MemoryRecord] /\ pc[c] = "idle"
      /\ disk' = disk /\ answers' = answers /\ pc'[c] = "made"
  BY TypeParts DEF IInv, Prepare
<1>1. PICK input \in Inputs :
        /\ Range(input[1]) \subseteq Deltas
        /\ RequestAdmitted(Current, input[1], input[2])
        /\ memory' = [memory EXCEPT ![c] =
             [Blank EXCEPT !["base"] = Current,
                           !["request"] = RequestMake(Current, input[1], input[2])]]
  BY DEF Prepare
<1>2. input[1] \in Seq(DeltaRecord) /\ input[2] \in OptionalTransaction
  BY CheckpointAssumption
<1>3. MadeOf(RequestMake(Current, input[1], input[2]), Current)
  BY <1>1, <1>2, CurrentType, RequestMadeOf
<1>4. /\ memory'[c].base = Current
      /\ memory'[c].request = RequestMake(Current, input[1], input[2])
  BY <1>0, <1>1 DEF Blank, Files
<1>5. JobInv(c)'
  BY <1>0, <1>3, <1>4 DEF JobInv
<1>6. AnswersInv(c)' /\ ReceiptInv(c)'
  BY <1>0 DEF JobInv, AnswersInv, ReceiptInv, Blank, Files, DecodedSnapshot, OrNone, Whole
<1> QED
  BY <1>5, <1>6 DEF ControllerInv

\* Observing the store keeps the invariant of the controller.
LEMMA ObserveInv ==
  ASSUME IInv, [Next]_vars, NEW c \in Controllers, Observe(c)
  PROVE  ControllerInv(c)'
<1> USE DEF storeVars, historyVars, Goto
<1>0. /\ JobInv(c) /\ AnswersInv(c) /\ ReceiptInv(c)
      /\ memory[c] \in MemoryRecord /\ pc[c] = "answered"
      /\ disk' = disk /\ answers' = answers /\ pc'[c] = "observed"
  BY TypeParts DEF IInv, Observe
<1>1. HasJob(c) /\ memory[c].base = Base(c) /\ memory[c].base \in OfStore
  BY <1>0 DEF JobInv, HasJob, MadeOf
<1>2. /\ memory'[c].base = memory[c].base /\ memory'[c].request = memory[c].request
      /\ memory'[c].receipt = memory[c].receipt
      /\ memory'[c].seen = IF memory[c].receipt.outcome = "stale_expected_state"
                           THEN Current ELSE memory[c].base
  BY <1>0, TypeParts DEF IInv, Observe, MemoryRecord
<1>3. Base(c)' = Base(c) /\ Retained(c)' = Retained(c)
  BY <1>0 DEF Base, Retained
<1>4. JobInv(c)'
  BY <1>0, <1>1, <1>2, <1>3, CurrentType DEF JobInv, HasJob
<1>5. ReceiptInv(c)'
  BY <1>0, <1>3 DEF ReceiptInv
<1> QED
  BY <1>0, <1>3, <1>4, <1>5, AnswersStay DEF ControllerInv

\* Finishing keeps the invariant of the controller.
LEMMA FinishInv ==
  ASSUME IInv, [Next]_vars, NEW c \in Controllers, Finish(c)
  PROVE  ControllerInv(c)'
<1>1. /\ memory'[c] = Blank /\ disk'[c] = Blank /\ answers'[c] = {} /\ pc'[c] = "idle"
  BY TypeParts DEF IInv, Finish, Goto
<1> QED
  BY <1>1 DEF ControllerInv, JobInv, AnswersInv, ReceiptInv, Blank, Files, DecodedSnapshot,
             OrNone, Whole

\* A restart keeps the invariant of the controller.
LEMMA RestartInv ==
  ASSUME IInv, [Next]_vars, NEW c \in Controllers, Restart(c)
  PROVE  ControllerInv(c)'
<1> USE DEF storeVars, historyVars, Goto
<1>0. /\ JobInv(c) /\ AnswersInv(c) /\ ReceiptInv(c) /\ pc[c] = "down"
      /\ memory[c] = Blank /\ answers' = answers
  BY DEF IInv, Restart, JobInv
<1>1. CASE Retained(c) = None
  <2>1. ~HasJob(c)
    BY <1>1, AbsenceAssumption DEF HasJob, MadeOf
  <2>2. NoJob(c)
    BY <1>0, <2>1 DEF JobInv
  <2>3. /\ disk'[c] = Blank /\ pc'[c] = "idle" /\ memory'[c] = Blank /\ answers'[c] = {}
    BY <1>0, <1>1, <2>2, TypeParts DEF IInv, Restart, NoJob
  <2> QED
    BY <2>3 DEF ControllerInv, JobInv, AnswersInv, ReceiptInv, Blank, Files,
               DecodedSnapshot, OrNone, Whole
<1>2. CASE Retained(c) # None
  <2>1. HasJob(c)
    BY <1>0, <1>2 DEF JobInv, NoJob, Retained, DecodedRequest, Whole
  <2>2. /\ disk' = disk
        /\ memory'[c] = Recovered(c)
        /\ pc'[c] = IF Verdict(c) = None THEN "saved" ELSE "persisted"
    BY <1>2, TypeParts DEF IInv, Restart
  <2>3. /\ memory'[c].base = Base(c) /\ memory'[c].request = Retained(c)
    BY <2>2 DEF Recovered
  <2>4. Base(c)' = Base(c) /\ Retained(c)' = Retained(c)
    BY <2>2 DEF Base, Retained
  <2>5. JobInv(c)'
    BY <2>1, <2>2, <2>3, <2>4 DEF JobInv, HasJob
  <2>6. ASSUME Whole(disk[c].receipt), Verdict(c) = None
        PROVE  disk[c].receipt.fields.outcome = "stale_expected_state"
    <3>1. PICK rc \in answers[c] : disk[c].receipt = EncodedReceipt(rc)
      BY <1>0, <2>6 DEF ReceiptInv
    <3>2. CASE rc.outcome # "stale_expected_state"
      <4>1. disk[c].receipt.fields = rc
        BY <3>1 DEF EncodedReceipt
      <4>2. /\ DecodedSnapshot(disk[c].seen) = Base(c) /\ Base(c) \in OfStore
            /\ MadeOf(Retained(c), Base(c))
        BY <1>0, <2>1, <2>6, <3>2, <4>1 DEF ReceiptInv, HasJob, MadeOf
      <4>3. rc \in ReceiptRecord /\ Issued(rc, Retained(c), Base(c))
        BY <1>0, VerdictIs DEF AnswersInv
      <4>4. SnapshotIdentity(Base(c)) = rc.actualPrior
        BY <3>2, <4>2, <4>3 DEF Issued, MadeOf, RequestDecodes, EncodedRequest
      <4>5. Verdict(c) = rc
        BY <3>1, <4>2, <4>3, <4>4, ReceiptReads DEF Verdict
      <4> QED
        BY <2>6, <4>3, <4>5, AbsenceAssumption
    <3> QED
      BY <3>1, <3>2 DEF EncodedReceipt
  <2>7. ReceiptInv(c)'
    BY <1>0, <2>2, <2>4, <2>6 DEF ReceiptInv
  <2> QED
    BY <1>0, <2>4, <2>5, <2>7, AnswersStay DEF ControllerInv
<1> QED
  BY <1>1, <1>2

\* Publishing keeps the invariant of the controller.
LEMMA PublishInv ==
  ASSUME IInv, [Next]_vars, NEW c \in Controllers, Publish(c)
  PROVE  ControllerInv(c)'
<1> USE DEF storeVars, historyVars, Goto
<1> DEFINE r == Retained(c)
           s == Base(c)
<1>0. /\ JobInv(c) /\ AnswersInv(c) /\ ReceiptInv(c) /\ pc[c] = "saved"
      /\ memory[c] \in MemoryRecord
      /\ disk' = disk /\ pc'[c] = "answered"
  BY TypeParts DEF IInv, Publish
<1>1. /\ HasJob(c) /\ MadeOf(r, s) /\ memory[c].base = s /\ memory[c].request = r
  BY <1>0 DEF JobInv, HasJob
<1>2. Base(c)' = s /\ Retained(c)' = r
  BY <1>0 DEF Base, Retained
<1>3. \E rc :
        /\ memory' = [memory EXCEPT ![c].receipt = rc]
        /\ answers' = [answers EXCEPT ![c] = @ \cup {rc}]
        /\ Issued(rc, r, s)
        /\ rc.durability = "confirmed" => Established(r, s)'
  <2>1. CASE SnapshotIdentity(Current) # r.expected
    <3>1. LET rc == StaleReceipt(r, Current, Format) IN
            /\ memory' = [memory EXCEPT ![c].receipt = rc]
            /\ answers' = [answers EXCEPT ![c] = @ \cup {rc}]
            /\ Issued(rc, r, s)
      BY <1>1, <2>1, CurrentType, StaleReceiptType DEF Publish
    <3>2. StaleReceipt(r, Current, Format).durability # "confirmed"
      BY DEF StaleReceipt, ReceiptMake, DurabilityOf
    <3> QED
      BY <3>1, <3>2
  <2>2. CASE SnapshotIdentity(Current) = r.expected
    <3>1. PICK b \in Reports, visible \in BOOLEAN :
            /\ b.established => visible
            /\ chain' = Extended(r, visible)
            /\ durable' = IF b.outcome = "published" THEN Len(chain') ELSE durable
            /\ LET rc == ReceiptOf(r, Current, Project(r, Current), Format, b) IN
                 /\ memory' = [memory EXCEPT ![c].receipt = rc]
                 /\ answers' = [answers EXCEPT ![c] = @ \cup {rc}]
      BY <1>1, <2>2 DEF Publish
    <3>2. Current = s
      BY <1>0, <1>1, <2>2, Projects
    <3> DEFINE rc == ReceiptOf(r, s, Project(r, s), Format, b)
    <3>3. Issued(rc, r, s)
      BY <1>1, ReceiptOfType
    <3>4. rc.durability = DurabilityOf(b.outcome)
      BY DEF ReceiptOf, ReceiptMake
    <3>5. ASSUME rc.durability = "confirmed" PROVE Established(r, s)'
      <4>1. b.outcome = "published"
        BY <3>4, <3>5 DEF DurabilityOf
      <4>2. visible
        BY <3>1, <4>1 DEF Reports, BackendResultAdmitted, Attempted
      <4>3. /\ chain' = Append(chain, [state |-> Project(r, s), by |-> r])
            /\ durable' = Len(chain')
        BY <3>1, <3>2, <4>1, <4>2 DEF Extended
      <4>4. /\ chain \in Seq(Generation) /\ Len(chain) \in Nat /\ 1 <= Len(chain)
            /\ chain[Len(chain)].state = s
        BY <3>2, CurrentType DEF Current
      <4>5. /\ durable' = Len(chain) + 1
            /\ chain'[Len(chain) + 1] = [state |-> Project(r, s), by |-> r]
            /\ chain'[Len(chain)].state = s
        BY <4>3, <4>4
      <4>6. Len(chain) + 1 \in 2..durable' /\ (Len(chain) + 1) - 1 = Len(chain)
        BY <4>4, <4>5
      <4> QED
        BY <1>2, <4>5, <4>6 DEF Established
    <3> QED
      BY <3>1, <3>2, <3>3, <3>5
  <2> QED
    BY <2>1, <2>2
<1>4. PICK rc :
        /\ memory' = [memory EXCEPT ![c].receipt = rc]
        /\ answers' = [answers EXCEPT ![c] = @ \cup {rc}]
        /\ Issued(rc, r, s)
        /\ rc.durability = "confirmed" => Established(r, s)'
  BY <1>3
<1>5. /\ memory'[c].base = memory[c].base /\ memory'[c].request = memory[c].request
      /\ memory'[c].receipt = rc /\ answers'[c] = answers[c] \cup {rc}
  BY <1>0, <1>4, TypeParts DEF IInv, MemoryRecord
<1>6. AnswersInv(c)'
  BY <1>2, <1>4, <1>5, AnswersStay DEF AnswersInv
<1>7. JobInv(c)'
  BY <1>0, <1>1, <1>2, <1>5 DEF JobInv, HasJob
<1>8. ReceiptInv(c)'
  BY <1>0, <1>2, <1>5 DEF ReceiptInv
<1> QED
  BY <1>6, <1>7, <1>8 DEF ControllerInv

\* A failure, a crash or a loss of power keeps the invariant of the controller.
LEMMA FailureInv ==
  ASSUME IInv, [Next]_vars, NEW c \in Controllers,
         PublishBreaks(c) \/ Crash(c) \/ PowerFailure
  PROVE  ControllerInv(c)'
<1> USE DEF storeVars, historyVars, Goto
<1>0. /\ JobInv(c) /\ pc[c] \in PlaceSet /\ disk[c] \in DiskRecord
      /\ pc \in [Controllers -> PlaceSet] /\ memory \in [Controllers -> MemoryRecord]
      /\ disk \in [Controllers -> DiskRecord]
  BY TypeParts DEF IInv
<1>1. CASE PublishBreaks(c)
  <2>1. LeftBy(c, disk'[c])
    BY <1>0, <1>1 DEF PublishBreaks, LeftBy
  <2> QED
    BY <1>0, <1>1, <2>1, GoingDown DEF PublishBreaks
<1>2. CASE Crash(c)
  <2>1. LeftBy(c, disk'[c])
    BY <1>0, <1>2, LeftoversAre DEF Crash
  <2> QED
    BY <1>0, <1>2, <2>1, GoingDown DEF Crash
<1>3. CASE PowerFailure
  <2>1. LeftBy(c, disk'[c])
    BY <1>3, LeftoversAre DEF PowerFailure
  <2>2. CASE pc[c] = "idle"
    <3>1. /\ pc'[c] = pc[c] /\ memory'[c] = memory[c] /\ answers'[c] = answers[c]
          /\ disk'[c] = disk[c]
      BY <1>0, <1>3, <2>1, <2>2 DEF PowerFailure, JobInv, LeftBy
    <3> QED
      BY <3>1, Bystander
  <2>3. CASE pc[c] # "idle"
    <3>1. pc'[c] = "down" /\ memory'[c] = Blank /\ answers'[c] = answers[c]
      BY <1>3, <2>3 DEF PowerFailure
    <3> QED
      BY <2>1, <2>3, <3>1, GoingDown
  <2> QED
    BY <2>2, <2>3
<1> QED
  BY <1>1, <1>2, <1>3

\* Only the acting controller changes in its step.
LEMMA OthersKeep ==
  ASSUME IInv, NEW c \in Controllers, NEW d \in Controllers \ {c},
         \/ Prepare(c) \/ Write(c) \/ Publish(c) \/ Observe(c) \/ Finish(c) \/ Restart(c)
         \/ PublishBreaks(c) \/ Crash(c)
  PROVE  /\ pc'[d] = pc[d] /\ memory'[d] = memory[d] /\ disk'[d] = disk[d]
         /\ answers'[d] = answers[d]
<1> USE DEF storeVars, historyVars, Goto
<1>0. /\ pc \in [Controllers -> PlaceSet] /\ memory \in [Controllers -> MemoryRecord]
      /\ disk \in [Controllers -> DiskRecord]
      /\ answers \in [Controllers -> SUBSET ReceiptRecord]
  BY TypeParts DEF IInv
<1> DEFINE Kept == /\ pc'[d] = pc[d] /\ memory'[d] = memory[d] /\ disk'[d] = disk[d]
                   /\ answers'[d] = answers[d]
<1>1. ASSUME Prepare(c) PROVE Kept
  BY <1>0, <1>1 DEF Prepare
<1>2. ASSUME Write(c) PROVE Kept
  BY <1>0, <1>2 DEF Write
<1>3. ASSUME Publish(c) PROVE Kept
  <2>1. /\ pc' = [pc EXCEPT ![c] = "answered"] /\ disk' = disk
        /\ \E rc : /\ memory' = [memory EXCEPT ![c].receipt = rc]
                   /\ answers' = [answers EXCEPT ![c] = @ \cup {rc}]
    BY <1>3 DEF Publish
  <2> QED
    BY <1>0, <2>1
<1>4. ASSUME Observe(c) PROVE Kept
  BY <1>0, <1>4 DEF Observe
<1>5. ASSUME Finish(c) PROVE Kept
  BY <1>0, <1>5 DEF Finish
<1>6. ASSUME Restart(c) PROVE Kept
  BY <1>0, <1>6 DEF Restart
<1>7. ASSUME PublishBreaks(c) PROVE Kept
  BY <1>0, <1>7 DEF PublishBreaks
<1>8. ASSUME Crash(c) PROVE Kept
  BY <1>0, <1>8 DEF Crash
<1> QED
  BY <1>1, <1>2, <1>3, <1>4, <1>5, <1>6, <1>7, <1>8

\* Every step keeps the invariant of every controller.
LEMMA NextControllers ==
  ASSUME IInv, [Next]_vars, NEW d \in Controllers
  PROVE  ControllerInv(d)'
<1>1. ASSUME NEW c \in Controllers,
             \/ Prepare(c) \/ Write(c) \/ Publish(c) \/ Observe(c) \/ Finish(c) \/ Restart(c)
             \/ PublishBreaks(c) \/ Crash(c)
      PROVE  ControllerInv(d)'
  <2>1. CASE c = d
    BY <1>1, <2>1, PrepareInv, WriteInv, PublishInv, ObserveInv, FinishInv, RestartInv,
       FailureInv
  <2>2. CASE c # d
    BY <1>1, <2>2, OthersKeep, Bystander
  <2> QED
    BY <2>1, <2>2
<1>2. ASSUME PowerFailure PROVE ControllerInv(d)'
  BY <1>2, FailureInv
<1>3. ASSUME UNCHANGED vars PROVE ControllerInv(d)'
  BY <1>3, Bystander DEF vars, historyVars
<1> QED
  BY <1>1, <1>2, <1>3 DEF Next

-----------------------------------------------------------------------------
(* The effects *)

\* A request leaves the records of its controller only when its job has ended.
LEMMA RetainedUntilSettled ==
  ASSUME IInv, [Next]_vars, NEW c \in Controllers, Retained(c) # None
  PROVE  Retained(c)' = Retained(c) \/ Retained(c) \in settled'
<1> USE DEF storeVars, historyVars, Goto
<1>0. /\ JobInv(c) /\ pc[c] \in PlaceSet /\ disk[c] \in DiskRecord
      /\ disk \in [Controllers -> DiskRecord]
  BY TypeParts DEF IInv
<1>1. ASSUME disk'[c].base = disk[c].base, disk'[c].request = disk[c].request
      PROVE  Retained(c)' = Retained(c)
  BY <1>1 DEF Retained, Base
<1>2. pc[c] \notin {"idle", "made"}
  BY <1>0 DEF JobInv, Retained, DecodedRequest, Blank, Files
<1>3. ASSUME Write(c) PROVE Retained(c)' = Retained(c)
  BY <1>0, <1>1, <1>2, <1>3, ObservedWrites DEF Write, DiskRecord
<1>4. ASSUME Finish(c) PROVE Retained(c) \in settled'
  BY <1>0, <1>4 DEF Finish, JobInv
<1>5. ASSUME Crash(c) \/ PowerFailure PROVE Retained(c)' = Retained(c)
  <2>1. LeftBy(c, disk'[c])
    BY <1>0, <1>5, LeftoversAre DEF Crash, PowerFailure
  <2> QED
    BY <1>1, <1>2, <2>1 DEF LeftBy
<1>6. ASSUME Prepare(c) \/ Publish(c) \/ Observe(c) \/ Restart(c) \/ PublishBreaks(c)
      PROVE  disk'[c] = disk[c]
  BY <1>6 DEF Prepare, Publish, Observe, Restart, PublishBreaks
<1>7. ASSUME NEW d \in Controllers \ {c},
             \/ Prepare(d) \/ Write(d) \/ Publish(d) \/ Observe(d) \/ Finish(d) \/ Restart(d)
             \/ PublishBreaks(d) \/ Crash(d)
      PROVE  disk'[c] = disk[c]
  BY <1>7, OthersKeep
<1>8. ASSUME UNCHANGED vars PROVE disk'[c] = disk[c]
  BY <1>8 DEF vars
<1> QED
  BY <1>1, <1>3, <1>4, <1>5, <1>6, <1>7, <1>8 DEF Next

\* No step leaves an effect that no controller answers for.
LEMMA NextEffects == ASSUME IInv, [Next]_vars PROVE NoOrphanedEffect'
<1> SUFFICES ASSUME NEW i \in 2..Len(chain')
             PROVE  chain'[i].by \in settled' \cup {Retained(c)' : c \in Controllers}
  BY DEF NoOrphanedEffect
<1>0. /\ chain \in Seq(Generation) /\ Len(chain) \in Nat /\ ChainOfStore
      /\ chain' \in Seq(Generation) /\ Len(chain') \in Nat
  BY CurrentType, StoreInv DEF IInv
<1>1. settled \subseteq settled'
  <2>1. ASSUME NEW c \in Controllers,
               \/ Prepare(c) \/ Write(c) \/ Publish(c) \/ Observe(c) \/ Finish(c)
               \/ Restart(c) \/ PublishBreaks(c) \/ Crash(c)
        PROVE  settled \subseteq settled'
    BY <2>1 DEF Prepare, Write, Publish, Observe, Finish, Restart, PublishBreaks, Crash,
                historyVars
  <2>2. ASSUME PowerFailure \/ UNCHANGED vars PROVE settled' = settled
    BY <2>2 DEF PowerFailure, vars, historyVars
  <2> QED
    BY <2>1, <2>2 DEF Next
<1>2. CASE i \in 2..Len(chain) /\ chain'[i] = chain[i]
  <2>1. chain[i].by \in Requests
    BY <1>0, <1>2 DEF ChainOfStore
  <2>2. CASE chain[i].by \in settled
    BY <1>1, <1>2, <2>2
  <2>3. ASSUME NEW c \in Controllers, chain[i].by = Retained(c)
        PROVE  chain[i].by \in settled' \cup {Retained(d)' : d \in Controllers}
    <3>1. Retained(c) # None
      BY <2>1, <2>3, AbsenceAssumption
    <3> QED
      BY <2>3, <3>1, RetainedUntilSettled
  <2> QED
    BY <1>2, <2>2, <2>3 DEF IInv, NoOrphanedEffect
<1>3. ASSUME NEW c \in Controllers, disk' = disk, chain'[i].by = Retained(c)
      PROVE  chain'[i].by \in settled' \cup {Retained(d)' : d \in Controllers}
  <2>1. Retained(c)' = Retained(c)
    BY <1>3 DEF Retained, Base
  <2> QED
    BY <1>3, <2>1
<1>4. \/ i \in 2..Len(chain) /\ chain'[i] = chain[i]
      \/ \E c \in Controllers : disk' = disk /\ chain'[i].by = Retained(c)
  <2>1. CASE chain' = chain
    BY <2>1
  <2>2. ASSUME NEW c \in Controllers, disk' = disk,
               chain' = Append(chain, [state |-> Project(Retained(c), Current),
                                      by |-> Retained(c)])
        PROVE  \/ i \in 2..Len(chain) /\ chain'[i] = chain[i]
               \/ disk' = disk /\ chain'[i].by = Retained(c)
    BY <1>0, <2>2
  <2>3. ASSUME NEW n \in durable..Len(chain), chain' = SubSeq(chain, 1, n)
        PROVE  i \in 2..Len(chain) /\ chain'[i] = chain[i]
    <3>1. n \in Nat /\ n <= Len(chain)
      BY <1>0, CurrentType
    <3> QED
      BY <1>0, <2>3, <3>1
  <2> QED
    BY <2>1, <2>2, <2>3, ChainSteps
<1> QED
  BY <1>2, <1>3, <1>4

\* Every step keeps the invariant.
LEMMA NextInv == IInv /\ [Next]_vars => IInv'
<1> SUFFICES ASSUME IInv, [Next]_vars PROVE IInv'
  OBVIOUS
<1>1. CheckpointTypeOK' /\ ChainOfStore' /\ NoOrphanedEffect'
  BY NextType, StoreInv, NextEffects
<1>2. \A c \in Controllers : (JobInv(c) /\ AnswersInv(c) /\ ReceiptInv(c))'
  BY NextControllers DEF ControllerInv
<1> QED
  BY <1>1, <1>2 DEF IInv

\* The inductive invariant holds always.
LEMMA Invariance == Spec => []IInv
  BY InitInv, NextInv, PTL DEF Spec

-----------------------------------------------------------------------------
(* The theorems *)

\* Whatever is in memory, in the files or remembered of the answers keeps its
\* type, and a whole file is a record that the library writes.
THEOREM CheckpointTypeCorrect == Spec => []CheckpointTypeOK
<1>1. IInv => CheckpointTypeOK
  BY DEF IInv
<1> QED
  BY <1>1, Invariance, PTL

\* A restart reads the request of its job and an answer that one of its calls
\* returned; only the receipt of a stale attempt may be unreadable.
THEOREM RestartHolds == Spec => []RestartUnderstands
<1>1. IInv => RestartUnderstands
  <2> SUFFICES ASSUME IInv, NEW c \in Controllers
               PROVE  LET kept == disk[c].receipt
                          seen == DecodedSnapshot(disk[c].seen)
                          own  == Retained(c)
                          v    == DecodedReceipt(kept, own, seen)
                      IN  /\ Whole(disk[c].request) =>
                               own # None /\ memory[c].request \in {None, own}
                          /\ v # None => v \in answers[c]
                          /\ Whole(kept) /\ v = None =>
                               /\ kept.fields.outcome = "stale_expected_state"
                               /\ seen # None => SnapshotIdentity(seen) # kept.fields.actualPrior
    BY DEF RestartUnderstands
  <2>0. /\ JobInv(c) /\ AnswersInv(c) /\ ReceiptInv(c) /\ pc[c] \in PlaceSet
    BY TypeParts DEF IInv
  <2>1. ASSUME Whole(disk[c].request)
        PROVE  Retained(c) # None /\ memory[c].request \in {None, Retained(c)}
    <3>1. HasJob(c)
      BY <2>0, <2>1 DEF JobInv, NoJob, PlaceSet, Whole, Blank, Files
    <3>2. Retained(c) # None
      BY <3>1, AbsenceAssumption DEF HasJob, MadeOf
    <3>3. pc[c] \notin {"idle", "made"}
      BY <2>0, <2>1 DEF JobInv, Whole, Blank, Files
    <3> QED
      BY <2>0, <3>2, <3>3 DEF JobInv, PlaceSet, Blank, Files
  <2>2. Verdict(c) # None => Verdict(c) \in answers[c]
    BY VerdictIs DEF OrNone
  <2>3. ASSUME Whole(disk[c].receipt), Verdict(c) = None
        PROVE  /\ disk[c].receipt.fields.outcome = "stale_expected_state"
               /\ LET seen == DecodedSnapshot(disk[c].seen) IN
                  seen # None =>
                    SnapshotIdentity(seen) # disk[c].receipt.fields.actualPrior
    <3> DEFINE seen == DecodedSnapshot(disk[c].seen)
    <3>1. PICK rc \in answers[c] :
            /\ disk[c].receipt = EncodedReceipt(rc)
            /\ HasJob(c) /\ Issued(rc, Retained(c), Base(c))
      BY <2>3, VerdictIs
    <3>2. disk[c].receipt.fields = rc /\ rc \in ReceiptRecord /\ rc # None
      BY <3>1, VerdictIs, AbsenceAssumption DEF EncodedReceipt
    <3>3. ~ (seen \in OfStore /\ SnapshotIdentity(seen) = rc.actualPrior)
      BY <2>3, <3>1, <3>2, ReceiptReads DEF Verdict, HasJob
    <3>4. seen \in OrNone(OfStore)
      BY <2>0 DEF ReceiptInv
    <3>5. rc.outcome = "stale_expected_state"
      <4>1. SUFFICES ASSUME rc.outcome # "stale_expected_state"
                     PROVE  seen \in OfStore /\ SnapshotIdentity(seen) = rc.actualPrior
        BY <3>3
      <4>2. seen = Base(c)
        BY <2>0, <2>3, <3>2, <4>1 DEF ReceiptInv
      <4> QED
        BY <3>1, <4>1, <4>2 DEF Issued, HasJob, MadeOf, RequestDecodes, EncodedRequest
    <3> QED
      BY <3>2, <3>3, <3>4, <3>5 DEF OrNone
  <2> QED
    BY <2>1, <2>2, <2>3 DEF Verdict
<1> QED
  BY <1>1, Invariance, PTL

\* No publication is forgotten, whoever crashed between the effect and its answer.
THEOREM EffectsAreKept == Spec => []NoOrphanedEffect
<1>1. IInv => NoOrphanedEffect
  BY DEF IInv
<1> QED
  BY <1>1, Invariance, PTL

\* A confirmed receipt that a restart reads back names a generation that the
\* retained request made of the retained snapshot and no power failure removes.
THEOREM ConfirmationsHold == Spec => []RecoveredConfirmationHolds
<1>1. IInv => RecoveredConfirmationHolds
  <2> SUFFICES ASSUME IInv, NEW c \in Controllers,
                      Verdict(c) # None, Verdict(c).durability = "confirmed"
               PROVE  \E i \in 2..durable :
                        /\ chain[i].by = Retained(c) /\ chain[i - 1].state = Base(c)
                        /\ SnapshotIdentity(chain[i].state) = Verdict(c).resulting
    BY DEF RecoveredConfirmationHolds
  <2>1. Verdict(c) \in answers[c] /\ Verdict(c) \in ReceiptRecord
    BY VerdictIs DEF OrNone
  <2>2. /\ Issued(Verdict(c), Retained(c), Base(c))
        /\ Established(Retained(c), Base(c))
    BY <2>1 DEF IInv, AnswersInv
  <2>3. Verdict(c).outcome = "published"
    BY <2>1, <2>2 DEF Issued, DurabilityOf
  <2>4. Verdict(c).resulting = SnapshotIdentity(Project(Retained(c), Base(c)))
    BY <2>2, <2>3 DEF Issued
  <2> QED
    BY <2>2, <2>4 DEF Established
<1> QED
  BY <1>1, Invariance, PTL

===============================================================================
