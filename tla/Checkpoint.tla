------------------------------ MODULE Checkpoint ------------------------------
(***************************************************************************)
(* Controllers that keep checkpoints of their publications: the snapshot a *)
(* request expects, the encoded request, the actual prior snapshot and the *)
(* encoded receipt, written one after the other around the call of         *)
(* compare_and_publish, and what a restart decodes of them.                *)
(*                                                                         *)
(* The records and their decoding are the library's (publication_codec,    *)
(* generation_codec), here one value per record: RequestDecoding,          *)
(* ReceiptDecoding and GenerationDecoding read them token by token.  The   *)
(* call is one step: in CanonicalStore nobody else moves the state while   *)
(* it holds the lock, and PublishBreaks is a call that ends in its middle. *)
(* The controllers are outside the repository and do what its MIGRATION.md *)
(* asks of them.                                                           *)
(***************************************************************************)
EXTENDS PublicationReceipt

CONSTANTS
  Controllers,
  InitialPackages,   \* the packages of the first generation
  StoreTarget,       \* the target binding of the store
  Inputs,            \* deltas and transaction that controllers pass to make()
  Format,            \* the storage format of the backend
  Boundary,          \* its atomicity boundary
  EvidenceList,      \* the evidence it supplies
  Torn,              \* what an interrupted write leaves
  ReportedOutcomes,  \* the outcomes it reports
  MaxJobs,           \* bound on publications begun
  MaxFailures        \* bound on crashes, power failures and broken calls

ASSUME CheckpointAssumption ==
  /\ StoreTarget \in Targets
  /\ InitialPackages \subseteq Packages /\ SnapshotAdmitted(StoreTarget, InitialPackages)
  /\ Inputs \subseteq Seq(DeltaRecord) \X OptionalTransaction
  /\ Format \in Seq(FormatBytes) /\ EvidenceList \in Seq(Evidence)
  /\ StoreFormatAdmitted(Format) /\ ReceiptFormatAdmitted(Format)
  /\ Boundary \in Boundaries /\ EvidenceAdmitted(EvidenceList)
  /\ ReportedOutcomes \subseteq BackendOutcomes
  /\ MaxJobs \in Nat /\ MaxFailures \in Nat

-----------------------------------------------------------------------------
(* The records *)

EncodedSnapshot(s) == [kind |-> "snapshot", body |-> s]

\* Mutant: the transaction evidence is not written.
EncodedWithoutTransaction(r) ==
  [kind |-> "request", identity |-> RequestIdentity(r), expected |-> r.expected,
   target |-> r.target, deltas |-> r.deltas, transaction |-> None]

\* The identity, the identity of the expected snapshot and the complete deltas.
EncodedRequest(r) ==
  [kind |-> "request", identity |-> RequestIdentity(r), expected |-> r.expected,
   target |-> r.target, deltas |-> r.deltas, transaction |-> r.transaction]

\* Mutant: the subordinate evidence is not written.
EncodedWithoutEvidence(rc) ==
  [kind |-> "receipt", identity |-> PublicationReceiptIdentity(rc),
   fields |-> [rc EXCEPT !.evidence = {}]]

\* The identity and the fields, every snapshot by its identity.
EncodedReceipt(rc) ==
  [kind |-> "receipt", identity |-> PublicationReceiptIdentity(rc), fields |-> rc]

SnapshotFiles == [kind : {"snapshot"}, body : Snapshots]

RequestFiles ==
  [kind : {"request"}, identity : RequestIdentities, expected : SnapshotIdentities,
   target : Targets, deltas : SUBSET Deltas, transaction : OptionalTransaction]

ReceiptFiles ==
  [kind : {"receipt"}, identity : {"state-publication-receipt"} \X ReceiptRecord,
   fields : ReceiptRecord]

\* No value is an absent one, and no complete record is absent or torn.
ASSUME AbsenceAssumption ==
  /\ None \notin Snapshots /\ None \notin SnapshotIdentities
  /\ None \notin Requests /\ None \notin ReceiptRecord
  /\ \A e \in {None, Torn} :
       e \notin SnapshotFiles /\ e \notin RequestFiles /\ e \notin ReceiptFiles

\* generation_codec: a record cut short is refused, and None is no record.
DecodedSnapshot(e) == IF e \in {None, Torn} THEN None ELSE e.body

\* The request that make() would build of the deltas as they were written.
Rebuilt(e, s) ==
  [expected |-> SnapshotIdentity(s), target |-> s.target, deltas |-> e.deltas,
   transaction |-> e.transaction]

\* decode_state_publication_request under snapshot s: its authority, what the
\* factories require once more, and the identity.
RequestDecodes(e, s) ==
  /\ e.expected = SnapshotIdentity(s) /\ e.target = s.target
  /\ e.deltas # {} /\ e.deltas \subseteq Deltas /\ NameUnique(e.deltas)
  /\ \A d, f \in e.deltas : d # f => e.transaction # None
  /\ \A d \in e.deltas :
       /\ DeltaMatches(s, d)
       /\ d.proposed # None => d.proposed.transaction = e.transaction
  /\ RequestIdentity(Rebuilt(e, s)) = e.identity

DecodedRequest(e, s) ==
  IF e \notin {None, Torn} /\ s # None /\ RequestDecodes(e, s) THEN Rebuilt(e, s) ELSE None

\* The factory of the outcome, given the fields and the projected result.
Reissued(rc, r, s) ==
  [ReceiptMake(r, s, rc.format, rc.outcome, rc.atomicity,
               IF rc.resulting = None THEN None ELSE SnapshotIdentity(Project(r, s)), <<>>)
     EXCEPT !.evidence = rc.evidence]

\* decode_state_publication_receipt under request r and actual prior s.
ReceiptDecodes(e, r, s) ==
  LET rc == e.fields IN
  /\ rc.request = RequestIdentity(r) /\ rc.expected = r.expected
  /\ rc.actualPrior = SnapshotIdentity(s)
  /\ rc.target = r.target /\ s.target = r.target
  /\ rc.durability = DurabilityOf(rc.outcome)
  /\ rc.atomicity = "none" <=> rc.outcome \notin Attempted
  /\ rc.outcome \in {"published", "published_durability_unconfirmed"} => rc.resulting # None
  /\ rc.outcome \notin Attempted => rc.resulting = None
  /\ IF rc.outcome = "stale_expected_state" THEN RequireStale(r, s)
     ELSE RequireCurrent(r, s)
  /\ rc.resulting # None => ProjectAdmitted(r, s)
  /\ PublicationReceiptIdentity(Reissued(rc, r, s)) = e.identity

DecodedReceipt(e, r, s) ==
  IF e \notin {None, Torn} /\ r # None /\ s # None /\ ReceiptDecodes(e, r, s)
  THEN Reissued(e.fields, r, s) ELSE None

-----------------------------------------------------------------------------

VARIABLES
  chain,     \* the published generations, the last one being visible
  durable,   \* how many of them are known to survive a power failure
  pc,        \* where each controller is in its job
  memory,    \* base, request, receipt and seen, of each controller
  disk,      \* the records of them that it has written
  answers,   \* history: every receipt that a call of the job returned
  settled,   \* history: the requests whose jobs have ended with a receipt
  jobs, failures

storeVars == <<chain, durable>>
historyVars == <<answers, settled>>
vars == <<storeVars, pc, memory, disk, historyVars, jobs, failures>>

Files == {"base", "request", "seen", "receipt"}

Blank == [f \in Files |-> None]

Current == chain[Len(chain)].state

Init ==
  /\ chain = <<[state |-> SnapshotMake(StoreTarget, InitialPackages), by |-> None]>>
  /\ durable = 1
  /\ pc = [c \in Controllers |-> "idle"]
  /\ memory = [c \in Controllers |-> Blank]
  /\ disk = [c \in Controllers |-> Blank]
  /\ answers = [c \in Controllers |-> {}]
  /\ settled = {}
  /\ jobs = 0 /\ failures = 0

-----------------------------------------------------------------------------
(* A job *)

Goto(c, step) == pc' = [pc EXCEPT ![c] = step]

\* The controller reads the store and makes its request.
Prepare(c) ==
  /\ pc[c] = "idle" /\ jobs < MaxJobs
  /\ \E input \in Inputs :
       /\ Range(input[1]) \subseteq Deltas
       /\ RequestAdmitted(Current, input[1], input[2])
       /\ memory' = [memory EXCEPT ![c] =
            [Blank EXCEPT !["base"] = Current,
                          !["request"] = RequestMake(Current, input[1], input[2])]]
  /\ jobs' = jobs + 1
  /\ Goto(c, "made")
  /\ UNCHANGED <<storeVars, disk, historyVars, failures>>

\* The two files that are written at a step, one after the other.
Writing(step) ==
  CASE step = "made"     -> <<"base", "request">>
    [] step = "observed" -> <<"seen", "receipt">>
    [] OTHER             -> <<>>

Encoded(file, value) ==
  CASE file = "request" -> EncodedRequest(value)
    [] file = "receipt" -> EncodedReceipt(value)
    [] OTHER            -> EncodedSnapshot(value)

\* The records of c when the first n files of its step are written.
Written(c, n) ==
  LET files == Range(SubSeq(Writing(pc[c]), 1, n))
  IN  [f \in Files |-> IF f \in files THEN Encoded(f, memory[c][f]) ELSE disk[c][f]]

Write(c) ==
  /\ pc[c] \in {"made", "observed"}
  /\ disk' = [disk EXCEPT ![c] = Written(c, 2)]
  /\ Goto(c, IF pc[c] = "made" THEN "saved" ELSE "persisted")
  /\ UNCHANGED <<storeVars, memory, historyVars, jobs, failures>>

\* What the backend may report of an attempt.
Reports ==
  {b \in [outcome : ReportedOutcomes, atomicity : {Boundary, "none"},
          established : BOOLEAN, evidence : {EvidenceList}] :
     BackendResultAdmitted(b)}

Extended(r, visible) ==
  IF visible THEN Append(chain, [state |-> Project(r, Current), by |-> r]) ELSE chain

\* compare_and_publish returns a receipt: stale, or of an attempt.
Publish(c) ==
  LET r == memory[c].request IN
  /\ pc[c] = "saved"
  /\ IF SnapshotIdentity(Current) = r.expected
     THEN \E b \in Reports, visible \in BOOLEAN :
            /\ b.established => visible
            /\ b.outcome \notin Attempted => ~visible
            /\ chain' = Extended(r, visible)
            /\ durable' = IF b.outcome = "published" THEN Len(chain') ELSE durable
            /\ LET rc == ReceiptOf(r, Current, Project(r, Current), Format, b) IN
                 /\ memory' = [memory EXCEPT ![c].receipt = rc]
                 /\ answers' = [answers EXCEPT ![c] = @ \cup {rc}]
     ELSE LET rc == StaleReceipt(r, Current, Format) IN
            /\ memory' = [memory EXCEPT ![c].receipt = rc]
            /\ answers' = [answers EXCEPT ![c] = @ \cup {rc}]
            /\ UNCHANGED storeVars
  /\ Goto(c, "answered")
  /\ UNCHANGED <<disk, settled, jobs, failures>>

\* compare_and_publish throws or its caller dies in it, perhaps after the effect.
PublishBreaks(c) ==
  LET r == memory[c].request IN
  /\ pc[c] = "saved" /\ failures < MaxFailures
  /\ \E visible \in BOOLEAN :
       /\ visible => SnapshotIdentity(Current) = r.expected
       /\ chain' = Extended(r, visible)
  /\ memory' = [memory EXCEPT ![c] = Blank]
  /\ failures' = failures + 1
  /\ Goto(c, "down")
  /\ UNCHANGED <<durable, disk, historyVars, jobs>>

\* The actual prior snapshot is the expected one, or has to be read: the stale
\* receipt has only its identity, and the store may have moved on since.
Observe(c) ==
  /\ pc[c] = "answered"
  /\ memory' = [memory EXCEPT ![c].seen =
       IF memory[c].receipt.outcome = "stale_expected_state" THEN Current
       ELSE memory[c].base]
  /\ Goto(c, "observed")
  /\ UNCHANGED <<storeVars, disk, historyVars, jobs, failures>>

\* The receipt has been acted upon, and the records are removed.
Finish(c) ==
  /\ pc[c] = "persisted"
  /\ settled' = settled \cup {memory[c].request}
  /\ memory' = [memory EXCEPT ![c] = Blank]
  /\ disk' = [disk EXCEPT ![c] = Blank]
  /\ answers' = [answers EXCEPT ![c] = {}]
  /\ Goto(c, "idle")
  /\ UNCHANGED <<storeVars, jobs, failures>>

-----------------------------------------------------------------------------
(* Failures *)

\* The records that a sudden end may leave: some of the files of the step are
\* written, and the next one is torn or not begun.
Leftovers(c) ==
  {Written(c, n) : n \in 0..Len(Writing(pc[c]))}
    \cup {[Written(c, n - 1) EXCEPT ![Writing(pc[c])[n]] = Torn] : n \in 1..Len(Writing(pc[c]))}

Crash(c) ==
  /\ pc[c] \notin {"idle", "down"} /\ failures < MaxFailures
  /\ \E left \in Leftovers(c) : disk' = [disk EXCEPT ![c] = left]
  /\ memory' = [memory EXCEPT ![c] = Blank]
  /\ failures' = failures + 1
  /\ Goto(c, "down")
  /\ UNCHANGED <<storeVars, historyVars, jobs>>

\* The state falls back to a prefix that had reached stable storage: at least
\* what was confirmed, and whatever else was written back in time.
PowerFailure ==
  /\ failures < MaxFailures
  /\ \E n \in durable..Len(chain) : chain' = SubSeq(chain, 1, n) /\ durable' = n
  /\ disk' \in {d \in [Controllers -> UNION {Leftovers(c) : c \in Controllers}] :
                  \A c \in Controllers : d[c] \in Leftovers(c)}
  /\ memory' = [c \in Controllers |-> Blank]
  /\ pc' = [c \in Controllers |-> IF pc[c] = "idle" THEN "idle" ELSE "down"]
  /\ failures' = failures + 1
  /\ UNCHANGED <<historyVars, jobs>>

-----------------------------------------------------------------------------
(* Restart *)

\* What the records of a controller still say.
Base(c) == DecodedSnapshot(disk[c].base)

Retained(c) == DecodedRequest(disk[c].request, Base(c))

Verdict(c) == DecodedReceipt(disk[c].receipt, Retained(c), DecodedSnapshot(disk[c].seen))

Recovered(c) ==
  [base |-> Base(c), request |-> Retained(c), seen |-> DecodedSnapshot(disk[c].seen),
   receipt |-> Verdict(c)]

\* A job without a readable request was never begun, one without a readable
\* receipt is tried again, and one with both has its answer.
Restart(c) ==
  /\ pc[c] = "down"
  /\ IF Retained(c) = None
     THEN /\ disk' = [disk EXCEPT ![c] = Blank]
          /\ Goto(c, "idle")
          /\ UNCHANGED memory
     ELSE /\ memory' = [memory EXCEPT ![c] = Recovered(c)]
          /\ Goto(c, IF Verdict(c) = None THEN "saved" ELSE "persisted")
          /\ UNCHANGED disk
  /\ UNCHANGED <<storeVars, historyVars, jobs, failures>>

-----------------------------------------------------------------------------

Next ==
  \/ \E c \in Controllers :
       \/ Prepare(c) \/ Write(c) \/ Publish(c) \/ Observe(c) \/ Finish(c) \/ Restart(c)
       \/ PublishBreaks(c) \/ Crash(c)
  \/ PowerFailure

Spec == Init /\ [][Next]_vars

-----------------------------------------------------------------------------
(* Correctness *)

Whole(e) == e \notin {None, Torn}

OrNone(S) == S \cup {None}

\* What a file may hold: nothing, a torn record, or a record of its kind.
FileOf(records) == {None, Torn} \cup records

\* Every variable keeps its type: what is in memory, remembered or recovered,
\* are values that the factories return, and a whole file is a record of them.
CheckpointTypeOK ==
  /\ chain \in Seq([state : Snapshots, by : OrNone(Requests)]) /\ durable \in 1..Len(chain)
  /\ pc \in [Controllers -> {"idle", "made", "saved", "answered", "observed", "persisted",
                            "down"}]
  /\ memory \in [Controllers ->
       [base : OrNone(Snapshots), request : OrNone(Requests), seen : OrNone(Snapshots),
        receipt : OrNone(ReceiptRecord)]]
  /\ disk \in [Controllers ->
       [base : FileOf(SnapshotFiles), request : FileOf(RequestFiles),
        seen : FileOf(SnapshotFiles), receipt : FileOf(ReceiptFiles)]]
  /\ answers \in [Controllers -> SUBSET ReceiptRecord]
  /\ settled \subseteq Requests
  /\ jobs \in 0..MaxJobs /\ failures \in 0..MaxFailures

\* A restart reads in its records what was written there before the failure: the
\* request of the job, and an answer that one of its calls did return.  Only the
\* receipt of a stale attempt may be unreadable, when the store moved on between
\* the attempt and the reading of its prior snapshot.
RestartUnderstands ==
  \A c \in Controllers :
    LET kept == disk[c].receipt
        seen == DecodedSnapshot(disk[c].seen)
        own  == Retained(c)
        v    == DecodedReceipt(kept, own, seen)
    IN  /\ Whole(disk[c].request) => own # None /\ memory[c].request \in {None, own}
        /\ v # None => v \in answers[c]
        /\ Whole(kept) /\ v = None =>
             /\ kept.fields.outcome = "stale_expected_state"
             /\ seen # None => SnapshotIdentity(seen) # kept.fields.actualPrior

\* No publication is forgotten: whoever crashed, each generation was made by a
\* request whose job has ended with a receipt, or that its records still hold.
NoOrphanedEffect ==
  {chain[i].by : i \in 2..Len(chain)} \subseteq settled \cup {Retained(c) : c \in Controllers}

\* A confirmed receipt read back from its record names a generation that the
\* retained request made of the retained snapshot and that is there to stay.
RecoveredConfirmationHolds ==
  \A c \in Controllers :
    LET v == Verdict(c) IN
    v # None /\ v.durability = "confirmed" =>
      \E i \in 2..durable :
        /\ chain[i].by = Retained(c) /\ chain[i - 1].state = Base(c)
        /\ SnapshotIdentity(chain[i].state) = v.resulting

===============================================================================
