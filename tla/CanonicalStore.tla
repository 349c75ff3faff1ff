---------------------------- MODULE CanonicalStore ----------------------------
(***************************************************************************)
(* canonical_store::compare_and_publish run by concurrent clients over a   *)
(* storage backend that may lose its power.                                *)
(*                                                                         *)
(* The library owns the sequence  begin - compare - project - publish -    *)
(* receipt  (Begin .. Settle below).  The backend is a virtual interface   *)
(* outside the repository: it is modelled from its contract in             *)
(* canonical_store.h and from how the sequence uses it, as an exclusive    *)
(* lock, a chain of published generations and the length of the prefix     *)
(* that has reached stable storage.                                        *)
(***************************************************************************)
EXTENDS PublicationReceipt

CONSTANTS
  Clients,
  InitialPackages,   \* the packages of the first generation
  StoreTarget,       \* the target binding of the store
  DeltaInputs,       \* delta vectors that clients pass to make()
  Formats,           \* storage formats that the backend may return
  Boundary,          \* the atomicity boundary of the backend
  EvidenceLists,     \* evidence vectors that the backend may supply
  ForeignSnapshots,  \* snapshots that clients obtained elsewhere
  MaxCalls,          \* bound on compare_and_publish calls
  MaxCrashes         \* bound on client crashes and power failures

\* What the checks of the library and begin_publication throw.
Refusals == {"state_error", "store_error"}

\* What may leave the call at a point where nothing is checked: the library's
\* own SHA-256 failing (state_error in the code, labelled apart here), and
\* whatever publish() throws instead of returning a result.
Breakdowns == {"digest_failure", "backend_exception"}

Exceptions == Refusals \cup Breakdowns

ASSUME StoreAssumption ==
  /\ StoreTarget \in Targets
  /\ InitialPackages \subseteq Packages
  /\ SnapshotAdmitted(StoreTarget, InitialPackages)
  /\ DeltaInputs \subseteq Seq(DeltaRecord)
  /\ Formats \subseteq Seq(FormatBytes)
  /\ Boundary \in Boundaries
  /\ EvidenceLists \subseteq Seq(Evidence)
  /\ ForeignSnapshots \subseteq Snapshots
  /\ MaxCalls \in Nat /\ MaxCrashes \in Nat
  /\ None \notin Clients /\ None \notin Exceptions

\* What this backend may report of an attempt.
BackendReports ==
  {b \in [outcome : BackendOutcomes, atomicity : {Boundary, "none"},
          established : BOOLEAN, evidence : EvidenceLists] :
     BackendResultAdmitted(b)}

ASSUME AbsenceAssumption ==
  /\ None \notin Snapshots /\ None \notin SnapshotIdentities
  /\ None \notin Formats /\ None \notin BackendReports

VARIABLES
  chain,     \* the published generations, the last one being visible
  durable,   \* how many of them survive a power failure
  holder,    \* the client inside the publication lock, or None
  request,   \* the request each client retains
  pc,        \* where each client is in compare_and_publish
  prior,     \* local actual_prior
  format,    \* local storage_format
  proposal,  \* local resulting_snapshot
  report,    \* local backend result
  touched,   \* history: the generation this call established, or 0
  receipt,   \* the receipt the last call returned
  raised,    \* the exception the last call threw
  calls, crashes

backendVars == <<chain, durable>>
localVars   == <<prior, format, proposal, report>>
answerVars  == <<touched, receipt, raised>>
boundVars   == <<calls, crashes>>
vars == <<backendVars, holder, request, pc, localVars, answerVars, boundVars>>

Generation == [state : Snapshots, by : Requests \cup {None}]

Current == chain[Len(chain)].state

Steps == {"idle", "waiting", "locked", "derived", "reported"}

InsideLock == {"locked", "derived", "reported"}

Nobody == [c \in Clients |-> None]

Init ==
  /\ chain = <<[state |-> SnapshotMake(StoreTarget, InitialPackages),
                by |-> None]>>
  /\ durable = 1
  /\ holder = None
  /\ request = Nobody
  /\ pc = [c \in Clients |-> "idle"]
  /\ prior = Nobody /\ format = Nobody /\ proposal = Nobody /\ report = Nobody
  /\ touched = [c \in Clients |-> 0] /\ receipt = Nobody /\ raised = Nobody
  /\ calls = 0 /\ crashes = 0

-----------------------------------------------------------------------------
(* Clients *)

\* A client reads the store, or holds a snapshot of another one, and makes a
\* request of it: make() is a pure function of the snapshot, so the time between
\* the two is the time between the request and its call.  A refusal by a delta
\* factory or by make() changes nothing.
MakeRequest(c) ==
  /\ pc[c] = "idle"
  /\ \E s \in {Current} \cup ForeignSnapshots,
        deltas \in DeltaInputs, transaction \in OptionalTransaction :
       /\ Range(deltas) \subseteq Deltas
       /\ RequestAdmitted(s, deltas, transaction)
       /\ request' = [request EXCEPT ![c] = RequestMake(s, deltas, transaction)]
  /\ UNCHANGED <<backendVars, holder, pc, localVars, answerVars, boundVars>>

\* A retained request may be passed any number of times.
Call(c) ==
  /\ pc[c] = "idle" /\ request[c] # None /\ calls < MaxCalls
  /\ pc' = [pc EXCEPT ![c] = "waiting"]
  /\ touched' = [touched EXCEPT ![c] = 0]
  /\ receipt' = [receipt EXCEPT ![c] = None]
  /\ raised' = [raised EXCEPT ![c] = None]
  /\ calls' = calls + 1
  /\ UNCHANGED <<backendVars, holder, request, localVars, crashes>>

-----------------------------------------------------------------------------
(* compare_and_publish *)

\* Leaving the function destroys its locals.
ForgetLocals(c) ==
  /\ prior' = [prior EXCEPT ![c] = None]
  /\ format' = [format EXCEPT ![c] = None]
  /\ proposal' = [proposal EXCEPT ![c] = None]
  /\ report' = [report EXCEPT ![c] = None]

\* Leaving it from inside the lock also destroys the transaction.
Leave(c) ==
  /\ pc' = [pc EXCEPT ![c] = "idle"]
  /\ holder' = None
  /\ ForgetLocals(c)

Return(c, rc) ==
  /\ receipt' = [receipt EXCEPT ![c] = rc]
  /\ UNCHANGED <<touched, raised>>

Raise(c, exception) ==
  /\ raised' = [raised EXCEPT ![c] = exception]
  /\ UNCHANGED <<touched, receipt>>

\* begin_publication throws, or returns no transaction.
BeginRefused(c) ==
  /\ pc[c] = "waiting"
  /\ pc' = [pc EXCEPT ![c] = "idle"]
  /\ Raise(c, "store_error")
  /\ UNCHANGED <<backendVars, holder, request, localVars, boundVars>>

\* Mutant: the transaction does not wait for the lock.
BeginWithoutExclusion(c) ==
  /\ pc[c] = "waiting"
  /\ holder' = c
  /\ prior' = [prior EXCEPT ![c] = Current]
  /\ \E f \in Formats : format' = [format EXCEPT ![c] = f]
  /\ pc' = [pc EXCEPT ![c] = "locked"]
  /\ UNCHANGED <<backendVars, request, proposal, report, answerVars, boundVars>>

\* The transaction takes the lock and rereads; the caller copies what it read.
Begin(c) ==
  /\ pc[c] = "waiting" /\ holder = None
  /\ holder' = c
  /\ prior' = [prior EXCEPT ![c] = Current]
  /\ \E f \in Formats : format' = [format EXCEPT ![c] = f]
  /\ pc' = [pc EXCEPT ![c] = "locked"]
  /\ UNCHANGED <<backendVars, request, proposal, report, answerVars, boundVars>>

\* What the checks between begin and publish throw, None when they pass.
CompareError(c) ==
  LET r == request[c] IN
  IF ~StoreFormatAdmitted(format[c]) THEN "state_error"
  ELSE IF prior[c].target # r.target THEN "store_error"
  ELSE IF SnapshotIdentity(prior[c]) = r.expected
          THEN IF ProjectAdmitted(r, prior[c]) THEN None ELSE "state_error"
  ELSE IF RequireStale(r, prior[c]) /\ ReceiptFormatAdmitted(format[c])
          THEN None ELSE "state_error"

\* Mutant: an exception leaves without releasing the lock.
RefuseHoldingLock(c) ==
  /\ pc[c] = "locked" /\ CompareError(c) # None
  /\ Raise(c, CompareError(c))
  /\ pc' = [pc EXCEPT ![c] = "idle"]
  /\ ForgetLocals(c)
  /\ UNCHANGED <<holder, backendVars, request, boundVars>>

Refuse(c) ==
  /\ pc[c] = "locked" /\ CompareError(c) # None
  /\ Raise(c, CompareError(c))
  /\ Leave(c)
  /\ UNCHANGED <<backendVars, request, boundVars>>

AnswerStale(c) ==
  /\ pc[c] = "locked" /\ CompareError(c) = None
  /\ SnapshotIdentity(prior[c]) # request[c].expected
  /\ Return(c, StaleReceipt(request[c], prior[c], format[c]))
  /\ Leave(c)
  /\ UNCHANGED <<backendVars, request, boundVars>>

Derive(c) ==
  /\ pc[c] = "locked" /\ CompareError(c) = None
  /\ SnapshotIdentity(prior[c]) = request[c].expected
  /\ proposal' = [proposal EXCEPT ![c] = Project(request[c], prior[c])]
  /\ pc' = [pc EXCEPT ![c] = "derived"]
  /\ UNCHANGED <<backendVars, holder, request, prior, format, report,
                 answerVars, boundVars>>

\* An established result is visible; an attempt that did not happen left
\* nothing; otherwise the backend itself does not know.
MayBeVisible(b, visible) ==
  /\ b.established => visible
  /\ b.outcome \notin Attempted => ~visible

\* transaction->publish: only a confirmed publication forces the chain to
\* stable storage.
Publish(c) ==
  /\ pc[c] = "derived"
  /\ \E b \in BackendReports, visible \in BOOLEAN :
       /\ MayBeVisible(b, visible)
       /\ chain' = IF visible
                   THEN Append(chain, [state |-> proposal[c], by |-> request[c]])
                   ELSE chain
       /\ durable' = IF b.outcome = "published" THEN Len(chain') ELSE durable
       /\ touched' = [touched EXCEPT ![c] = IF visible THEN Len(chain') ELSE 0]
       /\ report' = [report EXCEPT ![c] = b]
  /\ pc' = [pc EXCEPT ![c] = "reported"]
  /\ UNCHANGED <<holder, request, prior, format, proposal, receipt, raised,
                 boundVars>>

\* The switch over the outcome: one receipt factory each, which may throw.
Settle(c) ==
  /\ pc[c] = "reported"
  /\ IF ReceiptAdmitted(request[c], prior[c], proposal[c], format[c], report[c])
     THEN Return(c, ReceiptOf(request[c], prior[c], proposal[c], format[c], report[c]))
     ELSE Raise(c, "state_error")
  /\ Leave(c)
  /\ UNCHANGED <<backendVars, request, boundVars>>

\* publish() throws: not an ordinary outcome, but a result factory that refuses
\* repeated evidence, or exhausted memory, does it after the selection.
PublishThrows(c) ==
  /\ pc[c] = "derived"
  /\ \E visible \in BOOLEAN :
       /\ chain' = IF visible
                   THEN Append(chain, [state |-> proposal[c], by |-> request[c]])
                   ELSE chain
       /\ touched' = [touched EXCEPT ![c] = IF visible THEN Len(chain') ELSE 0]
  /\ raised' = [raised EXCEPT ![c] = "backend_exception"]
  /\ Leave(c)
  /\ UNCHANGED <<durable, request, receipt, boundVars>>

\* OpenSSL fails to allocate a context or to digest, where an identity is
\* computed: of the projection or of a stale receipt inside the lock, or of the
\* receipt after publish().
DigestFails(c) ==
  /\ \/ pc[c] = "locked" /\ CompareError(c) = None
     \/ pc[c] = "reported"
  /\ Raise(c, "digest_failure")
  /\ Leave(c)
  /\ UNCHANGED <<backendVars, request, boundVars>>

-----------------------------------------------------------------------------
(* The environment *)

\* Pending generations reach stable storage on their own.
Sync ==
  /\ \E n \in (durable + 1)..Len(chain) : durable' = n
  /\ UNCHANGED <<chain, holder, request, pc, localVars, answerVars, boundVars>>

\* A client dies inside a call: its lock goes with it; it may have persisted
\* the encoded request, never the answer it did not get.
CrashClient(c) ==
  /\ pc[c] # "idle" /\ crashes < MaxCrashes
  /\ pc' = [pc EXCEPT ![c] = "idle"]
  /\ holder' = IF holder = c THEN None ELSE holder
  /\ ForgetLocals(c)
  /\ \E kept \in {request[c], None} : request' = [request EXCEPT ![c] = kept]
  /\ touched' = [touched EXCEPT ![c] = 0]
  /\ crashes' = crashes + 1
  /\ UNCHANGED <<backendVars, receipt, raised, calls>>

\* Every client dies and the visible chain falls back to its durable prefix.
PowerFailure ==
  /\ crashes < MaxCrashes
  /\ chain' = SubSeq(chain, 1, durable)
  /\ holder' = None
  /\ pc' = [c \in Clients |-> "idle"]
  /\ prior' = Nobody /\ format' = Nobody /\ proposal' = Nobody /\ report' = Nobody
  /\ \E kept \in SUBSET Clients :
       request' = [c \in Clients |-> IF c \in kept THEN request[c] ELSE None]
  /\ crashes' = crashes + 1
  /\ UNCHANGED <<durable, answerVars, calls>>

-----------------------------------------------------------------------------

LibraryStep(c) ==
  \/ Begin(c) \/ Refuse(c) \/ AnswerStale(c) \/ Derive(c) \/ Publish(c) \/ Settle(c)

Next ==
  \/ \E c \in Clients :
       \/ MakeRequest(c) \/ Call(c)
       \/ BeginRefused(c) \/ Begin(c)
       \/ Refuse(c) \/ AnswerStale(c) \/ Derive(c) \/ Publish(c) \/ Settle(c)
       \/ PublishThrows(c) \/ DigestFails(c) \/ CrashClient(c)
  \/ Sync
  \/ PowerFailure

Spec == Init /\ [][Next]_vars

\* A running call keeps running, and the lock is granted to somebody: no other
\* fairness, in particular none for the environment.
FairSpec == Spec /\ \A c \in Clients : WF_vars(LibraryStep(c))

-----------------------------------------------------------------------------
(* Correctness *)

OrNone(S) == S \cup {None}

\* Every variable keeps its type: published states are snapshots that
\* snapshot::make admits (one target, unique names), retained requests are ones
\* that make returned, receipts cite identities and never values.
TypeOK ==
  /\ chain \in Seq(Generation) /\ durable \in 1..Len(chain)
  /\ holder \in OrNone(Clients)
  /\ request \in [Clients -> OrNone(Requests)]
  /\ pc \in [Clients -> Steps]
  /\ prior \in [Clients -> OrNone(Snapshots)]
  /\ format \in [Clients -> OrNone(Seq(FormatBytes))]
  /\ proposal \in [Clients -> OrNone(Snapshots)]
  /\ report \in [Clients -> OrNone(BackendResultRecord)]
  /\ touched \in [Clients -> Nat]
  /\ receipt \in [Clients -> OrNone(ReceiptRecord)]
  /\ raised \in [Clients -> OrNone(Exceptions)]
  /\ calls \in 0..MaxCalls /\ crashes \in 0..MaxCrashes

\* A call in flight retains its request and has not answered.
InFlight(c) ==
  pc[c] # "idle" => request[c] # None /\ raised[c] = None /\ receipt[c] = None

\* Until it publishes, the holder's copy of the prior snapshot is the state.
HoldsCurrent(c) ==
  /\ pc[c] \in InsideLock => holder = c /\ prior[c] # None /\ format[c] # None
  /\ pc[c] \in {"locked", "derived"} => prior[c] = Current
  /\ pc[c] \in {"waiting", "locked", "derived"} => touched[c] = 0

\* What was checked before publish() is still true after it.
CheckedBefore(c) ==
  pc[c] \in {"derived", "reported"} =>
    /\ StoreFormatAdmitted(format[c])
    /\ RequireCurrent(request[c], prior[c])
    /\ ProjectAdmitted(request[c], prior[c])
    /\ proposal[c] = Project(request[c], prior[c])

\* Until the call returns, what the backend reported is true of the store.
ReportIsTrue(c) ==
  pc[c] = "reported" =>
    /\ report[c] # None /\ BackendResultAdmitted(report[c])
    /\ MayBeVisible(report[c], touched[c] # 0)
    /\ touched[c] = 0 => prior[c] = Current
    /\ touched[c] # 0 =>
         /\ touched[c] = Len(chain) /\ Len(chain) > 1
         /\ chain[Len(chain)] = [state |-> proposal[c], by |-> request[c]]
         /\ chain[Len(chain) - 1].state = prior[c]
    /\ report[c].outcome = "published" => durable = Len(chain)

Disciplined(c) ==
  InFlight(c) /\ HoldsCurrent(c) /\ CheckedBefore(c) /\ ReportIsTrue(c)

\* A client inside the publication lock is alone there, and every local copy it
\* will use after a virtual call is still what the store holds.
LockDiscipline == \A c \in Clients : Disciplined(c)

\* No lost update: every published generation is exactly what its request makes
\* of the generation right before it, however calls interleave, whoever crashed
\* and whatever a power failure took back.
Lineage ==
  \A i \in 2..Len(chain) :
    Accomplishes(chain[i].by, chain[i - 1].state, chain[i].state)

\* A package enters the state only by a published request that proposes it and
\* carries the plan, application and transaction evidence of its own receipt.
Provenance ==
  \A i \in 2..Len(chain) :
    \A p \in chain[i].state.packages \ chain[i - 1].state.packages :
      \E d \in chain[i].by.deltas :
        /\ d.proposed = p
        /\ d.plan = p.plan /\ d.application = p.application
        /\ chain[i].by.transaction = p.transaction

\* A published request is spent: each publication changes the state identity,
\* so passing the same request again at once is answered stale.
Progressive ==
  \A i \in 2..Len(chain) :
    SnapshotIdentity(chain[i].state) # SnapshotIdentity(chain[i - 1].state)

\* A check of the library refuses only calls that have not touched the store:
\* everything the receipt factories could refuse after publish() was refused
\* before it.  Breakdowns are the exceptions that may hide an effect.
ExceptionMeansUntouched ==
  \A c \in Clients : raised[c] \in Refusals => touched[c] = 0

\* A client whose call took effect without an answer (it crashed, its digest
\* failed, publish() threw) may pass the retained request again: as long as the
\* effect is the current state, the retry is never let through to publish().
RetryIsNotRepeated ==
  \A c \in Clients :
    pc[c] = "derived" /\ Len(chain) > 1 => chain[Len(chain)].by # request[c]

\* A receipt that says confirmed describes a generation that no power failure
\* can take back.
ConfirmedIsPermanent ==
  \A c \in Clients :
    receipt[c] # None /\ receipt[c].durability = "confirmed" =>
      \E i \in 2..durable :
        /\ RequestIdentity(chain[i].by) = receipt[c].request
        /\ SnapshotIdentity(chain[i].state) = receipt[c].resulting
        /\ SnapshotIdentity(chain[i - 1].state) = receipt[c].actualPrior

\* A receipt cites a resulting snapshot only if its call established it, and
\* cites none only if the call left the store alone or could not tell.
CitationIsTrue ==
  \A c \in Clients : receipt[c] # None =>
    /\ receipt[c].resulting # None => touched[c] # 0
    /\ receipt[c].resulting = None =>
         touched[c] = 0 \/ receipt[c].outcome = "indeterminate"

Register == INSTANCE PublicationRegister
  WITH Callers <- Clients, First <- SnapshotMake(StoreTarget, InitialPackages),
       history <- chain, floor <- durable, answer <- receipt

\* The locked sequence implements the register: one atomic stale-safe step per
\* publication, and receipts that are true when they are returned.
ImplementsRegister == Register!Spec

\* Every call of compare_and_publish ends, with an answer, an exception or the
\* death of its caller: no path out of it keeps the publication lock.
EveryCallReturns ==
  \A c \in Clients : pc[c] = "waiting" ~> pc[c] = "idle"

===============================================================================
