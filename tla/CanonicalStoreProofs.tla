------------------------- MODULE CanonicalStoreProofs -------------------------
(***************************************************************************)
(* Proofs about CanonicalStore for every set of clients, packages, inputs  *)
(* and bounds that satisfies its assumptions: the types, the inductive     *)
(* invariant, what the store claims of its history and in its receipts,    *)
(* and that it implements the register.                                    *)
(***************************************************************************)
EXTENDS CanonicalStore, PublicationProofs

-----------------------------------------------------------------------------
(* Type correctness *)

\* The value of the store is a snapshot.
LEMMA CurrentType ==
  ASSUME TypeOK
  PROVE  Current \in Snapshots /\ Len(chain) \in Nat \ {0}
<1>1. chain \in Seq(Generation) /\ durable \in 1..Len(chain)
  BY DEF TypeOK
<1>2. Len(chain) \in Nat /\ Len(chain) > 0
  BY <1>1
<1>3. chain[Len(chain)] \in Generation
  BY <1>1, <1>2
<1> QED
  BY <1>2, <1>3 DEF Current, Generation

\* The first state is of the types.
LEMMA InitType == Init => TypeOK
<1> SUFFICES ASSUME Init PROVE TypeOK
  OBVIOUS
<1> DEFINE first == [state |-> SnapshotMake(StoreTarget, InitialPackages), by |-> None]
<1>1. SnapshotMake(StoreTarget, InitialPackages) \in Snapshots
  BY StoreAssumption DEF SnapshotMake, Snapshots, SnapshotRecord
<1>2. first \in Generation
  BY <1>1 DEF Generation
<1>3. chain \in Seq(Generation) /\ durable \in 1..Len(chain)
  BY <1>2 DEF Init
<1> QED
  BY <1>3, StoreAssumption DEF Init, TypeOK, OrNone, Nobody, Steps

\* The locals that leaving the function destroys keep their types.
LEMMA LeaveType ==
  ASSUME TypeOK, NEW c \in Clients, ForgetLocals(c)
  PROVE  /\ prior' \in [Clients -> OrNone(Snapshots)]
         /\ format' \in [Clients -> OrNone(Seq(FormatBytes))]
         /\ proposal' \in [Clients -> OrNone(Snapshots)]
         /\ report' \in [Clients -> OrNone(BackendResultRecord)]
BY DEF TypeOK, ForgetLocals, OrNone

\* What a backend may report is a backend result.
LEMMA BackendReportsType == BackendReports \subseteq BackendResultRecord
BY StoreAssumption DEF BackendReports, BackendResultRecord

\* Every step keeps the types.
LEMMA NextType == TypeOK /\ LockDiscipline /\ [Next]_vars => TypeOK'
<1> SUFFICES ASSUME TypeOK, LockDiscipline, [Next]_vars PROVE TypeOK'
  OBVIOUS
<1> USE DEF backendVars, localVars, answerVars, boundVars
<1>1. ASSUME NEW c \in Clients, MakeRequest(c) PROVE TypeOK'
  <2>1. PICK s \in {Current} \cup ForeignSnapshots,
             deltas \in DeltaInputs, transaction \in OptionalTransaction :
               /\ Range(deltas) \subseteq Deltas
               /\ RequestAdmitted(s, deltas, transaction)
               /\ request' = [request EXCEPT
                                ![c] = RequestMake(s, deltas, transaction)]
    BY <1>1 DEF MakeRequest
  <2>2. RequestMake(s, deltas, transaction) \in Requests
    BY <2>1, RequestType, CurrentType, StoreAssumption
  <2>3. request' \in [Clients -> OrNone(Requests)]
    BY <2>1, <2>2 DEF TypeOK, OrNone
  <2> QED
    BY <1>1, <2>3 DEF MakeRequest, TypeOK
<1>2. ASSUME NEW c \in Clients, Call(c) PROVE TypeOK'
  <2>1. calls' \in 0..MaxCalls
    BY <1>2, StoreAssumption DEF Call, TypeOK
  <2> QED
    BY <1>2, <2>1 DEF Call, TypeOK, OrNone, Steps
<1>3. ASSUME NEW c \in Clients, BeginRefused(c) PROVE TypeOK'
  BY <1>3 DEF BeginRefused, Raise, TypeOK, OrNone, Steps, Exceptions, Refusals
<1>4. ASSUME NEW c \in Clients, Begin(c) PROVE TypeOK'
  <2>1. prior' \in [Clients -> OrNone(Snapshots)]
    BY <1>4, CurrentType DEF Begin, TypeOK, OrNone
  <2>2. format' \in [Clients -> OrNone(Seq(FormatBytes))]
    BY <1>4, StoreAssumption DEF Begin, TypeOK, OrNone
  <2> QED
    BY <1>4, <2>1, <2>2 DEF Begin, TypeOK, OrNone, Steps
<1>5. ASSUME NEW c \in Clients, Refuse(c) PROVE TypeOK'
  <2>1. CompareError(c) \in Exceptions
    BY <1>5 DEF Refuse, CompareError, Exceptions, Refusals
  <2>2. raised' \in [Clients -> OrNone(Exceptions)]
    BY <1>5, <2>1 DEF Refuse, Raise, TypeOK, OrNone
  <2> QED
    BY <1>5, <2>2, LeaveType DEF Refuse, Raise, Leave, TypeOK, OrNone, Steps
<1>6. ASSUME NEW c \in Clients, AnswerStale(c) PROVE TypeOK'
  <2>1. /\ request[c] \in Requests /\ prior[c] \in Snapshots
        /\ format[c] \in Seq(FormatBytes)
    BY <1>6 DEF AnswerStale, TypeOK, OrNone, LockDiscipline, Disciplined, InFlight,
                HoldsCurrent, InsideLock
  <2>2. <<>> \in Seq(Evidence)
    OBVIOUS
  <2>3. StaleReceipt(request[c], prior[c], format[c]) \in ReceiptRecord
    BY <2>1, <2>2, ReceiptType DEF StaleReceipt, Outcomes
  <2>4. receipt' \in [Clients -> OrNone(ReceiptRecord)]
    BY <1>6, <2>3 DEF AnswerStale, Return, TypeOK, OrNone
  <2> QED
    BY <1>6, <2>4, LeaveType DEF AnswerStale, Return, Leave, TypeOK, OrNone, Steps
<1>7. ASSUME NEW c \in Clients, Derive(c) PROVE TypeOK'
  <2>1. request[c] \in Requests /\ prior[c] \in Snapshots
    BY <1>7 DEF Derive, TypeOK, OrNone, LockDiscipline, Disciplined, InFlight,
                HoldsCurrent, InsideLock
  <2>2. ProjectAdmitted(request[c], prior[c])
    BY <1>7, StoreAssumption DEF Derive, CompareError, Exceptions, Refusals
  <2>3. proposal' \in [Clients -> OrNone(Snapshots)]
    BY <1>7, <2>1, <2>2, ProjectType DEF Derive, TypeOK, OrNone
  <2> QED
    BY <1>7, <2>3 DEF Derive, TypeOK, Steps
<1>8. ASSUME NEW c \in Clients, Publish(c) PROVE TypeOK'
  <2>1. PICK b \in BackendReports, visible \in BOOLEAN :
          /\ chain' = IF visible
                      THEN Append(chain, [state |-> proposal[c], by |-> request[c]])
                      ELSE chain
          /\ durable' = IF b.outcome = "published" THEN Len(chain') ELSE durable
          /\ touched' = [touched EXCEPT ![c] = IF visible THEN Len(chain') ELSE 0]
          /\ report' = [report EXCEPT ![c] = b]
    BY <1>8 DEF Publish
  <2>2. request[c] \in Requests /\ prior[c] \in Snapshots
    BY <1>8 DEF Publish, TypeOK, OrNone, LockDiscipline, Disciplined, InFlight,
                HoldsCurrent, InsideLock
  <2>3. proposal[c] \in Snapshots
    BY <1>8, <2>2, ProjectType DEF Publish, LockDiscipline, Disciplined, CheckedBefore
  <2>4. [state |-> proposal[c], by |-> request[c]] \in Generation
    BY <2>2, <2>3 DEF Generation
  <2>5. chain' \in Seq(Generation) /\ durable' \in 1..Len(chain')
    BY <2>1, <2>4, CurrentType DEF TypeOK
  <2>6. touched' \in [Clients -> Nat]
    BY <2>1, <2>5 DEF TypeOK
  <2>7. report' \in [Clients -> OrNone(BackendResultRecord)]
    BY <2>1, BackendReportsType DEF TypeOK, OrNone
  <2> QED
    BY <1>8, <2>5, <2>6, <2>7 DEF Publish, TypeOK, Steps
<1>9. ASSUME NEW c \in Clients, Settle(c) PROVE TypeOK'
  <2>1. /\ request[c] \in Requests /\ prior[c] \in Snapshots
        /\ format[c] \in Seq(FormatBytes)
    BY <1>9 DEF Settle, TypeOK, OrNone, LockDiscipline, Disciplined, InFlight,
                HoldsCurrent, InsideLock
  <2>2. proposal[c] \in Snapshots
    BY <1>9, <2>1, ProjectType DEF Settle, LockDiscipline, Disciplined, CheckedBefore
  <2>3. receipt' \in [Clients -> OrNone(ReceiptRecord)]
    <3>1. CASE receipt' = receipt
      BY <3>1 DEF TypeOK
    <3>2. CASE receipt' = [receipt EXCEPT ![c] = ReceiptOf(request[c], prior[c],
                             proposal[c], format[c], report[c])]
      <4>1. report[c] \in BackendResultRecord
        BY <1>9 DEF Settle, LockDiscipline, Disciplined, ReportIsTrue, TypeOK, OrNone
      <4>2. SnapshotIdentity(proposal[c]) \in SnapshotIdentities
        BY <2>2 DEF Snapshots, SnapshotRecord, SnapshotIdentities
      <4>3. /\ report[c].outcome \in Outcomes
            /\ report[c].atomicity \in Boundaries \cup {"none"}
            /\ report[c].evidence \in Seq(Evidence)
        BY <4>1 DEF BackendResultRecord, Outcomes
      <4>4. ReceiptOf(request[c], prior[c], proposal[c], format[c], report[c])
              \in ReceiptRecord
        BY <2>1, <4>2, <4>3, ReceiptType DEF ReceiptOf
      <4> QED
        BY <3>2, <4>4 DEF TypeOK, OrNone
    <3> QED
      BY <1>9, <3>1, <3>2 DEF Settle, Return, Raise
  <2>4. raised' \in [Clients -> OrNone(Exceptions)] /\ touched' = touched
    BY <1>9 DEF Settle, Return, Raise, TypeOK, OrNone, Exceptions, Refusals
  <2> QED
    BY <1>9, <2>3, <2>4, LeaveType DEF Settle, Leave, TypeOK, OrNone, Steps
<1>10. ASSUME NEW c \in Clients, CrashClient(c) PROVE TypeOK'
  <2>1. crashes' \in 0..MaxCrashes
    BY <1>10, StoreAssumption DEF CrashClient, TypeOK
  <2>2. request' \in [Clients -> OrNone(Requests)]
    BY <1>10 DEF CrashClient, TypeOK, OrNone
  <2> QED
    BY <1>10, <2>1, <2>2, LeaveType DEF CrashClient, TypeOK, OrNone, Steps
<1>11. ASSUME Sync PROVE TypeOK'
  <2>1. durable' \in 1..Len(chain)
    BY <1>11, CurrentType DEF Sync, TypeOK
  <2> QED
    BY <1>11, <2>1 DEF Sync, TypeOK
<1>12. ASSUME PowerFailure PROVE TypeOK'
  <2>1. chain' \in Seq(Generation) /\ durable' \in 1..Len(chain')
    BY <1>12, CurrentType DEF PowerFailure, TypeOK
  <2>2. crashes' \in 0..MaxCrashes
    BY <1>12, StoreAssumption DEF PowerFailure, TypeOK
  <2>3. request' \in [Clients -> OrNone(Requests)]
    BY <1>12 DEF PowerFailure, TypeOK, OrNone
  <2> QED
    BY <1>12, <2>1, <2>2, <2>3 DEF PowerFailure, TypeOK, OrNone, Nobody, Steps
<1>13. ASSUME NEW c \in Clients, PublishThrows(c) PROVE TypeOK'
  <2>1. PICK visible \in BOOLEAN :
          /\ chain' = IF visible
                      THEN Append(chain, [state |-> proposal[c], by |-> request[c]])
                      ELSE chain
          /\ touched' = [touched EXCEPT ![c] = IF visible THEN Len(chain') ELSE 0]
    BY <1>13 DEF PublishThrows
  <2>2. request[c] \in Requests /\ prior[c] \in Snapshots
    BY <1>13 DEF PublishThrows, TypeOK, OrNone, LockDiscipline, Disciplined, InFlight,
                 HoldsCurrent, InsideLock
  <2>3. proposal[c] \in Snapshots
    BY <1>13, <2>2, ProjectType
    DEF PublishThrows, LockDiscipline, Disciplined, CheckedBefore
  <2>4. [state |-> proposal[c], by |-> request[c]] \in Generation
    BY <2>2, <2>3 DEF Generation
  <2>5. chain' \in Seq(Generation) /\ durable \in 1..Len(chain')
    BY <2>1, <2>4, CurrentType DEF TypeOK
  <2>6. touched' \in [Clients -> Nat]
    BY <2>1, <2>5 DEF TypeOK
  <2>7. raised' \in [Clients -> OrNone(Exceptions)]
    BY <1>13 DEF PublishThrows, TypeOK, OrNone, Exceptions, Breakdowns
  <2> QED
    BY <1>13, <2>5, <2>6, <2>7, LeaveType DEF PublishThrows, Leave, TypeOK, OrNone, Steps
<1>14. ASSUME NEW c \in Clients, DigestFails(c) PROVE TypeOK'
  <2>1. raised' \in [Clients -> OrNone(Exceptions)]
    BY <1>14 DEF DigestFails, Raise, TypeOK, OrNone, Exceptions, Breakdowns
  <2> QED
    BY <1>14, <2>1, LeaveType DEF DigestFails, Raise, Leave, TypeOK, OrNone, Steps
<1>15. CASE UNCHANGED vars
  BY <1>15 DEF vars, TypeOK
<1> QED
  BY <1>1, <1>2, <1>3, <1>4, <1>5, <1>6, <1>7, <1>8, <1>9, <1>10, <1>11, <1>12,
     <1>13, <1>14, <1>15 DEF Next

-----------------------------------------------------------------------------
(* The lock discipline *)

\* What a step of another client leaves of client d.
Untouched(d) ==
  /\ pc'[d] = pc[d] /\ request'[d] = request[d]
  /\ prior'[d] = prior[d] /\ format'[d] = format[d]
  /\ proposal'[d] = proposal[d] /\ report'[d] = report[d]
  /\ touched'[d] = touched[d] /\ receipt'[d] = receipt[d]
  /\ raised'[d] = raised[d]

\* A client keeps its discipline when neither it nor, if it is inside the lock,
\* the store changes.
LEMMA Bystander ==
  ASSUME NEW d \in Clients, Disciplined(d), Untouched(d),
         \/ pc[d] \notin InsideLock
         \/ chain' = chain /\ durable' = durable /\ holder' = holder
  PROVE  Disciplined(d)'
<1>1. InFlight(d)'
  BY DEF Untouched, Disciplined, InFlight
<1>2. HoldsCurrent(d)'
  BY DEF Untouched, Disciplined, HoldsCurrent, InsideLock, Current
<1>3. CheckedBefore(d)'
  BY DEF Untouched, Disciplined, CheckedBefore
<1>4. ReportIsTrue(d)'
  BY DEF Untouched, Disciplined, ReportIsTrue, InsideLock, Current
<1> QED
  BY <1>1, <1>2, <1>3, <1>4 DEF Disciplined

\* Two clients are never inside the lock together.
LEMMA Exclusion ==
  ASSUME LockDiscipline, NEW c \in Clients, NEW d \in Clients, c # d,
         pc[c] \in InsideLock
  PROVE  pc[d] \notin InsideLock
BY DEF LockDiscipline, Disciplined, HoldsCurrent

\* An idle client is disciplined.
LEMMA IdleDisciplined ==
  ASSUME NEW d \in Clients, pc'[d] = "idle"
  PROVE  Disciplined(d)'
BY DEF Disciplined, InFlight, HoldsCurrent, CheckedBefore, ReportIsTrue, InsideLock

\* A client that leaves the function disturbs nobody.
LEMMA LeaveDisciplined ==
  ASSUME TypeOK, LockDiscipline, NEW c \in Clients, pc[c] \in InsideLock,
         Leave(c), \A d \in Clients \ {c} : Untouched(d)
  PROVE  LockDiscipline'
<1> SUFFICES ASSUME NEW d \in Clients PROVE Disciplined(d)'
  BY DEF LockDiscipline
<1>1. CASE d = c
  BY <1>1, IdleDisciplined DEF Leave, TypeOK
<1>2. CASE d # c
  BY <1>2, Exclusion, Bystander DEF LockDiscipline
<1> QED
  BY <1>1, <1>2

\* No client is under way at first.
LEMMA InitDisciplined == Init => LockDiscipline
BY DEF Init, LockDiscipline, Disciplined, InFlight, HoldsCurrent, CheckedBefore,
       ReportIsTrue, InsideLock

\* Every step keeps the discipline of the lock.
LEMMA NextDisciplined == TypeOK /\ LockDiscipline /\ [Next]_vars => LockDiscipline'
<1> SUFFICES ASSUME TypeOK, LockDiscipline, [Next]_vars PROVE LockDiscipline'
  OBVIOUS
<1> USE DEF backendVars, localVars, answerVars, boundVars
<1>1. ASSUME NEW c \in Clients, MakeRequest(c) PROVE LockDiscipline'
  <2> SUFFICES ASSUME NEW d \in Clients PROVE Disciplined(d)'
    BY DEF LockDiscipline
  <2>1. CASE d = c
    BY <1>1, <2>1, IdleDisciplined DEF MakeRequest
  <2>2. CASE d # c
    BY <1>1, <2>2, Bystander DEF MakeRequest, Untouched, LockDiscipline, TypeOK
  <2> QED
    BY <2>1, <2>2
<1>2. ASSUME NEW c \in Clients, Call(c) PROVE LockDiscipline'
  <2> SUFFICES ASSUME NEW d \in Clients PROVE Disciplined(d)'
    BY DEF LockDiscipline
  <2>1. CASE d = c
    BY <1>2, <2>1 DEF Call, TypeOK, Disciplined, InFlight, HoldsCurrent,
                      CheckedBefore, ReportIsTrue, InsideLock
  <2>2. CASE d # c
    BY <1>2, <2>2, Bystander DEF Call, Untouched, LockDiscipline, TypeOK
  <2> QED
    BY <2>1, <2>2
<1>3. ASSUME NEW c \in Clients, BeginRefused(c) PROVE LockDiscipline'
  <2> SUFFICES ASSUME NEW d \in Clients PROVE Disciplined(d)'
    BY DEF LockDiscipline
  <2>1. CASE d = c
    BY <1>3, <2>1, IdleDisciplined DEF BeginRefused, TypeOK
  <2>2. CASE d # c
    BY <1>3, <2>2, Bystander DEF BeginRefused, Raise, Untouched, LockDiscipline, TypeOK
  <2> QED
    BY <2>1, <2>2
<1>4. ASSUME NEW c \in Clients, Begin(c) PROVE LockDiscipline'
  <2> SUFFICES ASSUME NEW d \in Clients PROVE Disciplined(d)'
    BY DEF LockDiscipline
  <2>1. CASE d = c
    <3>1. Current # None
      BY CurrentType, AbsenceAssumption
    <3>2. format'[c] # None
      BY <1>4, AbsenceAssumption DEF Begin, TypeOK
    <3> QED
      BY <1>4, <2>1, <3>1, <3>2
      DEF Begin, TypeOK, LockDiscipline, Disciplined, InFlight, HoldsCurrent,
          CheckedBefore, ReportIsTrue, InsideLock, Current
  <2>2. CASE d # c
    <3>1. pc[d] \notin InsideLock
      BY <1>4, StoreAssumption
      DEF Begin, LockDiscipline, Disciplined, HoldsCurrent, TypeOK
    <3> QED
      BY <1>4, <2>2, <3>1, Bystander DEF Begin, Untouched, LockDiscipline, TypeOK
  <2> QED
    BY <2>1, <2>2
<1>5. ASSUME NEW c \in Clients, Refuse(c) PROVE LockDiscipline'
  BY <1>5, LeaveDisciplined
  DEF Refuse, Raise, Leave, ForgetLocals, Untouched, InsideLock, TypeOK
<1>6. ASSUME NEW c \in Clients, AnswerStale(c) PROVE LockDiscipline'
  BY <1>6, LeaveDisciplined
  DEF AnswerStale, Return, Leave, ForgetLocals, Untouched, InsideLock, TypeOK
<1>7. ASSUME NEW c \in Clients, Derive(c) PROVE LockDiscipline'
  <2> SUFFICES ASSUME NEW d \in Clients PROVE Disciplined(d)'
    BY DEF LockDiscipline
  <2>1. CASE d = c
    <3>1. /\ StoreFormatAdmitted(format[c])
          /\ RequireCurrent(request[c], prior[c])
          /\ ProjectAdmitted(request[c], prior[c])
      BY <1>7, StoreAssumption
      DEF Derive, CompareError, RequireCurrent, Exceptions, Refusals
    <3> QED
      BY <1>7, <2>1, <3>1
      DEF Derive, TypeOK, LockDiscipline, Disciplined, InFlight, HoldsCurrent,
          CheckedBefore, ReportIsTrue, InsideLock, Current
  <2>2. CASE d # c
    BY <1>7, <2>2, Bystander DEF Derive, Untouched, LockDiscipline, TypeOK
  <2> QED
    BY <2>1, <2>2
<1>8. ASSUME NEW c \in Clients, Publish(c) PROVE LockDiscipline'
  <2> SUFFICES ASSUME NEW d \in Clients PROVE Disciplined(d)'
    BY DEF LockDiscipline
  <2>1. CASE d = c
    <3>1. PICK b \in BackendReports, visible \in BOOLEAN :
            /\ MayBeVisible(b, visible)
            /\ chain' = IF visible
                        THEN Append(chain, [state |-> proposal[c], by |-> request[c]])
                        ELSE chain
            /\ durable' = IF b.outcome = "published" THEN Len(chain') ELSE durable
            /\ touched' = [touched EXCEPT ![c] = IF visible THEN Len(chain') ELSE 0]
            /\ report' = [report EXCEPT ![c] = b]
      BY <1>8 DEF Publish
    <3>2. /\ pc'[c] = "reported" /\ request'[c] = request[c]
          /\ prior'[c] = prior[c] /\ format'[c] = format[c]
          /\ proposal'[c] = proposal[c] /\ holder' = holder
          /\ receipt'[c] = receipt[c] /\ raised'[c] = raised[c]
          /\ report'[c] = b
          /\ touched'[c] = IF visible THEN Len(chain') ELSE 0
      BY <1>8, <3>1 DEF Publish, TypeOK
    <3>3. pc[c] = "derived" /\ Disciplined(c)
      BY <1>8 DEF Publish, LockDiscipline
    <3>4. InFlight(c)' /\ HoldsCurrent(c)' /\ CheckedBefore(c)'
      BY <3>2, <3>3 DEF Disciplined, InFlight, HoldsCurrent, CheckedBefore, InsideLock
    <3>5. b # None /\ BackendResultAdmitted(b)
      BY AbsenceAssumption DEF BackendReports
    <3>6. prior[c] = Current
      BY <3>3 DEF Disciplined, HoldsCurrent
    <3>7. ASSUME visible PROVE ReportIsTrue(c)'
      <4>1. /\ chain' = Append(chain, [state |-> proposal[c], by |-> request[c]])
            /\ Len(chain') = Len(chain) + 1 /\ Len(chain') > 1
            /\ chain'[Len(chain')] = [state |-> proposal[c], by |-> request[c]]
            /\ chain'[Len(chain') - 1] = chain[Len(chain)]
        BY <3>1, <3>7, CurrentType DEF TypeOK
      <4>2. touched'[c] = Len(chain') /\ touched'[c] # 0
        BY <3>2, <3>7, <4>1, CurrentType
      <4>3. b.outcome \in Attempted
        BY <3>1, <3>7 DEF MayBeVisible
      <4>4. MayBeVisible(b, touched'[c] # 0)
        BY <4>2, <4>3 DEF MayBeVisible
      <4> QED
        BY <3>1, <3>2, <3>5, <3>6, <4>1, <4>2, <4>4 DEF ReportIsTrue, Current
    <3>8. ASSUME ~visible PROVE ReportIsTrue(c)'
      <4>1. touched'[c] = 0 /\ chain' = chain
        BY <3>1, <3>2, <3>8
      <4>2. ~b.established /\ b.outcome # "published"
        BY <3>1, <3>5, <3>8 DEF MayBeVisible, BackendResultAdmitted, Attempted
      <4>3. MayBeVisible(b, touched'[c] # 0)
        BY <4>1, <4>2 DEF MayBeVisible
      <4> QED
        BY <3>2, <3>5, <3>6, <4>1, <4>2, <4>3 DEF ReportIsTrue, Current
    <3> QED
      BY <2>1, <3>4, <3>7, <3>8 DEF Disciplined
  <2>2. CASE d # c
    <3>1. pc[c] \in InsideLock
      BY <1>8 DEF Publish, InsideLock
    <3>2. Untouched(d)
      BY <1>8, <2>2 DEF Publish, Untouched, TypeOK
    <3> QED
      BY <2>2, <3>1, <3>2, Exclusion, Bystander DEF LockDiscipline
  <2> QED
    BY <2>1, <2>2
<1>9. ASSUME NEW c \in Clients, Settle(c) PROVE LockDiscipline'
  BY <1>9, LeaveDisciplined
  DEF Settle, Return, Raise, Leave, ForgetLocals, Untouched, InsideLock, TypeOK
<1>10. ASSUME NEW c \in Clients, CrashClient(c) PROVE LockDiscipline'
  <2> SUFFICES ASSUME NEW d \in Clients PROVE Disciplined(d)'
    BY DEF LockDiscipline
  <2>1. CASE d = c
    BY <1>10, <2>1, IdleDisciplined DEF CrashClient, TypeOK
  <2>2. CASE d # c
    <3>1. Untouched(d)
      BY <1>10, <2>2 DEF CrashClient, ForgetLocals, Untouched, TypeOK
    <3>2. pc[d] \notin InsideLock \/ holder' = holder
      BY <1>10, <2>2 DEF CrashClient, LockDiscipline, Disciplined, HoldsCurrent
    <3> QED
      BY <1>10, <3>1, <3>2, Bystander DEF CrashClient, LockDiscipline
  <2> QED
    BY <2>1, <2>2
<1>11. ASSUME Sync PROVE LockDiscipline'
  <2> SUFFICES ASSUME NEW d \in Clients PROVE Disciplined(d)'
    BY DEF LockDiscipline
  <2>1. durable # Len(chain)
    BY <1>11, CurrentType DEF Sync, TypeOK
  <2>2. Disciplined(d)
    BY DEF LockDiscipline
  <2> QED
    BY <1>11, <2>1, <2>2
    DEF Sync, Disciplined, InFlight, HoldsCurrent, CheckedBefore, ReportIsTrue, Current
<1>12. ASSUME PowerFailure PROVE LockDiscipline'
  BY <1>12, IdleDisciplined DEF PowerFailure, LockDiscipline
<1>13. ASSUME NEW c \in Clients, PublishThrows(c) PROVE LockDiscipline'
  BY <1>13, LeaveDisciplined
  DEF PublishThrows, Leave, ForgetLocals, Untouched, InsideLock, TypeOK
<1>14. ASSUME NEW c \in Clients, DigestFails(c) PROVE LockDiscipline'
  BY <1>14, LeaveDisciplined
  DEF DigestFails, Raise, Leave, ForgetLocals, Untouched, InsideLock, TypeOK
<1>15. CASE UNCHANGED vars
  BY <1>15, Bystander DEF vars, Untouched, LockDiscipline
<1> QED
  BY <1>1, <1>2, <1>3, <1>4, <1>5, <1>6, <1>7, <1>8, <1>9, <1>10, <1>11, <1>12,
     <1>13, <1>14, <1>15 DEF Next

-----------------------------------------------------------------------------
(* The inductive invariant and what follows from it *)

IInv == TypeOK /\ LockDiscipline

\* The inductive invariant holds always.
LEMMA Invariance == Spec => []IInv
BY InitType, InitDisciplined, NextType, NextDisciplined, PTL DEF Spec, IInv

\* TypeOK holds for any clients, inputs and bounds: in particular published
\* states are snapshots that snapshot::make admits.
THEOREM TypeCorrect == Spec => []TypeOK
BY Invariance, PTL DEF IInv

\* LockDiscipline: between begin_publication and its return, every local copy
\* in compare_and_publish agrees with the store.
THEOREM DisciplineHolds == Spec => []LockDiscipline
BY Invariance, PTL DEF IInv

\* The chain grows by the projection of a retained request or falls back to its
\* durable prefix; the durable length never shrinks.
LEMMA ChainSteps ==
  ASSUME IInv, [Next]_vars
  PROVE  /\ \/ chain' = chain
            \/ /\ chain' = SubSeq(chain, 1, durable)
               /\ durable' = durable
            \/ \E c \in Clients :
                 /\ request[c] # None /\ request[c] \in Requests
                 /\ ProjectAdmitted(request[c], Current)
                 /\ chain' = Append(chain, [state |-> Project(request[c], Current),
                                           by |-> request[c]])
         /\ durable' >= durable
<1> DEFINE Grows ==
      /\ \/ chain' = chain
         \/ /\ chain' = SubSeq(chain, 1, durable)
            /\ durable' = durable
         \/ \E c \in Clients :
              /\ request[c] # None /\ request[c] \in Requests
              /\ ProjectAdmitted(request[c], Current)
              /\ chain' = Append(chain, [state |-> Project(request[c], Current),
                                        by |-> request[c]])
      /\ durable' >= durable
<1> USE DEF backendVars, localVars, answerVars, boundVars, IInv
<1>0. durable \in Nat /\ Len(chain) \in Nat /\ durable <= Len(chain)
  BY CurrentType DEF TypeOK
<1>1. ASSUME NEW c \in Clients, Publish(c) \/ PublishThrows(c) PROVE Grows
  <2>0. pc[c] = "derived"
    BY <1>1 DEF Publish, PublishThrows
  <2>1. /\ request[c] # None /\ request[c] \in Requests
        /\ prior[c] = Current
        /\ ProjectAdmitted(request[c], prior[c])
        /\ proposal[c] = Project(request[c], prior[c])
    BY <2>0 DEF TypeOK, OrNone, LockDiscipline, Disciplined, InFlight,
                HoldsCurrent, CheckedBefore
  <2>2. \/ chain' = chain
        \/ chain' = Append(chain, [state |-> proposal[c], by |-> request[c]])
    BY <1>1 DEF Publish, PublishThrows
  <2>3. durable' = durable \/ durable' = Len(chain')
    BY <1>1 DEF Publish, PublishThrows
  <2>4. Len(chain') \in {Len(chain), Len(chain) + 1}
    BY <2>2 DEF TypeOK
  <2> QED
    BY <1>0, <2>1, <2>2, <2>3, <2>4
<1>2. ASSUME Sync PROVE Grows
  BY <1>0, <1>2 DEF Sync
<1>3. ASSUME PowerFailure PROVE Grows
  BY <1>0, <1>3 DEF PowerFailure
<1>4. ASSUME chain' = chain, durable' = durable PROVE Grows
  BY <1>0, <1>4
<1>5. ASSUME NEW c \in Clients,
             \/ MakeRequest(c) \/ Call(c) \/ BeginRefused(c) \/ Begin(c)
             \/ Refuse(c) \/ AnswerStale(c) \/ Derive(c) \/ Settle(c)
             \/ DigestFails(c) \/ CrashClient(c)
      PROVE  Grows
  <2>1. chain' = chain /\ durable' = durable
    BY <1>5 DEF MakeRequest, Call, BeginRefused, Begin, Refuse, AnswerStale,
                Derive, Settle, DigestFails, CrashClient
  <2> QED
    BY <1>4, <2>1
<1>6. ASSUME UNCHANGED vars PROVE Grows
  <2>1. chain' = chain /\ durable' = durable
    BY <1>6 DEF vars
  <2> QED
    BY <1>4, <2>1
<1>7. Grows
  <2> HIDE DEF Grows
  <2> QED
    BY <1>1, <1>2, <1>3, <1>5, <1>6 DEF Next
<1> QED
  BY <1>7

\* Lineage: no interleaving of calls, crashes and power failures publishes a
\* generation that is not its request's projection of the generation before it.
THEOREM LineageHolds == Spec => []Lineage
<1>1. Init => Lineage
  BY DEF Init, Lineage
<1>2. IInv /\ Lineage /\ [Next]_vars => Lineage'
  <2> SUFFICES ASSUME IInv, Lineage, [Next]_vars, NEW i \in 2..Len(chain')
               PROVE  Accomplishes(chain'[i].by, chain'[i - 1].state, chain'[i].state)
    BY DEF Lineage
  <2>0. durable \in Nat /\ Len(chain) \in Nat /\ durable <= Len(chain)
    BY CurrentType DEF IInv, TypeOK
  <2>1. CASE chain' = chain
    BY <2>1 DEF Lineage
  <2>2. CASE chain' = SubSeq(chain, 1, durable)
    <3>1. i \in 2..Len(chain) /\ chain'[i] = chain[i] /\ chain'[i - 1] = chain[i - 1]
      BY <2>0, <2>2 DEF IInv, TypeOK
    <3> QED
      BY <3>1 DEF Lineage
  <2>3. ASSUME NEW r \in Requests, ProjectAdmitted(r, Current),
               chain' = Append(chain, [state |-> Project(r, Current), by |-> r])
        PROVE  Accomplishes(chain'[i].by, chain'[i - 1].state, chain'[i].state)
    <3>1. CASE i = Len(chain) + 1
      <4>1. /\ chain'[i] = [state |-> Project(r, Current), by |-> r]
            /\ chain'[i - 1].state = Current
        BY <2>0, <2>3, <3>1 DEF IInv, TypeOK, Current
      <4> QED
        BY <2>3, <4>1, CurrentType, ProjectAccomplishes DEF IInv
    <3>2. CASE i # Len(chain) + 1
      <4>1. i \in 2..Len(chain) /\ chain'[i] = chain[i] /\ chain'[i - 1] = chain[i - 1]
        BY <2>0, <2>3, <3>2 DEF IInv, TypeOK
      <4> QED
        BY <4>1 DEF Lineage
    <3> QED
      BY <3>1, <3>2
  <2> QED
    BY <2>1, <2>2, <2>3, ChainSteps
<1> QED
  BY <1>1, <1>2, Invariance, PTL DEF Spec

\* The receipt factories never refuse what compare_and_publish gives them.
LEMMA SettleReturns ==
  ASSUME IInv, NEW c \in Clients, Settle(c)
  PROVE  Return(c, ReceiptOf(request[c], prior[c], proposal[c], format[c], report[c]))
<1>1. /\ StoreFormatAdmitted(format[c])
      /\ RequireCurrent(request[c], prior[c])
      /\ ProjectAdmitted(request[c], prior[c])
      /\ proposal[c] = Project(request[c], prior[c])
      /\ BackendResultAdmitted(report[c])
  BY DEF IInv, Settle, LockDiscipline, Disciplined, CheckedBefore, ReportIsTrue
<1>2. ResultAdmitted(request[c], prior[c], proposal[c])
  BY <1>1 DEF ResultAdmitted, Project, SnapshotMake
<1>3. ReceiptAdmitted(request[c], prior[c], proposal[c], format[c], report[c])
  BY <1>1, <1>2 DEF ReceiptAdmitted, BackendResultAdmitted, StoreFormatAdmitted,
                    ReceiptFormatAdmitted
<1> QED
  BY <1>3 DEF Settle

\* ExceptionMeansUntouched: whatever the backend reports, no check of the
\* library refuses a call that changed something.
THEOREM ExceptionsAreHarmless == Spec => []ExceptionMeansUntouched
<1>1. Init => ExceptionMeansUntouched
  BY DEF Init, ExceptionMeansUntouched
<1>2. IInv /\ ExceptionMeansUntouched /\ [Next]_vars => ExceptionMeansUntouched'
  <2> SUFFICES ASSUME IInv, ExceptionMeansUntouched, [Next]_vars,
                      NEW d \in Clients, raised'[d] \in Refusals
               PROVE  touched'[d] = 0
    BY DEF ExceptionMeansUntouched
  <2> USE DEF backendVars, localVars, answerVars, boundVars
  <2>0. /\ Disciplined(d) /\ TypeOK
        /\ raised[d] \in Refusals => touched[d] = 0
        /\ None \notin Refusals
        /\ "backend_exception" \notin Refusals /\ "digest_failure" \notin Refusals
    BY StoreAssumption
    DEF IInv, LockDiscipline, ExceptionMeansUntouched, Exceptions, Refusals
  <2>1. ASSUME NEW c \in Clients, MakeRequest(c) PROVE touched'[d] = 0
    BY <2>0, <2>1 DEF MakeRequest
  <2>2. ASSUME NEW c \in Clients, Call(c) PROVE touched'[d] = 0
    BY <2>0, <2>2 DEF Call, TypeOK
  <2>3. ASSUME NEW c \in Clients, BeginRefused(c) PROVE touched'[d] = 0
    BY <2>0, <2>3 DEF BeginRefused, Raise, TypeOK, Disciplined, HoldsCurrent
  <2>4. ASSUME NEW c \in Clients, Begin(c) PROVE touched'[d] = 0
    BY <2>0, <2>4 DEF Begin
  <2>5. ASSUME NEW c \in Clients, Refuse(c) PROVE touched'[d] = 0
    BY <2>0, <2>5 DEF Refuse, Raise, TypeOK, Disciplined, HoldsCurrent
  <2>6. ASSUME NEW c \in Clients, AnswerStale(c) PROVE touched'[d] = 0
    BY <2>0, <2>6 DEF AnswerStale, Return
  <2>7. ASSUME NEW c \in Clients, Derive(c) PROVE touched'[d] = 0
    BY <2>0, <2>7 DEF Derive
  <2>8. ASSUME NEW c \in Clients, Publish(c) PROVE touched'[d] = 0
    BY <2>0, <2>8 DEF Publish, TypeOK, Disciplined, InFlight
  <2>9. ASSUME NEW c \in Clients, Settle(c) PROVE touched'[d] = 0
    BY <2>0, <2>9, SettleReturns DEF Return
  <2>10. ASSUME NEW c \in Clients, CrashClient(c) PROVE touched'[d] = 0
    BY <2>0, <2>10 DEF CrashClient, TypeOK
  <2>11. CASE Sync \/ PowerFailure
    BY <2>0, <2>11 DEF Sync, PowerFailure
  <2>12. CASE UNCHANGED vars
    BY <2>0, <2>12 DEF vars
  <2>13. ASSUME NEW c \in Clients, PublishThrows(c) PROVE touched'[d] = 0
    <3>1. d # c
      BY <2>0, <2>13 DEF PublishThrows, TypeOK
    <3> QED
      BY <2>0, <2>13, <3>1 DEF PublishThrows, TypeOK
  <2>14. ASSUME NEW c \in Clients, DigestFails(c) PROVE touched'[d] = 0
    <3>1. d # c
      BY <2>0, <2>14 DEF DigestFails, Raise, TypeOK
    <3> QED
      BY <2>0, <2>14, <3>1 DEF DigestFails, Raise, TypeOK
  <2> QED
    BY <2>1, <2>2, <2>3, <2>4, <2>5, <2>6, <2>7, <2>8, <2>9, <2>10, <2>11,
       <2>12, <2>13, <2>14 DEF Next
<1> QED
  BY <1>1, <1>2, Invariance, PTL DEF Spec

-----------------------------------------------------------------------------
(* What make() guarantees beyond the type of a request *)

OneTransaction(r) ==
  \A d \in r.deltas : d.proposed # None => d.proposed.transaction = r.transaction

Retained ==
  \A c \in Clients :
    request[c] # None => request[c].deltas # {} /\ OneTransaction(request[c])

\* What a client retains stays what it was given.
LEMMA RetainedInvariant == Spec => []Retained
<1>1. Init => Retained
  BY DEF Init, Retained, Nobody
<1>2. IInv /\ Retained /\ [Next]_vars => Retained'
  <2> SUFFICES ASSUME IInv, Retained, [Next]_vars,
                      NEW d \in Clients, request'[d] # None
               PROVE  request'[d].deltas # {} /\ OneTransaction(request'[d])
    BY DEF Retained
  <2>0. request \in [Clients -> OrNone(Requests)]
    BY DEF IInv, TypeOK
  <2>1. ASSUME request'[d] = request[d]
        PROVE  request'[d].deltas # {} /\ OneTransaction(request'[d])
    BY <2>1 DEF Retained
  <2>2. ASSUME NEW c \in Clients, MakeRequest(c)
        PROVE  request'[d].deltas # {} /\ OneTransaction(request'[d])
    <3>1. PICK s \in {Current} \cup ForeignSnapshots,
               deltas \in DeltaInputs, transaction \in OptionalTransaction :
                 /\ RequestAdmitted(s, deltas, transaction)
                 /\ request' = [request EXCEPT
                                  ![c] = RequestMake(s, deltas, transaction)]
      BY <2>2 DEF MakeRequest
    <3>2. OneTransaction(RequestMake(s, deltas, transaction))
      BY <3>1 DEF RequestAdmitted, RequestMake, OneTransaction
    <3>3. Range(deltas) # {}
      <4>1. deltas \in Seq(DeltaRecord) /\ deltas # <<>>
        BY <3>1, StoreAssumption DEF RequestAdmitted
      <4>2. 1 \in DOMAIN deltas
        BY <4>1
      <4> QED
        BY <4>2 DEF Range
    <3>4. request'[d] \in {request[d], RequestMake(s, deltas, transaction)}
      BY <2>0, <3>1
    <3> QED
      BY <2>1, <3>2, <3>3, <3>4 DEF RequestMake
  <2>3. ASSUME NEW c \in Clients, CrashClient(c)
        PROVE  request'[d] = request[d]
    BY <2>0, <2>3 DEF CrashClient
  <2>4. ASSUME PowerFailure PROVE request'[d] = request[d]
    BY <2>4 DEF PowerFailure
  <2>5. ASSUME NEW c \in Clients,
               \/ Call(c) \/ BeginRefused(c) \/ Begin(c) \/ Refuse(c)
               \/ AnswerStale(c) \/ Derive(c) \/ Publish(c) \/ Settle(c)
               \/ PublishThrows(c) \/ DigestFails(c)
        PROVE  request' = request
    BY <2>5 DEF Call, BeginRefused, Begin, Refuse, AnswerStale, Derive, Publish,
                Settle, PublishThrows, DigestFails
  <2>6. Sync \/ UNCHANGED vars => request' = request
    BY DEF Sync, vars
  <2> QED
    BY <2>1, <2>2, <2>3, <2>4, <2>5, <2>6 DEF Next
<1> QED
  BY <1>1, <1>2, Invariance, PTL DEF Spec

-----------------------------------------------------------------------------
(* The history *)

\* A step keeps the durable prefix, and whatever else of the chain it keeps,
\* it keeps in place.
LEMMA ChainKeeps ==
  ASSUME IInv, [Next]_vars
  PROVE  /\ durable' \in Nat /\ durable' >= durable
         /\ \A i \in 1..durable : i \in 1..Len(chain') /\ chain'[i] = chain[i]
         /\ \A i \in 1..Len(chain') :
              \/ i \in 1..Len(chain) /\ chain'[i] = chain[i]
              \/ i = Len(chain) + 1
<1>0. /\ chain \in Seq(Generation) /\ durable \in Nat /\ Len(chain) \in Nat
      /\ durable <= Len(chain)
  BY CurrentType DEF IInv, TypeOK
<1>1. durable' \in Nat
  BY NextType DEF IInv, TypeOK
<1>2. \/ chain' = chain
      \/ chain' = SubSeq(chain, 1, durable)
      \/ \E g : chain' = Append(chain, g)
  BY ChainSteps
<1> QED
  BY <1>0, <1>1, <1>2, ChainSteps, SMTT(30)

\* Provenance: a package enters the state only with the evidence of the
\* published request that proposes it.
THEOREM ProvenanceHolds == Spec => []Provenance
<1> DEFINE Proposed(g, s) ==
      \A p \in g.state.packages \ s.packages :
        \E d \in g.by.deltas :
          /\ d.proposed = p
          /\ d.plan = p.plan /\ d.application = p.application
          /\ g.by.transaction = p.transaction
<1>1. Init => Provenance
  BY DEF Init, Provenance
<1>2. IInv /\ Retained /\ Provenance /\ [Next]_vars => Provenance'
  <2> SUFFICES ASSUME IInv, Retained, Provenance, [Next]_vars, NEW i \in 2..Len(chain')
               PROVE  Proposed(chain'[i], chain'[i - 1].state)
    BY DEF Provenance
  <2>0. /\ chain \in Seq(Generation) /\ Len(chain) \in Nat \ {0}
        /\ Len(chain') \in Nat /\ i \in 1..Len(chain') /\ i - 1 \in 1..Len(chain')
    BY CurrentType, NextType DEF IInv, TypeOK
  <2>1. CASE i \in 2..Len(chain)
    <3>1. chain'[i] = chain[i] /\ chain'[i - 1] = chain[i - 1]
      BY <2>0, <2>1, ChainKeeps
    <3> QED
      BY <2>1, <3>1 DEF Provenance
  <2>2. CASE i = Len(chain) + 1
    <3>1. PICK c \in Clients :
            /\ request[c] # None /\ request[c] \in Requests
            /\ ProjectAdmitted(request[c], Current)
            /\ chain' = Append(chain, [state |-> Project(request[c], Current),
                                      by |-> request[c]])
      BY <2>0, <2>2, ChainSteps DEF IInv, TypeOK
    <3>2. /\ chain'[i] = [state |-> Project(request[c], Current), by |-> request[c]]
          /\ chain'[i - 1].state = Current
      BY <2>0, <2>2, <3>1 DEF Current
    <3>3. ASSUME NEW p \in Project(request[c], Current).packages \ Current.packages
          PROVE  \E d \in request[c].deltas :
                   /\ d.proposed = p
                   /\ d.plan = p.plan /\ d.application = p.application
                   /\ request[c].transaction = p.transaction
      <4>1. PICK d \in request[c].deltas : d.proposed # None /\ d.proposed = p
        BY <3>3 DEF Project, SnapshotMake, ProjectedPackages
      <4>2. d.plan = p.plan /\ d.application = p.application
        BY <3>1, <4>1 DEF Requests, Deltas, InstallAdmitted, ReplaceAdmitted,
                          RemoveAdmitted, ReceiptRetains
      <4>3. request[c].transaction = p.transaction
        BY <3>1, <4>1 DEF Retained, OneTransaction
      <4> QED
        BY <4>1, <4>2, <4>3
    <3> QED
      BY <3>2, <3>3
  <2> QED
    BY <2>0, <2>1, <2>2, ChainKeeps
<1> QED
  BY <1>1, <1>2, Invariance, RetainedInvariant, PTL DEF Spec

\* Progressive: a publication always changes the identity of the state, so its
\* request no longer names the current state.
THEOREM ProgressHolds == Spec => []Progressive
<1>1. Init => Progressive
  BY DEF Init, Progressive
<1>2. IInv /\ Retained /\ Progressive /\ [Next]_vars => Progressive'
  <2> SUFFICES ASSUME IInv, Retained, Progressive, [Next]_vars, NEW i \in 2..Len(chain')
               PROVE  SnapshotIdentity(chain'[i].state)
                        # SnapshotIdentity(chain'[i - 1].state)
    BY DEF Progressive
  <2>0. /\ chain \in Seq(Generation) /\ Len(chain) \in Nat \ {0}
        /\ Len(chain') \in Nat /\ i \in 1..Len(chain') /\ i - 1 \in 1..Len(chain')
    BY CurrentType, NextType DEF IInv, TypeOK
  <2>1. CASE i \in 2..Len(chain)
    <3>1. chain'[i] = chain[i] /\ chain'[i - 1] = chain[i - 1]
      BY <2>0, <2>1, ChainKeeps
    <3> QED
      BY <2>1, <3>1 DEF Progressive
  <2>2. CASE i = Len(chain) + 1
    <3>1. PICK c \in Clients :
            /\ request[c] # None /\ request[c] \in Requests
            /\ ProjectAdmitted(request[c], Current)
            /\ chain' = Append(chain, [state |-> Project(request[c], Current),
                                      by |-> request[c]])
      BY <2>0, <2>2, ChainSteps DEF IInv, TypeOK
    <3>2. /\ chain'[i].state = Project(request[c], Current)
          /\ chain'[i - 1].state = Current
      BY <2>0, <2>2, <3>1 DEF Current
    <3>3. PICK d \in request[c].deltas : TRUE
      BY <3>1 DEF Retained
    <3> QED
      BY <3>1, <3>2, <3>3, CurrentType, ProjectionDiffers DEF IInv
  <2> QED
    BY <2>0, <2>1, <2>2, ChainKeeps
<1> QED
  BY <1>1, <1>2, Invariance, RetainedInvariant, PTL DEF Spec

\* RetryIsNotRepeated: the generation that a request made is not the state it
\* expects, so no client holding that request gets as far as publish() on it.
THEOREM RetryHolds == Spec => []RetryIsNotRepeated
<1>1. IInv /\ Lineage /\ Progressive => RetryIsNotRepeated
  <2> SUFFICES ASSUME IInv, Lineage, Progressive, NEW c \in Clients,
                      pc[c] = "derived", Len(chain) > 1,
                      chain[Len(chain)].by = request[c]
               PROVE  FALSE
    BY DEF RetryIsNotRepeated
  <2>1. Len(chain) \in 2..Len(chain)
    BY CurrentType DEF IInv
  <2>2. SnapshotIdentity(chain[Len(chain) - 1].state) = request[c].expected
    BY <2>1 DEF Lineage, Accomplishes
  <2>3. SnapshotIdentity(chain[Len(chain)].state) = request[c].expected
    BY DEF IInv, LockDiscipline, Disciplined, HoldsCurrent, CheckedBefore,
           RequireCurrent, Current
  <2> QED
    BY <2>1, <2>2, <2>3 DEF Progressive
<1> QED
  BY <1>1, Invariance, LineageHolds, ProgressHolds, PTL

-----------------------------------------------------------------------------
(* The receipts *)

\* A receipt appears when its own call ends.
LEMMA AnswerSteps ==
  ASSUME IInv, [Next]_vars, NEW d \in Clients, receipt'[d] # None
  PROVE  \/ receipt'[d] = receipt[d] /\ touched'[d] = touched[d]
         \/ AnswerStale(d)
         \/ Settle(d)
<1> DEFINE Appears ==
      \/ receipt'[d] = receipt[d] /\ touched'[d] = touched[d]
      \/ AnswerStale(d)
      \/ Settle(d)
<1> USE DEF backendVars, localVars, answerVars, boundVars
<1>0. TypeOK
  BY DEF IInv
<1>1. ASSUME NEW c \in Clients,
             \/ MakeRequest(c) \/ Call(c) \/ BeginRefused(c) \/ Begin(c)
             \/ Refuse(c) \/ Derive(c) \/ DigestFails(c)
      PROVE  Appears
  BY <1>0, <1>1 DEF MakeRequest, Call, BeginRefused, Begin, Refuse, Derive,
                    DigestFails, Raise, TypeOK
<1>2. ASSUME NEW c \in Clients, AnswerStale(c) \/ Settle(c)
      PROVE  Appears
  BY <1>0, <1>2 DEF AnswerStale, Settle, Return, Raise, TypeOK
<1>3. ASSUME NEW c \in Clients, Publish(c) \/ PublishThrows(c) PROVE Appears
  <2>1. c # d
    BY <1>3 DEF Publish, PublishThrows, IInv, LockDiscipline, Disciplined, InFlight
  <2> QED
    BY <1>0, <1>3, <2>1 DEF Publish, PublishThrows, TypeOK
<1>4. ASSUME NEW c \in Clients, CrashClient(c) PROVE Appears
  <2>1. c # d
    BY <1>4 DEF CrashClient, IInv, LockDiscipline, Disciplined, InFlight
  <2> QED
    BY <1>0, <1>4, <2>1 DEF CrashClient, TypeOK
<1>5. ASSUME Sync \/ PowerFailure PROVE Appears
  BY <1>5 DEF Sync, PowerFailure
<1>6. ASSUME UNCHANGED vars PROVE Appears
  BY <1>6 DEF vars
<1>7. Appears
  <2> HIDE DEF Appears
  <2> QED
    BY <1>1, <1>2, <1>3, <1>4, <1>5, <1>6 DEF Next
<1> QED
  BY <1>7 DEF Appears

\* What a settled receipt says of the store at the moment it is returned.
LEMMA SettledReceipt ==
  ASSUME IInv, NEW d \in Clients, Settle(d)
  PROVE  /\ receipt'[d] = ReceiptOf(request[d], prior[d], proposal[d], format[d], report[d])
         /\ touched'[d] = touched[d] /\ chain' = chain /\ durable' = durable
         /\ BackendResultAdmitted(report[d])
         /\ MayBeVisible(report[d], touched[d] # 0)
         /\ touched[d] # 0 =>
              /\ Len(chain) > 1
              /\ chain[Len(chain)] = [state |-> proposal[d], by |-> request[d]]
              /\ chain[Len(chain) - 1].state = prior[d]
         /\ report[d].outcome = "published" => durable = Len(chain)
<1>1. ReportIsTrue(d) /\ pc[d] = "reported"
  BY DEF IInv, LockDiscipline, Disciplined, Settle
<1>2. /\ receipt'[d] = ReceiptOf(request[d], prior[d], proposal[d], format[d], report[d])
      /\ touched' = touched
  BY SettleReturns DEF Return, IInv, TypeOK
<1> QED
  BY <1>1, <1>2 DEF ReportIsTrue, Settle, backendVars

\* ConfirmedIsPermanent: the generation that a confirmed receipt describes is in
\* the prefix that no power failure takes back, whatever happens afterwards.
THEOREM ConfirmedHolds == Spec => []ConfirmedIsPermanent
<1> DEFINE Permanent(rc, i) ==
      /\ RequestIdentity(chain[i].by) = rc.request
      /\ SnapshotIdentity(chain[i].state) = rc.resulting
      /\ SnapshotIdentity(chain[i - 1].state) = rc.actualPrior
<1>1. Init => ConfirmedIsPermanent
  BY DEF Init, ConfirmedIsPermanent, Nobody
<1>2. IInv /\ ConfirmedIsPermanent /\ [Next]_vars => ConfirmedIsPermanent'
  <2> SUFFICES ASSUME IInv, ConfirmedIsPermanent, [Next]_vars, NEW d \in Clients,
                      receipt'[d] # None, receipt'[d].durability = "confirmed"
               PROVE  \E i \in 2..durable' : Permanent(receipt[d], i)'
    BY DEF ConfirmedIsPermanent
  <2>0. durable \in Nat /\ Len(chain) \in Nat
    BY CurrentType DEF IInv, TypeOK
  <2>1. CASE receipt'[d] = receipt[d]
    <3>1. PICK i \in 2..durable : Permanent(receipt[d], i)
      BY <2>1 DEF ConfirmedIsPermanent
    <3>2. i \in 2..durable' /\ chain'[i] = chain[i] /\ chain'[i - 1] = chain[i - 1]
      BY <2>0, ChainKeeps
    <3> QED
      BY <2>1, <3>1, <3>2
  <2>2. CASE AnswerStale(d)
    <3>1. receipt'[d] = StaleReceipt(request[d], prior[d], format[d])
      BY <2>2 DEF AnswerStale, Return, IInv, TypeOK
    <3> QED
      BY <3>1 DEF StaleReceipt, ReceiptMake, DurabilityOf
  <2>3. CASE Settle(d)
    <3> DEFINE rc == ReceiptOf(request[d], prior[d], proposal[d], format[d], report[d])
    <3>1. receipt'[d] = rc /\ chain' = chain /\ durable' = durable
      BY <2>3, SettledReceipt
    <3>2. report[d].outcome = "published"
      BY <3>1 DEF ReceiptOf, ReceiptMake, DurabilityOf
    <3>3. report[d].established /\ touched[d] # 0 /\ durable = Len(chain)
      BY <2>3, <3>2, SettledReceipt DEF BackendResultAdmitted, MayBeVisible, Attempted
    <3>4. /\ Len(chain) \in 2..durable'
          /\ chain[Len(chain)] = [state |-> proposal[d], by |-> request[d]]
          /\ chain[Len(chain) - 1].state = prior[d]
      BY <2>0, <2>3, <3>1, <3>3, SettledReceipt
    <3>5. /\ rc.request = RequestIdentity(request[d])
          /\ rc.resulting = SnapshotIdentity(proposal[d])
          /\ rc.actualPrior = SnapshotIdentity(prior[d])
      BY <3>3 DEF ReceiptOf, ReceiptMake
    <3> QED
      BY <3>1, <3>4, <3>5
  <2> QED
    BY <2>1, <2>2, <2>3, AnswerSteps
<1> QED
  BY <1>1, <1>2, Invariance, PTL DEF Spec

\* CitationIsTrue: a receipt cites the resulting snapshot exactly when its call
\* established it, but for an indeterminate attempt that happened unseen.
THEOREM CitationHolds == Spec => []CitationIsTrue
<1>1. Init => CitationIsTrue
  BY DEF Init, CitationIsTrue, Nobody
<1>2. IInv /\ CitationIsTrue /\ [Next]_vars => CitationIsTrue'
  <2> SUFFICES ASSUME IInv, CitationIsTrue, [Next]_vars, NEW d \in Clients,
                      receipt'[d] # None
               PROVE  /\ receipt'[d].resulting # None => touched'[d] # 0
                      /\ receipt'[d].resulting = None =>
                           touched'[d] = 0 \/ receipt'[d].outcome = "indeterminate"
    BY DEF CitationIsTrue
  <2>1. CASE receipt'[d] = receipt[d] /\ touched'[d] = touched[d]
    BY <2>1 DEF CitationIsTrue
  <2>2. CASE AnswerStale(d)
    <3>1. /\ receipt'[d] = StaleReceipt(request[d], prior[d], format[d])
          /\ touched'[d] = touched[d]
      BY <2>2 DEF AnswerStale, Return, IInv, TypeOK
    <3>2. touched[d] = 0
      BY <2>2 DEF AnswerStale, IInv, LockDiscipline, Disciplined, HoldsCurrent
    <3> QED
      BY <3>1, <3>2 DEF StaleReceipt, ReceiptMake
  <2>3. CASE Settle(d)
    <3> DEFINE rc == ReceiptOf(request[d], prior[d], proposal[d], format[d], report[d])
    <3>1. receipt'[d] = rc /\ touched'[d] = touched[d]
      BY <2>3, SettledReceipt
    <3>2. /\ rc.outcome = report[d].outcome
          /\ rc.resulting = IF report[d].established
                            THEN SnapshotIdentity(proposal[d]) ELSE None
      BY DEF ReceiptOf, ReceiptMake
    <3>3. /\ report[d].established => touched[d] # 0
          /\ touched[d] # 0 => report[d].outcome \in Attempted
          /\ report[d].outcome # "indeterminate" =>
               report[d].established = (report[d].outcome \in Attempted)
      BY <2>3, SettledReceipt DEF MayBeVisible, BackendResultAdmitted
    <3>4. report[d].established => rc.resulting # None
      <4>1. /\ request[d] \in Requests /\ prior[d] \in Snapshots
            /\ ProjectAdmitted(request[d], prior[d])
            /\ proposal[d] = Project(request[d], prior[d])
        BY <2>3 DEF Settle, IInv, TypeOK, OrNone, LockDiscipline, Disciplined,
                    InFlight, HoldsCurrent, CheckedBefore, InsideLock
      <4>2. SnapshotIdentity(proposal[d]) \in SnapshotIdentities
        BY <4>1, ProjectType DEF Snapshots, SnapshotRecord, SnapshotIdentities
      <4> QED
        BY <3>2, <4>2, AbsenceAssumption
    <3> QED
      BY <3>1, <3>2, <3>3, <3>4
  <2> QED
    BY <2>1, <2>2, <2>3, AnswerSteps
<1> QED
  BY <1>1, <1>2, Invariance, PTL DEF Spec

-----------------------------------------------------------------------------
(* The register *)

\* The register speaks of the same identities and the same promise.
LEMMA SameIdentity ==
  ASSUME NEW s
  PROVE  Register!SnapshotIdentity(s) = SnapshotIdentity(s)
BY DEF SnapshotIdentity, OwnershipIdentity, OwnersOf, OwnedPaths,
       PackageIdentity, ReceiptIdentity, ControlIdentity,
       Register!SnapshotIdentity, Register!OwnershipIdentity, Register!OwnersOf,
       Register!OwnedPaths, Register!PackageIdentity, Register!ReceiptIdentity,
       Register!ControlIdentity

\* A request has the same identity in the store and in the register.
LEMMA SameRequestIdentity ==
  ASSUME NEW r
  PROVE  Register!RequestIdentity(r) = RequestIdentity(r)
BY DEF RequestIdentity, DeltaFields, PackageIdentity, ReceiptIdentity, ControlIdentity,
       Register!RequestIdentity, Register!DeltaFields, Register!PackageIdentity,
       Register!ReceiptIdentity, Register!ControlIdentity

\* A request promises the same in the store and in the register.
LEMMA SamePromise ==
  ASSUME NEW r, NEW s, NEW t
  PROVE  Register!Accomplishes(r, s, t) = Accomplishes(r, s, t)
BY SameIdentity DEF Accomplishes, FindPackage, Register!Accomplishes, Register!FindPackage

\* A receipt is true of the register when it is handed out.
LEMMA SettledIsTrue ==
  ASSUME IInv, NEW d \in Clients, Settle(d)
  PROVE  Register!True(receipt'[d])
<1> DEFINE rc == ReceiptOf(request[d], prior[d], proposal[d], format[d], report[d])
<1>1. receipt'[d] = rc
  BY SettledReceipt
<1>2. /\ rc.request = RequestIdentity(request[d])
      /\ rc.expected = request[d].expected
      /\ rc.actualPrior = SnapshotIdentity(prior[d])
      /\ rc.outcome = report[d].outcome
      /\ rc.durability = DurabilityOf(report[d].outcome)
      /\ rc.resulting = IF report[d].established
                        THEN SnapshotIdentity(proposal[d]) ELSE None
  BY DEF ReceiptOf, ReceiptMake
<1>3. /\ CheckedBefore(d) /\ ReportIsTrue(d) /\ pc[d] = "reported"
      /\ report[d] \in BackendResultRecord
  BY DEF IInv, LockDiscipline, Disciplined, Settle, TypeOK, OrNone, ReportIsTrue
<1>4. rc.expected = rc.actualPrior
  BY <1>2, <1>3 DEF CheckedBefore, RequireCurrent
<1>5. ASSUME touched[d] # 0 PROVE Register!Describes(rc)
  BY <1>2, <1>3, <1>4, <1>5, SameIdentity, SameRequestIdentity
  DEF ReportIsTrue, Register!Describes, Register!Latest, Register!Now
<1>6. ASSUME touched[d] = 0 PROVE Register!Untouched(rc) /\ ~report[d].established
  BY <1>2, <1>3, <1>6, SameIdentity
  DEF ReportIsTrue, MayBeVisible, Register!Untouched, Register!Latest, Register!Now, Current
<1>7. CASE report[d].outcome = "published"
  <2>1. report[d].established /\ touched[d] # 0 /\ durable = Len(chain)
    BY <1>3, <1>7 DEF ReportIsTrue, MayBeVisible, BackendResultAdmitted, Attempted
  <2>2. rc.resulting = Register!Now
    BY <1>2, <1>3, <2>1, SameIdentity DEF ReportIsTrue, Register!Latest, Register!Now
  <2> QED
    BY <1>1, <1>2, <1>5, <1>7, <2>1, <2>2 DEF Register!True
<1>8. CASE report[d].outcome = "published_durability_unconfirmed"
  <2>1. report[d].established /\ touched[d] # 0
    BY <1>3, <1>8 DEF ReportIsTrue, MayBeVisible, BackendResultAdmitted, Attempted
  <2>2. rc.resulting = Register!Now /\ rc.durability = "unconfirmed"
    BY <1>2, <1>3, <1>8, <2>1, SameIdentity
    DEF ReportIsTrue, DurabilityOf, Register!Latest, Register!Now
  <2> QED
    BY <1>1, <1>2, <1>5, <1>8, <2>1, <2>2 DEF Register!True
<1>9. CASE report[d].outcome = "indeterminate"
  BY <1>1, <1>2, <1>5, <1>6, <1>9 DEF Register!True
<1>10. CASE report[d].outcome \notin Attempted
  <2>1. /\ touched[d] = 0
        /\ report[d].outcome # "stale_expected_state"
    BY <1>3, <1>10
    DEF ReportIsTrue, MayBeVisible, BackendResultRecord, BackendOutcomes
  <2>2. Register!Untouched(rc) /\ rc.expected = Register!Now
    BY <1>4, <1>6, <2>1 DEF Register!Untouched
  <2> QED
    BY <1>1, <1>2, <1>10, <2>1, <2>2 DEF Register!True, Attempted
<1> QED
  BY <1>7, <1>8, <1>9, <1>10 DEF Attempted

\* ImplementsRegister: seen from outside, the locked sequence, its crashes and
\* its power failures are atomic steps of the register.
THEOREM StoreRefinesRegister == Spec => ImplementsRegister
<1>1. Init => Register!Init
  BY DEF Init, Nobody, Register!Init
<1>2. IInv /\ Lineage' /\ [Next]_vars => [Register!Next]_(Register!vars)
  <2> SUFFICES ASSUME IInv, Lineage', [Next]_vars
               PROVE  Register!Next \/ UNCHANGED <<chain, durable, receipt>>
    BY DEF Register!vars
  <2> DEFINE Maps == Register!Next \/ UNCHANGED <<chain, durable, receipt>>
  <2> USE DEF backendVars, localVars, answerVars, boundVars
  <2>0. /\ TypeOK /\ durable \in Nat /\ Len(chain) \in Nat \ {0}
        /\ durable <= Len(chain)
    BY CurrentType DEF IInv, TypeOK
  <2>1. ASSUME NEW c \in Clients,
               \/ MakeRequest(c) \/ BeginRefused(c) \/ Begin(c)
               \/ Refuse(c) \/ Derive(c) \/ DigestFails(c) \/ CrashClient(c)
        PROVE  UNCHANGED <<chain, durable, receipt>>
    BY <2>1 DEF MakeRequest, BeginRefused, Begin, Refuse, Derive, DigestFails,
                CrashClient, Raise
  <2>2. ASSUME NEW c \in Clients, Call(c) PROVE Register!Answer
    BY <2>0, <2>2 DEF Call, TypeOK, Register!Answer
  <2>3. ASSUME NEW c \in Clients, AnswerStale(c) PROVE Register!Answer
    <3> DEFINE rc == StaleReceipt(request[c], prior[c], format[c])
    <3>1. /\ receipt' = [receipt EXCEPT ![c] = rc] /\ receipt'[c] = rc
          /\ UNCHANGED <<chain, durable>>
      BY <2>0, <2>3 DEF AnswerStale, Return, TypeOK
    <3>2. prior[c] = Current
      BY <2>3 DEF AnswerStale, IInv, LockDiscipline, Disciplined, HoldsCurrent
    <3>3. SnapshotIdentity(prior[c]) # request[c].expected
      BY <2>3 DEF AnswerStale
    <3>4. Register!True(rc)
      BY <3>2, <3>3, SameIdentity
      DEF StaleReceipt, ReceiptMake, Current,
          Register!True, Register!Untouched, Register!Latest, Register!Now
    <3> QED
      BY <3>1, <3>4 DEF Register!Answer
  <2>4. ASSUME NEW c \in Clients, Settle(c) PROVE Register!Answer
    <3>1. /\ receipt' = [receipt EXCEPT ![c] = receipt'[c]]
          /\ UNCHANGED <<chain, durable>>
      BY <2>0, <2>4, SettleReturns DEF Return, Settle, TypeOK
    <3> QED
      BY <2>4, <3>1, SettledIsTrue DEF Register!Answer
  <2>5. ASSUME NEW c \in Clients, Publish(c) PROVE Maps
    <3>1. PICK b \in BackendReports, visible \in BOOLEAN :
            /\ MayBeVisible(b, visible)
            /\ chain' = IF visible
                        THEN Append(chain, [state |-> proposal[c], by |-> request[c]])
                        ELSE chain
            /\ durable' = IF b.outcome = "published" THEN Len(chain') ELSE durable
      BY <2>5 DEF Publish
    <3>2. receipt' = receipt
      BY <2>5 DEF Publish
    <3>3. ASSUME visible PROVE Register!Extend
      <4> DEFINE new == chain'[Len(chain')]
      <4>1. /\ chain' = Append(chain, new) /\ Len(chain') = Len(chain) + 1
            /\ chain'[Len(chain') - 1] = chain[Len(chain)]
        BY <2>0, <3>1, <3>3 DEF TypeOK
      <4>2. Accomplishes(new.by, chain[Len(chain)].state, new.state)
        BY <2>0, <4>1 DEF Lineage
      <4>3. durable' \in {durable, Len(chain')}
        BY <3>1
      <4> QED
        BY <3>2, <4>1, <4>2, <4>3, SamePromise DEF Register!Extend, Register!Latest
    <3>4. ASSUME ~visible PROVE UNCHANGED <<chain, durable, receipt>>
      <4>1. b.outcome # "published"
        BY <3>1, <3>4 DEF MayBeVisible, BackendReports, BackendResultAdmitted, Attempted
      <4> QED
        BY <3>1, <3>2, <3>4, <4>1
    <3> QED
      BY <3>3, <3>4 DEF Register!Next
  <2>6. ASSUME Sync PROVE Register!Persist
    BY <2>0, <2>6 DEF Sync, Register!Persist
  <2>7. ASSUME PowerFailure PROVE Register!Lose
    BY <2>7 DEF PowerFailure, Register!Lose
  <2>8. UNCHANGED vars => UNCHANGED <<chain, durable, receipt>>
    BY DEF vars
  <2>9. ASSUME NEW c \in Clients, PublishThrows(c) PROVE Maps
    <3> DEFINE new == chain'[Len(chain')]
    <3>1. /\ \/ chain' = chain
             \/ chain' = Append(chain, [state |-> proposal[c], by |-> request[c]])
          /\ durable' = durable /\ receipt' = receipt
      BY <2>9 DEF PublishThrows
    <3>2. ASSUME chain' # chain PROVE Register!Extend
      <4>0. chain' = Append(chain, [state |-> proposal[c], by |-> request[c]])
        BY <3>1, <3>2
      <4>1. /\ chain' = Append(chain, new) /\ Len(chain') = Len(chain) + 1
            /\ chain'[Len(chain') - 1] = chain[Len(chain)]
        BY <2>0, <4>0 DEF TypeOK
      <4>2. Accomplishes(new.by, chain[Len(chain)].state, new.state)
        BY <2>0, <4>1 DEF Lineage
      <4> QED
        BY <3>1, <4>1, <4>2, SamePromise DEF Register!Extend, Register!Latest
    <3> QED
      BY <3>1, <3>2 DEF Register!Next
  <2> QED
    BY <2>1, <2>2, <2>3, <2>4, <2>5, <2>6, <2>7, <2>8, <2>9 DEF Next, Register!Next
<1> QED
  BY <1>1, <1>2, Invariance, LineageHolds, PTL
  DEF Spec, ImplementsRegister, Register!Spec

===============================================================================
