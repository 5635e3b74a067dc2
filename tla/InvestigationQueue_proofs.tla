---------------------- MODULE InvestigationQueue_proofs ----------------------
(***************************************************************************)
(* Proofs about the job queue: the types and the row locks; what follows   *)
(* from them for settled jobs, for the budget of provider calls and for a  *)
(* locked case; that stages end once and in order; and that the rows of    *)
(* attempts and requests tell the history of their job.                    *)
(***************************************************************************)
EXTENDS InvestigationQueue, TLAPS

(***************************************************************************)
(* What the locks of the claim and of the persistence of a result protect. *)
(***************************************************************************)

\* No job row is locked by two sessions.
LocksExclusive ==
  \A v, w \in Worker, j \in Job : HoldsJob(v, j) /\ HoldsJob(w, j) => v = w

\* What a session read of the rows it has locked still holds.
LockedRows ==
  \A w \in Worker :
    /\ pc[w] \in PersistPc => jstat[cur[w]] = "RUNNING"
    /\ pc[w] = "grant" => /\ jstat[cur[w]] \in {"PENDING", "RUNNING"}
                          /\ att[w] = attempts[cur[w]] + 1
    /\ pc[w] \in ClaimPc => \A j \in swept[w] : jstat[j] = "RUNNING"

LockInv == TypeOK /\ LocksExclusive /\ LockedRows

\* A job is a stage and a key; the initial job of a session is one.
LEMMA JobParts ==
  /\ \A j \in Job : j[1] \in Stage /\ j[2] \in Key
  /\ 1 \in Stage /\ <<1, CaseKey>> \in Job
  BY QueueAssumption DEF Job, Stage

\* What Event builds is a row of the log.
LEMMA EventType ==
  \A kind \in EventKind, s \in Stage, k \in Key :
    Event(kind, s, k) \in EventRow
  BY DEF Event, EventRow

\* Appending to a sequence keeps its type.
LEMMA AppendType ==
  ASSUME NEW S, NEW s \in Seq(S), NEW e \in S
  PROVE  Append(s, e) \in Seq(S)
  OBVIOUS

\* Writing one field of one row of a two-level table.
LEMMA CellType ==
  ASSUME NEW A, NEW B, NEW C, NEW f \in [A -> [B -> C]], NEW a, NEW b, NEW c \in C
  PROVE  [f EXCEPT ![a][b] = c] \in [A -> [B -> C]]
  OBVIOUS

\* A session that leaves is well typed again.
LEMMA LeaveTypes ==
  ASSUME SessionTypes, NEW w \in Worker, Leave(w)
  PROVE  SessionTypes'
  BY QueueAssumption, JobParts DEF SessionTypes, Leave, Pc

\* The writes of a claim keep the types, if what it grants has an attempt left.
LEMMA ClaimWritesTypes ==
  ASSUME JobTypes, RequestTypes, WorkerIdIffRunning, UNCHANGED calls,
         NEW w \in Worker, NEW X \in SUBSET Job, NEW G \in SUBSET Job,
         \A j \in G : attempts[j] < MaxAttempts,
         ClaimWrites(w, X, G)
  PROVE  JobTypes' /\ RequestTypes' /\ WorkerIdIffRunning'
  <1>1. jstat' \in [Job -> {"ABSENT", "PENDING", "RUNNING", "SUCCEEDED", "FAILED"}]
    BY DEF JobTypes, ClaimWrites
  <1>2. attempts' \in [Job -> 0..MaxAttempts]
    BY QueueAssumption DEF JobTypes, ClaimWrites
  <1>3. owner' \in [Job -> Worker \cup {NoWorker}] /\ lease' \in [Job -> BOOLEAN]
    BY DEF JobTypes, ClaimWrites
  <1>4. outcome' \in [Job -> [Attempt -> {"NONE", "RUNNING", "SUCCEEDED", "FAILED", "LEASE_EXPIRED"}]]
    BY DEF JobTypes, ClaimWrites, CloseAttempts
  <1>5. span' \in [Job -> [Attempt -> {"NONE", "RUNNING", "SUCCEEDED", "FAILED"}]]
    BY DEF JobTypes, ClaimWrites, CloseSpans
  <1>6. RequestTypes'
    BY DEF RequestTypes, ClaimWrites, CloseRequests
  <1>7. WorkerIdIffRunning'
    BY QueueAssumption DEF WorkerIdIffRunning, ClaimWrites, JobTypes
  <1> QED BY <1>1, <1>2, <1>3, <1>4, <1>5, <1>6, <1>7 DEF JobTypes

\* The part every commit shares keeps the types.
LEMMA CommitTypes ==
  ASSUME TypeOK, NEW w \in Worker, Commit(w)
  PROVE  /\ owner' = [owner EXCEPT ![cur[w]] = NoWorker]
         /\ attempts' \in [Job -> 0..MaxAttempts]
         /\ owner' \in [Job -> Worker \cup {NoWorker}] /\ lease' \in [Job -> BOOLEAN]
         /\ outcome' \in [Job -> [Attempt -> {"NONE", "RUNNING", "SUCCEEDED", "FAILED", "LEASE_EXPIRED"}]]
         /\ span' \in [Job -> [Attempt -> {"NONE", "RUNNING", "SUCCEEDED", "FAILED"}]]
         /\ RequestTypes' /\ SessionTypes'
         /\ caseState' = caseState
  BY LeaveTypes DEF TypeOK, Commit, JobTypes, RequestTypes, SessionTypes

-----------------------------------------------------------------------------
(* The actions that write no row of the investigation: a worker only moves. *)

Quiet(w) ==
  \/ ClaimRead(w) \/ ClaimRefused(w) \/ ClaimDooms(w) \/ ClaimPicks(w)
  \/ Deterministic(w) \/ StageFails(w) \/ AuditFails(w) \/ CallModel(w)
  \/ FenceJob(w) \/ FenceInvestigation(w) \/ Rejected(w) \/ LockInvestigation(w)
  \/ Complete(w) \/ LeaseLost(w) \/ Crash(w)

Writing(w) ==
  \/ ClaimNothing(w) \/ Doom(w) \/ Grant(w) \/ StartSpan(w) \/ Reserve(w)
  \/ \E verdict \in {"SUCCEEDED", "REJECTED"} : FinishRequest(w, verdict)
  \/ CommitOne(w) \/ CommitStage(w) \/ CommitInvestigation(w)
  \/ FinishSpan(w) \/ FailJob(w)

\* Every step of a session is quiet or writes.
LEMMA StepCases ==
  ASSUME NEW w \in Worker, Step(w) \/ Trouble(w)
  PROVE  Quiet(w) \/ Writing(w)
  BY DEF Step, Trouble, Claim, Work, Transact, Quiet, Writing

\* Quiet steps write no row.
LEMMA QuietWrites ==
  ASSUME NEW w \in Worker, Quiet(w)
  PROVE  UNCHANGED <<caseState, dbVars>>
  BY DEF Quiet, ClaimRead, ClaimRefused, ClaimDooms, ClaimPicks, Deterministic,
     StageFails, AuditFails, CallModel, FenceJob, FenceInvestigation, Rejected,
     LockInvestigation, Complete, LeaseLost, Crash

\* A step of w leaves what the other sessions know alone.
OthersStay(w) ==
  \A v \in Worker \ {w} :
    /\ pc'[v] = pc[v] /\ cur'[v] = cur[v] /\ att'[v] = att[v]
    /\ ordinal'[v] = ordinal[v] /\ swept'[v] = swept[v]

\* Leaving concerns the leaving session only.
LEMMA LeaveOthers ==
  ASSUME SessionTypes, NEW w \in Worker, Leave(w)
  PROVE  OthersStay(w) /\ pc'[w] = "idle"
  BY DEF SessionTypes, Leave, OthersStay

\* Quiet steps keep the types of the sessions and concern one of them.
LEMMA QuietOthers ==
  ASSUME TypeOK, NEW w \in Worker, Quiet(w)
  PROVE  SessionTypes' /\ OthersStay(w)
  <1> USE DEF TypeOK, SessionTypes, OthersStay, Goto, localVars, Pc, Attempt, Request
  <1>1. CASE ClaimRead(w)
    BY <1>1 DEF ClaimRead, InvestigationTypes
  <1>2. CASE ClaimRefused(w) \/ LeaseLost(w) \/ Crash(w)
    BY <1>2, LeaveTypes, LeaveOthers DEF ClaimRefused, LeaseLost, Crash
  <1>3. CASE ClaimDooms(w)
    BY <1>3 DEF ClaimDooms, Expired
  <1>4. CASE ClaimPicks(w)
    <2>1. \A j \in Claimable(w, Expired) : j \in Job /\ attempts[j] + 1 \in 0..MaxAttempts
      BY QueueAssumption DEF Claimable, JobsOf, Job, JobTypes
    <2> QED BY <1>4, <2>1 DEF ClaimPicks, Expired
  <1>5. CASE Deterministic(w) \/ StageFails(w) \/ AuditFails(w) \/ CallModel(w) \/ Rejected(w)
    BY <1>5 DEF Deterministic, StageFails, AuditFails, CallModel, Rejected
  <1>6. CASE FenceJob(w) \/ FenceInvestigation(w) \/ LockInvestigation(w) \/ Complete(w)
    BY <1>6 DEF FenceJob, FenceInvestigation, LockInvestigation, Complete
  <1> QED BY <1>1, <1>2, <1>3, <1>4, <1>5, <1>6 DEF Quiet

-----------------------------------------------------------------------------
(* The actions that write.                                                  *)

\* A claim that only sweeps keeps the types.
LEMMA ClaimNothingTypes ==
  ASSUME TypeOK, NEW w \in Worker, ClaimNothing(w)
  PROVE  TypeOK' /\ OthersStay(w)
  <1>1. Expired \in SUBSET Job
    BY DEF Expired
  <1> QED
    BY <1>1, ClaimWritesTypes, LeaveTypes, LeaveOthers
       DEF TypeOK, ClaimNothing, InvestigationTypes, invVars

\* A claim that fails the investigation keeps the types.
LEMMA DoomTypes ==
  ASSUME TypeOK, NEW w \in Worker, Doom(w)
  PROVE  TypeOK' /\ OthersStay(w)
  <1>1. swept[w] \in SUBSET Job
    BY DEF TypeOK, SessionTypes
  <1>2. JobTypes' /\ RequestTypes' /\ WorkerIdIffRunning'
    BY <1>1, ClaimWritesTypes DEF TypeOK, Doom
  <1>3. InvestigationTypes'
    BY DEF TypeOK, Doom, InvestigationTypes
  <1> QED BY <1>2, <1>3, LeaveTypes, LeaveOthers DEF TypeOK, Doom

\* A grant keeps the types: the job it locked still has an attempt left.
LEMMA GrantTypes ==
  ASSUME TypeOK, LockedRows, NEW w \in Worker, Grant(w)
  PROVE  TypeOK' /\ OthersStay(w)
  <1>1. swept[w] \in SUBSET Job /\ {cur[w]} \in SUBSET Job
    BY DEF TypeOK, SessionTypes
  <1>2. attempts[cur[w]] < MaxAttempts
    BY QueueAssumption DEF TypeOK, SessionTypes, JobTypes, LockedRows, Grant
  <1>3. JobTypes' /\ RequestTypes' /\ WorkerIdIffRunning'
    BY <1>1, <1>2, ClaimWritesTypes DEF TypeOK, Grant
  <1>4. InvestigationTypes'
    <2>1. Event("TRANSITION", 1, CaseKey) \in EventRow
      BY QueueAssumption, JobParts, EventType DEF EventKind
    <2> QED BY <2>1, AppendType DEF TypeOK, Grant, InvestigationTypes
  <1>5. SessionTypes' /\ OthersStay(w)
    BY DEF TypeOK, Grant, SessionTypes, Goto, Pc, OthersStay
  <1> QED BY <1>3, <1>4, <1>5 DEF TypeOK

\* The span and request functions keep the types.
LEMMA RequestStepTypes ==
  ASSUME TypeOK, NEW w \in Worker,
         \/ StartSpan(w) \/ Reserve(w) \/ FinishSpan(w)
         \/ \E verdict \in {"SUCCEEDED", "REJECTED"} : FinishRequest(w, verdict)
  PROVE  TypeOK' /\ OthersStay(w)
  <1>1. cur[w] \in Job
    BY DEF TypeOK, SessionTypes
  <1>2. UNCHANGED <<caseState, status, stage, log, jstat, attempts, owner, lease, outcome>>
    BY DEF StartSpan, Reserve, FinishSpan, FinishRequest, invVars
  <1>3. InvestigationTypes' /\ WorkerIdIffRunning'
    BY <1>2 DEF TypeOK, InvestigationTypes, WorkerIdIffRunning
  <1>4. JobTypes'
    <2>1. span' \in [Job -> [Attempt -> {"NONE", "RUNNING", "SUCCEEDED", "FAILED"}]]
      <3>1. CASE StartSpan(w)
        BY <3>1, CellType DEF TypeOK, JobTypes, StartSpan
      <3>2. CASE FinishSpan(w)
        BY <3>2, CellType DEF TypeOK, JobTypes, FinishSpan
      <3>3. CASE span' = span
        BY <3>3 DEF TypeOK, JobTypes
      <3> QED BY <3>1, <3>2, <3>3 DEF Reserve, FinishRequest
    <2> QED BY <1>2, <2>1 DEF TypeOK, JobTypes
  <1>5. RequestTypes'
    <2>1. CASE Reserve(w)
      <3>1. requests' \in [Job -> 0..MaxRequests] /\ calls' = calls
        BY <1>1, <2>1, QueueAssumption DEF TypeOK, RequestTypes, Reserve
      <3> QED BY <2>1, <3>1, CellType DEF TypeOK, RequestTypes, Reserve
    <2>2. CASE \E verdict \in {"SUCCEEDED", "REJECTED"} : FinishRequest(w, verdict)
      <3>1. PICK verdict \in {"SUCCEEDED", "REJECTED"} : FinishRequest(w, verdict)
        BY <2>2
      <3>2. /\ request' = [request EXCEPT ![cur[w]][ordinal[w]] = verdict]
            /\ UNCHANGED <<requests, calls>>
        BY <3>1 DEF FinishRequest
      <3> QED BY <3>2, CellType DEF TypeOK, RequestTypes
    <2>3. CASE StartSpan(w) \/ FinishSpan(w)
      <3>1. UNCHANGED <<requests, request, calls>>
        BY <2>3 DEF StartSpan, FinishSpan
      <3> QED BY <3>1 DEF TypeOK, RequestTypes
    <2> QED BY <2>1, <2>2, <2>3
  <1>6. SessionTypes' /\ OthersStay(w)
    <2> USE DEF TypeOK, SessionTypes, OthersStay, Goto, localVars, Pc
    <2>1. CASE StartSpan(w)
      BY <1>1, <2>1, QueueAssumption DEF StartSpan, RequestTypes
    <2>2. CASE Reserve(w)
      BY <1>1, <2>2, QueueAssumption DEF Reserve, NextOrdinal, RequestTypes
    <2>3. CASE FinishSpan(w)
      BY <2>3 DEF FinishSpan
    <2>4. CASE \E verdict \in {"SUCCEEDED", "REJECTED"} : FinishRequest(w, verdict)
      BY <2>4 DEF FinishRequest
    <2> QED BY <2>1, <2>2, <2>3, <2>4
  <1> QED BY <1>3, <1>4, <1>5, <1>6 DEF TypeOK

\* fail_stage_job keeps the types.
LEMMA FailJobTypes ==
  ASSUME TypeOK, NEW w \in Worker, FailJob(w)
  PROVE  TypeOK' /\ OthersStay(w)
  <1>1. cur[w] \in Job
    BY DEF TypeOK, SessionTypes
  <1>2. InvestigationTypes' /\ JobTypes' /\ RequestTypes' /\ WorkerIdIffRunning'
    BY <1>1, QueueAssumption
       DEF TypeOK, FailJob, InvestigationTypes, JobTypes, RequestTypes, WorkerIdIffRunning
  <1> QED BY <1>2, LeaveTypes, LeaveOthers DEF TypeOK, FailJob

\* The three ways to commit keep the types.
LEMMA CommitStepTypes ==
  ASSUME TypeOK, NEW w \in Worker, CommitOne(w) \/ CommitStage(w) \/ CommitInvestigation(w)
  PROVE  TypeOK' /\ OthersStay(w)
  <1>1. Commit(w)
    BY DEF CommitOne, CommitStage, CommitInvestigation
  <1>2. SessionTypes' /\ OthersStay(w)
    BY <1>1, LeaveTypes, LeaveOthers DEF TypeOK, Commit
  <1>3. cur[w] \in Job
    BY DEF TypeOK, SessionTypes
  <1>4. Result(w) \in EventRow
    BY <1>3, JobParts, EventType DEF Result, EventKind
  <1>5. InvestigationTypes'
    <2>1. CASE CommitOne(w)
      BY <2>1, <1>1, <1>4, AppendType DEF TypeOK, InvestigationTypes, CommitOne, Commit
    <2>3. CASE CommitInvestigation(w)
      BY <2>3, <1>1, <1>4, AppendType DEF TypeOK, InvestigationTypes, CommitInvestigation, Commit
    <2>2. CASE CommitStage(w)
      <3>1. Event("TRANSITION", cur[w][1] + 1, CaseKey) \in EventRow
        BY <2>2, QueueAssumption, EventType DEF CommitStage, EventKind
      <3> QED BY <2>2, <3>1, <1>1, <1>4, AppendType DEF TypeOK, InvestigationTypes, CommitStage, Commit
    <2> QED BY <2>1, <2>2, <2>3
  <1>6. JobTypes' /\ RequestTypes' /\ WorkerIdIffRunning'
    <2>1. CASE CommitOne(w) \/ CommitInvestigation(w)
      <3>1. jstat' = [jstat EXCEPT ![cur[w]] = "SUCCEEDED"]
        BY <2>1 DEF CommitOne, CommitInvestigation
      <3> QED BY <3>1, <1>1, <1>3, CommitTypes, QueueAssumption
         DEF TypeOK, JobTypes, WorkerIdIffRunning
    <2>2. CASE CommitStage(w)
      BY <2>2, <1>1, <1>3, CommitTypes, QueueAssumption
         DEF TypeOK, JobTypes, WorkerIdIffRunning, CommitStage
    <2> QED BY <2>1, <2>2
  <1> QED BY <1>2, <1>5, <1>6 DEF TypeOK

\* Every step of a session keeps the types and the other sessions.
LEMMA StepTypes ==
  ASSUME TypeOK, LockedRows, NEW w \in Worker, Step(w) \/ Trouble(w)
  PROVE  TypeOK' /\ OthersStay(w)
  <1>1. CASE Quiet(w)
    <2>1. InvestigationTypes' /\ JobTypes' /\ WorkerIdIffRunning'
      BY <1>1, QuietWrites
         DEF TypeOK, InvestigationTypes, JobTypes, WorkerIdIffRunning, dbVars, invVars, jobVars
    <2>2. RequestTypes'
      <3>1. calls' \in [Job -> [Request -> Nat]]
        BY <1>1 DEF Quiet, TypeOK, RequestTypes, SessionTypes, ClaimRead, ClaimRefused, ClaimDooms,
           ClaimPicks, Deterministic, StageFails, AuditFails, CallModel, FenceJob,
           FenceInvestigation, Rejected, LockInvestigation, Complete, LeaseLost, Crash
      <3> QED BY <1>1, <3>1, QuietWrites DEF TypeOK, RequestTypes, dbVars, jobVars
    <2> QED BY <1>1, <2>1, <2>2, QuietOthers DEF TypeOK
  <1>2. CASE Writing(w)
    BY <1>2, ClaimNothingTypes, DoomTypes, GrantTypes, RequestStepTypes, FailJobTypes,
       CommitStepTypes DEF Writing
  <1> QED BY <1>1, <1>2, StepCases

-----------------------------------------------------------------------------
(* Row locks.                                                               *)

\* HoldsJob reads nothing but the session.
LEMMA OthersHold ==
  ASSUME NEW w \in Worker, OthersStay(w), NEW v \in Worker \ {w}, NEW j \in Job
  PROVE  HoldsJob(v, j)' <=> HoldsJob(v, j)
  BY DEF OthersStay, HoldsJob

\* A claimable job is locked by nobody and has an attempt left.
LEMMA ClaimableFree ==
  ASSUME SessionTypes, NEW w \in Worker, NEW j \in Claimable(w, Expired)
  PROVE  /\ j \in Job /\ JobFree(j)
         /\ jstat[j] \in {"PENDING", "RUNNING"} /\ attempts[j] < MaxAttempts
  BY QueueAssumption DEF SessionTypes, Claimable, Expired, JobsOf, Job

\* A session comes to hold only rows that nobody else holds.
LEMMA LocksAcquired ==
  ASSUME TypeOK, NEW w \in Worker, Step(w) \/ Trouble(w), NEW j \in Job, HoldsJob(w, j)'
  PROVE  HoldsJob(w, j) \/ JobFree(j)
  <1> USE DEF TypeOK, SessionTypes, HoldsJob, PersistPc, WriterPc, Goto, localVars
  <1>1. CASE pc'[w] = "idle"
    BY <1>1
  <1>2. CASE ClaimRead(w)
    BY <1>2 DEF ClaimRead
  <1>3. CASE ClaimDooms(w)
    BY <1>3 DEF ClaimDooms, Expired
  <1>4. CASE ClaimPicks(w)
    <2>1. j \in Expired \/ cur'[w] = j
      BY <1>4 DEF ClaimPicks
    <2>2. cur'[w] \in Claimable(w, Expired)
      BY <1>4 DEF ClaimPicks
    <2> QED BY <2>1, <2>2, ClaimableFree DEF Expired
  <1>5. CASE Grant(w) \/ StartSpan(w) \/ Reserve(w) \/ FinishSpan(w)
    BY <1>5 DEF Grant, StartSpan, Reserve, FinishSpan
  <1>6. CASE \E verdict \in {"SUCCEEDED", "REJECTED"} : FinishRequest(w, verdict)
    BY <1>6 DEF FinishRequest
  <1>7. CASE Deterministic(w) \/ StageFails(w) \/ AuditFails(w) \/ CallModel(w) \/ Rejected(w)
    BY <1>7 DEF Deterministic, StageFails, AuditFails, CallModel, Rejected
  <1>8. CASE FenceJob(w)
    BY <1>8 DEF FenceJob
  <1>9. CASE FenceInvestigation(w) \/ LockInvestigation(w) \/ Complete(w)
    BY <1>9 DEF FenceInvestigation, LockInvestigation, Complete
  <1>10. CASE \/ ClaimRefused(w) \/ LeaseLost(w) \/ Crash(w) \/ ClaimNothing(w) \/ Doom(w)
              \/ FailJob(w) \/ CommitOne(w) \/ CommitStage(w) \/ CommitInvestigation(w)
    <2>1. Leave(w)
      BY <1>10 DEF ClaimRefused, LeaseLost, Crash, ClaimNothing, Doom, FailJob, CommitOne,
         CommitStage, CommitInvestigation, Commit
    <2> QED BY <2>1, <1>1, LeaveOthers
  <1> QED
    BY StepCases, <1>2, <1>3, <1>4, <1>5, <1>6, <1>7, <1>8, <1>9, <1>10 DEF Quiet, Writing

\* Two sessions never come to hold the same row.
LEMMA StepLocks ==
  ASSUME TypeOK, LocksExclusive, NEW w \in Worker, OthersStay(w), Step(w) \/ Trouble(w)
  PROVE  LocksExclusive'
  <1> SUFFICES ASSUME NEW u \in Worker, NEW v \in Worker, NEW j \in Job,
                      HoldsJob(u, j)', HoldsJob(v, j)', u # v
               PROVE  FALSE
    BY DEF LocksExclusive
  <1>1. CASE u # w /\ v # w
    BY <1>1, OthersHold DEF LocksExclusive
  <1>2. CASE u = w
    BY <1>2, OthersHold, LocksAcquired DEF LocksExclusive, JobFree
  <1>3. CASE v = w
    BY <1>3, OthersHold, LocksAcquired DEF LocksExclusive, JobFree
  <1> QED BY <1>1, <1>2, <1>3

\* What a step may do to a job row: settle or release one that runs, start one
\* that does not, or enqueue one that was not there.
RowStep(j) ==
  \/ jstat'[j] = jstat[j] /\ attempts'[j] = attempts[j]
  \/ jstat[j] = "ABSENT" /\ jstat'[j] = "PENDING" /\ attempts'[j] = attempts[j]
  \/ jstat[j] \in {"PENDING", "RUNNING"} /\ jstat'[j] # "ABSENT"

\* A step writes a row that is there only if it holds it or nobody does.
LEMMA StepRows ==
  ASSUME LockInv, NEW w \in Worker, Step(w) \/ Trouble(w), NEW j \in Job
  PROVE  /\ RowStep(j)
         /\ \/ jstat'[j] = jstat[j] /\ attempts'[j] = attempts[j]
            \/ jstat[j] = "ABSENT" /\ attempts'[j] = attempts[j]
            \/ HoldsJob(w, j) \/ JobFree(j)
  <1> USE DEF RowStep
  <1>1. CASE UNCHANGED <<jstat, attempts>>
    BY <1>1
  <1>2. CASE ClaimNothing(w)
    BY <1>2 DEF ClaimNothing, ClaimWrites, Expired, LockInv, TypeOK, JobTypes
  <1>3. CASE Doom(w)
    BY <1>3 DEF Doom, ClaimWrites, LockInv, TypeOK, JobTypes, SessionTypes, LockedRows, ClaimPc, HoldsJob
  <1>4. CASE Grant(w)
    BY <1>4 DEF Grant, ClaimWrites, LockInv, TypeOK, JobTypes, SessionTypes, LockedRows, ClaimPc, HoldsJob
  <1>5. CASE FailJob(w)
    <2>1. jstat' = [jstat EXCEPT ![cur[w]] = "FAILED"] /\ attempts' = attempts
      BY <1>5 DEF FailJob
    <2>2. jstat[cur[w]] = "RUNNING" /\ JobFree(cur[w])
      BY <1>5 DEF FailJob, LeaseHeld
    <2> QED BY <2>1, <2>2 DEF LockInv, TypeOK, JobTypes
  <1>6. CASE CommitOne(w) \/ CommitInvestigation(w) \/ CommitStage(w)
    <2>1. attempts' = attempts /\ pc[w] \in WriterPc
      BY <1>6 DEF CommitOne, CommitInvestigation, CommitStage, Commit, WriterPc
    <2>2. jstat[cur[w]] = "RUNNING" /\ HoldsJob(w, cur[w])
      BY <2>1 DEF LockInv, LockedRows, HoldsJob, PersistPc
    <2>3. \/ jstat'[j] = jstat[j]
          \/ j = cur[w] /\ jstat'[j] = "SUCCEEDED"
          \/ jstat[j] = "ABSENT" /\ jstat'[j] = "PENDING"
      BY <1>6 DEF CommitOne, CommitInvestigation, CommitStage, LockInv, TypeOK, JobTypes
    <2> QED BY <2>1, <2>2, <2>3
  <1>7. CASE \/ StartSpan(w) \/ Reserve(w) \/ FinishSpan(w)
             \/ \E verdict \in {"SUCCEEDED", "REJECTED"} : FinishRequest(w, verdict)
    BY <1>7, <1>1 DEF StartSpan, Reserve, FinishSpan, FinishRequest
  <1>8. CASE Quiet(w)
    BY <1>8, <1>1, QuietWrites DEF dbVars, jobVars
  <1> QED BY StepCases, <1>2, <1>3, <1>4, <1>5, <1>6, <1>7, <1>8 DEF Writing


\* Whoever holds a row finds it as it was: other sessions leave it alone.
LEMMA HeldRowStays ==
  ASSUME LockInv, NEW w \in Worker, Step(w) \/ Trouble(w), NEW v \in Worker \ {w},
         NEW j \in Job, HoldsJob(v, j), jstat[j] # "ABSENT"
  PROVE  jstat'[j] = jstat[j] /\ attempts'[j] = attempts[j]
  <1>1. ~HoldsJob(w, j) /\ ~JobFree(j)
    BY DEF LockInv, LocksExclusive, JobFree
  <1> QED BY <1>1, StepRows

\* What a session knows of its locked rows stays true.
LEMMA StepLockedRows ==
  ASSUME LockInv, NEW w \in Worker, Step(w) \/ Trouble(w)
  PROVE  LockedRows'
  <1> USE DEF LockInv
  <1>0. OthersStay(w)
    BY StepTypes
  <1>1. ASSUME NEW v \in Worker \ {w}
        PROVE  /\ pc'[v] \in PersistPc => jstat'[cur'[v]] = "RUNNING"
               /\ pc'[v] = "grant" => /\ jstat'[cur'[v]] \in {"PENDING", "RUNNING"}
                                      /\ att'[v] = attempts'[cur'[v]] + 1
               /\ pc'[v] \in ClaimPc => \A j \in swept'[v] : jstat'[j] = "RUNNING"
    <2>1. pc'[v] = pc[v] /\ cur'[v] = cur[v] /\ att'[v] = att[v] /\ swept'[v] = swept[v]
      BY <1>0 DEF OthersStay
    <2>2. cur[v] \in Job /\ swept[v] \in SUBSET Job
      BY DEF TypeOK, SessionTypes
    <2>3. pc[v] \in PersistPc => jstat'[cur[v]] = "RUNNING"
      BY <2>2, HeldRowStays DEF LockedRows, HoldsJob
    <2>4. pc[v] = "grant" => /\ jstat'[cur[v]] \in {"PENDING", "RUNNING"}
                             /\ att[v] = attempts'[cur[v]] + 1
      BY <2>2, HeldRowStays DEF LockedRows, HoldsJob
    <2>5. pc[v] \in ClaimPc => \A j \in swept[v] : jstat'[j] = "RUNNING"
      BY <2>2, HeldRowStays DEF LockedRows, HoldsJob, ClaimPc
    <2> QED BY <2>1, <2>3, <2>4, <2>5
  <1>2. /\ pc'[w] \in PersistPc => jstat'[cur'[w]] = "RUNNING"
        /\ pc'[w] = "grant" => /\ jstat'[cur'[w]] \in {"PENDING", "RUNNING"}
                               /\ att'[w] = attempts'[cur'[w]] + 1
        /\ pc'[w] \in ClaimPc => \A j \in swept'[w] : jstat'[j] = "RUNNING"
    <2> USE DEF TypeOK, SessionTypes, LockedRows, PersistPc, WriterPc, ClaimPc, Goto, localVars
    <2>1. CASE pc'[w] \notin ClaimPc \cup PersistPc
      BY <2>1
    <2>2. CASE ClaimDooms(w)
      BY <2>2 DEF ClaimDooms, Expired, dbVars, jobVars
    <2>3. CASE ClaimPicks(w)
      <3>1. UNCHANGED <<jstat, attempts>> /\ pc'[w] = "grant" /\ swept'[w] = Expired
        BY <2>3 DEF ClaimPicks, dbVars, jobVars
      <3>2. cur'[w] \in Claimable(w, Expired) /\ att'[w] = attempts[cur'[w]] + 1
        BY <2>3 DEF ClaimPicks
      <3>3. jstat[cur'[w]] \in {"PENDING", "RUNNING"}
        BY <3>2, ClaimableFree
      <3> QED BY <3>1, <3>2, <3>3 DEF Expired
    <2>4. CASE FenceJob(w)
      BY <2>4 DEF FenceJob, LeaseHeld, dbVars, jobVars
    <2>5. CASE FenceInvestigation(w) \/ LockInvestigation(w) \/ Complete(w)
      BY <2>5 DEF FenceInvestigation, LockInvestigation, Complete, dbVars, jobVars
    <2>6. CASE \/ ClaimRefused(w) \/ LeaseLost(w) \/ Crash(w) \/ ClaimNothing(w) \/ Doom(w)
               \/ FailJob(w) \/ CommitOne(w) \/ CommitStage(w) \/ CommitInvestigation(w)
      <3>1. Leave(w)
        BY <2>6 DEF ClaimRefused, LeaseLost, Crash, ClaimNothing, Doom, FailJob, CommitOne,
           CommitStage, CommitInvestigation, Commit
      <3> QED BY <2>1, <3>1, LeaveOthers
    <2>7. CASE Grant(w) \/ StartSpan(w) \/ Reserve(w) \/ FinishSpan(w)
      BY <2>7 DEF Grant, StartSpan, Reserve, FinishSpan
    <2>8. CASE \E verdict \in {"SUCCEEDED", "REJECTED"} : FinishRequest(w, verdict)
      BY <2>8 DEF FinishRequest
    <2>9. CASE ClaimRead(w) \/ Deterministic(w) \/ StageFails(w) \/ AuditFails(w) \/ CallModel(w) \/ Rejected(w)
      BY <2>9 DEF ClaimRead, Deterministic, StageFails, AuditFails, CallModel, Rejected
    <2> QED
      BY StepCases, <2>2, <2>3, <2>4, <2>5, <2>6, <2>7, <2>8, <2>9 DEF Quiet, Writing
  <1> QED BY <1>1, <1>2 DEF LockedRows

-----------------------------------------------------------------------------

\* The invariant of the locks holds initially.
LEMMA InitLockInv == Init => LockInv
  <1> SUFFICES ASSUME Init PROVE LockInv
    OBVIOUS
  <1>1. InvestigationTypes
    <2>1. Event("STARTED", 1, CaseKey) \in EventRow
      BY QueueAssumption, JobParts, EventType DEF EventKind
    <2> QED BY <2>1, JobParts DEF Init, InvestigationTypes
  <1>2. JobTypes /\ RequestTypes /\ WorkerIdIffRunning
    BY QueueAssumption DEF Init, JobTypes, RequestTypes, WorkerIdIffRunning
  <1>3. SessionTypes
    BY QueueAssumption, JobParts DEF Init, SessionTypes, Pc
  <1>4. LocksExclusive /\ LockedRows
    BY DEF Init, LocksExclusive, LockedRows, HoldsJob, PersistPc, WriterPc, ClaimPc
  <1> QED BY <1>1, <1>2, <1>3, <1>4 DEF LockInv, TypeOK

\* What the clock, the lock of the case and a stutter leave alone.
Idle ==
  /\ UNCHANGED <<invVars, jstat, attempts, requests, owner, outcome, span, request, calls>>
  /\ UNCHANGED <<pc, localVars>>
  /\ lease' \in [Job -> BOOLEAN]
  /\ caseState' \in {"BLIND", "LOCKED"}

\* The clock, the lock of the case and stutters are idle.
LEMMA IdleSteps ==
  ASSUME TypeOK, (\E j \in Job : LeaseExpires(j)) \/ LockCase \/ UNCHANGED vars
  PROVE  Idle
  BY DEF Idle, TypeOK, JobTypes, InvestigationTypes, LeaseExpires, LockCase, vars, dbVars, invVars,
     jobVars, localVars

\* Every step is one of a session or idle.
LEMMA NextCases ==
  ASSUME TypeOK, [Next]_vars
  PROVE  (\E w \in Worker : Step(w) \/ Trouble(w)) \/ Idle
  BY IdleSteps DEF Next

\* The invariant of the locks is inductive.
LEMMA NextLockInv == LockInv /\ [Next]_vars => LockInv'
  <1> SUFFICES ASSUME LockInv, [Next]_vars PROVE LockInv'
    OBVIOUS
  <1>1. ASSUME NEW w \in Worker, Step(w) \/ Trouble(w) PROVE LockInv'
    BY <1>1, StepTypes, StepLocks, StepLockedRows DEF LockInv
  <1>2. CASE Idle
    <2>1. TypeOK'
      BY <1>2 DEF Idle, LockInv, TypeOK, InvestigationTypes, JobTypes, RequestTypes, SessionTypes,
         WorkerIdIffRunning, invVars, localVars
    <2>2. LocksExclusive' /\ LockedRows'
      BY <1>2 DEF Idle, LockInv, LocksExclusive, LockedRows, HoldsJob, localVars
    <2> QED BY <2>1, <2>2 DEF LockInv
  <1> QED BY <1>1, <1>2, NextCases DEF LockInv

\* Every reachable state is well typed and satisfies the check constraints of
\* the tables, for any number of workers, jobs, stages, attempts and requests.
THEOREM TypeCorrect == Spec => []TypeOK
  <1>1. LockInv => TypeOK
    BY DEF LockInv
  <1> QED BY <1>1, InitLockInv, NextLockInv, PTL DEF Spec

\* A settled job never runs again and never changes its verdict: the actions of
\* claim_investigation_job, complete_stage_job and fail_stage_job only ever write
\* a row that they have locked and found pending or running.
THEOREM SettledStay == Spec => SettledJobsStay
  <1>1. LockInv /\ [Next]_vars
          => [\A j \in Job : jstat[j] \in {"SUCCEEDED", "FAILED"} => jstat'[j] = jstat[j]]_jstat
    <2> SUFFICES ASSUME LockInv, [Next]_vars,
                        NEW j \in Job, jstat[j] \in {"SUCCEEDED", "FAILED"}
                 PROVE  jstat'[j] = jstat[j]
      OBVIOUS
    <2>1. CASE Idle
      BY <2>1 DEF Idle
    <2>2. ASSUME NEW w \in Worker, Step(w) \/ Trouble(w) PROVE jstat'[j] = jstat[j]
      BY <2>2, StepRows DEF RowStep
    <2> QED BY <2>1, <2>2, NextCases DEF LockInv
  <1> QED BY <1>1, InitLockInv, NextLockInv, PTL DEF Spec, SettledJobsStay

-----------------------------------------------------------------------------
(* The budget of provider calls.                                            *)

\* A reservation not yet used belongs to one session, and no call was made
\* under it or under an ordinal not handed out yet.
CallsReserved ==
  /\ \A w \in Worker : pc[w] = "reserved" =>
       /\ ordinal[w] \in Request /\ ordinal[w] <= requests[cur[w]]
       /\ calls[cur[w]][ordinal[w]] = 0
  /\ \A v, w \in Worker :
       pc[v] = "reserved" /\ pc[w] = "reserved" /\ cur[v] = cur[w] /\ ordinal[v] = ordinal[w]
         => v = w
  /\ \A j \in Job, n \in Request : calls[j][n] <= 1 /\ (n > requests[j] => calls[j][n] = 0)

CallInv == LockInv /\ CallsReserved

\* Only a reservation and a call touch what the budget is about.
LEMMA BudgetFrame ==
  ASSUME TypeOK, NEW w \in Worker, Step(w) \/ Trouble(w), ~Reserve(w), ~CallModel(w)
  PROVE  UNCHANGED <<requests, calls>> /\ pc'[w] # "reserved"
  <1> USE DEF TypeOK, SessionTypes, Goto, localVars, dbVars, jobVars
  <1>1. CASE \/ ClaimRefused(w) \/ LeaseLost(w) \/ Crash(w) \/ ClaimNothing(w) \/ Doom(w)
             \/ FailJob(w) \/ CommitOne(w) \/ CommitStage(w) \/ CommitInvestigation(w)
    <2>1. Leave(w) /\ UNCHANGED <<requests, calls>>
      BY <1>1 DEF ClaimRefused, LeaseLost, Crash, ClaimNothing, Doom, FailJob, CommitOne,
         CommitStage, CommitInvestigation, Commit, ClaimWrites
    <2> QED BY <2>1, LeaveOthers
  <1>2. CASE Grant(w) \/ StartSpan(w) \/ FinishSpan(w)
    BY <1>2 DEF Grant, StartSpan, FinishSpan, ClaimWrites
  <1>3. CASE \E verdict \in {"SUCCEEDED", "REJECTED"} : FinishRequest(w, verdict)
    BY <1>3 DEF FinishRequest
  <1>4. CASE ClaimRead(w) \/ Deterministic(w) \/ StageFails(w) \/ AuditFails(w) \/ Rejected(w)
    BY <1>4 DEF ClaimRead, Deterministic, StageFails, AuditFails, Rejected
  <1>5. CASE \/ ClaimDooms(w) \/ ClaimPicks(w) \/ FenceJob(w) \/ FenceInvestigation(w)
             \/ LockInvestigation(w) \/ Complete(w)
    BY <1>5 DEF ClaimDooms, ClaimPicks, FenceJob, FenceInvestigation, LockInvestigation, Complete
  <1> QED BY StepCases, <1>1, <1>2, <1>3, <1>4, <1>5 DEF Quiet, Writing

\* The invariant of the reservations is inductive.
LEMMA NextCallInv == CallInv /\ [Next]_vars => CallInv'
  <1> SUFFICES ASSUME CallInv, [Next]_vars PROVE CallsReserved'
    BY NextLockInv DEF CallInv
  <1> USE DEF CallInv, LockInv
  <1>1. CASE Idle
    BY <1>1 DEF Idle, CallsReserved, localVars
  <1>2. ASSUME NEW w \in Worker, Step(w) \/ Trouble(w) PROVE CallsReserved'
    <2>0. OthersStay(w) /\ cur[w] \in Job
      BY <1>2, StepTypes DEF TypeOK, SessionTypes
    <2>1. CASE Reserve(w)
      <3>1. /\ requests[cur[w]] < MaxRequests
            /\ requests' = [requests EXCEPT ![cur[w]] = @ + 1] /\ calls' = calls
            /\ cur'[w] = cur[w] /\ pc'[w] = "reserved" /\ ordinal'[w] = requests[cur[w]] + 1
        BY <2>1 DEF Reserve, NextOrdinal, TypeOK, SessionTypes, Goto
      <3>2. /\ requests[cur[w]] \in 0..MaxRequests /\ requests'[cur[w]] = requests[cur[w]] + 1
            /\ \A j \in Job : j # cur[w] => requests'[j] = requests[j]
            /\ \A j \in Job : requests[j] \in Nat
        BY <2>0, <3>1, QueueAssumption DEF TypeOK, RequestTypes
      <3>3. ordinal'[w] \in Request
        BY <3>1, <3>2, QueueAssumption DEF Request
      <3>4. \A j \in Job, n \in Request :
              calls'[j][n] <= 1 /\ (n > requests'[j] => calls'[j][n] = 0)
        BY <3>1, <3>2 DEF CallsReserved, Request
      <3>5. calls'[cur[w]][ordinal'[w]] = 0
        BY <2>0, <3>1, <3>2, <3>3 DEF CallsReserved, Request
      <3>6. \A v \in Worker \ {w} : pc'[v] = "reserved" =>
               /\ ordinal'[v] \in Request /\ ordinal'[v] <= requests[cur'[v]]
               /\ ordinal'[v] <= requests'[cur'[v]]
               /\ calls'[cur'[v]][ordinal'[v]] = 0
        BY <2>0, <3>1, <3>2 DEF CallsReserved, OthersStay, TypeOK, SessionTypes, Request
      <3>7. \A v \in Worker \ {w} :
              ~(pc'[v] = "reserved" /\ cur'[v] = cur'[w] /\ ordinal'[v] = ordinal'[w])
        BY <3>1, <3>2, <3>6 DEF Request
      <3>8. \A u, v \in Worker \ {w} :
              pc'[u] = "reserved" /\ pc'[v] = "reserved" /\ cur'[u] = cur'[v] /\ ordinal'[u] = ordinal'[v]
                => u = v
        BY <2>0 DEF CallsReserved, OthersStay
      <3> QED BY <3>1, <3>2, <3>3, <3>4, <3>5, <3>6, <3>7, <3>8 DEF CallsReserved, Request
    <2>2. CASE CallModel(w)
      <3>1. /\ pc[w] = "reserved" /\ pc'[w] # "reserved" /\ UNCHANGED <<requests, cur, ordinal>>
            /\ calls' = [calls EXCEPT ![cur[w]][ordinal[w]] = @ + 1]
        BY <2>2 DEF CallModel, dbVars, jobVars, localVars, Goto, TypeOK, SessionTypes
      <3>2. /\ ordinal[w] \in Request /\ ordinal[w] <= requests[cur[w]]
            /\ calls[cur[w]][ordinal[w]] = 0
        BY <3>1 DEF CallsReserved
      <3>3. /\ calls'[cur[w]][ordinal[w]] = 1
            /\ \A j \in Job, n \in Request :
                 j # cur[w] \/ n # ordinal[w] => calls'[j][n] = calls[j][n]
        BY <2>0, <3>1, <3>2 DEF TypeOK, RequestTypes
      <3>4. \A j \in Job, n \in Request :
              calls'[j][n] <= 1 /\ (n > requests'[j] => calls'[j][n] = 0)
        <4> SUFFICES ASSUME NEW j \in Job, NEW n \in Request
                     PROVE  calls'[j][n] <= 1 /\ (n > requests'[j] => calls'[j][n] = 0)
          OBVIOUS
        <4>1. CASE j = cur[w] /\ n = ordinal[w]
          <5>1. ~(n > requests'[j])
            BY <4>1, <2>0, <3>1, <3>2 DEF Request, TypeOK, RequestTypes
          <5> QED BY <4>1, <3>3, <5>1
        <4>2. CASE ~(j = cur[w] /\ n = ordinal[w])
          BY <4>2, <3>1, <3>3 DEF CallsReserved
        <4> QED BY <4>1, <4>2
      <3>5. \A v \in Worker \ {w} : pc'[v] = "reserved" =>
               ordinal'[v] \in Request /\ cur'[v] \in Job
        BY <2>0, <3>1 DEF CallsReserved, OthersStay, TypeOK, SessionTypes
      <3>6. \A v \in Worker \ {w} : pc'[v] = "reserved" =>
               cur'[v] # cur[w] \/ ordinal'[v] # ordinal[w]
        BY <2>0, <3>1 DEF CallsReserved, OthersStay
      <3>7. \A v \in Worker \ {w} : pc'[v] = "reserved" =>
               ordinal'[v] <= requests'[cur'[v]] /\ calls'[cur'[v]][ordinal'[v]] = 0
        BY <2>0, <3>1, <3>3, <3>5, <3>6 DEF CallsReserved, OthersStay
      <3>8. \A u, v \in Worker \ {w} :
              pc'[u] = "reserved" /\ pc'[v] = "reserved" /\ cur'[u] = cur'[v] /\ ordinal'[u] = ordinal'[v]
                => u = v
        BY <2>0 DEF CallsReserved, OthersStay
      <3> QED BY <3>1, <3>4, <3>5, <3>7, <3>8 DEF CallsReserved
    <2>3. CASE ~Reserve(w) /\ ~CallModel(w)
      <3>1. UNCHANGED <<requests, calls>> /\ pc'[w] # "reserved"
        BY <1>2, <2>3, BudgetFrame
      <3> QED BY <2>0, <3>1 DEF CallsReserved, OthersStay
    <2> QED BY <2>1, <2>2, <2>3
  <1> QED BY <1>1, <1>2, NextCases

\* Whatever the number of workers, crashes and lost leases, a job makes at most
\* MaxRequests provider calls, each under a reservation of its own
\* (reserve_model_request and the loop of Worker._generate).
THEOREM CallsBounded == Spec => []CallsWithinBudget
  <1>1. Init => CallInv
    <2> SUFFICES ASSUME Init PROVE CallsReserved
      BY InitLockInv DEF CallInv
    <2> QED BY DEF Init, CallsReserved, Request
  <1>2. CallInv => CallsWithinBudget
    BY DEF CallInv, LockInv, TypeOK, RequestTypes, CallsReserved, CallsWithinBudget, Request
  <1> QED BY <1>1, <1>2, NextCallInv, PTL DEF Spec

-----------------------------------------------------------------------------
(* The lock of the case.                                                    *)

\* lock_investigation waits for the transactions that hold the case row.
NoTxOnceLocked == caseState = "LOCKED" => \A w \in Worker : ~InTx(w)

\* In a locked case a session writes nothing and opens no transaction.
LEMMA LockedStep ==
  ASSUME TypeOK, NoTxOnceLocked, caseState = "LOCKED", NEW w \in Worker, Step(w) \/ Trouble(w)
  PROVE  Quiet(w) /\ pc'[w] \notin ClaimPc \cup PersistPc
  <1> USE DEF TypeOK, SessionTypes, NoTxOnceLocked, InTx, ClaimPc, PersistPc, WriterPc, Goto
  <1>0. ~LeaseHeld(w, cur[w])
    BY DEF LeaseHeld
  <1>1. ~Writing(w)
    <2>1. ~ClaimNothing(w) /\ ~Doom(w) /\ ~Grant(w)
      BY DEF ClaimNothing, Doom, Grant
    <2>2. ~StartSpan(w) /\ ~Reserve(w) /\ ~FinishSpan(w) /\ ~FailJob(w)
      BY <1>0 DEF StartSpan, Reserve, FinishSpan, FailJob
    <2>3. ~\E verdict \in {"SUCCEEDED", "REJECTED"} : FinishRequest(w, verdict)
      BY <1>0 DEF FinishRequest
    <2>4. ~CommitOne(w) /\ ~CommitStage(w) /\ ~CommitInvestigation(w)
      BY DEF CommitOne, CommitStage, CommitInvestigation
    <2> QED BY <2>1, <2>2, <2>3, <2>4 DEF Writing
  <1>2. Quiet(w)
    BY <1>1, StepCases
  <1>3. pc'[w] \notin ClaimPc \cup PersistPc
    <2>1. CASE ClaimRead(w) \/ Deterministic(w) \/ StageFails(w) \/ AuditFails(w) \/ CallModel(w) \/ Rejected(w)
      BY <2>1 DEF ClaimRead, Deterministic, StageFails, AuditFails, CallModel, Rejected
    <2>2. ~ClaimDooms(w) /\ ~ClaimPicks(w) /\ ~FenceJob(w) /\ ~FenceInvestigation(w)
      BY <1>0 DEF ClaimDooms, ClaimPicks, FenceJob, FenceInvestigation
    <2>3. ~LockInvestigation(w) /\ ~Complete(w)
      BY <1>0 DEF LockInvestigation, Complete
    <2>4. CASE ClaimRefused(w) \/ LeaseLost(w) \/ Crash(w)
      <3>1. Leave(w)
        BY <2>4 DEF ClaimRefused, LeaseLost, Crash
      <3> QED BY <3>1, LeaveOthers
    <2> QED BY <1>2, <2>1, <2>2, <2>3, <2>4 DEF Quiet
  <1> QED BY <1>2, <1>3

\* The lock of the case waits for every open transaction, and none opens after it.
LEMMA NextNoTxOnceLocked ==
  ASSUME LockInv, NoTxOnceLocked, [Next]_vars
  PROVE  NoTxOnceLocked'
  <1>1. ASSUME NEW w \in Worker, Step(w) \/ Trouble(w) PROVE NoTxOnceLocked'
    <2>1. caseState' = caseState
      <3>1. CASE Quiet(w)
        BY <3>1, QuietWrites
      <3>2. CASE Writing(w)
        BY <3>2 DEF Writing, ClaimNothing, Doom, Grant, StartSpan, Reserve, FinishRequest,
           CommitOne, CommitStage, CommitInvestigation, Commit, FinishSpan, FailJob
      <3> QED BY <1>1, <3>1, <3>2, StepCases
    <2>2. OthersStay(w)
      BY <1>1, StepTypes DEF LockInv
    <2> QED BY <1>1, <2>1, <2>2, LockedStep DEF LockInv, NoTxOnceLocked, InTx, OthersStay
  <1>2. ASSUME NEW j \in Job, LeaseExpires(j) PROVE NoTxOnceLocked'
    BY <1>2 DEF LeaseExpires, NoTxOnceLocked, InTx
  <1>3. CASE LockCase
    BY <1>3 DEF LockCase, NoTxOnceLocked, InTx
  <1>4. CASE UNCHANGED vars
    BY <1>4 DEF vars, NoTxOnceLocked, InTx
  <1> QED BY <1>1, <1>2, <1>3, <1>4 DEF Next

\* Once lock_investigation has committed no row of the investigation changes:
\* every writer re-reads the state of the case under a lock that excludes it.
THEOREM LockFinal == Spec => LockFreezes
  <1> DEFINE Inv == LockInv /\ NoTxOnceLocked
  <1>1. Init => Inv
    BY InitLockInv DEF Init, NoTxOnceLocked
  <1>2. Inv /\ [Next]_vars => Inv'
    BY NextLockInv, NextNoTxOnceLocked
  <1>3. Inv /\ [Next]_vars
          => [caseState = "LOCKED" =>
                UNCHANGED <<invVars, jstat, attempts, requests, owner, outcome, span, request>>]_vars
    <2> SUFFICES ASSUME Inv, [Next]_vars, caseState = "LOCKED"
                 PROVE  UNCHANGED <<invVars, jstat, attempts, requests, owner, outcome, span, request>>
      OBVIOUS
    <2>1. CASE Idle
      BY <2>1 DEF Idle
    <2>2. ASSUME NEW w \in Worker, Step(w) \/ Trouble(w)
          PROVE  UNCHANGED <<invVars, jstat, attempts, requests, owner, outcome, span, request>>
      BY <2>2, LockedStep, QuietWrites DEF LockInv, dbVars, jobVars
    <2> QED BY <2>1, <2>2, NextCases DEF LockInv
  <1> QED BY <1>1, <1>2, <1>3, PTL DEF Spec, LockFreezes

-----------------------------------------------------------------------------
(***************************************************************************)
(* The stages of an investigation: the lock of the investigation row makes *)
(* the last worker of a stage see that it is the last, so that stages end  *)
(* exactly once, with all their jobs done.                                 *)
(***************************************************************************)

\* One session at a time holds the investigation row.
SoleWriter ==
  \A v, w \in Worker : pc[v] \in WriterPc /\ pc[w] \in WriterPc => v = w

\* What that session read of the investigation and of the other jobs of its
\* stage still holds when it commits.
WriterKnows ==
  \A w \in Worker :
    /\ pc[w] \in WriterPc => status = "RUNNING" /\ stage = cur[w][1]
    /\ pc[w] = "last" => SiblingsDone(w)
    /\ pc[w] = "sibling" => ~SiblingsDone(w)

\* A claim only fails the investigation for a job that is failed or will be.
DoomReason ==
  \A w \in Worker : pc[w] = "doom" => \E j \in Job : jstat[j] = "FAILED" \/ j \in swept[w]

WriterInv  == LockInv /\ SoleWriter /\ WriterKnows /\ DoomReason
BarrierInv == WriterInv /\ StageBarrier

Finished(j) == jstat[j] \in {"ABSENT", "SUCCEEDED"}

Commits(w) == CommitOne(w) \/ CommitStage(w) \/ CommitInvestigation(w)

-----------------------------------------------------------------------------

\* The only ways to the program points the invariant speaks of.
LEMMA Arrives ==
  ASSUME TypeOK, NEW w \in Worker, Step(w) \/ Trouble(w), pc'[w] \in WriterPc \cup {"doom"}
  PROVE  ClaimDooms(w) \/ LockInvestigation(w) \/ Complete(w)
  <1> USE DEF TypeOK, SessionTypes, Goto, WriterPc
  <1>1. CASE \/ ClaimRefused(w) \/ LeaseLost(w) \/ Crash(w) \/ ClaimNothing(w) \/ Doom(w)
             \/ FailJob(w) \/ CommitOne(w) \/ CommitStage(w) \/ CommitInvestigation(w)
    <2>1. Leave(w)
      BY <1>1 DEF ClaimRefused, LeaseLost, Crash, ClaimNothing, Doom, FailJob, CommitOne,
         CommitStage, CommitInvestigation, Commit
    <2> QED BY <2>1, LeaveOthers
  <1>2. CASE Grant(w) \/ StartSpan(w) \/ FinishSpan(w) \/ Reserve(w)
    BY <1>2 DEF Grant, StartSpan, FinishSpan, Reserve
  <1>3. CASE \E verdict \in {"SUCCEEDED", "REJECTED"} : FinishRequest(w, verdict)
    BY <1>3 DEF FinishRequest
  <1>4. CASE \/ ClaimRead(w) \/ Deterministic(w) \/ StageFails(w) \/ AuditFails(w) \/ CallModel(w)
             \/ Rejected(w)
    BY <1>4 DEF ClaimRead, Deterministic, StageFails, AuditFails, CallModel, Rejected
  <1>5. CASE ClaimPicks(w) \/ FenceJob(w) \/ FenceInvestigation(w)
    BY <1>5 DEF ClaimPicks, FenceJob, FenceInvestigation
  <1> QED BY StepCases, <1>1, <1>2, <1>3, <1>4, <1>5 DEF Quiet, Writing

\* Short of a commit no job of a stage is finished or enqueued, the stage stays,
\* and the status changes only under the lock of the row, with work left.
LEMMA OtherSteps ==
  ASSUME WriterInv, NEW w \in Worker, Step(w) \/ Trouble(w), ~Commits(w)
  PROVE  /\ stage' = stage
         /\ \A j \in Job : /\ jstat'[j] = "ABSENT" <=> jstat[j] = "ABSENT"
                           /\ Finished(j)' <=> Finished(j)
         /\ \/ status' = status
            \/ /\ status' \in {"RUNNING", "FAILED"} /\ InvFree
               /\ \E j \in Job : ~Finished(j)
  <1> USE DEF WriterInv, LockInv, Finished
  <1>0. cur[w] \in Job /\ swept[w] \in SUBSET Job
    BY DEF TypeOK, SessionTypes
  <1>1. CASE UNCHANGED <<jstat, status, stage>>
    BY <1>1
  <1>2. CASE ClaimNothing(w)
    BY <1>2 DEF ClaimNothing, ClaimWrites, Expired, invVars
  <1>3. CASE Doom(w)
    <2>1. \E j \in Job : ~Finished(j)
      BY <1>0, <1>3 DEF Doom, DoomReason, LockedRows, ClaimPc
    <2>2. \A j \in Job : jstat'[j] = jstat[j] \/ (j \in swept[w] /\ jstat'[j] \in {"PENDING", "FAILED"})
      BY <1>3 DEF Doom, ClaimWrites
    <2>3. \A j \in swept[w] : jstat[j] = "RUNNING"
      BY <1>3 DEF Doom, LockedRows, ClaimPc
    <2> QED BY <1>3, <2>1, <2>2, <2>3 DEF Doom
  <1>4. CASE Grant(w)
    <2>1. jstat[cur[w]] \in {"PENDING", "RUNNING"} /\ \A j \in swept[w] : jstat[j] = "RUNNING"
      BY <1>4 DEF Grant, LockedRows, ClaimPc
    <2>2. \A j \in Job : \/ jstat'[j] = jstat[j]
                         \/ j \in swept[w] \cup {cur[w]} /\ jstat'[j] \in {"PENDING", "RUNNING", "FAILED"}
      BY <1>4 DEF Grant, ClaimWrites
    <2> QED BY <1>0, <1>4, <2>1, <2>2 DEF Grant
  <1>5. CASE FailJob(w)
    <2>1. jstat' = [jstat EXCEPT ![cur[w]] = "FAILED"] /\ jstat[cur[w]] = "RUNNING"
      BY <1>5 DEF FailJob, LeaseHeld
    <2> QED BY <1>0, <1>5, <2>1 DEF FailJob, TypeOK, JobTypes
  <1>6. CASE \/ StartSpan(w) \/ Reserve(w) \/ FinishSpan(w)
             \/ \E verdict \in {"SUCCEEDED", "REJECTED"} : FinishRequest(w, verdict)
    BY <1>6, <1>1 DEF StartSpan, Reserve, FinishSpan, FinishRequest, invVars
  <1>7. CASE Quiet(w)
    BY <1>7, <1>1, QuietWrites DEF dbVars, jobVars, invVars
  <1> QED BY StepCases, <1>2, <1>3, <1>4, <1>5, <1>6, <1>7 DEF Writing, Commits

\* A commit finishes one job of the current stage.
LEMMA CommitFacts ==
  ASSUME WriterInv, NEW w \in Worker, Commits(w)
  PROVE  /\ pc[w] \in WriterPc /\ status = "RUNNING" /\ stage = cur[w][1] /\ cur[w] \in Job
         /\ ~InvFree /\ pc'[w] = "idle"
         /\ jstat'[cur[w]] = "SUCCEEDED"
  <1>1. pc[w] \in WriterPc /\ Leave(w)
    BY DEF Commits, CommitOne, CommitStage, CommitInvestigation, Commit, WriterPc
  <1>2. cur[w] \in Job
    BY DEF WriterInv, LockInv, TypeOK, SessionTypes
  <1>3. jstat'[cur[w]] = "SUCCEEDED"
    BY <1>2 DEF Commits, CommitOne, CommitStage, CommitInvestigation, WriterInv, LockInv, TypeOK, JobTypes
  <1> QED BY <1>1, <1>2, <1>3, LeaveOthers DEF WriterInv, LockInv, TypeOK, WriterKnows, InvFree

\* What the holder of the investigation row decided on stays true.
LEMMA StepWriters ==
  ASSUME WriterInv, NEW w \in Worker, Step(w) \/ Trouble(w)
  PROVE  SoleWriter' /\ WriterKnows' /\ DoomReason'
  <1> USE DEF WriterInv, LockInv
  <1>0. OthersStay(w)
    BY StepTypes
  <1>1. SoleWriter'
    <2> SUFFICES ASSUME pc'[w] \in WriterPc, NEW v \in Worker \ {w}, pc[v] \in WriterPc
                 PROVE  FALSE
      BY <1>0 DEF SoleWriter, OthersStay
    <2>1. LockInvestigation(w) \/ Complete(w)
      BY Arrives DEF ClaimDooms, Goto, WriterPc, TypeOK, SessionTypes
    <2> QED BY <2>1 DEF LockInvestigation, InvFree, Complete, SoleWriter, WriterPc
  <1>2. WriterKnows'
    <2>1. ASSUME NEW v \in Worker \ {w}, pc'[v] \in WriterPc
          PROVE  /\ status' = "RUNNING" /\ stage' = cur'[v][1]
                 /\ pc'[v] = "last" => SiblingsDone(v)'
                 /\ pc'[v] = "sibling" => ~SiblingsDone(v)'
      <3>1. pc[v] \in WriterPc /\ pc'[v] = pc[v] /\ cur'[v] = cur[v]
        BY <1>0, <2>1 DEF OthersStay
      <3>2. ~Commits(w) /\ ~InvFree
        BY <3>1, CommitFacts DEF SoleWriter, InvFree
      <3>3. status' = status /\ stage' = stage /\ \A j \in Job : Finished(j)' <=> Finished(j)
        BY <3>2, OtherSteps
      <3>4. JobsOf(cur[v][1]) \in SUBSET Job
        BY JobParts DEF JobsOf, Job, TypeOK, SessionTypes
      <3>5. SiblingsDone(v)' <=> SiblingsDone(v)
        BY <3>1, <3>3, <3>4 DEF SiblingsDone, JobsOf, Finished
      <3> QED BY <3>1, <3>3, <3>5 DEF WriterKnows
    <2>2. ASSUME pc'[w] \in WriterPc
          PROVE  /\ status' = "RUNNING" /\ stage' = cur'[w][1]
                 /\ pc'[w] = "last" => SiblingsDone(w)'
                 /\ pc'[w] = "sibling" => ~SiblingsDone(w)'
      <3>1. CASE LockInvestigation(w)
        BY <2>2, <3>1 DEF LockInvestigation, StageRunning, Goto, TypeOK, SessionTypes, WriterPc, dbVars,
           invVars, localVars
      <3>2. CASE Complete(w)
        <4>1. /\ pc[w] = "written" /\ UNCHANGED <<status, stage, jstat, cur>>
              /\ pc'[w] = IF SiblingsDone(w) THEN "last" ELSE "sibling"
          BY <3>2 DEF Complete, Goto, TypeOK, SessionTypes, dbVars, jobVars, invVars, localVars
        <4>2. SiblingsDone(w)' <=> SiblingsDone(w)
          BY <4>1 DEF SiblingsDone, JobsOf
        <4> QED BY <4>1, <4>2 DEF WriterKnows, WriterPc
      <3> QED BY <2>2, <3>1, <3>2, Arrives DEF ClaimDooms, Goto, WriterPc, TypeOK, SessionTypes
    <2> QED BY <2>1, <2>2 DEF WriterKnows, WriterPc
  <1>3. DoomReason'
    <2>1. ASSUME NEW v \in Worker \ {w}, pc'[v] = "doom"
          PROVE  \E j \in Job : jstat'[j] = "FAILED" \/ j \in swept'[v]
      <3>1. PICK j \in Job : jstat[j] = "FAILED" \/ j \in swept[v]
        BY <1>0, <2>1 DEF OthersStay, DoomReason
      <3> QED BY <1>0, <3>1, StepRows DEF OthersStay, RowStep
    <2>2. ASSUME pc'[w] = "doom"
          PROVE  \E j \in Job : jstat'[j] = "FAILED" \/ j \in swept'[w]
      <3>1. ClaimDooms(w)
        BY <2>2, Arrives DEF LockInvestigation, Complete, Goto, TypeOK, SessionTypes
      <3> QED
        BY <3>1 DEF ClaimDooms, AnyFailed, TypeOK, SessionTypes, dbVars, jobVars
    <2> QED BY <2>1, <2>2 DEF DoomReason
  <1> QED BY <1>1, <1>2, <1>3

-----------------------------------------------------------------------------

\* Steps other than commits keep the barrier.
LEMMA OtherStepBarrier ==
  ASSUME BarrierInv, NEW w \in Worker, Step(w) \/ Trouble(w), ~Commits(w)
  PROVE  StageBarrier'
  <1>1. stage' = stage /\ \A j \in Job : /\ jstat'[j] = "ABSENT" <=> jstat[j] = "ABSENT"
                                         /\ Finished(j)' <=> Finished(j)
    BY OtherSteps DEF BarrierInv
  <1>2. JobsOf(stage) \in SUBSET Job
    BY DEF JobsOf, Job, BarrierInv, WriterInv, LockInv, TypeOK, InvestigationTypes
  <1>3. \A j \in Job : Finished(j) <=> jstat[j] \notin {"PENDING", "RUNNING", "FAILED"}
    BY DEF Finished, BarrierInv, WriterInv, LockInv, TypeOK, JobTypes
  <1>4. \A j \in Job : Finished(j)' <=> jstat'[j] \notin {"PENDING", "RUNNING", "FAILED"}
    BY StepTypes DEF Finished, BarrierInv, WriterInv, LockInv, TypeOK, JobTypes
  <1>5. /\ \A j \in Job : /\ j[1] < stage' => Finished(j)'
                          /\ j[1] > stage' => jstat'[j] = "ABSENT"
    BY <1>1 DEF BarrierInv, StageBarrier, Finished
  <1>6. CASE status' = status
    BY <1>1, <1>2, <1>3, <1>4, <1>5, <1>6 DEF BarrierInv, StageBarrier, Finished, JobsOf
  <1>7. CASE status' \in {"RUNNING", "FAILED"} /\ \E j \in Job : ~Finished(j)
    <2>1. PICK j \in Job : ~Finished(j)
      BY <1>7
    <2>2. j[1] = stage
      <3>1. ~(j[1] < stage) /\ ~(j[1] > stage)
        BY <2>1 DEF BarrierInv, StageBarrier, Finished
      <3>2. stage \in Nat /\ j[1] \in Nat
        BY JobParts, QueueAssumption
           DEF Stage, BarrierInv, WriterInv, LockInv, TypeOK, InvestigationTypes
      <3> QED BY <3>1, <3>2
    <2>3. j \in JobsOf(stage)
      BY <2>2 DEF JobsOf, Job
    <2> QED BY <1>1, <1>4, <1>5, <1>7, <2>1, <2>3 DEF StageBarrier, Finished, JobsOf
  <1> QED BY <1>6, <1>7, OtherSteps DEF BarrierInv

\* Commits keep the barrier: the last one of a stage is the one that ends it.
LEMMA CommitBarrier ==
  ASSUME BarrierInv, NEW w \in Worker, Commits(w)
  PROVE  StageBarrier'
  <1> USE DEF BarrierInv
  <1>1. /\ pc[w] \in WriterPc /\ status = "RUNNING" /\ stage = cur[w][1] /\ cur[w] \in Job
        /\ jstat'[cur[w]] = "SUCCEEDED"
    BY CommitFacts
  <1>2. stage \in Stage /\ LastStage \in Nat /\ Stage = 1..LastStage
    BY QueueAssumption DEF Stage, WriterInv, LockInv, TypeOK, InvestigationTypes
  <1>3. \A j \in Job : j[1] \in Nat
    BY <1>2, JobParts
  <1>4. CASE CommitOne(w)
    <2>1. /\ \A j \in Job : j # cur[w] => jstat'[j] = jstat[j]
          /\ UNCHANGED <<status, stage>>
      BY <1>4 DEF CommitOne, WriterInv, LockInv, TypeOK, JobTypes
    <2>2. ~SiblingsDone(w)
      BY <1>4 DEF CommitOne, WriterInv, WriterKnows
    <2>3. PICK j \in JobsOf(stage) \ {cur[w]} : jstat[j] \notin {"ABSENT", "SUCCEEDED"}
      BY <1>1, <2>2 DEF SiblingsDone
    <2>4. j \in Job
      BY <1>2, <2>3 DEF JobsOf, Job
    <2>5. jstat'[j] \in {"PENDING", "RUNNING", "FAILED"}
      BY <2>1, <2>3, <2>4 DEF WriterInv, LockInv, TypeOK, JobTypes
    <2>6. status' # "SUCCEEDED" /\ j \in JobsOf(stage') /\ jstat'[j] \notin {"ABSENT", "SUCCEEDED"}
      BY <1>1, <2>1, <2>3, <2>5
    <2>7. \A i \in Job : /\ i[1] < stage' => jstat'[i] \in {"ABSENT", "SUCCEEDED"}
                         /\ i[1] > stage' => jstat'[i] = "ABSENT"
      BY <1>1, <1>2, <2>1 DEF StageBarrier
    <2> QED BY <2>5, <2>6, <2>7 DEF StageBarrier, JobsOf
  <1>5. ASSUME pc[w] = "last" PROVE \A j \in JobsOf(stage) \ {cur[w]} : jstat[j] \in {"ABSENT", "SUCCEEDED"}
    BY <1>1, <1>5 DEF WriterInv, WriterKnows, SiblingsDone
  <1>6. CASE CommitInvestigation(w)
    <2>1. /\ \A j \in Job : j # cur[w] => jstat'[j] = jstat[j]
          /\ stage' = stage /\ status' = "SUCCEEDED" /\ stage = LastStage
      BY <1>1, <1>6 DEF CommitInvestigation, WriterInv, LockInv, TypeOK, JobTypes
    <2>2. \A j \in JobsOf(stage) : j \in Job
      BY <1>2 DEF JobsOf, Job
    <2>3. \A j \in JobsOf(stage) : jstat'[j] \in {"ABSENT", "SUCCEEDED"}
      BY <1>1, <1>5, <1>6, <2>1, <2>2 DEF CommitInvestigation
    <2>4. \A i \in Job : /\ i[1] < stage' => jstat'[i] \in {"ABSENT", "SUCCEEDED"}
                         /\ i[1] > stage' => jstat'[i] = "ABSENT"
      <3>1. cur[w][1] = stage /\ stage' = stage /\ stage \in Nat
        BY <1>1, <1>2, <2>1
      <3>2. \A i \in Job : i # cur[w] => jstat'[i] = jstat[i]
        BY <2>1
      <3> QED BY <1>1, <3>1, <3>2 DEF StageBarrier
    <2> QED BY <2>1, <2>3, <2>4 DEF StageBarrier, JobsOf
  <1>7. CASE CommitStage(w)
    <2>1. PICK keys \in WorkKeys(stage + 1) :
             jstat' = [j \in Job |-> IF j = cur[w] THEN "SUCCEEDED"
                                     ELSE IF j \in {stage + 1} \X keys /\ jstat[j] = "ABSENT"
                                     THEN "PENDING" ELSE jstat[j]]
      BY <1>1, <1>7 DEF CommitStage
    <2>2. stage' = stage + 1 /\ status' = "RUNNING" /\ stage + 1 \in Stage
      BY <1>1, <1>7 DEF CommitStage
    <2>3. keys # {} /\ keys \in SUBSET Key
      BY QueueAssumption DEF WorkKeys
    <2>4. PICK k \in keys : k \in Key
      BY <2>3
    <2>5. <<stage + 1, k>> \in Job /\ <<stage + 1, k>> \in JobsOf(stage + 1)
      BY <2>2, <2>4 DEF Job, JobsOf
    <2>6. jstat[<<stage + 1, k>>] = "ABSENT"
      <3>1. <<stage + 1, k>>[1] > stage
        BY <1>2
      <3> QED BY <2>5, <3>1 DEF StageBarrier
    <2>7. jstat'[<<stage + 1, k>>] = "PENDING"
      BY <1>1, <1>2, <2>1, <2>4, <2>5, <2>6
    <2>8. \A j \in Job : j[1] < stage + 1 => jstat'[j] \in {"ABSENT", "SUCCEEDED"}
      <3> SUFFICES ASSUME NEW j \in Job, j[1] < stage + 1, j # cur[w]
                   PROVE  jstat'[j] \in {"ABSENT", "SUCCEEDED"}
        BY <1>1
      <3>1. jstat'[j] = jstat[j]
        BY <1>2, <1>3, <2>1
      <3>2. CASE j[1] < stage
        BY <3>1, <3>2 DEF StageBarrier
      <3>3. CASE j[1] = stage
        BY <1>5, <1>7, <3>1, <3>3 DEF JobsOf, Job, CommitStage
      <3> QED BY <1>2, <1>3, <3>2, <3>3
    <2>9. \A j \in Job : j[1] > stage + 1 => jstat'[j] = "ABSENT"
      <3> SUFFICES ASSUME NEW j \in Job, j[1] > stage + 1 PROVE jstat'[j] = "ABSENT"
        OBVIOUS
      <3>1. j[1] > stage /\ j # cur[w] /\ j \notin {stage + 1} \X keys
        BY <1>1, <1>2, <1>3
      <3> QED BY <2>1, <3>1 DEF StageBarrier
    <2> QED BY <2>2, <2>5, <2>7, <2>8, <2>9 DEF StageBarrier, JobsOf
  <1> QED BY <1>4, <1>6, <1>7 DEF Commits

-----------------------------------------------------------------------------

\* A created investigation has the jobs of its first stage.
LEMMA InitBarrierInv == Init => BarrierInv
  <1> SUFFICES ASSUME Init PROVE BarrierInv
    OBVIOUS
  <1>1. SoleWriter /\ WriterKnows /\ DoomReason
    BY DEF Init, SoleWriter, WriterKnows, DoomReason, WriterPc
  <1>2. StageBarrier
    <2>1. PICK keys \in WorkKeys(1) :
            jstat = [j \in Job |-> IF j \in {1} \X keys THEN "PENDING" ELSE "ABSENT"]
      BY DEF Init
    <2>2. keys # {} /\ keys \in SUBSET Key
      BY QueueAssumption DEF WorkKeys
    <2>3. PICK k \in keys : k \in Key
      BY <2>2
    <2>4. <<1, k>> \in Job /\ <<1, k>> \in JobsOf(1) /\ jstat[<<1, k>>] = "PENDING"
      BY <2>1, <2>3, JobParts DEF Job, JobsOf
    <2>5. \A j \in Job : j[1] \in Nat /\ j[1] >= 1
      BY JobParts, QueueAssumption DEF Stage
    <2>6. \A j \in Job : j[1] > 1 => jstat[j] = "ABSENT"
      BY <2>1
    <2>7. stage = 1 /\ status = "PENDING"
      BY DEF Init
    <2>8. \A j \in Job : j[1] < stage => jstat[j] \in {"ABSENT", "SUCCEEDED"}
      BY <2>5, <2>7
    <2> QED BY <2>4, <2>6, <2>7, <2>8 DEF StageBarrier
  <1> QED BY <1>1, <1>2, InitLockInv DEF BarrierInv, WriterInv

\* The invariant of the barrier is inductive.
LEMMA NextBarrierInv == BarrierInv /\ [Next]_vars => BarrierInv'
  <1> SUFFICES ASSUME BarrierInv, [Next]_vars PROVE BarrierInv'
    OBVIOUS
  <1> USE DEF BarrierInv
  <1>1. LockInv'
    BY NextLockInv DEF WriterInv
  <1>2. ASSUME NEW w \in Worker, Step(w) \/ Trouble(w) PROVE BarrierInv'
    BY <1>1, <1>2, StepWriters, OtherStepBarrier, CommitBarrier DEF WriterInv
  <1>3. CASE Idle
    <2>1. SoleWriter' /\ WriterKnows' /\ DoomReason'
      BY <1>3 DEF WriterInv, Idle, SoleWriter, WriterKnows, DoomReason, SiblingsDone, invVars, localVars
    <2>2. StageBarrier'
      BY <1>3 DEF Idle, StageBarrier, invVars
    <2> QED BY <1>1, <2>1, <2>2 DEF WriterInv
  <1> QED BY <1>2, <1>3, NextCases DEF WriterInv, LockInv

\* A stage gives way to the next exactly when the last of its jobs succeeds, for
\* any number of workers, stages and jobs: the lock that complete_stage_job takes
\* on the investigation row keeps what it saw of the other jobs true.
THEOREM StagesInOrder == Spec => []StageBarrier
  <1>1. BarrierInv => StageBarrier
    BY DEF BarrierInv
  <1> QED BY <1>1, InitBarrierInv, NextBarrierInv, PTL DEF Spec

\* Once the investigation has succeeded every job of it has, or was never there.
LEMMA SuccessMeansDone ==
  ASSUME BarrierInv, status = "SUCCEEDED", NEW j \in Job
  PROVE  Finished(j)
  <1>1. stage = LastStage /\ \A k \in JobsOf(stage) : Finished(k)
    BY DEF BarrierInv, StageBarrier, Finished
  <1>2. j[1] \in 1..LastStage /\ LastStage \in Nat
    BY JobParts, QueueAssumption DEF Stage
  <1>3. CASE j[1] = stage
    BY <1>1, <1>3 DEF JobsOf, Job
  <1>4. CASE j[1] < stage
    BY <1>4 DEF BarrierInv, StageBarrier, Finished
  <1> QED BY <1>1, <1>2, <1>3, <1>4

\* A claim that sweeps and grants nothing writes nothing.
LEMMA EmptyClaim ==
  ASSUME TypeOK, NEW w \in Worker, ClaimWrites(w, {}, {})
  PROVE  UNCHANGED jobVars
  <1>1. jstat' = jstat /\ attempts' = attempts /\ owner' = owner /\ lease' = lease /\ requests' = requests
    BY DEF ClaimWrites, TypeOK, JobTypes
  <1>2. outcome' = outcome
    BY DEF ClaimWrites, CloseAttempts, TypeOK, JobTypes
  <1>3. span' = span
    BY DEF ClaimWrites, CloseSpans, TypeOK, JobTypes
  <1>4. request' = request
    BY DEF ClaimWrites, CloseRequests, TypeOK, RequestTypes
  <1> QED BY <1>1, <1>2, <1>3, <1>4 DEF jobVars

\* After SUCCEEDED nothing of the investigation is written any more, although
\* claim_investigation_job updates the row without looking at its status.
THEOREM SuccessFinal == Spec => SuccessIsFinal
  <1>1. BarrierInv /\ [Next]_vars => [status = "SUCCEEDED" => UNCHANGED dbVars]_vars
    <2> SUFFICES ASSUME BarrierInv, [Next]_vars, status = "SUCCEEDED" PROVE UNCHANGED dbVars
      OBVIOUS
    <2>1. TypeOK /\ \A j \in Job : jstat[j] \notin {"PENDING", "RUNNING", "FAILED"}
      BY SuccessMeansDone DEF Finished, BarrierInv, WriterInv, LockInv
    <2>2. \A j \in Job : ~LeaseExpires(j)
      BY <2>1 DEF LeaseExpires
    <2>3. CASE LockCase \/ UNCHANGED vars
      BY <2>3 DEF LockCase, vars
    <2>4. ASSUME NEW w \in Worker, Step(w) \/ Trouble(w) PROVE UNCHANGED dbVars
      <3>0. cur[w] \in Job /\ jstat[cur[w]] # "RUNNING" /\ ~LeaseHeld(w, cur[w])
        BY <2>1 DEF LeaseHeld, TypeOK, SessionTypes
      <3>1. CASE Quiet(w)
        BY <3>1, QuietWrites
      <3>2. CASE ClaimNothing(w)
        <4>1. Expired = {}
          BY <2>1 DEF Expired
        <4> QED BY <2>1, <3>2, <4>1, EmptyClaim DEF ClaimNothing, dbVars
      <3>3. ~Commits(w)
        BY CommitFacts DEF BarrierInv
      <3>4. ~Grant(w)
        BY <2>1, <3>0 DEF Grant, BarrierInv, WriterInv, LockInv, LockedRows
      <3>5. ~Doom(w)
        <4> SUFFICES ASSUME pc[w] = "doom" PROVE FALSE
          BY DEF Doom
        <4>1. PICK j \in Job : jstat[j] = "FAILED" \/ j \in swept[w]
          BY DEF BarrierInv, WriterInv, DoomReason
        <4> QED BY <2>1, <4>1 DEF BarrierInv, WriterInv, LockInv, LockedRows, ClaimPc
      <3>6. ~StartSpan(w) /\ ~Reserve(w) /\ ~FinishSpan(w) /\ ~FailJob(w)
        BY <3>0 DEF StartSpan, Reserve, FinishSpan, FailJob
      <3>7. ~\E verdict \in {"SUCCEEDED", "REJECTED"} : FinishRequest(w, verdict)
        BY <3>0 DEF FinishRequest
      <3> QED BY <2>4, <3>1, <3>2, <3>3, <3>4, <3>5, <3>6, <3>7, StepCases DEF Writing, Commits
    <2> QED BY <2>2, <2>3, <2>4 DEF Next
  <1> QED BY <1>1, InitBarrierInv, NextBarrierInv, PTL DEF Spec, SuccessIsFinal

-----------------------------------------------------------------------------
(***************************************************************************)
(* Proofs about the rows that tell the history of a job: its attempts and  *)
(* their spans, and its model requests.  They are written by the session   *)
(* that owns the job, by the sweep after it, and by nobody in between.     *)
(***************************************************************************)

(***************************************************************************)
(* The inductive invariant.                                                *)
(***************************************************************************)

\* The rows of one job, as AttemptHistory and OpenRequestsOwned have them.
AttemptRows(j) ==
  \A n \in Attempt :
    /\ outcome[j][n] = "NONE" <=> n > attempts[j]
    /\ outcome[j][n] = "RUNNING" <=> n = attempts[j] /\ jstat[j] = "RUNNING"
    /\ outcome[j][n] \in {"SUCCEEDED", "FAILED"} => n = attempts[j] /\ jstat[j] = outcome[j][n]
    /\ span[j][n] = "RUNNING" => outcome[j][n] = "RUNNING"
    /\ span[j][n] = "SUCCEEDED" <=> outcome[j][n] = "SUCCEEDED"

RequestRows(j) ==
  \A n \in Request :
    request[j][n] = "RESERVED" => n = requests[j] /\ jstat[j] \in {"RUNNING", "FAILED"}

\* The session still owns the attempt it works on.
Mine(w) ==
  /\ jstat[cur[w]] = "RUNNING" /\ owner[cur[w]] = w
  /\ attempts[cur[w]] = att[w]

\* A persisting session owns its job, and what a claim is about to grant is
\* pending or one of the jobs it sweeps.
HeldAttempt(w) ==
  /\ pc[w] \in PersistPc => Mine(w)
  /\ pc[w] = "grant" => jstat[cur[w]] = "PENDING" \/ cur[w] \in swept[w]

\* The failure path has finished the span before it fails the job.
SpanFinished(w) ==
  pc[w] = "closing" /\ Mine(w) =>
    \A n \in Attempt : n = att[w] => span[cur[w]][n] # "RUNNING"

\* Outside of a call no request of the job at work is open.
Between == {"claimed", "working", "persist"} \cup PersistPc
NoneOpen(w) ==
  pc[w] \in Between /\ Mine(w) => \A n \in Request : request[cur[w]][n] # "RESERVED"

\* A call has an ordinal.
OrdinalHeld(w) == pc[w] \in {"reserved", "calling"} => ordinal[w] \in Request

SessionHistory(w) == HeldAttempt(w) /\ SpanFinished(w) /\ NoneOpen(w) /\ OrdinalHeld(w)

HistoryInv ==
  /\ LockInv
  /\ \A w \in Worker : SessionHistory(w)
  /\ \A j \in Job : AttemptRows(j) /\ RequestRows(j)

-----------------------------------------------------------------------------
(* Who owns a job.                                                         *)

\* A step of another session leaves every row of an owned job alone.
LEMMA OwnedRowsStay ==
  ASSUME LockInv, NEW w \in Worker, Step(w) \/ Trouble(w), NEW v \in Worker \ {w},
         NEW j \in Job, owner'[j] = v
  PROVE  /\ owner[j] = v /\ attempts'[j] = attempts[j]
         /\ \A n \in Attempt : span'[j][n] = span[j][n]
         /\ \A n \in Request : request'[j][n] = request[j][n]
  <1> USE DEF LockInv, TypeOK, JobTypes, RequestTypes, SessionTypes
  <1>0. v # NoWorker /\ v # w
    BY QueueAssumption
  <1>1. CASE Quiet(w)
    BY <1>1, QuietWrites DEF dbVars, jobVars
  <1>2. ASSUME NEW X \in SUBSET Job, NEW G \in SUBSET Job, ClaimWrites(w, X, G)
        PROVE  /\ owner[j] = v /\ attempts'[j] = attempts[j]
               /\ \A n \in Attempt : span'[j][n] = span[j][n]
               /\ \A n \in Request : request'[j][n] = request[j][n]
    <2>1. j \notin X /\ j \notin G /\ owner[j] = v
      BY <1>0, <1>2 DEF ClaimWrites
    <2> QED BY <1>2, <2>1 DEF ClaimWrites, CloseSpans, CloseRequests
  <1>3. CASE ClaimNothing(w) \/ Doom(w) \/ Grant(w)
    <2>1. /\ Expired \in SUBSET Job /\ swept[w] \in SUBSET Job
          /\ {} \in SUBSET Job /\ {cur[w]} \in SUBSET Job
      BY DEF Expired
    <2> QED BY <1>2, <1>3, <2>1 DEF ClaimNothing, Doom, Grant
  <1>4. CASE \/ StartSpan(w) \/ Reserve(w) \/ FinishSpan(w)
             \/ \E verdict \in {"SUCCEEDED", "REJECTED"} : FinishRequest(w, verdict)
    <2>1. owner' = owner /\ attempts' = attempts /\ owner[cur[w]] = w
      BY <1>4 DEF StartSpan, Reserve, FinishSpan, FinishRequest, LeaseHeld
    <2>2. j # cur[w]
      BY <1>0, <2>1
    <2>3. /\ \A n \in Attempt : span'[j][n] = span[j][n]
          /\ \A n \in Request : request'[j][n] = request[j][n]
      BY <1>4, <2>2 DEF StartSpan, Reserve, FinishSpan, FinishRequest
    <2> QED BY <2>1, <2>3
  <1>5. CASE FailJob(w)
    <2>1. j # cur[w]
      BY <1>0, <1>5 DEF FailJob
    <2> QED BY <1>5, <2>1 DEF FailJob
  <1>6. CASE CommitOne(w) \/ CommitStage(w) \/ CommitInvestigation(w)
    <2>1. Commit(w)
      BY <1>6 DEF CommitOne, CommitStage, CommitInvestigation
    <2>2. j # cur[w]
      BY <1>0, <2>1 DEF Commit
    <2> QED BY <2>1, <2>2 DEF Commit
  <1> QED BY <1>1, <1>3, <1>4, <1>5, <1>6, StepCases DEF Writing

\* The owner of a job is written by a session that holds the job or finds it free.
LEMMA OwnerWritten ==
  ASSUME LockInv, NEW w \in Worker, Step(w) \/ Trouble(w), NEW j \in Job
  PROVE  owner'[j] = owner[j] \/ HoldsJob(w, j) \/ JobFree(j)
  <1> USE DEF LockInv, TypeOK, JobTypes, SessionTypes
  <1>1. CASE Quiet(w)
    BY <1>1, QuietWrites DEF dbVars, jobVars
  <1>2. CASE ClaimNothing(w)
    BY <1>2 DEF ClaimNothing, ClaimWrites, Expired
  <1>3. CASE Doom(w)
    BY <1>3 DEF Doom, ClaimWrites, HoldsJob
  <1>4. CASE Grant(w)
    BY <1>4 DEF Grant, ClaimWrites, HoldsJob
  <1>5. CASE \/ StartSpan(w) \/ Reserve(w) \/ FinishSpan(w)
             \/ \E verdict \in {"SUCCEEDED", "REJECTED"} : FinishRequest(w, verdict)
    BY <1>5 DEF StartSpan, Reserve, FinishSpan, FinishRequest
  <1>6. CASE FailJob(w)
    BY <1>6 DEF FailJob
  <1>7. CASE CommitOne(w) \/ CommitStage(w) \/ CommitInvestigation(w)
    <2>1. Commit(w) /\ pc[w] \in WriterPc
      BY <1>7 DEF CommitOne, CommitStage, CommitInvestigation, WriterPc
    <2>2. HoldsJob(w, cur[w])
      BY <2>1 DEF HoldsJob, PersistPc
    <2> QED BY <2>1, <2>2 DEF Commit
  <1> QED BY <1>1, <1>2, <1>3, <1>4, <1>5, <1>6, <1>7, StepCases DEF Writing

-----------------------------------------------------------------------------
(* The rows of one job.                                                     *)

\* A step that touches none of the rows keeps them.
LEMMA RowsFrame ==
  ASSUME NEW j \in Job, AttemptRows(j), RequestRows(j),
         jstat'[j] = jstat[j], attempts'[j] = attempts[j], requests'[j] = requests[j],
         outcome'[j] = outcome[j], span'[j] = span[j], request'[j] = request[j]
  PROVE  AttemptRows(j)' /\ RequestRows(j)'
  BY DEF AttemptRows, RequestRows

\* A claim closes what it sweeps and opens the next attempt of what it grants.
LEMMA ClaimRows ==
  ASSUME LockInv, NEW w \in Worker, NEW j \in Job, AttemptRows(j), RequestRows(j),
         NEW X \in SUBSET Job, NEW G \in SUBSET Job, ClaimWrites(w, X, G),
         j \in X => jstat[j] = "RUNNING",
         j \in G => jstat[j] = "PENDING" \/ j \in X
  PROVE  /\ AttemptRows(j)' /\ RequestRows(j)'
         /\ j \in G => \A n \in Request : request'[j][n] # "RESERVED"
  <1> USE DEF LockInv, TypeOK, JobTypes, RequestTypes, Attempt, Request
  <1>0. /\ attempts[j] \in Nat /\ requests'[j] = requests[j]
        /\ \A n \in Attempt : n \in Nat
    BY QueueAssumption DEF ClaimWrites
  <1>1. /\ jstat'[j] = IF j \in G THEN "RUNNING"
                       ELSE IF j \notin X THEN jstat[j]
                       ELSE IF Spent(j) THEN "FAILED" ELSE "PENDING"
        /\ attempts'[j] = IF j \in G THEN attempts[j] + 1 ELSE attempts[j]
    BY DEF ClaimWrites
  <1>2. \A n \in Attempt :
          outcome'[j][n] = IF j \in X /\ n = attempts[j] THEN "LEASE_EXPIRED"
                           ELSE IF j \in G /\ n = attempts[j] + 1 THEN "RUNNING" ELSE outcome[j][n]
    BY DEF ClaimWrites, CloseAttempts
  <1>3. \A n \in Attempt :
          span'[j][n] = IF j \in X /\ n = attempts[j] /\ span[j][n] = "RUNNING"
                        THEN "FAILED" ELSE span[j][n]
    BY DEF ClaimWrites, CloseSpans
  <1>4. \A n \in Request :
          request'[j][n] = IF j \in X /\ request[j][n] = "RESERVED"
                           THEN "LEASE_EXPIRED" ELSE request[j][n]
    BY DEF ClaimWrites, CloseRequests
  <1>5. AttemptRows(j)'
    <2> SUFFICES ASSUME NEW n \in Attempt
        PROVE  /\ outcome'[j][n] = "NONE" <=> n > attempts'[j]
               /\ outcome'[j][n] = "RUNNING" <=> n = attempts'[j] /\ jstat'[j] = "RUNNING"
               /\ outcome'[j][n] \in {"SUCCEEDED", "FAILED"}
                    => n = attempts'[j] /\ jstat'[j] = outcome'[j][n]
               /\ span'[j][n] = "RUNNING" => outcome'[j][n] = "RUNNING"
               /\ span'[j][n] = "SUCCEEDED" <=> outcome'[j][n] = "SUCCEEDED"
      BY DEF AttemptRows
    <2>1. CASE j \in G
      <3>1. /\ n \in Nat /\ attempts[j] \in Nat
            /\ jstat'[j] = "RUNNING" /\ attempts'[j] = attempts[j] + 1
        BY <2>1, <1>0, <1>1
      <3>2. /\ outcome[j][n] = "NONE" <=> n > attempts[j]
            /\ outcome[j][n] \in {"RUNNING", "SUCCEEDED", "FAILED"} => n = attempts[j] /\ j \in X
            /\ span[j][n] = "RUNNING" => outcome[j][n] = "RUNNING"
            /\ span[j][n] = "SUCCEEDED" <=> outcome[j][n] = "SUCCEEDED"
        BY <2>1 DEF AttemptRows
      <3>3. outcome[j][n] = "SUCCEEDED" => jstat[j] = "SUCCEEDED"
        BY DEF AttemptRows
      <3>4. /\ outcome'[j][n] = "NONE" <=> n > attempts'[j]
            /\ outcome'[j][n] = "RUNNING" <=> n = attempts'[j]
            /\ outcome'[j][n] \notin {"SUCCEEDED", "FAILED"}
        BY <2>1, <1>2, <3>1, <3>2
      <3>5. span'[j][n] \notin {"RUNNING", "SUCCEEDED"}
        BY <2>1, <1>3, <3>1, <3>2, <3>3
      <3> QED BY <3>1, <3>4, <3>5
    <2>2. CASE j \notin G /\ j \in X
      BY <2>2, <1>0, <1>1, <1>2, <1>3 DEF AttemptRows
    <2>3. CASE j \notin G /\ j \notin X
      BY <2>3, <1>0, <1>1, <1>2, <1>3 DEF AttemptRows
    <2> QED BY <2>1, <2>2, <2>3
  <1>6. RequestRows(j)' /\ (j \in G => \A n \in Request : request'[j][n] # "RESERVED")
    BY <1>0, <1>1, <1>4 DEF RequestRows
  <1> QED BY <1>5, <1>6

\* A session that holds the lease owns the attempt it works on.
LEMMA HeldIsMine ==
  ASSUME NEW w \in Worker, LeaseHeld(w, cur[w])
  PROVE  Mine(w)
  BY DEF LeaseHeld, Mine

\* The span functions and the request functions keep the rows of every job.
LEMMA RequestStepRows ==
  ASSUME HistoryInv, NEW w \in Worker, NEW j \in Job,
         \/ StartSpan(w) \/ Reserve(w) \/ FinishSpan(w)
         \/ \E verdict \in {"SUCCEEDED", "REJECTED"} : FinishRequest(w, verdict)
  PROVE  AttemptRows(j)' /\ RequestRows(j)'
  <1> USE DEF HistoryInv, LockInv, TypeOK, JobTypes, RequestTypes, SessionTypes
  <1>1. CASE StartSpan(w) \/ FinishSpan(w)
    <2>1. /\ UNCHANGED <<jstat, attempts, requests, outcome, request>>
          /\ LeaseHeld(w, cur[w])
          /\ \E s \in {"RUNNING", "FAILED"} : span' = [span EXCEPT ![cur[w]][att[w]] = s]
      BY <1>1 DEF StartSpan, FinishSpan
    <2>2. RequestRows(j)'
      BY <2>1 DEF RequestRows
    <2>3. AttemptRows(j)'
      BY <2>1, HeldIsMine DEF AttemptRows, Mine
    <2> QED BY <2>2, <2>3
  <1>2. CASE Reserve(w)
    <2>1. /\ UNCHANGED <<jstat, attempts, outcome, span>>
          /\ LeaseHeld(w, cur[w]) /\ pc[w] = "working"
          /\ requests' = [requests EXCEPT ![cur[w]] = @ + 1]
          /\ request' = [request EXCEPT ![cur[w]][requests[cur[w]] + 1] = "RESERVED"]
      BY <1>2 DEF Reserve, NextOrdinal
    <2>2. AttemptRows(j)'
      BY <2>1 DEF AttemptRows
    <2>3. \A n \in Request : request[cur[w]][n] # "RESERVED"
      BY <2>1, HeldIsMine DEF SessionHistory, NoneOpen, Between
    <2>4. RequestRows(j)'
      <3>1. CASE j = cur[w]
        BY <3>1, <2>1, <2>3 DEF RequestRows, LeaseHeld
      <3>2. CASE j # cur[w]
        BY <3>2, <2>1 DEF RequestRows
      <3> QED BY <3>1, <3>2
    <2> QED BY <2>2, <2>4
  <1>3. CASE \E verdict \in {"SUCCEEDED", "REJECTED"} : FinishRequest(w, verdict)
    <2>1. PICK verdict \in {"SUCCEEDED", "REJECTED"} : FinishRequest(w, verdict)
      BY <1>3
    <2>2. /\ UNCHANGED <<jstat, attempts, outcome, span, requests>>
          /\ request' = [request EXCEPT ![cur[w]][ordinal[w]] = verdict]
      BY <2>1 DEF FinishRequest
    <2> QED BY <2>2 DEF AttemptRows, RequestRows
  <1> QED BY <1>1, <1>2, <1>3

\* fail_stage_job closes the attempt after its span.
LEMMA FailJobRows ==
  ASSUME HistoryInv, NEW w \in Worker, NEW j \in Job, FailJob(w)
  PROVE  AttemptRows(j)' /\ RequestRows(j)'
  <1> USE DEF HistoryInv, LockInv, TypeOK, JobTypes, SessionTypes
  <1>1. /\ UNCHANGED <<attempts, requests, span, request>>
        /\ jstat' = [jstat EXCEPT ![cur[w]] = "FAILED"]
        /\ outcome' = [outcome EXCEPT ![cur[w]][att[w]] = "FAILED"]
        /\ LeaseHeld(w, cur[w]) /\ pc[w] = "closing"
    BY DEF FailJob
  <1>2. CASE j # cur[w]
    BY <1>1, <1>2, RowsFrame
  <1>3. CASE j = cur[w]
    <2>1. att[w] = attempts[j] /\ jstat[j] = "RUNNING" /\ jstat'[j] = "FAILED"
      BY <1>1, <1>3 DEF LeaseHeld
    <2>2. \A n \in Attempt : outcome'[j][n] = IF n = attempts[j] THEN "FAILED" ELSE outcome[j][n]
      BY <1>1, <1>3, <2>1
    <2>3. \A n \in Attempt : n = attempts[j] => span[j][n] # "RUNNING"
      BY <1>1, <1>3, <2>1, HeldIsMine DEF SessionHistory, SpanFinished
    <2>4. RequestRows(j)'
      BY <1>1, <2>1 DEF RequestRows
    <2>5. AttemptRows(j)'
      BY <1>1, <2>1, <2>2, <2>3, QueueAssumption DEF AttemptRows, Attempt
    <2> QED BY <2>4, <2>5
  <1> QED BY <1>2, <1>3

\* A commit closes the attempt and the span together, with no request open.
LEMMA CommitRows ==
  ASSUME HistoryInv, NEW w \in Worker, NEW j \in Job,
         CommitOne(w) \/ CommitStage(w) \/ CommitInvestigation(w)
  PROVE  AttemptRows(j)' /\ RequestRows(j)'
  <1> USE DEF HistoryInv, LockInv, TypeOK, JobTypes, SessionTypes
  <1>1. Commit(w) /\ pc[w] \in PersistPc
    BY DEF CommitOne, CommitStage, CommitInvestigation, PersistPc, WriterPc
  <1>2. Mine(w)
    BY <1>1 DEF SessionHistory, HeldAttempt
  <1>3. /\ UNCHANGED <<attempts, requests, request>>
        /\ outcome' = [outcome EXCEPT ![cur[w]][att[w]] = "SUCCEEDED"]
        /\ span' = [span EXCEPT ![cur[w]][att[w]] = "SUCCEEDED"]
    BY <1>1 DEF Commit
  <1>4. /\ jstat'[cur[w]] = "SUCCEEDED"
        /\ j # cur[w] => jstat'[j] = jstat[j] \/ (jstat[j] = "ABSENT" /\ jstat'[j] = "PENDING")
    BY DEF CommitOne, CommitStage, CommitInvestigation
  <1>5. CASE j # cur[w]
    BY <1>3, <1>4, <1>5 DEF AttemptRows, RequestRows
  <1>6. CASE j = cur[w]
    <2>1. att[w] = attempts[j] /\ jstat[j] = "RUNNING" /\ jstat'[j] = "SUCCEEDED"
      BY <1>2, <1>4, <1>6 DEF Mine
    <2>2. \A n \in Attempt :
            /\ outcome'[j][n] = IF n = attempts[j] THEN "SUCCEEDED" ELSE outcome[j][n]
            /\ span'[j][n] = IF n = attempts[j] THEN "SUCCEEDED" ELSE span[j][n]
      BY <1>3, <1>6, <2>1
    <2>3. RequestRows(j)'
      BY <1>1, <1>2, <1>3, <1>6 DEF RequestRows, SessionHistory, NoneOpen, Between
    <2>4. AttemptRows(j)'
      BY <1>3, <2>1, <2>2, QueueAssumption DEF AttemptRows, Attempt
    <2> QED BY <2>3, <2>4
  <1> QED BY <1>5, <1>6

\* Every step of a session keeps the rows of every job.
LEMMA StepJobRows ==
  ASSUME HistoryInv, NEW w \in Worker, Step(w) \/ Trouble(w), NEW j \in Job
  PROVE  AttemptRows(j)' /\ RequestRows(j)'
  <1> USE DEF HistoryInv, LockInv, TypeOK, SessionTypes
  <1>1. CASE Quiet(w)
    BY <1>1, QuietWrites, RowsFrame DEF dbVars, jobVars
  <1>2. CASE ClaimNothing(w)
    <2>1. Expired \in SUBSET Job /\ \A i \in Expired : jstat[i] = "RUNNING"
      BY DEF Expired
    <2> QED BY <1>2, <2>1, ClaimRows DEF ClaimNothing
  <1>3. CASE Doom(w)
    <2>1. swept[w] \in SUBSET Job /\ \A i \in swept[w] : jstat[i] = "RUNNING"
      BY <1>3 DEF Doom, LockedRows, ClaimPc
    <2> QED BY <1>3, <2>1, ClaimRows DEF Doom
  <1>4. CASE Grant(w)
    <2>1. swept[w] \in SUBSET Job /\ \A i \in swept[w] : jstat[i] = "RUNNING"
      BY <1>4 DEF Grant, LockedRows, ClaimPc
    <2>2. jstat[cur[w]] = "PENDING" \/ cur[w] \in swept[w]
      BY <1>4 DEF Grant, SessionHistory, HeldAttempt
    <2>3. {cur[w]} \in SUBSET Job
      OBVIOUS
    <2> QED BY <1>4, <2>1, <2>2, <2>3, ClaimRows DEF Grant
  <1> QED BY <1>1, <1>2, <1>3, <1>4, StepCases, RequestStepRows, FailJobRows, CommitRows DEF Writing

-----------------------------------------------------------------------------
(* What the sessions know.                                                  *)

\* What a session knows stays true while the others work.
LEMMA OtherSessions ==
  ASSUME HistoryInv, NEW w \in Worker, Step(w) \/ Trouble(w), NEW v \in Worker \ {w}
  PROVE  SessionHistory(v)'
  <1> USE DEF HistoryInv, LockInv, TypeOK, JobTypes, SessionTypes
  <1>0. /\ pc'[v] = pc[v] /\ cur'[v] = cur[v] /\ att'[v] = att[v] /\ swept'[v] = swept[v]
        /\ ordinal'[v] = ordinal[v] /\ cur[v] \in Job /\ v # NoWorker
    BY StepTypes, QueueAssumption DEF OthersStay
  <1>1. ASSUME Mine(v)'
        PROVE  /\ Mine(v)
               /\ \A n \in Attempt : span'[cur[v]][n] = span[cur[v]][n]
               /\ \A n \in Request : request'[cur[v]][n] = request[cur[v]][n]
    <2>1. owner'[cur[v]] = v /\ attempts'[cur[v]] = att[v]
      BY <1>0, <1>1 DEF Mine
    <2>2. /\ owner[cur[v]] = v /\ attempts'[cur[v]] = attempts[cur[v]]
          /\ \A n \in Attempt : span'[cur[v]][n] = span[cur[v]][n]
          /\ \A n \in Request : request'[cur[v]][n] = request[cur[v]][n]
      BY <1>0, <2>1, OwnedRowsStay
    <2>3. jstat[cur[v]] = "RUNNING"
      BY <1>0, <2>2 DEF WorkerIdIffRunning
    <2> QED BY <2>1, <2>2, <2>3 DEF Mine
  <1>2. ASSUME pc[v] \in PersistPc PROVE Mine(v)'
    <2>1. Mine(v) /\ HoldsJob(v, cur[v])
      BY <1>2 DEF SessionHistory, HeldAttempt, HoldsJob
    <2>2. jstat'[cur[v]] = jstat[cur[v]] /\ attempts'[cur[v]] = attempts[cur[v]]
      BY <1>0, <2>1, HeldRowStays DEF Mine
    <2>3. owner'[cur[v]] = owner[cur[v]]
      BY <1>0, <2>1, OwnerWritten DEF LocksExclusive, JobFree
    <2> QED BY <1>0, <2>1, <2>2, <2>3 DEF Mine
  <1>3. ASSUME pc[v] = "grant" PROVE jstat'[cur[v]] = "PENDING" \/ cur[v] \in swept[v]
    <2>1. HoldsJob(v, cur[v])
      BY <1>3 DEF HoldsJob
    <2> QED BY <1>0, <1>3, <2>1, HeldRowStays DEF SessionHistory, HeldAttempt
  <1>4. /\ pc'[v] \in PersistPc => Mine(v)'
        /\ pc'[v] = "grant" => jstat'[cur'[v]] = "PENDING" \/ cur'[v] \in swept'[v]
    BY <1>0, <1>2, <1>3
  <1>5. pc'[v] = "closing" /\ Mine(v)'
          => \A n \in Attempt : n = att'[v] => span'[cur'[v]][n] # "RUNNING"
    <2> SUFFICES ASSUME pc'[v] = "closing", Mine(v)', NEW n \in Attempt, n = att'[v]
                 PROVE  span'[cur'[v]][n] # "RUNNING"
      OBVIOUS
    <2>1. span[cur[v]][n] # "RUNNING"
      BY <1>0, <1>1 DEF SessionHistory, SpanFinished
    <2> QED BY <1>0, <1>1, <2>1
  <1>6. pc'[v] \in Between /\ Mine(v)' => \A n \in Request : request'[cur'[v]][n] # "RESERVED"
    BY <1>0, <1>1 DEF SessionHistory, NoneOpen
  <1>7. OrdinalHeld(v)'
    BY <1>0 DEF SessionHistory, OrdinalHeld
  <1> QED
    BY <1>4, <1>5, <1>6, <1>7 DEF SessionHistory, HeldAttempt, SpanFinished, NoneOpen, OrdinalHeld

\* A session that leaves knows nothing.
LEMMA IdleSession ==
  ASSUME NEW v \in Worker, pc[v] = "idle"
  PROVE  SessionHistory(v)
  BY DEF SessionHistory, HeldAttempt, SpanFinished, NoneOpen, OrdinalHeld, Between, PersistPc,
     WriterPc

\* A quiet step of a session adds to what it knows only what it has just read.
LEMMA QuietSession ==
  ASSUME HistoryInv, NEW w \in Worker, Quiet(w)
  PROVE  SessionHistory(w)'
  <1> USE DEF HistoryInv, LockInv, TypeOK, SessionTypes, Goto, localVars, Between, PersistPc,
              WriterPc
  <1>0. UNCHANGED <<jstat, attempts, owner, span, request>>
    BY QuietWrites DEF dbVars, jobVars
  <1>1. CASE ClaimRefused(w) \/ LeaseLost(w) \/ Crash(w)
    <2>1. pc'[w] = "idle"
      BY <1>1, LeaveOthers DEF ClaimRefused, LeaseLost, Crash
    <2> QED BY <2>1 DEF SessionHistory, HeldAttempt, SpanFinished, NoneOpen, OrdinalHeld
  <1>2. CASE \/ ClaimRead(w) \/ ClaimDooms(w) \/ StageFails(w) \/ AuditFails(w)
             \/ CallModel(w) \/ Rejected(w)
    <2>1. /\ pc'[w] \in {"claim", "doom", "failing", "calling"}
          /\ pc'[w] = "calling" => pc[w] = "reserved" /\ ordinal'[w] = ordinal[w]
      BY <1>2 DEF ClaimRead, ClaimDooms, StageFails, AuditFails, CallModel, Rejected
    <2> QED BY <2>1 DEF SessionHistory, HeldAttempt, SpanFinished, NoneOpen, OrdinalHeld
  <1>3. CASE ClaimPicks(w)
    <2>1. /\ pc'[w] = "grant" /\ cur'[w] \in Claimable(w, Expired) /\ swept'[w] = Expired
      BY <1>3 DEF ClaimPicks
    <2>2. jstat'[cur'[w]] = "PENDING" \/ cur'[w] \in swept'[w]
      BY <1>0, <2>1 DEF Claimable
    <2> QED BY <2>1, <2>2 DEF SessionHistory, HeldAttempt, SpanFinished, NoneOpen, OrdinalHeld
  <1>4. CASE \/ Deterministic(w) \/ FenceJob(w) \/ FenceInvestigation(w)
             \/ LockInvestigation(w) \/ Complete(w)
    <2>1. /\ cur'[w] = cur[w] /\ att'[w] = att[w] /\ pc[w] \in Between
          /\ pc'[w] \notin {"grant", "closing", "reserved", "calling"}
          /\ pc'[w] \in PersistPc => pc[w] \in PersistPc \/ LeaseHeld(w, cur[w])
      BY <1>4 DEF Deterministic, FenceJob, FenceInvestigation, LockInvestigation, Complete
    <2>2. Mine(w)' <=> Mine(w)
      BY <1>0, <2>1 DEF Mine
    <2>3. pc'[w] \in PersistPc => Mine(w)'
      BY <2>1, <2>2, HeldIsMine DEF SessionHistory, HeldAttempt
    <2>4. Mine(w)' => \A n \in Request : request'[cur'[w]][n] # "RESERVED"
      BY <1>0, <2>1, <2>2 DEF SessionHistory, NoneOpen
    <2> QED BY <2>1, <2>3, <2>4 DEF SessionHistory, HeldAttempt, SpanFinished, NoneOpen, OrdinalHeld
  <1> QED BY <1>1, <1>2, <1>3, <1>4 DEF Quiet

\* A writing step leaves its session with what it has just written.
LEMMA WritingSession ==
  ASSUME HistoryInv, NEW w \in Worker, Writing(w)
  PROVE  SessionHistory(w)'
  <1> USE DEF HistoryInv, LockInv, TypeOK, JobTypes, RequestTypes, SessionTypes, Goto, localVars,
              Between, PersistPc, WriterPc
  <1>1. CASE \/ ClaimNothing(w) \/ Doom(w) \/ FailJob(w)
             \/ CommitOne(w) \/ CommitStage(w) \/ CommitInvestigation(w)
    <2>1. Leave(w)
      BY <1>1 DEF ClaimNothing, Doom, FailJob, CommitOne, CommitStage, CommitInvestigation, Commit
    <2>2. pc'[w] = "idle"
      BY <2>1, LeaveOthers
    <2> QED BY <2>2 DEF SessionHistory, HeldAttempt, SpanFinished, NoneOpen, OrdinalHeld
  <1>2. CASE Grant(w)
    <2>1. swept[w] \in SUBSET Job /\ \A i \in swept[w] : jstat[i] = "RUNNING"
      BY <1>2 DEF Grant, LockedRows, ClaimPc
    <2>2. {cur[w]} \in SUBSET Job /\ cur[w] \in Job /\ AttemptRows(cur[w]) /\ RequestRows(cur[w])
      OBVIOUS
    <2>3. jstat[cur[w]] = "PENDING" \/ cur[w] \in swept[w]
      BY <1>2 DEF Grant, SessionHistory, HeldAttempt
    <2>4. \A n \in Request : request'[cur[w]][n] # "RESERVED"
      BY <1>2, <2>1, <2>2, <2>3, ClaimRows DEF Grant
    <2>5. pc'[w] = "claimed" /\ cur'[w] = cur[w]
      BY <1>2 DEF Grant
    <2> QED BY <2>4, <2>5 DEF SessionHistory, HeldAttempt, SpanFinished, NoneOpen, OrdinalHeld
  <1>3. CASE StartSpan(w)
    <2>1. /\ pc[w] = "claimed" /\ pc'[w] = "working" /\ cur'[w] = cur[w]
          /\ request' = request /\ Mine(w)
      BY <1>3, HeldIsMine DEF StartSpan
    <2> QED BY <2>1 DEF SessionHistory, HeldAttempt, SpanFinished, NoneOpen, OrdinalHeld
  <1>4. CASE Reserve(w)
    <2>1. /\ pc'[w] = "reserved" /\ ordinal'[w] = requests[cur[w]] + 1
          /\ requests[cur[w]] < MaxRequests /\ requests[cur[w]] \in 0..MaxRequests
      BY <1>4 DEF Reserve, NextOrdinal
    <2>2. ordinal'[w] \in Request
      BY <2>1, QueueAssumption DEF Request
    <2> QED BY <2>1, <2>2 DEF SessionHistory, HeldAttempt, SpanFinished, NoneOpen, OrdinalHeld
  <1>5. CASE FinishSpan(w)
    <2>1. /\ pc'[w] = "closing" /\ cur'[w] = cur[w] /\ att'[w] = att[w]
          /\ span' = [span EXCEPT ![cur[w]][att[w]] = "FAILED"]
      BY <1>5 DEF FinishSpan
    <2>2. \A n \in Attempt : n = att[w] => span'[cur[w]][n] = "FAILED"
      BY <2>1
    <2> QED BY <2>1, <2>2 DEF SessionHistory, HeldAttempt, SpanFinished, NoneOpen, OrdinalHeld
  <1>6. CASE \E verdict \in {"SUCCEEDED", "REJECTED"} : FinishRequest(w, verdict)
    <2>1. PICK verdict \in {"SUCCEEDED", "REJECTED"} : FinishRequest(w, verdict)
      BY <1>6
    <2>2. /\ request[cur[w]][ordinal[w]] = "RESERVED" /\ cur'[w] = cur[w]
          /\ request' = [request EXCEPT ![cur[w]][ordinal[w]] = verdict]
          /\ pc'[w] \in {"persist", "working", "failing"}
      BY <2>1 DEF FinishRequest
    <2>3. \A n \in Request : request'[cur[w]][n] # "RESERVED"
      <3>1. \A n \in Request : request[cur[w]][n] = "RESERVED" => n = requests[cur[w]]
        BY DEF RequestRows
      <3>2. ordinal[w] \in Request
        BY <2>1 DEF FinishRequest, SessionHistory, OrdinalHeld
      <3> QED BY <2>2, <3>1, <3>2
    <2> QED BY <2>2, <2>3 DEF SessionHistory, HeldAttempt, SpanFinished, NoneOpen, OrdinalHeld
  <1> QED BY <1>1, <1>2, <1>3, <1>4, <1>5, <1>6 DEF Writing

-----------------------------------------------------------------------------

\* The invariant of the job history holds initially.
LEMMA InitHistory == Init => HistoryInv
  <1> SUFFICES ASSUME Init PROVE HistoryInv
    OBVIOUS
  <1>1. \A w \in Worker : SessionHistory(w)
    BY IdleSession DEF Init
  <1>2. ASSUME NEW j \in Job PROVE AttemptRows(j) /\ RequestRows(j)
    <2>1. /\ jstat[j] \in {"PENDING", "ABSENT"} /\ attempts[j] = 0
          /\ \A n \in Attempt : outcome[j][n] = "NONE" /\ span[j][n] = "NONE"
          /\ \A n \in Request : request[j][n] = "NONE"
      BY DEF Init
    <2> QED BY <2>1, QueueAssumption DEF AttemptRows, RequestRows, Attempt
  <1> QED BY <1>1, <1>2, InitLockInv DEF HistoryInv

\* The invariant of the job history is inductive.
LEMMA NextHistory == HistoryInv /\ [Next]_vars => HistoryInv'
  <1> SUFFICES ASSUME HistoryInv, [Next]_vars PROVE HistoryInv'
    OBVIOUS
  <1>1. LockInv' /\ TypeOK
    BY NextLockInv DEF HistoryInv, LockInv
  <1>2. ASSUME NEW w \in Worker, Step(w) \/ Trouble(w) PROVE HistoryInv'
    <2>1. SessionHistory(w)'
      BY <1>2, StepCases, QuietSession, WritingSession
    <2>2. \A v \in Worker \ {w} : SessionHistory(v)'
      BY <1>2, OtherSessions
    <2>3. \A j \in Job : AttemptRows(j)' /\ RequestRows(j)'
      BY <1>2, StepJobRows
    <2> QED BY <1>1, <2>1, <2>2, <2>3 DEF HistoryInv
  <1>3. CASE Idle
    <2>1. \A w \in Worker : SessionHistory(w)'
      BY <1>3 DEF Idle, localVars, HistoryInv, SessionHistory, HeldAttempt, SpanFinished, NoneOpen,
         OrdinalHeld, Mine
    <2>2. \A j \in Job : AttemptRows(j)' /\ RequestRows(j)'
      BY <1>3, RowsFrame DEF Idle, HistoryInv
    <2> QED BY <1>1, <2>1, <2>2 DEF HistoryInv
  <1> QED BY <1>1, <1>2, <1>3, NextCases

\* The attempt rows and their spans tell the history of the job: the sweep of
\* claim_investigation_job, complete_stage_job and fail_stage_job each close
\* exactly the attempt that is open, with its span, however many workers lost it.
THEOREM AttemptsTold == Spec => []AttemptHistory
  <1>1. HistoryInv => AttemptHistory
    BY DEF HistoryInv, AttemptRows, AttemptHistory
  <1> QED BY <1>1, InitHistory, NextHistory, PTL DEF Spec

\* A request that a worker leaves open is closed by the sweep before the job can
\* run again, and reserve_model_request never finds another one open.
THEOREM RequestsOwned == Spec => []OpenRequestsOwned
  <1>1. HistoryInv => OpenRequestsOwned
    BY DEF HistoryInv, RequestRows, OpenRequestsOwned
  <1> QED BY <1>1, InitHistory, NextHistory, PTL DEF Spec
=============================================================================
