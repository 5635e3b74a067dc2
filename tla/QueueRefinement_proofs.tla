----------------------- MODULE QueueRefinement_proofs -----------------------
(***************************************************************************)
(* The queue as its log shows it: the rows of the investigation only take  *)
(* the steps of the abstract investigation, every job has its result in    *)
(* the log once, and the log replays to the row.                           *)
(***************************************************************************)
EXTENDS InvestigationQueue_proofs, QueueRefinement, FiniteSetTheorems, Loops

(***************************************************************************)
(* What a claim read of the counters of the jobs it swept: it grants only  *)
(* when none of them is spent, and fails the investigation only for a job  *)
(* that is failed or spent.                                                *)
(***************************************************************************)
ClaimKnows ==
  \A w \in Worker :
    /\ pc[w] = "grant" => \A j \in swept[w] : ~Spent(j)
    /\ pc[w] = "doom" => \E j \in Job : jstat[j] = "FAILED" \/ (j \in swept[w] /\ Spent(j))

\* Nothing was claimed before the investigation is set running.
Unstarted == status = "PENDING" => stage = 1 /\ \A j \in Job : jstat[j] \in {"ABSENT", "PENDING"}

\* A stage of the whole case has no other job.
CaseJobs == \A j \in Job : j[1] \in CaseStage /\ jstat[j] # "ABSENT" => j[2] = CaseKey

QueueInv == BarrierInv /\ NoTxOnceLocked /\ ClaimKnows /\ Unstarted /\ CaseJobs

-----------------------------------------------------------------------------
(* The invariant is inductive.                                              *)

\* The requests of a job that another session has locked stay counted as they were.
LEMMA HeldRequests ==
  ASSUME TypeOK, NEW w \in Worker, Step(w) \/ Trouble(w), NEW j \in Job, ~JobFree(j)
  PROVE  requests'[j] = requests[j]
  <1>1. CASE Reserve(w)
    <2>1. requests' = [requests EXCEPT ![cur[w]] = @ + 1] /\ j # cur[w]
      BY <1>1 DEF Reserve
    <2> QED BY <2>1 DEF TypeOK, RequestTypes
  <1>2. CASE CallModel(w)
    BY <1>2 DEF CallModel, dbVars, jobVars
  <1> QED BY <1>1, <1>2, BudgetFrame

\* The only way to the point where a claim commits its grant.
LEMMA GrantArrives ==
  ASSUME TypeOK, NEW w \in Worker, Step(w) \/ Trouble(w), pc'[w] = "grant"
  PROVE  ClaimPicks(w)
  <1> USE DEF TypeOK, SessionTypes, Goto, localVars
  <1>1. ~Leave(w)
    BY LeaveOthers
  <1>2. ~\/ ClaimRefused(w) \/ LeaseLost(w) \/ Crash(w) \/ ClaimNothing(w) \/ Doom(w)
         \/ FailJob(w) \/ CommitOne(w) \/ CommitStage(w) \/ CommitInvestigation(w)
    BY <1>1 DEF ClaimRefused, LeaseLost, Crash, ClaimNothing, Doom, FailJob, CommitOne,
       CommitStage, CommitInvestigation, Commit
  <1>3. ~\/ Grant(w) \/ StartSpan(w) \/ FinishSpan(w) \/ Reserve(w) \/ ClaimRead(w) \/ ClaimDooms(w)
    BY DEF Grant, StartSpan, FinishSpan, Reserve, ClaimRead, ClaimDooms
  <1>4. ~\E verdict \in {"SUCCEEDED", "REJECTED"} : FinishRequest(w, verdict)
    BY DEF FinishRequest
  <1>5. ~\/ Deterministic(w) \/ StageFails(w) \/ AuditFails(w) \/ CallModel(w) \/ Rejected(w)
         \/ FenceJob(w) \/ FenceInvestigation(w) \/ LockInvestigation(w) \/ Complete(w)
    BY DEF Deterministic, StageFails, AuditFails, CallModel, Rejected, FenceJob,
       FenceInvestigation, LockInvestigation, Complete
  <1> QED BY StepCases, <1>2, <1>3, <1>4, <1>5 DEF Quiet, Writing

\* What a claim decided on stays true until it commits.
LEMMA StepClaimKnows ==
  ASSUME LockInv, ClaimKnows, NEW w \in Worker, Step(w) \/ Trouble(w)
  PROVE  ClaimKnows'
  <1> USE DEF LockInv
  <1>0. OthersStay(w)
    BY StepTypes
  <1>1. ASSUME NEW v \in Worker \ {w}, pc[v] \in ClaimPc, NEW j \in swept[v]
        PROVE  jstat'[j] = jstat[j] /\ (Spent(j)' <=> Spent(j))
    <2>1. j \in Job /\ HoldsJob(v, j) /\ jstat[j] = "RUNNING" /\ ~JobFree(j)
      BY <1>1 DEF TypeOK, SessionTypes, HoldsJob, LockedRows, ClaimPc, JobFree
    <2>2. jstat'[j] = jstat[j] /\ attempts'[j] = attempts[j] /\ requests'[j] = requests[j]
      BY <2>1, HeldRowStays, HeldRequests
    <2> QED BY <2>2 DEF Spent
  <1>2. ASSUME NEW v \in Worker \ {w}
        PROVE  /\ pc'[v] = "grant" => \A j \in swept'[v] : ~Spent(j)'
               /\ pc'[v] = "doom" => \E j \in Job : jstat'[j] = "FAILED" \/ (j \in swept'[v] /\ Spent(j)')
    <2>1. pc'[v] = pc[v] /\ swept'[v] = swept[v]
      BY <1>0 DEF OthersStay
    <2>2. pc[v] = "grant" => \A j \in swept[v] : ~Spent(j)'
      BY <1>1 DEF ClaimKnows, ClaimPc
    <2>3. ASSUME pc[v] = "doom"
          PROVE  \E j \in Job : jstat'[j] = "FAILED" \/ (j \in swept[v] /\ Spent(j)')
      <3>1. PICK j \in Job : jstat[j] = "FAILED" \/ (j \in swept[v] /\ Spent(j))
        BY <2>3 DEF ClaimKnows
      <3>2. CASE jstat[j] = "FAILED"
        BY <3>2, StepRows DEF RowStep
      <3>3. CASE j \in swept[v] /\ Spent(j)
        BY <1>1, <2>3, <3>3 DEF ClaimPc
      <3> QED BY <3>1, <3>2, <3>3
    <2> QED BY <2>1, <2>2, <2>3
  <1>3. /\ pc'[w] = "grant" => \A j \in swept'[w] : ~Spent(j)'
        /\ pc'[w] = "doom" => \E j \in Job : jstat'[j] = "FAILED" \/ (j \in swept'[w] /\ Spent(j)')
    <2>1. ASSUME pc'[w] = "grant" PROVE \A j \in swept'[w] : ~Spent(j)'
      <3>1. ClaimPicks(w)
        BY <2>1, GrantArrives
      <3>2. swept'[w] = Expired /\ UNCHANGED <<attempts, requests>>
        BY <3>1 DEF ClaimPicks, TypeOK, SessionTypes, dbVars, jobVars
      <3>3. \A j \in Expired : ~Spent(j)
        BY <3>1 DEF ClaimPicks, AnyFailed, Expired
      <3> QED BY <3>2, <3>3 DEF Spent
    <2>2. ASSUME pc'[w] = "doom"
          PROVE  \E j \in Job : jstat'[j] = "FAILED" \/ (j \in swept'[w] /\ Spent(j)')
      <3>1. ClaimDooms(w)
        BY <2>2, Arrives DEF LockInvestigation, Complete, Goto, TypeOK, SessionTypes
      <3>2. swept'[w] = Expired /\ UNCHANGED <<jstat, attempts, requests>>
        BY <3>1 DEF ClaimDooms, TypeOK, SessionTypes, dbVars, jobVars
      <3>3. \E j \in Job : jstat[j] = "FAILED" \/ (j \in Expired /\ Spent(j))
        BY <3>1 DEF ClaimDooms, AnyFailed
      <3> QED BY <3>2, <3>3 DEF Spent
    <2> QED BY <2>1, <2>2
  <1> QED BY <1>2, <1>3 DEF ClaimKnows

\* A step that leaves the investigation pending claims nothing.
LEMMA StepUnstarted ==
  ASSUME BarrierInv, ClaimKnows, Unstarted, NEW w \in Worker, Step(w) \/ Trouble(w)
  PROVE  Unstarted'
  <1> USE DEF BarrierInv, WriterInv, LockInv
  <1> SUFFICES ASSUME status' = "PENDING"
               PROVE  stage' = 1 /\ \A j \in Job : jstat'[j] \in {"ABSENT", "PENDING"}
    BY DEF Unstarted
  <1>0. cur[w] \in Job /\ swept[w] \in SUBSET Job
    BY DEF TypeOK, SessionTypes
  <1>1. ~Commits(w) /\ ~Doom(w) /\ ~Grant(w) /\ ~FailJob(w)
    BY CommitFacts DEF Commits, CommitOne, CommitStage, CommitInvestigation, Doom, Grant, FailJob
  <1>2. UNCHANGED <<status, stage>>
    <2>1. CASE Quiet(w)
      BY <2>1, QuietWrites DEF dbVars, invVars
    <2>2. CASE Writing(w)
      BY <1>1, <2>2 DEF Writing, Commits, ClaimNothing, StartSpan, Reserve, FinishRequest,
         FinishSpan, invVars
    <2> QED BY <2>1, <2>2, StepCases
  <1>3. stage = 1 /\ \A j \in Job : jstat[j] \in {"ABSENT", "PENDING"}
    BY <1>2 DEF Unstarted
  <1>4. Expired = {}
    BY <1>3 DEF Expired
  <1>5. jstat' = jstat
    <2>1. CASE Quiet(w)
      BY <2>1, QuietWrites DEF dbVars, jobVars
    <2>2. CASE ClaimNothing(w)
      BY <1>4, <2>2, EmptyClaim DEF ClaimNothing, jobVars
    <2>3. CASE Writing(w) /\ ~ClaimNothing(w)
      BY <1>1, <2>3 DEF Writing, Commits, StartSpan, Reserve, FinishRequest, FinishSpan
    <2> QED BY <2>1, <2>2, <2>3, StepCases
  <1> QED BY <1>2, <1>3, <1>5

\* The jobs that are enqueued are those of the work keys of the stage.
LEMMA StepCaseJobs ==
  ASSUME BarrierInv, CaseJobs, NEW w \in Worker, Step(w) \/ Trouble(w)
  PROVE  CaseJobs'
  <1> USE DEF BarrierInv, WriterInv, LockInv
  <1>1. CASE ~Commits(w)
    BY <1>1, OtherSteps DEF CaseJobs
  <1>2. CASE CommitOne(w) \/ CommitInvestigation(w)
    <2>1. jstat' = [jstat EXCEPT ![cur[w]] = "SUCCEEDED"] /\ jstat[cur[w]] # "ABSENT" /\ cur[w] \in Job
      BY <1>2, CommitFacts DEF Commits, CommitOne, CommitInvestigation, LockedRows, PersistPc
    <2> QED BY <2>1 DEF CaseJobs, TypeOK, JobTypes
  <1>3. CASE CommitStage(w)
    <2>1. jstat[cur[w]] # "ABSENT" /\ cur[w] \in Job
      BY <1>3, CommitFacts DEF Commits, LockedRows, PersistPc
    <2>2. PICK keys \in WorkKeys(cur[w][1] + 1) :
             jstat' = [j \in Job |-> IF j = cur[w] THEN "SUCCEEDED"
                                     ELSE IF j \in {cur[w][1] + 1} \X keys /\ jstat[j] = "ABSENT"
                                     THEN "PENDING" ELSE jstat[j]]
      BY <1>3 DEF CommitStage
    <2>3. \A j \in {cur[w][1] + 1} \X keys : j[1] \in CaseStage => j[2] = CaseKey
      BY <2>2 DEF WorkKeys
    <2> QED BY <2>1, <2>2, <2>3 DEF CaseJobs
  <1> QED BY <1>1, <1>2, <1>3 DEF Commits

\* The invariant of the queue holds initially.
LEMMA InitQueueInv == Init => QueueInv
  <1> SUFFICES ASSUME Init PROVE NoTxOnceLocked /\ ClaimKnows /\ Unstarted /\ CaseJobs
    BY InitBarrierInv DEF QueueInv
  <1>1. \A w \in Worker : pc[w] = "idle"
    BY DEF Init
  <1>2. CaseJobs
    BY DEF Init, CaseJobs, WorkKeys
  <1> QED BY <1>1, <1>2 DEF Init, NoTxOnceLocked, ClaimKnows, Unstarted

\* And every step keeps it.
LEMMA NextQueueInv == QueueInv /\ [Next]_vars => QueueInv'
  <1> SUFFICES ASSUME QueueInv, [Next]_vars PROVE QueueInv'
    OBVIOUS
  <1> USE DEF QueueInv
  <1>1. BarrierInv' /\ NoTxOnceLocked'
    BY NextBarrierInv, NextNoTxOnceLocked DEF BarrierInv, WriterInv
  <1>2. ASSUME NEW w \in Worker, Step(w) \/ Trouble(w) PROVE ClaimKnows' /\ Unstarted' /\ CaseJobs'
    BY <1>2, StepClaimKnows, StepUnstarted, StepCaseJobs DEF BarrierInv, WriterInv
  <1>3. CASE Idle
    BY <1>1, <1>3 DEF Idle, ClaimKnows, Unstarted, CaseJobs, Spent, invVars, localVars
  <1>4. TypeOK
    BY DEF BarrierInv, WriterInv, LockInv
  <1>5. Idle \/ \E w \in Worker : Step(w) \/ Trouble(w)
    BY <1>4, NextCases
  <1> QED BY <1>1, <1>2, <1>3, <1>5

-----------------------------------------------------------------------------
(* Each step is one of the abstract investigation, or shows nothing.        *)

Open == JobsIn({"PENDING", "RUNNING"})
Lost == JobsIn({"FAILED"})

Shown == Abstract!Next \/ UNCHANGED Abstract!vars

\* A claim that sweeps only jobs it may release leaves them open.
LEMMA ShownSweep ==
  ASSUME QueueInv, NEW w \in Worker, ClaimNothing(w)
  PROVE  UNCHANGED <<caseState, status, stage, log, Open, Lost>>
  <1>1. jstat' = [j \in Job |-> IF j \in Expired THEN "PENDING" ELSE jstat[j]]
    BY DEF ClaimNothing, ClaimWrites, AnyFailed, Expired
  <1>2. \A j \in Expired : j \in Job /\ jstat[j] = "RUNNING"
    BY DEF Expired
  <1>3. Open' = Open /\ Lost' = Lost
    BY <1>1, <1>2 DEF Open, Lost, JobsIn
  <1> QED BY <1>3 DEF ClaimNothing, invVars

\* Only an investigation that has begun and not ended is failed.
LEMMA FailsFrom ==
  ASSUME QueueInv, NEW w \in Worker, Doom(w) \/ FailJob(w)
  PROVE  status \in {"RUNNING", "FAILED"}
  <1> USE DEF QueueInv, BarrierInv, WriterInv, LockInv
  <1>1. PICK j \in Job : jstat[j] \in {"RUNNING", "FAILED"}
    <2>1. CASE FailJob(w)
      BY <2>1 DEF FailJob, LeaseHeld, TypeOK, SessionTypes
    <2>2. CASE Doom(w)
      BY <2>2 DEF Doom, ClaimKnows, LockedRows, ClaimPc
    <2> QED BY <2>1, <2>2
  <1> QED BY <1>1, SuccessMeansDone DEF Unstarted, Finished, TypeOK, InvestigationTypes

\* A claim that fails the investigation fails the jobs that are spent.
LEMMA ShownDoom ==
  ASSUME QueueInv, NEW w \in Worker, Doom(w)
  PROVE  Abstract!Next
  <1> USE DEF QueueInv, BarrierInv, WriterInv, LockInv
  <1> DEFINE F == {j \in swept[w] : Spent(j)}
  <1>1. swept[w] \in SUBSET Job /\ \A j \in swept[w] : jstat[j] = "RUNNING"
    BY DEF Doom, TypeOK, SessionTypes, LockedRows, ClaimPc
  <1>2. jstat' = [j \in Job |-> IF j \notin swept[w] THEN jstat[j]
                                ELSE IF Spent(j) THEN "FAILED" ELSE "PENDING"]
    BY DEF Doom, ClaimWrites
  <1>3. F \in SUBSET Open /\ Open' = Open \ F /\ Lost' = Lost \cup F
    BY <1>1, <1>2 DEF Open, Lost, JobsIn
  <1>4. PICK j \in Job : jstat[j] = "FAILED" \/ j \in F
    BY DEF Doom, ClaimKnows
  <1>5. Lost \cup F # {}
    BY <1>4 DEF Lost, JobsIn
  <1>7. status \in {"RUNNING", "FAILED"}
    BY FailsFrom
  <1>8. caseState = "BLIND"
    BY DEF Doom, NoTxOnceLocked, InTx, ClaimPc, TypeOK, InvestigationTypes
  <1>9. Abstract!Fail
    BY <1>3, <1>5, <1>7 DEF Abstract!Fail, Doom, Open, Lost
  <1> QED BY <1>8, <1>9 DEF Abstract!Next, Doom

\* A claim that is granted starts the investigation, revives it or goes unseen.
LEMMA ShownGrant ==
  ASSUME QueueInv, NEW w \in Worker, Grant(w)
  PROVE  Shown
  <1> USE DEF QueueInv, BarrierInv, WriterInv, LockInv
  <1>1. /\ swept[w] \in SUBSET Job /\ cur[w] \in Job
        /\ \A j \in swept[w] : jstat[j] = "RUNNING" /\ ~Spent(j)
        /\ jstat[cur[w]] \in {"PENDING", "RUNNING"}
    BY DEF Grant, TypeOK, SessionTypes, LockedRows, ClaimKnows, ClaimPc
  <1>2. jstat' = [j \in Job |-> IF j \in {cur[w]} THEN "RUNNING"
                                ELSE IF j \notin swept[w] THEN jstat[j]
                                ELSE IF Spent(j) THEN "FAILED" ELSE "PENDING"]
    BY DEF Grant, ClaimWrites
  <1>3. Open' = Open /\ Lost' = Lost /\ Open # {}
    BY <1>1, <1>2 DEF Open, Lost, JobsIn
  <1>4. caseState' = caseState /\ stage' = stage /\ status' = "RUNNING"
    BY DEF Grant
  <1>5. caseState = "BLIND"
    BY DEF Grant, NoTxOnceLocked, InTx, ClaimPc, TypeOK, InvestigationTypes
  <1>6. CASE status = "PENDING"
    <2>1. log' = Append(log, Event("TRANSITION", 1, CaseKey))
      BY <1>6 DEF Grant, FirstStart, Unstarted
    <2>2. Abstract!Begin
      BY <1>3, <1>4, <1>6, <2>1 DEF Abstract!Begin, Abstract!Event, Event, Open, Lost
    <2> QED BY <1>4, <1>5, <2>2 DEF Shown, Abstract!Next
  <1>7. CASE status # "PENDING"
    <2>1. log' = log
      BY <1>7 DEF Grant, FirstStart
    <2>2. CASE status = "FAILED"
      <3>1. Abstract!Revive
        BY <1>3, <1>4, <2>1, <2>2 DEF Abstract!Revive, Open, Lost
      <3> QED BY <1>4, <1>5, <3>1 DEF Shown, Abstract!Next
    <2>3. CASE status = "RUNNING"
      BY <1>3, <1>4, <2>1, <2>3 DEF Shown, Abstract!vars, Open, Lost
    <2>4. status # "SUCCEEDED"
      BY <1>1, SuccessMeansDone DEF Finished
    <2> QED BY <1>7, <2>2, <2>3, <2>4 DEF TypeOK, InvestigationTypes
  <1> QED BY <1>6, <1>7

\* fail_stage_job fails one open job.
LEMMA ShownFailJob ==
  ASSUME QueueInv, NEW w \in Worker, FailJob(w)
  PROVE  Abstract!Next
  <1> USE DEF QueueInv, BarrierInv, WriterInv, LockInv
  <1>1. cur[w] \in Job /\ jstat[cur[w]] = "RUNNING" /\ caseState = "BLIND" /\ caseState' = caseState
    BY DEF FailJob, LeaseHeld, TypeOK, SessionTypes
  <1>2. jstat' = [jstat EXCEPT ![cur[w]] = "FAILED"] /\ jstat \in [Job -> {"ABSENT", "PENDING", "RUNNING", "SUCCEEDED", "FAILED"}]
    BY DEF FailJob, TypeOK, JobTypes
  <1>3. {cur[w]} \in SUBSET Open /\ Open' = Open \ {cur[w]} /\ Lost' = Lost \cup {cur[w]}
    BY <1>1, <1>2 DEF Open, Lost, JobsIn
  <1>4. status \in {"RUNNING", "FAILED"}
    BY FailsFrom
  <1>5. Abstract!Fail
    BY <1>3, <1>4 DEF Abstract!Fail, FailJob, Open, Lost
  <1> QED BY <1>1, <1>5 DEF Abstract!Next

\* A commit records a result, alone, with the next stage or with the end.
LEMMA ShownCommit ==
  ASSUME QueueInv, NEW w \in Worker, Commits(w)
  PROVE  Abstract!Next
  <1> USE DEF QueueInv, BarrierInv, WriterInv, LockInv
  <1>1. /\ pc[w] \in WriterPc /\ status = "RUNNING" /\ stage = cur[w][1] /\ cur[w] \in Job
        /\ stage \in Stage
    BY CommitFacts DEF TypeOK, InvestigationTypes
  <1>2. caseState = "BLIND" /\ caseState' = caseState
    BY <1>1 DEF Commits, CommitOne, CommitStage, CommitInvestigation, Commit, NoTxOnceLocked, InTx,
       PersistPc, TypeOK, InvestigationTypes
  <1>3. jstat[cur[w]] = "RUNNING" /\ cur[w] \in Open
    BY <1>1 DEF LockedRows, PersistPc, Open, JobsIn
  <1>4. jstat \in [Job -> {"ABSENT", "PENDING", "RUNNING", "SUCCEEDED", "FAILED"}]
    BY DEF TypeOK, JobTypes
  <1>5. Result(w) = Abstract!Event("RESULT", cur[w][1], cur[w][2])
    BY DEF Result, Event, Abstract!Event
  <1>6. ASSUME jstat' = [jstat EXCEPT ![cur[w]] = "SUCCEEDED"]
        PROVE  Open' = Open \ {cur[w]} /\ Lost' = Lost
    BY <1>3, <1>4, <1>6 DEF Open, Lost, JobsIn
  <1>7. ASSUME pc[w] = "last" PROVE Open = {cur[w]} /\ Lost = {}
    <2>1. SiblingsDone(w)
      BY <1>7 DEF WriterKnows
    <2>2. ASSUME NEW j \in Job, ~Finished(j) PROVE j = cur[w]
      <3>1. j[1] = stage
        <4>1. ~(j[1] < stage) /\ ~(j[1] > stage)
          BY <2>2 DEF StageBarrier, Finished
        <4> QED BY <1>1, <4>1, JobParts, QueueAssumption DEF Stage
      <3>2. j \in JobsOf(cur[w][1])
        BY <1>1, <3>1 DEF JobsOf, Job
      <3> QED BY <2>1, <2>2, <3>2 DEF SiblingsDone, Finished
    <2> QED BY <1>3, <2>2 DEF Open, Lost, JobsIn, Finished
  <1>8. CASE CommitOne(w)
    <2>1. PICK j \in JobsOf(cur[w][1]) \ {cur[w]} : jstat[j] \notin {"ABSENT", "SUCCEEDED"}
      BY <1>8 DEF CommitOne, WriterKnows, SiblingsDone
    <2>2. j \in Job /\ j # cur[w] /\ j \in Open \cup Lost
      BY <1>1, <1>4, <2>1 DEF JobsOf, Job, Open, Lost, JobsIn
    <2>3. Abstract!Record(cur[w])
      BY <1>1, <1>3, <1>5, <1>6, <1>8, <2>2 DEF Abstract!Record, CommitOne, Open, Lost
    <2> QED BY <1>2, <1>3, <2>3 DEF Abstract!Next, Open
  <1>9. CASE CommitInvestigation(w)
    <2>1. Abstract!Finish(cur[w])
      BY <1>1, <1>5, <1>6, <1>7, <1>9 DEF Abstract!Finish, CommitInvestigation, Open, Lost
    <2> QED BY <1>2, <1>3, <2>1 DEF Abstract!Next, Open
  <1>10. CASE CommitStage(w)
    <2>1. PICK keys \in WorkKeys(stage + 1) :
             jstat' = [j \in Job |-> IF j = cur[w] THEN "SUCCEEDED"
                                     ELSE IF j \in {stage + 1} \X keys /\ jstat[j] = "ABSENT"
                                     THEN "PENDING" ELSE jstat[j]]
      BY <1>1, <1>10 DEF CommitStage
    <2>2. stage + 1 \in Stage /\ stage < LastStage /\ keys \in SUBSET Key
      BY <1>1, <1>10, <2>1, QueueAssumption DEF CommitStage, Stage, WorkKeys
    <2>3. \A j \in {stage + 1} \X keys : j \in Job /\ jstat[j] = "ABSENT" /\ j # cur[w]
      <3> SUFFICES ASSUME NEW j \in {stage + 1} \X keys
                   PROVE  j \in Job /\ jstat[j] = "ABSENT" /\ j # cur[w]
        OBVIOUS
      <3>1. j \in Job /\ j[1] = stage + 1
        BY <2>2 DEF Job
      <3>2. j[1] > stage
        BY <1>1, <3>1, QueueAssumption DEF Stage
      <3> QED BY <1>3, <3>1, <3>2 DEF StageBarrier
    <2>4. Open = {cur[w]} /\ Lost = {}
      BY <1>7, <1>10 DEF CommitStage
    <2>5. Open' = {stage + 1} \X keys /\ Lost' = {}
      BY <1>3, <2>1, <2>3, <2>4 DEF Open, Lost, JobsIn
    <2>6. Open' \in Abstract!Batches(stage + 1)
      BY <2>1, <2>5 DEF Abstract!Batches, WorkKeys
    <2>7. Abstract!Advance(cur[w])
      BY <1>1, <1>3, <1>5, <1>10, <2>2, <2>4, <2>5, <2>6
         DEF Abstract!Advance, CommitStage, Event, Abstract!Event, Open, Lost
    <2> QED BY <1>2, <1>3, <2>7 DEF Abstract!Next, Open
  <1> QED BY <1>8, <1>9, <1>10 DEF Commits

\* Steps that write no row of the investigation are not seen.
LEMMA ShownOther ==
  ASSUME QueueInv, NEW w \in Worker, Step(w) \/ Trouble(w),
         ~ClaimNothing(w), ~Doom(w), ~Grant(w), ~FailJob(w), ~Commits(w)
  PROVE  UNCHANGED <<caseState, status, stage, log, jstat>>
  <1>1. CASE Quiet(w)
    BY <1>1, QuietWrites DEF dbVars, invVars, jobVars
  <1>2. CASE \/ StartSpan(w) \/ Reserve(w) \/ FinishSpan(w)
             \/ \E verdict \in {"SUCCEEDED", "REJECTED"} : FinishRequest(w, verdict)
    BY <1>2 DEF StartSpan, Reserve, FinishSpan, FinishRequest, invVars
  <1> QED BY <1>1, <1>2, StepCases DEF Writing, Commits

\* Every step of the queue is a step of the abstract investigation or a stutter.
LEMMA ShownStep ==
  ASSUME QueueInv, [Next]_vars
  PROVE  Shown
  <1> USE DEF QueueInv
  <1>1. ASSUME UNCHANGED <<caseState, status, stage, log, Open, Lost>> PROVE Shown
    BY <1>1 DEF Shown, Abstract!vars, Open, Lost
  <1>2. ASSUME UNCHANGED <<caseState, status, stage, log, jstat>> PROVE Shown
    BY <1>1, <1>2 DEF Open, Lost, JobsIn
  <1>3. ASSUME NEW w \in Worker, Step(w) \/ Trouble(w) PROVE Shown
    <2>1. CASE ClaimNothing(w)
      BY <1>1, <2>1, ShownSweep
    <2>2. CASE Doom(w) \/ FailJob(w) \/ Commits(w)
      BY <2>2, ShownDoom, ShownFailJob, ShownCommit DEF Shown
    <2>3. CASE Grant(w)
      BY <2>3, ShownGrant
    <2> QED BY <1>2, <1>3, <2>1, <2>2, <2>3, ShownOther
  <1>4. ASSUME NEW j \in Job, LeaseExpires(j) PROVE Shown
    BY <1>2, <1>4 DEF LeaseExpires, invVars
  <1>5. CASE LockCase
    <2>1. caseState = "BLIND" /\ caseState' = "LOCKED" /\ UNCHANGED <<status, stage, log, jstat>>
      BY <1>5 DEF LockCase, dbVars, invVars, jobVars
    <2>2. Open' = Open /\ Lost' = Lost
      BY <2>1 DEF Open, Lost, JobsIn
    <2>3. Abstract!Lock
      BY <2>1, <2>2 DEF Abstract!Lock, Open, Lost
    <2> QED BY <2>1, <2>3 DEF Shown, Abstract!Next
  <1>6. CASE UNCHANGED vars
    BY <1>2, <1>6 DEF vars, dbVars, invVars, jobVars
  <1> QED BY <1>3, <1>4, <1>5, <1>6 DEF Next

\* A created investigation is an initial one of the abstract specification.
LEMMA ShownInit ==
  ASSUME Init
  PROVE  Abstract!Init
  <1>1. PICK keys \in WorkKeys(1) :
          jstat = [j \in Job |-> IF j \in {1} \X keys THEN "PENDING" ELSE "ABSENT"]
    BY DEF Init
  <1>2. keys \in SUBSET Key /\ {1} \X keys \in SUBSET Job
    BY <1>1, QueueAssumption, JobParts DEF WorkKeys, Job
  <1>3. Open = {1} \X keys /\ Lost = {}
    BY <1>1, <1>2 DEF Open, Lost, JobsIn
  <1>4. Open \in Abstract!Batches(1)
    BY <1>1, <1>3 DEF Abstract!Batches, WorkKeys
  <1> QED BY <1>3, <1>4 DEF Abstract!Init, Init, Event, Abstract!Event, Open, Lost

\* The leased queue implements the abstract investigation, for any number of
\* workers, stages and jobs: whatever workers crash, stall or race each other,
\* claim_investigation_job, complete_stage_job and fail_stage_job take the rows
\* of the investigation only through steps that specification allows.
THEOREM QueueImplements == Spec => ImplementsInvestigation
  <1>1. Init => Abstract!Init
    BY ShownInit
  <1>2. QueueInv /\ [Next]_vars => [Abstract!Next]_(Abstract!vars)
    BY ShownStep DEF Shown
  <1> QED BY <1>1, <1>2, InitQueueInv, NextQueueInv, PTL DEF Spec, ImplementsInvestigation, Abstract!Spec

-----------------------------------------------------------------------------
(* What a replay computes.                                                  *)

\* f is the state of the replay after each of the first n events.
IsRun(f, events, n) ==
  f = [i \in 1..n |-> IF i = 1 THEN Started(events[1]) ELSE Apply(f[i - 1], events[i])]

\* Every sequence of events has its run.
LEMMA RunExists ==
  ASSUME NEW events, NEW n \in Nat
  PROVE  \E f : IsRun(f, events, n)
  <1> DEFINE T == {m \in Nat : \E f : IsRun(f, events, m)}
  <1>1. 0 \in T
    <2> DEFINE f == [i \in 1..0 |-> Mismatch]
    <2>1. IsRun(f, events, 0)
      BY DEF IsRun
    <2> QED BY <2>1
  <1>2. ASSUME NEW m \in T PROVE m + 1 \in T
    <2>1. PICK f : IsRun(f, events, m)
      OBVIOUS
    <2> DEFINE g == [i \in 1..(m + 1) |->
                       IF i = 1 THEN Started(events[1])
                       ELSE IF i <= m THEN f[i] ELSE Apply(f[m], events[m + 1])]
    <2>2. ASSUME NEW i \in 1..(m + 1)
          PROVE  g[i] = IF i = 1 THEN Started(events[1]) ELSE Apply(g[i - 1], events[i])
      <3>1. CASE i = 1
        BY <3>1
      <3>2. CASE i # 1 /\ i <= m
        <4>1. f[i] = Apply(f[i - 1], events[i])
          BY <2>1, <3>2 DEF IsRun
        <4>2. g[i] = f[i] /\ g[i - 1] = f[i - 1]
          BY <2>1, <3>2 DEF IsRun
        <4> QED BY <3>2, <4>1, <4>2
      <3>3. CASE i # 1 /\ i = m + 1
        <4>1. g[m] = f[m]
          BY <2>1, <3>3 DEF IsRun
        <4> HIDE DEF g
        <4>2. g[i] = Apply(f[m], events[m + 1])
          BY <3>3 DEF g
        <4> QED BY <3>3, <4>1, <4>2
      <3> QED BY <3>1, <3>2, <3>3
    <2>3. IsRun(g, events, m + 1)
      BY <2>2 DEF IsRun
    <2> QED BY <2>3
  <1>3. T = Nat
    BY <1>1, <1>2, SetInduction
  <1> QED BY <1>3

\* What Replay returns is the last state of such a run.
LEMMA ReplayRun ==
  ASSUME NEW events, Len(events) \in Nat
  PROVE  \E f : IsRun(f, events, Len(events)) /\ Replay(events) = f[Len(events)]
  <1>1. \E f : IsRun(f, events, Len(events))
    BY RunExists
  <1> QED BY <1>1 DEF Replay, IsRun

\* A step of a run.
LEMMA RunStep ==
  ASSUME NEW f, NEW events, NEW n \in Nat, IsRun(f, events, n), NEW i \in Nat, i > 0, i < n
  PROVE  f[i + 1] = Apply(f[i], events[i + 1])
  <1>1. i + 1 \in 1..n /\ i + 1 # 1 /\ (i + 1) - 1 = i
    OBVIOUS
  <1>2. f[i + 1] = Apply(f[(i + 1) - 1], events[i + 1])
    BY <1>1 DEF IsRun
  <1> QED BY <1>1, <1>2

\* One more event is one more step of the replay.
LEMMA ReplayAppend ==
  ASSUME NEW S, NEW events \in Seq(S), NEW e \in S, Len(events) > 0
  PROVE  Replay(Append(events, e)) = Apply(Replay(events), e)
  <1> DEFINE n == Len(events)
             more == Append(events, e)
  <1>0. /\ n \in Nat /\ Len(more) = n + 1 /\ more[n + 1] = e
        /\ \A i \in 1..n : more[i] = events[i]
    OBVIOUS
  <1>1. PICK f : IsRun(f, events, n) /\ Replay(events) = f[n]
    BY <1>0, ReplayRun
  <1> HIDE DEF more, n
  <1>2. PICK g : IsRun(g, more, n + 1) /\ Replay(more) = g[n + 1]
    <2>1. Len(more) \in Nat
      BY <1>0
    <2> QED BY <1>0, <2>1, ReplayRun
  <1> DEFINE T == {m \in Nat : \A i \in 1..m : i <= n => f[i] = g[i]}
  <1>3. 0 \in T
    OBVIOUS
  <1>4. ASSUME NEW m \in T PROVE m + 1 \in T
    <2> SUFFICES ASSUME m + 1 <= n PROVE f[m + 1] = g[m + 1]
      OBVIOUS
    <2>1. CASE m = 0
      BY <1>0, <1>1, <1>2, <2>1 DEF IsRun
    <2>2. CASE m # 0
      <3>1. f[m] = g[m]
        BY <1>0, <2>2
      <3>2. f[m + 1] = Apply(f[m], events[m + 1])
        BY <1>0, <1>1, <2>2, RunStep
      <3>3. g[m + 1] = Apply(g[m], more[m + 1])
        BY <1>0, <1>2, <2>2, RunStep
      <3> QED BY <1>0, <3>1, <3>2, <3>3
    <2> QED BY <2>1, <2>2
  <1>5. T = Nat
    BY <1>3, <1>4, SetInduction
  <1>6. n \in T
    BY <1>0, <1>5
  <1>7. f[n] = g[n]
    BY <1>0, <1>6 DEF n
  <1>8. g[n + 1] = Apply(g[n], e)
    <2>1. n > 0
      BY DEF n
    <2>2. g[n + 1] = Apply(g[n], more[n + 1])
      <3>1. n + 1 \in Nat /\ n < n + 1 /\ n \in Nat
        BY <1>0
      <3> QED BY <1>2, <2>1, <3>1, RunStep
    <2> QED BY <1>0, <2>2
  <1> QED BY <1>1, <1>2, <1>7, <1>8 DEF more

-----------------------------------------------------------------------------
(* The log.                                                                 *)

ResultsIn(events, j) == {i \in DOMAIN events : events[i] = Event("RESULT", j[1], j[2])}

\* The events are in the order of their stages, none of them ahead of s.
InOrder(events, s) ==
  /\ \A i \in DOMAIN events : events[i].stage <= s
  /\ \A i, k \in DOMAIN events : i < k => events[i].stage <= events[k].stage

RecordedOnce ==
  \A j \in Job :
    IF jstat[j] = "SUCCEEDED" THEN \E i \in DOMAIN log : ResultsIn(log, j) = {i}
                             ELSE ResultsIn(log, j) = {}

Replayed ==
  Replay(log) = [status |-> IF status = "FAILED" THEN "RUNNING" ELSE status, stage |-> stage]

LogInv == QueueInv /\ Len(log) > 0 /\ RecordedOnce /\ InOrder(log, stage) /\ Replayed

\* What an append adds to the results of a job.
LEMMA AppendResults ==
  ASSUME NEW events \in Seq(EventRow), NEW e \in EventRow, NEW j \in Job
  PROVE  /\ e = Event("RESULT", j[1], j[2])
              => ResultsIn(Append(events, e), j) = ResultsIn(events, j) \cup {Len(events) + 1}
         /\ e # Event("RESULT", j[1], j[2])
              => ResultsIn(Append(events, e), j) = ResultsIn(events, j)
  <1> DEFINE more == Append(events, e)
  <1>1. /\ DOMAIN events = 1..Len(events) /\ Len(events) \in Nat
        /\ DOMAIN more = 1..(Len(events) + 1)
        /\ more[Len(events) + 1] = e
        /\ \A i \in 1..Len(events) : more[i] = events[i]
    OBVIOUS
  <1> HIDE DEF more
  <1>2. \A i \in DOMAIN more : i \in DOMAIN events \/ i = Len(events) + 1
    BY <1>1
  <1>3. \A i \in DOMAIN events : i \in DOMAIN more /\ i # Len(events) + 1 /\ more[i] = events[i]
    BY <1>1
  <1>4. Len(events) + 1 \in DOMAIN more
    BY <1>1
  <1>5. /\ e = Event("RESULT", j[1], j[2]) => ResultsIn(more, j) = ResultsIn(events, j) \cup {Len(events) + 1}
        /\ e # Event("RESULT", j[1], j[2]) => ResultsIn(more, j) = ResultsIn(events, j)
    BY <1>1, <1>2, <1>3, <1>4 DEF ResultsIn
  <1> QED BY <1>5 DEF more

\* An event of the last stage may follow.
LEMMA AppendInOrder ==
  ASSUME NEW events \in Seq(EventRow), NEW e \in EventRow, NEW s \in Stage,
         InOrder(events, s), s <= e.stage
  PROVE  InOrder(Append(events, e), e.stage)
  <1> DEFINE more == Append(events, e)
  <1>1. /\ DOMAIN events = 1..Len(events) /\ Len(events) \in Nat
        /\ DOMAIN more = 1..(Len(events) + 1)
        /\ more[Len(events) + 1] = e
        /\ \A i \in 1..Len(events) : more[i] = events[i]
    OBVIOUS
  <1>2. \A i \in 1..Len(events) : events[i].stage \in Nat
    <2>1. \A r \in EventRow : r.stage \in Nat
      BY QueueAssumption DEF EventRow, Stage
    <2>2. \A i \in 1..Len(events) : events[i] \in EventRow
      OBVIOUS
    <2> QED BY <2>1, <2>2
  <1>3. e.stage \in Nat /\ s \in Nat
    BY QueueAssumption DEF EventRow, Stage
  <1> HIDE DEF more
  <1>4. \A i \in 1..Len(events) : more[i].stage <= e.stage
    BY <1>1, <1>2, <1>3 DEF InOrder
  <1>5. \A i \in DOMAIN more : more[i].stage <= e.stage
    <2> SUFFICES ASSUME NEW i \in DOMAIN more PROVE more[i].stage <= e.stage
      OBVIOUS
    <2>1. i \in 1..Len(events) \/ i = Len(events) + 1
      BY <1>1
    <2> QED BY <1>1, <1>3, <1>4, <2>1
  <1>6. ASSUME NEW i \in DOMAIN more, NEW k \in DOMAIN more, i < k
        PROVE  more[i].stage <= more[k].stage
    <2>1. i \in 1..Len(events)
      BY <1>1, <1>6
    <2>2. CASE k = Len(events) + 1
      BY <1>1, <1>4, <2>1, <2>2
    <2>3. CASE k # Len(events) + 1
      <3>1. k \in 1..Len(events)
        BY <1>1, <2>3
      <3>2. events[i].stage <= events[k].stage
        BY <1>1, <1>6, <2>1, <3>1 DEF InOrder
      <3> QED BY <1>1, <2>1, <3>1, <3>2
    <2> QED BY <2>2, <2>3
  <1> QED BY <1>5, <1>6 DEF InOrder, more

\* The result a commit appends is of the job it finishes, and of no other.
LEMMA ResultNames ==
  ASSUME TypeOK, NEW w \in Worker
  PROVE  /\ cur[w] \in Job /\ Result(w) \in EventRow
         /\ Result(w) = Event("RESULT", cur[w][1], cur[w][2])
         /\ \A j \in Job : j # cur[w] => Result(w) # Event("RESULT", j[1], j[2])
  <1>1. cur[w] \in Job
    BY DEF TypeOK, SessionTypes
  <1>2. ASSUME NEW j \in Job, Result(w) = Event("RESULT", j[1], j[2]) PROVE j = cur[w]
    <2>1. j[1] = cur[w][1] /\ j[2] = cur[w][2]
      BY <1>2 DEF Result, Event
    <2>2. j = <<j[1], j[2]>> /\ cur[w] = <<cur[w][1], cur[w][2]>>
      BY <1>1 DEF Job
    <2> QED BY <2>1, <2>2
  <1>3. Result(w) \in EventRow
    BY <1>1, JobParts, EventType DEF Result, EventKind
  <1> QED BY <1>1, <1>2, <1>3 DEF Result

\* Short of a commit the log stays, or tells that the investigation has begun.
LEMMA OtherStepLog ==
  ASSUME LogInv, NEW w \in Worker, Step(w) \/ Trouble(w), ~Commits(w)
  PROVE  Len(log') > 0 /\ RecordedOnce' /\ InOrder(log', stage') /\ Replayed'
  <1> USE DEF LogInv, QueueInv, BarrierInv, WriterInv, LockInv
  <1>0. log \in Seq(EventRow) /\ stage \in Stage
    BY DEF TypeOK, InvestigationTypes
  <1>1. stage' = stage /\ \A j \in Job : jstat'[j] = "SUCCEEDED" <=> jstat[j] = "SUCCEEDED"
    BY OtherSteps DEF Finished
  <1>2. CASE log' = log /\ (status' = status \/ (status' = "FAILED" /\ status = "RUNNING")
                            \/ (status' = "RUNNING" /\ status = "FAILED"))
    BY <1>1, <1>2 DEF RecordedOnce, Replayed
  <1>3. CASE /\ status = "PENDING" /\ status' = "RUNNING"
             /\ log' = Append(log, Event("TRANSITION", 1, CaseKey))
    <2>1. Event("TRANSITION", 1, CaseKey) \in EventRow /\ stage = 1
      BY <1>3, QueueAssumption, JobParts, EventType DEF EventKind, Unstarted
    <2>2. Len(log') > 0
      BY <1>0, <1>3
    <2>3. RecordedOnce'
      <3>1. ASSUME NEW j \in Job PROVE ResultsIn(log', j) = ResultsIn(log, j)
        BY <1>0, <1>3, <2>1, AppendResults DEF Event
      <3>2. DOMAIN log \in SUBSET DOMAIN log'
        BY <1>0, <1>3
      <3> QED BY <1>1, <3>1, <3>2 DEF RecordedOnce
    <2>4. InOrder(log', stage')
      BY <1>0, <1>1, <1>3, <2>1, AppendInOrder, QueueAssumption DEF Event, Stage
    <2>5. Replayed'
      <3>1. Replay(log') = Apply(Replay(log), Event("TRANSITION", 1, CaseKey))
        BY <1>0, <1>3, <2>1, ReplayAppend
      <3>2. Replay(log) = [status |-> "PENDING", stage |-> 1]
        BY <1>3, <2>1 DEF Replayed
      <3> QED BY <1>1, <1>3, <2>1, <3>1, <3>2, ReplayAssumption DEF Apply, Mismatch, Event, From, Replayed
    <2> QED BY <2>2, <2>3, <2>4, <2>5
  <1>4. CASE Grant(w)
    <2>1. status # "SUCCEEDED"
      <3>1. jstat[cur[w]] \in {"PENDING", "RUNNING"} /\ cur[w] \in Job
        BY <1>4 DEF Grant, LockedRows, TypeOK, SessionTypes
      <3> QED BY <3>1, SuccessMeansDone DEF Finished
    <2>2. status' = "RUNNING" /\ log' = IF status = "PENDING" /\ stage = 1
                                        THEN Append(log, Event("TRANSITION", 1, CaseKey)) ELSE log
      BY <1>4 DEF Grant, FirstStart
    <2> QED BY <1>2, <1>3, <2>1, <2>2 DEF Unstarted, TypeOK, InvestigationTypes
  <1>5. CASE Doom(w) \/ FailJob(w)
    <2>1. status' = "FAILED" /\ log' = log
      BY <1>5 DEF Doom, FailJob
    <2>2. status \in {"RUNNING", "FAILED"}
      BY <1>5, FailsFrom
    <2> QED BY <1>2, <2>1, <2>2
  <1>6. CASE ClaimNothing(w)
    BY <1>2, <1>6, ShownSweep
  <1> QED BY <1>2, <1>4, <1>5, <1>6, ShownOther

\* The job of COMPLETE has no siblings.
LEMMA NotAlone ==
  ASSUME QueueInv, NEW w \in Worker, CommitOne(w)
  PROVE  stage # LastStage
  <1> USE DEF QueueInv, BarrierInv, WriterInv, LockInv
  <1> SUFFICES ASSUME stage = LastStage PROVE FALSE
    OBVIOUS
  <1>1. cur[w] \in Job /\ cur[w][1] = LastStage /\ jstat[cur[w]] = "RUNNING"
    BY CommitFacts DEF Commits, LockedRows, PersistPc
  <1>2. PICK j \in JobsOf(LastStage) \ {cur[w]} : jstat[j] \notin {"ABSENT", "SUCCEEDED"}
    BY <1>1 DEF CommitOne, WriterKnows, SiblingsDone
  <1>3. j \in Job /\ j[1] = LastStage
    BY <1>1, <1>2 DEF JobsOf, Job
  <1>4. j[2] = CaseKey /\ cur[w][2] = CaseKey
    BY <1>1, <1>2, <1>3, QueueAssumption DEF CaseJobs
  <1>5. j = <<j[1], j[2]>> /\ cur[w] = <<cur[w][1], cur[w][2]>>
    BY <1>1, <1>3 DEF Job
  <1> QED BY <1>1, <1>2, <1>3, <1>4, <1>5

\* A commit records one result, and the next stage when it is the last of its own.
LEMMA CommitLog ==
  ASSUME LogInv, NEW w \in Worker, Commits(w)
  PROVE  Len(log') > 0 /\ RecordedOnce' /\ InOrder(log', stage') /\ Replayed'
  <1> USE DEF LogInv, QueueInv, BarrierInv, WriterInv, LockInv
  <1> DEFINE once == Append(log, Result(w))
  <1>0. log \in Seq(EventRow) /\ stage \in Stage
    BY DEF TypeOK, InvestigationTypes
  <1>1. /\ pc[w] \in WriterPc /\ status = "RUNNING" /\ stage = cur[w][1] /\ jstat'[cur[w]] = "SUCCEEDED"
    BY CommitFacts
  <1>2. /\ cur[w] \in Job /\ Result(w) \in EventRow
        /\ Result(w) = Event("RESULT", cur[w][1], cur[w][2])
        /\ \A j \in Job : j # cur[w] => Result(w) # Event("RESULT", j[1], j[2])
    BY ResultNames
  <1>3. once \in Seq(EventRow) /\ Len(once) = Len(log) + 1 /\ DOMAIN once = 1..(Len(log) + 1)
        /\ DOMAIN log = 1..Len(log) /\ Len(log) \in Nat
    BY <1>0, <1>2, AppendType
  <1>4. ResultsIn(log, cur[w]) = {}
    <2>1. jstat[cur[w]] = "RUNNING"
      BY <1>1 DEF LockedRows, PersistPc
    <2> QED BY <1>2, <2>1 DEF RecordedOnce
  <1>5. \A j \in Job : ResultsIn(once, j) = IF j = cur[w] THEN {Len(log) + 1} ELSE ResultsIn(log, j)
    <2> SUFFICES ASSUME NEW j \in Job
                 PROVE  ResultsIn(once, j) = IF j = cur[w] THEN {Len(log) + 1} ELSE ResultsIn(log, j)
      OBVIOUS
    <2>1. CASE j = cur[w]
      <3>1. ResultsIn(once, j) = ResultsIn(log, j) \cup {Len(log) + 1}
        BY <1>0, <1>2, <2>1, AppendResults
      <3> QED BY <1>4, <2>1, <3>1
    <2>2. CASE j # cur[w]
      BY <1>0, <1>2, <2>2, AppendResults
    <2> QED BY <2>1, <2>2
  <1>6. InOrder(once, stage)
    <2>1. Result(w).stage = stage
      BY <1>1, <1>2 DEF Event
    <2> QED BY <1>0, <1>2, <2>1, AppendInOrder, QueueAssumption DEF Stage
  <1>7. Replay(once) = Apply([status |-> "RUNNING", stage |-> stage], Result(w))
    BY <1>0, <1>1, <1>2, ReplayAppend DEF Replayed
  <1> HIDE DEF once
  <1>8. ASSUME \A j \in Job : j # cur[w] => (jstat'[j] = "SUCCEEDED" <=> jstat[j] = "SUCCEEDED"),
               NEW more \in Seq(EventRow), DOMAIN once \in SUBSET DOMAIN more, log' = more,
               \A j \in Job : ResultsIn(more, j) = ResultsIn(once, j)
        PROVE  RecordedOnce'
    <2> SUFFICES ASSUME NEW j \in Job
                 PROVE  IF jstat'[j] = "SUCCEEDED" THEN \E i \in DOMAIN log' : ResultsIn(log', j) = {i}
                                                  ELSE ResultsIn(log', j) = {}
      BY DEF RecordedOnce
    <2>1. ResultsIn(log', j) = IF j = cur[w] THEN {Len(log) + 1} ELSE ResultsIn(log, j)
      BY <1>5, <1>8
    <2>2. \A i \in DOMAIN log : i \in DOMAIN log'
      BY <1>3, <1>8
    <2>3. Len(log) + 1 \in DOMAIN log'
      BY <1>3, <1>8
    <2> QED BY <1>1, <1>8, <2>1, <2>2, <2>3 DEF RecordedOnce
  <1>9. CASE CommitOne(w) \/ CommitInvestigation(w)
    <2>1. log' = once /\ jstat' = [jstat EXCEPT ![cur[w]] = "SUCCEEDED"] /\ stage' = stage
      BY <1>9 DEF CommitOne, CommitInvestigation, once
    <2>2. RecordedOnce'
      BY <1>2, <1>3, <1>8, <2>1 DEF TypeOK, JobTypes
    <2>3. Replayed'
      <3>1. CASE CommitInvestigation(w)
        BY <1>1, <1>2, <1>7, <2>1, <3>1, QueueAssumption
           DEF CommitInvestigation, Apply, Mismatch, Event, Replayed
      <3>2. CASE CommitOne(w)
        <4>1. stage # LastStage
          BY <3>2, NotAlone
        <4> QED BY <1>1, <1>2, <1>7, <2>1, <3>2, <4>1 DEF CommitOne, Apply, Mismatch, Event, Replayed
      <3> QED BY <1>9, <3>1, <3>2
    <2> QED BY <1>3, <1>6, <2>1, <2>2, <2>3
  <1>10. CASE CommitStage(w)
    <2> DEFINE t == Event("TRANSITION", stage + 1, CaseKey)
    <2>1. /\ log' = Append(once, t) /\ stage' = stage + 1 /\ status' = "RUNNING"
          /\ stage + 1 \in Stage /\ stage # LastStage
      BY <1>0, <1>1, <1>10, QueueAssumption DEF CommitStage, once, Stage
    <2>2. t \in EventRow /\ t.stage = stage + 1 /\ t.kind = "TRANSITION"
      BY <2>1, QueueAssumption, EventType DEF EventKind, Event
    <2>3. \A j \in Job : ResultsIn(log', j) = ResultsIn(once, j)
      BY <1>3, <2>1, <2>2, AppendResults DEF Event
    <2>4. \A j \in Job : j # cur[w] => (jstat'[j] = "SUCCEEDED" <=> jstat[j] = "SUCCEEDED")
      BY <1>10 DEF CommitStage
    <2>5. log' \in Seq(EventRow) /\ DOMAIN once \in SUBSET DOMAIN log' /\ Len(log') > 0
      BY <1>3, <2>1, <2>2
    <2>6. RecordedOnce'
      BY <1>8, <2>3, <2>4, <2>5
    <2>7. InOrder(log', stage')
      BY <1>0, <1>3, <1>6, <2>1, <2>2, AppendInOrder, QueueAssumption DEF Stage
    <2>8. Replay(once) = [status |-> "RUNNING", stage |-> stage]
      BY <1>1, <1>2, <1>7, <2>1 DEF Apply, Mismatch, Event
    <2>9. Replay(log') = Apply(Replay(once), t)
      BY <1>3, <2>1, <2>2, ReplayAppend
    <2>10. Replayed'
      <3>1. stage \in Nat /\ stage > 0 /\ stage + 1 # 1 /\ stage + 1 # stage
        BY <1>0, QueueAssumption DEF Stage
      <3> HIDE DEF t
      <3>2. From(t) = stage
        BY <2>2, <3>1 DEF From
      <3>3. Apply(Replay(once), t) = [status |-> "RUNNING", stage |-> stage + 1]
        BY <2>1, <2>2, <2>8, <3>1, <3>2 DEF Apply, Mismatch
      <3> QED BY <2>1, <2>9, <3>3 DEF Replayed
    <2> QED BY <2>5, <2>6, <2>7, <2>10
  <1> QED BY <1>9, <1>10 DEF Commits

\* The log of a created investigation says that it has started.
LEMMA InitLogInv == Init => LogInv
  <1> SUFFICES ASSUME Init PROVE Len(log) > 0 /\ RecordedOnce /\ InOrder(log, stage) /\ Replayed
    BY InitQueueInv DEF LogInv
  <1>1. log = <<Event("STARTED", 1, CaseKey)>> /\ status = "PENDING" /\ stage = 1
    BY DEF Init
  <1>2. Len(log) = 1 /\ DOMAIN log = {1} /\ log[1] = Event("STARTED", 1, CaseKey)
    BY <1>1
  <1>3. \A j \in Job : ResultsIn(log, j) = {} /\ jstat[j] # "SUCCEEDED"
    BY <1>2 DEF ResultsIn, Event, Init
  <1>4. InOrder(log, stage)
    BY <1>1, <1>2 DEF InOrder, Event
  <1>5. Replay(log) = Started(log[1])
    <2>1. PICK f : IsRun(f, log, Len(log)) /\ Replay(log) = f[Len(log)]
      <3>1. Len(log) \in Nat
        BY <1>2
      <3> QED BY <3>1, ReplayRun
    <2> QED BY <1>2, <2>1 DEF IsRun
  <1>6. Replayed
    BY <1>1, <1>2, <1>5 DEF Replayed, Started, Event
  <1> QED BY <1>2, <1>3, <1>4, <1>6 DEF RecordedOnce

\* The invariant of the log is inductive.
LEMMA NextLogInv == LogInv /\ [Next]_vars => LogInv'
  <1> SUFFICES ASSUME LogInv, [Next]_vars PROVE LogInv'
    OBVIOUS
  <1>1. QueueInv' /\ TypeOK
    BY NextQueueInv DEF LogInv, QueueInv, BarrierInv, WriterInv, LockInv
  <1>2. ASSUME NEW w \in Worker, Step(w) \/ Trouble(w) PROVE LogInv'
    <2>1. Len(log') > 0 /\ RecordedOnce' /\ InOrder(log', stage') /\ Replayed'
      BY <1>2, OtherStepLog, CommitLog
    <2> QED BY <1>1, <2>1 DEF LogInv
  <1>3. CASE Idle
    BY <1>1, <1>3 DEF Idle, LogInv, RecordedOnce, Replayed, invVars
  <1> QED BY <1>1, <1>2, <1>3, NextCases

\* However often a job is reclaimed, its result is in the log once and only once
\* it has succeeded, and the log follows the order of the stages: append_
\* investigation_event and complete_stage_job commit together, for any number of
\* workers, jobs and attempts.
THEOREM ResultsRecordedOnce == Spec => []ResultOnce
  <1>1. LogInv => ResultOnce
    <2> SUFFICES ASSUME LogInv PROVE ResultOnce
      OBVIOUS
    <2>1. ASSUME NEW j \in Job
          PROVE  Cardinality(ResultsIn(log, j)) = IF jstat[j] = "SUCCEEDED" THEN 1 ELSE 0
      <3>1. CASE jstat[j] = "SUCCEEDED"
        BY <3>1, FS_Singleton DEF LogInv, RecordedOnce
      <3>2. CASE jstat[j] # "SUCCEEDED"
        BY <3>2, FS_EmptySet DEF LogInv, RecordedOnce
      <3> QED BY <3>1, <3>2
    <2> QED BY <2>1 DEF ResultOnce, ResultsIn, LogInv, InOrder
  <1> QED BY <1>1, InitLogInv, NextLogInv, PTL DEF Spec

\* At every point, whatever sessions have crashed or raced, replaying the log
\* from its first event yields the status and the stage of the row, so that the
\* check of persistence._verify never rejects what the queue itself wrote.
THEOREM LogReplays == Spec => []ReplayMatchesRow
  <1>1. LogInv => ReplayMatchesRow
    <2> SUFFICES ASSUME LogInv PROVE ReplayMatchesRow
      OBVIOUS
    <2>1. Replay(log) = [status |-> IF status = "FAILED" THEN "RUNNING" ELSE status, stage |-> stage]
      BY DEF LogInv, Replayed
    <2>2. status \in {"PENDING", "RUNNING", "SUCCEEDED", "FAILED"}
      BY DEF LogInv, QueueInv, BarrierInv, WriterInv, LockInv, TypeOK, InvestigationTypes
    <2> QED BY <2>1, <2>2 DEF ReplayMatchesRow, Mismatch
  <1> QED BY <1>1, InitLogInv, NextLogInv, PTL DEF Spec
=============================================================================
