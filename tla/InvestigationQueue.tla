------------------------- MODULE InvestigationQueue -------------------------
(***************************************************************************)
(* The leased job queue that drives one investigation: the plpgsql          *)
(* functions of supabase/migrations/0019..0027 and the worker loop of       *)
(* casezero_investigation/worker.py and persistence.py that calls them.     *)
(*                                                                         *)
(* A single-statement database function is one action.  The two            *)
(* transactions that hold row locks across statements, the claim and the   *)
(* persistence of a stage result, are split where another session can      *)
(* commit in between, as READ COMMITTED allows.  Their writes take effect  *)
(* at the commit; the row locks they hold are derived from the program     *)
(* counter of the session that holds them.                                 *)
(***************************************************************************)
EXTENDS Integers, Sequences, FiniteSets

CONSTANTS
  Worker,         \* worker sessions; a crashed session may come back
  NoWorker,       \* worker_id is null
  Key,            \* work keys: batch numbers, hypothesis ids, test ids
  CaseKey,        \* the work key 'case'
  LastStage,      \* number of stages (11 in the code); COMPLETE is the last
  CaseStage,      \* stages whose only work key is 'case'
  ModelStage,     \* stages whose jobs may call the model
  PureStage,      \* stages whose jobs may finish without calling it
  ResolvingStage, \* stages where exhausted requests are a result, not a failure
  MaxAttempts,    \* attempt_count limit (3 in the code)
  MaxRequests     \* model_request_count limit (3 in the code)

Stage   == 1..LastStage
Job     == Stage \X Key
Attempt == 1..MaxAttempts
Request == 1..MaxRequests

ASSUME QueueAssumption ==
  /\ Worker # {} /\ NoWorker \notin Worker
  /\ CaseKey \in Key /\ IsFiniteSet(Key)
  /\ LastStage \in Nat \ {0}
  /\ MaxAttempts \in Nat \ {0} /\ MaxRequests \in Nat \ {0}
  /\ CaseStage \subseteq Stage /\ LastStage \in CaseStage
  /\ ModelStage \cup PureStage = Stage
  /\ ResolvingStage \subseteq ModelStage

VARIABLES
  caseState,  \* cases.state, BLIND or LOCKED
  status,     \* investigations.status
  stage,      \* investigations.current_stage
  log,        \* investigation_events, in sequence order
  jstat,      \* investigation_jobs.status ("ABSENT": no such row yet)
  attempts,   \* investigation_jobs.attempt_count
  requests,   \* investigation_jobs.model_request_count
  owner,      \* investigation_jobs.worker_id
  lease,      \* lease_expires_at > clock_timestamp()
  outcome,    \* investigation_job_attempts.outcome, per attempt number
  span,       \* status of the AGENT span of each attempt
  request,    \* model_request_attempts.status, per request ordinal
  calls,      \* history: provider calls made under each request ordinal
  pc,         \* where each worker session is
  cur,        \* the job the session works on
  att,        \* the attempt_count it was handed with the job
  ordinal,    \* the ordinal of the request it last reserved
  left,       \* iterations left of the loop in _generate
  seen,       \* current_stage as the claim read it, without a lock
  swept       \* the expired jobs the claim transaction has locked

invVars  == <<status, stage, log>>
jobVars  == <<jstat, attempts, requests, owner, lease, outcome, span, request>>
dbVars   == <<invVars, jobVars>>
vars     == <<caseState, dbVars, calls, pc, cur, att, ordinal, left, seen, swept>>

JobsOf(s) == {s} \X Key

WorkKeys(s) == IF s \in CaseStage THEN {{CaseKey}} ELSE (SUBSET Key) \ {{}}

-----------------------------------------------------------------------------
(* Row locks.  A claim that will commit holds the jobs it swept and the one *)
(* it grants; a persisting worker holds its job from the first fence, the   *)
(* advisory lock from the second and the investigation row from its first   *)
(* append to the commit.  All of them hold the case row FOR SHARE.          *)

ClaimPc   == {"grant", "doom"}
WriterPc  == {"written", "last", "sibling"}
PersistPc == {"fencing", "fenced"} \cup WriterPc

InTxClaimOnly(w) == pc[w] \in ClaimPc
InTx(w)          == pc[w] \in ClaimPc \cup PersistPc

HoldsJob(w, j) ==
  \/ pc[w] \in PersistPc /\ cur[w] = j
  \/ pc[w] = "grant" /\ (cur[w] = j \/ j \in swept[w])
  \/ pc[w] = "doom" /\ j \in swept[w]

UnclaimedJob(j) == \A w \in Worker : pc[w] \in ClaimPc => ~HoldsJob(w, j)
JobFree(j)      == \A w \in Worker : ~HoldsJob(w, j)
InvFree         == \A w \in Worker : pc[w] \notin WriterPc
AdvisoryFree    == \A w \in Worker : pc[w] \notin {"fenced"} \cup WriterPc

\* phase3_assert_lease of job j, called by w
LeaseHeld(w, j) ==
  /\ jstat[j] = "RUNNING"
  /\ owner[j] = w
  /\ attempts[j] = att[w]
  /\ lease[j]
  /\ caseState = "BLIND"

\* the stage and status test of _fence and of complete_stage_job
StageRunning(w) == status = "RUNNING" /\ stage = cur[w][1]

Event(kind, s, k) == [kind |-> kind, stage |-> s, key |-> k]

Goto(w, there) == pc' = [pc EXCEPT ![w] = there]

localVars == <<cur, att, ordinal, left, seen, swept>>

\* The call of run_once ends, or dies: nothing it knew outlives it.
Leave(w) ==
  /\ pc'      = [pc EXCEPT ![w] = "idle"]
  /\ cur'     = [cur EXCEPT ![w] = <<1, CaseKey>>]
  /\ att'     = [att EXCEPT ![w] = 0]
  /\ ordinal' = [ordinal EXCEPT ![w] = 0]
  /\ left'    = [left EXCEPT ![w] = 0]
  /\ seen'    = [seen EXCEPT ![w] = 1]
  /\ swept'   = [swept EXCEPT ![w] = {}]

-----------------------------------------------------------------------------
(* create_investigation: the row, its first event and the jobs of stage 1.  *)
Init ==
  /\ caseState = "BLIND"
  /\ status = "PENDING" /\ stage = 1
  /\ log = <<Event("STARTED", 1, CaseKey)>>
  /\ \E keys \in WorkKeys(1) :
       jstat = [j \in Job |-> IF j \in {1} \X keys THEN "PENDING" ELSE "ABSENT"]
  /\ attempts = [j \in Job |-> 0]
  /\ requests = [j \in Job |-> 0]
  /\ owner    = [j \in Job |-> NoWorker]
  /\ lease    = [j \in Job |-> FALSE]
  /\ outcome  = [j \in Job |-> [n \in Attempt |-> "NONE"]]
  /\ span     = [j \in Job |-> [n \in Attempt |-> "NONE"]]
  /\ request  = [j \in Job |-> [n \in Request |-> "NONE"]]
  /\ calls    = [j \in Job |-> [n \in Request |-> 0]]
  /\ pc       = [w \in Worker |-> "idle"]
  /\ cur      = [w \in Worker |-> <<1, CaseKey>>]
  /\ att      = [w \in Worker |-> 0]
  /\ ordinal  = [w \in Worker |-> 0]
  /\ left     = [w \in Worker |-> 0]
  /\ seen     = [w \in Worker |-> 1]
  /\ swept    = [w \in Worker |-> {}]

-----------------------------------------------------------------------------
(* claim_investigation_job *)

\* Reads the investigation row without locking it; a terminal one yields no job.
ClaimRead(w) ==
  /\ pc[w] = "idle"
  /\ status \in {"PENDING", "RUNNING"}
  /\ seen' = [seen EXCEPT ![w] = stage]
  /\ Goto(w, "claim")
  /\ UNCHANGED <<caseState, dbVars, calls, cur, att, ordinal, left, swept>>

\* "case is not blind" is raised and run_once lets it propagate.
ClaimRefused(w) ==
  /\ pc[w] = "claim"
  /\ caseState # "BLIND"
  /\ Leave(w)
  /\ UNCHANGED <<caseState, dbVars, calls>>

\* The rows of the sweep: FOR UPDATE SKIP LOCKED.
ExpiredUnlocked == {j \in Job : jstat[j] = "RUNNING" /\ ~lease[j]}
Expired == {j \in Job : jstat[j] = "RUNNING" /\ ~lease[j] /\ JobFree(j)}

SpentRequests(j) == requests[j] >= MaxRequests
Spent(j) == attempts[j] >= MaxAttempts \/ requests[j] >= MaxRequests

\* What the claim sees once it has swept the jobs X.
AnyFailedNow(X) == \E j \in X : Spent(j)
AnyFailed(X)    == \E j \in Job : jstat[j] = "FAILED" \/ (j \in X /\ Spent(j))
Claimable(w, X) ==
  {j \in JobsOf(seen[w]) : /\ attempts[j] < MaxAttempts
                           /\ \/ jstat[j] = "PENDING" /\ JobFree(j)
                              \/ j \in X /\ ~Spent(j)}

\* The writes of the claim to the job, attempt, span and request rows: the
\* swept jobs X are released and the jobs G (none or one) granted to w.
CloseAttempts(X, G) ==
  [j \in Job |-> [n \in Attempt |->
     IF j \in X /\ n = attempts[j] THEN "LEASE_EXPIRED"
     ELSE IF j \in G /\ n = attempts[j] + 1 THEN "RUNNING" ELSE outcome[j][n]]]

KeepSpans(X)  == span
CloseSpans(X) ==
  [j \in Job |-> [n \in Attempt |->
     IF j \in X /\ n = attempts[j] /\ span[j][n] = "RUNNING" THEN "FAILED" ELSE span[j][n]]]

KeepRequests(X)  == request
CloseRequests(X) ==
  [j \in Job |-> [n \in Request |->
     IF j \in X /\ request[j][n] = "RESERVED" THEN "LEASE_EXPIRED" ELSE request[j][n]]]

ClaimWrites(w, X, G) ==
  /\ jstat'    = [j \in Job |-> IF j \in G THEN "RUNNING"
                                ELSE IF j \notin X THEN jstat[j]
                                ELSE IF Spent(j) THEN "FAILED" ELSE "PENDING"]
  /\ attempts' = [j \in Job |-> IF j \in G THEN attempts[j] + 1 ELSE attempts[j]]
  /\ owner'    = [j \in Job |-> IF j \in G THEN w
                                ELSE IF j \in X THEN NoWorker ELSE owner[j]]
  /\ lease'    = [j \in Job |-> j \in G \/ (j \notin X /\ lease[j])]
  /\ outcome'  = CloseAttempts(X, G)
  /\ span'     = CloseSpans(X)
  /\ request'  = CloseRequests(X)
  /\ UNCHANGED requests

\* No failed job and nothing to grant: the sweep commits and None is returned.
ClaimNothing(w) ==
  /\ pc[w] = "claim" /\ caseState = "BLIND"
  /\ ~AnyFailed(Expired) /\ Claimable(w, Expired) = {}
  /\ ClaimWrites(w, Expired, {})
  /\ Leave(w)
  /\ UNCHANGED <<caseState, invVars, calls>>

\* A failed job: the claim goes on to fail the investigation.
ClaimDooms(w) ==
  /\ pc[w] = "claim" /\ caseState = "BLIND"
  /\ AnyFailed(Expired)
  /\ swept' = [swept EXCEPT ![w] = Expired]
  /\ Goto(w, "doom")
  /\ UNCHANGED <<caseState, dbVars, calls, cur, att, ordinal, left, seen>>

\* A job is picked and locked; the investigation row is updated last.
ClaimPicks(w) ==
  /\ pc[w] = "claim" /\ caseState = "BLIND"
  /\ ~AnyFailed(Expired)
  /\ \E j \in Claimable(w, Expired) :
       /\ cur' = [cur EXCEPT ![w] = j]
       /\ att' = [att EXCEPT ![w] = attempts[j] + 1]
  /\ swept' = [swept EXCEPT ![w] = Expired]
  /\ Goto(w, "grant")
  /\ UNCHANGED <<caseState, dbVars, calls, ordinal, left, seen>>

Doom(w) ==
  /\ pc[w] = "doom" /\ InvFree
  /\ ClaimWrites(w, swept[w], {})
  /\ status' = "FAILED"
  /\ Leave(w)
  /\ UNCHANGED <<caseState, stage, log, calls>>

\* When the trigger of migration 0023 fires: on the row as the update finds it,
\* not as the claim read it.
EveryGrant == stage = 1
Restarts   == status # "RUNNING" /\ stage = 1
FirstStart == status = "PENDING" /\ stage = 1

\* The update of the investigation has no condition on its status.
Grant(w) ==
  /\ pc[w] = "grant" /\ InvFree
  /\ ClaimWrites(w, swept[w], {cur[w]})
  /\ status' = "RUNNING"
  /\ log' = IF FirstStart
            THEN Append(log, Event("TRANSITION", 1, CaseKey)) ELSE log
  /\ swept' = [swept EXCEPT ![w] = {}]
  /\ Goto(w, "claimed")
  /\ UNCHANGED <<caseState, stage, calls, cur, att, ordinal, left, seen>>

-----------------------------------------------------------------------------
(* Worker.run_once and _stage up to the result of the stage *)

\* start_span, then _generate reads the requests already spent on the job.
StartSpan(w) ==
  /\ pc[w] = "claimed" /\ LeaseHeld(w, cur[w]) /\ JobFree(cur[w])
  /\ span' = [span EXCEPT ![cur[w]][att[w]] = "RUNNING"]
  /\ left' = [left EXCEPT ![w] = MaxRequests - requests[cur[w]]]
  /\ Goto(w, "working")
  /\ UNCHANGED <<caseState, invVars, jstat, attempts, requests, owner, lease, outcome,
                 request, calls, cur, att, ordinal, seen, swept>>

\* Nothing reserved yet in this run of the job.
Fresh(w) == ordinal[w] = 0

\* An empty batch, a deterministic test or a stage without a prompt.
Deterministic(w) ==
  /\ pc[w] = "working" /\ cur[w][1] \in PureStage /\ Fresh(w)
  /\ Goto(w, "persist")
  /\ UNCHANGED <<caseState, dbVars, calls, localVars>>

\* No evidence, no claims, an input over MAX_INPUT_BYTES, a failing read.
StageFails(w) ==
  /\ pc[w] = "working" /\ Fresh(w)
  /\ Goto(w, "failing")
  /\ UNCHANGED <<caseState, dbVars, calls, localVars>>

FirstUnusedHere(w) == ordinal[w] + 1
NextOrdinal(w)     == requests[cur[w]] + 1

Reserve(w) ==
  /\ pc[w] = "working" /\ cur[w][1] \in ModelStage /\ left[w] > 0
  /\ LeaseHeld(w, cur[w]) /\ JobFree(cur[w])
  /\ requests[cur[w]] < MaxRequests
  /\ requests' = [requests EXCEPT ![cur[w]] = @ + 1]
  /\ request'  = [request EXCEPT ![cur[w]][NextOrdinal(w)] = "RESERVED"]
  /\ ordinal'  = [ordinal EXCEPT ![w] = NextOrdinal(w)]
  /\ left'     = [left EXCEPT ![w] = @ - 1]
  /\ Goto(w, "reserved")
  /\ UNCHANGED <<caseState, invVars, jstat, attempts, owner, lease, outcome, span,
                 calls, cur, att, seen, swept>>

\* The access audit cannot be written: no call is made.
AuditFails(w) ==
  /\ pc[w] = "reserved"
  /\ Goto(w, "failing")
  /\ UNCHANGED <<caseState, dbVars, calls, localVars>>

\* model.generate; no lease is consulted between the reservation and the call.
CallModel(w) ==
  /\ pc[w] = "reserved"
  /\ calls' = [calls EXCEPT ![cur[w]][ordinal[w]] = @ + 1]
  /\ Goto(w, "calling")
  /\ UNCHANGED <<caseState, dbVars, localVars>>

\* finish_model_request with the verdict on the answer; a usable answer leaves
\* the loop, another one stays in it until no iteration is left.
FinishRequest(w, verdict) ==
  /\ pc[w] = "calling"
  /\ LeaseHeld(w, cur[w]) /\ JobFree(cur[w])
  /\ request[cur[w]][ordinal[w]] = "RESERVED"
  /\ request' = [request EXCEPT ![cur[w]][ordinal[w]] = verdict]
  /\ Goto(w, IF verdict = "SUCCEEDED" THEN "persist"
             ELSE IF left[w] > 0 THEN "working"
             ELSE IF cur[w][1] \in ResolvingStage THEN "persist" ELSE "failing")
  /\ UNCHANGED <<caseState, invVars, jstat, attempts, requests, owner, lease, outcome,
                 span, calls, localVars>>

-----------------------------------------------------------------------------
(* persist_stage_result: one transaction *)

\* The first _fence locks the job; a stage that is no longer running raises.
FenceJob(w) ==
  /\ pc[w] = "persist" /\ LeaseHeld(w, cur[w]) /\ JobFree(cur[w])
  /\ Goto(w, IF StageRunning(w) THEN "fencing" ELSE "failing")
  /\ UNCHANGED <<caseState, dbVars, calls, localVars>>

\* pg_advisory_xact_lock, then the second _fence.
FenceInvestigation(w) ==
  /\ pc[w] = "fencing" /\ AdvisoryFree /\ LeaseHeld(w, cur[w])
  /\ Goto(w, IF StageRunning(w) THEN "fenced" ELSE "failing")
  /\ UNCHANGED <<caseState, dbVars, calls, localVars>>

\* The search behind a draft fails, or a validation, a reference or a replay
\* check raises inside the transaction: rollback.
Rejected(w) ==
  /\ pc[w] \in {"persist", "fenced"} \cup WriterPc
  /\ Goto(w, "failing")
  /\ UNCHANGED <<caseState, dbVars, calls, localVars>>

\* The first append_investigation_event or complete_stage_job takes the row.
LockInvestigation(w) ==
  /\ pc[w] = "fenced" /\ InvFree
  /\ Goto(w, IF StageRunning(w) THEN "written" ELSE "failing")
  /\ UNCHANGED <<caseState, dbVars, calls, localVars>>

\* What complete_stage_job sees of the other jobs of the stage.
SiblingsEnded(w) == \A j \in JobsOf(cur[w][1]) \ {cur[w]} : jstat[j] \notin {"PENDING", "RUNNING"}
SiblingsIdle(w)  == \A j \in JobsOf(cur[w][1]) \ {cur[w]} : jstat[j] # "PENDING"
SiblingsDone(w)  == \A j \in JobsOf(cur[w][1]) \ {cur[w]} : jstat[j] \in {"ABSENT", "SUCCEEDED"}

\* complete_stage_job: the last statement that asserts the lease.  What it
\* writes is there for others at the commit, after one more replay.
Complete(w) ==
  /\ pc[w] = "written" /\ LeaseHeld(w, cur[w])
  /\ Goto(w, IF SiblingsDone(w) THEN "last" ELSE "sibling")
  /\ UNCHANGED <<caseState, dbVars, calls, localVars>>

\* What every commit leaves: the job, its attempt and its span have succeeded.
Commit(w) ==
  LET j == cur[w] IN
  /\ owner'   = [owner EXCEPT ![j] = NoWorker]
  /\ lease'   = [lease EXCEPT ![j] = FALSE]
  /\ outcome' = [outcome EXCEPT ![j][att[w]] = "SUCCEEDED"]
  /\ span'    = [span EXCEPT ![j][att[w]] = "SUCCEEDED"]
  /\ Leave(w)
  /\ UNCHANGED <<caseState, attempts, requests, request, calls>>

Result(w) == Event("RESULT", cur[w][1], cur[w][2])

CommitOne(w) ==
  /\ pc[w] = "sibling" /\ Commit(w)
  /\ jstat' = [jstat EXCEPT ![cur[w]] = "SUCCEEDED"]
  /\ log'   = Append(log, Result(w))
  /\ UNCHANGED <<status, stage>>

\* The last job of a stage enqueues the jobs of the next.
CommitStage(w) ==
  LET next == cur[w][1] + 1 IN
  /\ pc[w] = "last" /\ Commit(w) /\ next \in Stage
  /\ \E keys \in WorkKeys(next) :
       jstat' = [j \in Job |-> IF j = cur[w] THEN "SUCCEEDED"
                               ELSE IF j \in {next} \X keys /\ jstat[j] = "ABSENT"
                               THEN "PENDING" ELSE jstat[j]]
  /\ log'   = Append(Append(log, Result(w)), Event("TRANSITION", next, CaseKey))
  /\ stage' = next
  /\ UNCHANGED status

\* The job of COMPLETE: its result is the completion event.
CommitInvestigation(w) ==
  /\ pc[w] = "last" /\ Commit(w) /\ cur[w][1] = LastStage
  /\ jstat'  = [jstat EXCEPT ![cur[w]] = "SUCCEEDED"]
  /\ log'    = Append(log, Result(w))
  /\ status' = "SUCCEEDED"
  /\ UNCHANGED stage

-----------------------------------------------------------------------------
(* The failure path of run_once *)

FinishSpan(w) ==
  /\ pc[w] = "failing" /\ LeaseHeld(w, cur[w]) /\ JobFree(cur[w])
  /\ span[cur[w]][att[w]] = "RUNNING"
  /\ span' = [span EXCEPT ![cur[w]][att[w]] = "FAILED"]
  /\ Goto(w, "closing")
  /\ UNCHANGED <<caseState, invVars, jstat, attempts, requests, owner, lease, outcome,
                 request, calls, localVars>>

\* fail_stage_job: no condition on the status of the investigation.
FailJob(w) ==
  /\ pc[w] = "closing" /\ LeaseHeld(w, cur[w]) /\ JobFree(cur[w]) /\ InvFree
  /\ jstat'   = [jstat EXCEPT ![cur[w]] = "FAILED"]
  /\ owner'   = [owner EXCEPT ![cur[w]] = NoWorker]
  /\ lease'   = [lease EXCEPT ![cur[w]] = FALSE]
  /\ outcome' = [outcome EXCEPT ![cur[w]][att[w]] = "FAILED"]
  /\ status'  = "FAILED"
  /\ Leave(w)
  /\ UNCHANGED <<caseState, stage, log, attempts, requests, span, request, calls>>

\* Any lease-asserting call of a worker that lost its lease raises; the failure
\* path asserts the lease too, so the exception leaves run_once.
LeaseLost(w) ==
  /\ pc[w] \in {"claimed", "working", "calling", "persist", "fencing", "written",
                "failing", "closing"}
  /\ ~LeaseHeld(w, cur[w])
  /\ Leave(w)
  /\ UNCHANGED <<caseState, dbVars, calls>>

-----------------------------------------------------------------------------
(* The environment *)

\* The worker process dies or its connection drops: the transaction is rolled
\* back and its locks go; the row it claimed stays RUNNING until the lease ends.
Crash(w) ==
  /\ pc[w] # "idle"
  /\ Leave(w)
  /\ UNCHANGED <<caseState, dbVars, calls>>

\* Thirty minutes pass.
LeaseExpires(j) ==
  /\ jstat[j] = "RUNNING" /\ lease[j]
  /\ lease' = [lease EXCEPT ![j] = FALSE]
  /\ UNCHANGED <<caseState, invVars, jstat, attempts, requests, owner, outcome, span,
                 request, calls, pc, localVars>>

\* lock_investigation takes the case row FOR UPDATE, so it waits for every
\* transaction that holds it FOR SHARE.
LockCase ==
  /\ caseState = "BLIND"
  /\ \A w \in Worker : ~InTx(w)
  /\ caseState' = "LOCKED"
  /\ UNCHANGED <<dbVars, calls, pc, localVars>>

-----------------------------------------------------------------------------
Claim(w)    == \/ ClaimRead(w) \/ ClaimRefused(w) \/ ClaimNothing(w)
               \/ ClaimDooms(w) \/ ClaimPicks(w)
Work(w)     == \/ StartSpan(w) \/ Deterministic(w) \/ Reserve(w) \/ CallModel(w)
               \/ \E verdict \in {"SUCCEEDED", "REJECTED"} : FinishRequest(w, verdict)
               \/ FenceJob(w) \/ FinishSpan(w) \/ FailJob(w)
Transact(w) == \/ Doom(w) \/ Grant(w) \/ FenceInvestigation(w) \/ LockInvestigation(w)
               \/ Complete(w) \/ CommitOne(w) \/ CommitStage(w) \/ CommitInvestigation(w)
Trouble(w)  == StageFails(w) \/ AuditFails(w) \/ Rejected(w) \/ Crash(w)
Step(w)     == Claim(w) \/ Work(w) \/ Transact(w) \/ LeaseLost(w)

Next ==
  \/ \E w \in Worker : Step(w) \/ Trouble(w)
  \/ \E j \in Job : LeaseExpires(j)
  \/ LockCase

Spec == Init /\ [][Next]_vars
-----------------------------------------------------------------------------
(* Fairness.  A transaction ends: a statement that can run does run, and a *)
(* dropped one rolls back; a claim tried over and over is not dropped every *)
(* time.  The pollers are the sessions an operator keeps running.  Time     *)
(* passes.  Nothing else is assumed of the other sessions, which may stop.  *)

TxEnds(w) == Transact(w) \/ (InTx(w) /\ LeaseLost(w))

Decides(w) == ClaimNothing(w) \/ ClaimDooms(w) \/ ClaimPicks(w)

Fairness(Poller) ==
  /\ \A w \in Worker : WF_vars(TxEnds(w)) /\ SF_vars(Grant(w) \/ Doom(w))
  /\ \A w \in Poller : WF_vars(Step(w)) /\ SF_vars(Decides(w))
  /\ \A j \in Job : WF_vars(LeaseExpires(j))

-----------------------------------------------------------------------------
(* Properties *)

Pc == {"idle", "claim", "grant", "doom", "claimed", "working", "reserved", "calling",
       "persist", "fencing", "fenced", "written", "last", "sibling", "failing", "closing"}

EventKind == {"STARTED", "TRANSITION", "RESULT"}

EventRow == [kind : EventKind, stage : Stage, key : Key]

\* The rows of cases, investigations and investigation_events.
InvestigationTypes ==
  /\ caseState \in {"BLIND", "LOCKED"}
  /\ status \in {"PENDING", "RUNNING", "SUCCEEDED", "FAILED"}
  /\ stage \in Stage
  /\ log \in Seq(EventRow)

\* The job rows, their attempts and their spans.
JobTypes ==
  /\ jstat \in [Job -> {"ABSENT", "PENDING", "RUNNING", "SUCCEEDED", "FAILED"}]
  /\ attempts \in [Job -> 0..MaxAttempts]
  /\ owner \in [Job -> Worker \cup {NoWorker}]
  /\ lease \in [Job -> BOOLEAN]
  /\ outcome \in [Job -> [Attempt -> {"NONE", "RUNNING", "SUCCEEDED", "FAILED", "LEASE_EXPIRED"}]]
  /\ span \in [Job -> [Attempt -> {"NONE", "RUNNING", "SUCCEEDED", "FAILED"}]]

\* The model requests of the jobs and the calls made under them.
RequestTypes ==
  /\ requests \in [Job -> 0..MaxRequests]
  /\ request \in [Job -> [Request -> {"NONE", "RESERVED", "SUCCEEDED", "REJECTED", "LEASE_EXPIRED"}]]
  /\ calls \in [Job -> [Request -> Nat]]

\* What a worker session knows.
SessionTypes ==
  /\ pc \in [Worker -> Pc]
  /\ cur \in [Worker -> Job]
  /\ att \in [Worker -> 0..MaxAttempts]
  /\ ordinal \in [Worker -> 0..MaxRequests]
  /\ left \in [Worker -> 0..MaxRequests]
  /\ seen \in [Worker -> Stage]
  /\ swept \in [Worker -> SUBSET Job]

WorkerIdIffRunning == \A j \in Job : owner[j] # NoWorker <=> jstat[j] = "RUNNING"

\* Types, with the check constraints of the tables: 0..3 attempts and requests,
\* a worker_id exactly on the RUNNING jobs.
TypeOK ==
  /\ InvestigationTypes /\ JobTypes /\ RequestTypes /\ SessionTypes
  /\ WorkerIdIffRunning

\* Every provider call has a reservation of its own, so a job makes at most
\* MaxRequests of them over all its attempts, those of workers that lost the
\* lease included (reserve_model_request, _generate).
CallsWithinBudget ==
  \A j \in Job, n \in Request : calls[j][n] <= 1 /\ (calls[j][n] = 1 => n <= requests[j])

\* The attempt rows tell the history of the job: one per claim, only the last
\* one open and only while the job runs, the verdict of a settled job on its
\* last attempt; no span outlives its attempt and only a completed one succeeds.
AttemptHistory ==
  \A j \in Job, n \in Attempt :
    /\ outcome[j][n] = "NONE" <=> n > attempts[j]
    /\ outcome[j][n] = "RUNNING" <=> n = attempts[j] /\ jstat[j] = "RUNNING"
    /\ outcome[j][n] \in {"SUCCEEDED", "FAILED"} => n = attempts[j] /\ jstat[j] = outcome[j][n]
    /\ span[j][n] = "RUNNING" => outcome[j][n] = "RUNNING"
    /\ span[j][n] = "SUCCEEDED" <=> outcome[j][n] = "SUCCEEDED"

\* A request left open by a lost worker is closed before the job can run again:
\* an open one is the last of its job, and its job is running or has failed.
OpenRequestsOwned ==
  \A j \in Job, n \in Request :
    request[j][n] = "RESERVED" => n = requests[j] /\ jstat[j] \in {"RUNNING", "FAILED"}

\* The stage advances when, and only when, the last of its jobs succeeds: no
\* unfinished job is left behind, none exists ahead, and an investigation that
\* is still open has work in its current stage (complete_stage_job locks the
\* investigation row, so two siblings cannot both think the other unfinished).
StageBarrier ==
  /\ \A j \in Job : /\ j[1] < stage => jstat[j] \in {"ABSENT", "SUCCEEDED"}
                    /\ j[1] > stage => jstat[j] = "ABSENT"
  /\ status = "SUCCEEDED" <=>
       stage = LastStage /\ \A j \in JobsOf(stage) : jstat[j] \in {"ABSENT", "SUCCEEDED"}
  /\ status # "SUCCEEDED" =>
       \E j \in JobsOf(stage) : jstat[j] \in {"PENDING", "RUNNING", "FAILED"}

\* However often a job is reclaimed, its result is persisted exactly once, when
\* it succeeds, and between the two transitions that bound its stage.
ResultOnce ==
  /\ \A j \in Job :
       Cardinality({i \in DOMAIN log : log[i] = Event("RESULT", j[1], j[2])})
         = IF jstat[j] = "SUCCEEDED" THEN 1 ELSE 0
  /\ \A i, k \in DOMAIN log : i < k => log[i].stage <= log[k].stage

\* A settled job never runs again and never changes its verdict, whatever a
\* worker that lost its lease still does.
SettledJobsStay ==
  [][\A j \in Job : jstat[j] \in {"SUCCEEDED", "FAILED"} => jstat'[j] = jstat[j]]_jstat

\* After SUCCEEDED no row of the investigation changes.
SuccessIsFinal == [][status = "SUCCEEDED" => UNCHANGED dbVars]_vars

\* "Case no longer BLIND: job claim and writes fail closed": once the case is
\* locked no row of the investigation changes; only the clock goes on.
LockFreezes ==
  [][caseState = "LOCKED" =>
       UNCHANGED <<invVars, jstat, attempts, requests, owner, outcome, span, request>>]_vars

\* "Provider/schema exhaustion and deterministic validation failure are
\* terminal": a failed investigation stays failed.
FailureIsTerminal == [][status = "FAILED" => status' = "FAILED"]_vars

\* "Only worker/process interruption and lease expiry are reclaimable, up to
\* three job attempts": a job whose lease ran out is not failed while it has
\* attempts left.
InterruptionReclaimable ==
  [][\A j \in Job : jstat[j] = "RUNNING" /\ ~lease[j] /\ attempts[j] < MaxAttempts
                      => jstat'[j] # "FAILED"]_jstat

\* Whatever workers crash, stall or lose their leases, the investigation
\* ends, provided that somebody polls and nobody locks the case meanwhile.
EventuallySettled == <>[](status \in {"SUCCEEDED", "FAILED"} \/ caseState = "LOCKED")
=============================================================================
