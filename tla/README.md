# CaseZero in TLA+

CaseZero investigates aviation accidents from NTSB dockets without looking at the
official findings. A case is acquired, made BLIND at an evidence cutoff, its
documents are processed into evidence, an investigation runs over that evidence in
eleven stages, and the result is locked before it is compared with the official
one. State lives in PostgreSQL; Python workers call database functions.

This directory holds models of that system, the TLC runs that check them and TLAPS
proofs about them. `PROJECT.json` maps each definition to the source lines it stands
for.

## Inventory

| Component | State | Operations | What is hard | What makes it correct |
|---|---|---|---|---|
| Job queue (migrations 0019-0028) | `investigations`, `investigation_jobs`, `..._attempts`, `model_request_attempts`, spans | create, claim (with the sweep of expired leases), reserve and finish request, start and finish span, complete, fail | many workers, READ COMMITTED, unlocked reads, SKIP LOCKED, leases | stages in order, one result per job, budgets, settled jobs stay, every investigation ends |
| Worker (`worker.py`, `jobs.py`) | the claimed job, its lease token, the request loop | `run_once`, `_stage`, `_generate` | crash at any await; lease lost during a model call | nothing a stale worker does counts |
| Stage persistence (`persistence.py`) | one transaction | fences, advisory lock, records, event append, completion, replay | two siblings persist at once; state read at the first fence is used at the last write | the log agrees with the row at every commit |
| Event log and replay (`events.py`, `replay.py`, `canonical.py`) | hash-chained events | append, replay | order of events, versions of the transition payload | replaying gives the row |
| Case lifecycle and lock (0011-0016, `lock.py`) | `cases.state`, cutoff, `investigation_locks` | `enter_blind`, `lock_investigation`, trigger guards | guards read the state without a lock | nothing changes after the lock; the hash covers all evidence |
| Processing runs (`orchestrator.py`, `repository.py`) | runs, artifacts, structural units | start, complete, fail, mark unsupported, reuse | two processings of one case, failure between statements | a succeeded run has its units, runs end |
| Semantic pipeline (`process.py`, `candidates.py`) | completions, evidence, candidates | interpret and persist units, propose and persist batches | bounded concurrency, resumption, "latest run" lookups | a completion names the run whose evidence is stored |
| Stores and acquisition (`supabase_store.py`, `downloader.py`) | objects by checksum, request slots | put, get, download with retries | objects that cannot be fetched, loss between object and row, rate limit | what is stored under a checksum has it |
| Reasoning over evidence (`confidence.py`, `falsification.py`, `critic.py`, `promotion.py`, `hypotheses.py`) | none: pure functions | score, rank, validate, cluster | ties, clamps, order of inputs | bounds, determinism, order independence |
| Retrieval (`tools.py`, retrieval package) | none | search, filter, score | filters, limit and ties on one ranking | no fitting evidence lost to a worse one |
| Blindness, audit, leakage (0012, 0015, `access.py`, `leakage.py`) | audit events | read, record, audit | boundary times; stamps of transactions that wait | nothing past the cutoff is handed out, every access is recorded, the auditor agrees |
| Document processors, model client, CLI, scripts | none | parsing, HTTP, wiring | - | out of scope: pure I/O or external formats |

Interactions: the worker calls the queue and, for a finished stage, persistence; both
re-read the state of the case under a row lock, which is how they meet the case lock.
Persistence appends to the log and replays it. The pipelines write the evidence the
investigation is created from and are stopped by the trigger guards.

## Modules

| Module | Stands for |
|---|---|
| `InvestigationQueue` | the queue, the worker loop and the persisting transaction of one investigation |
| `EventReplay` | `replay._apply` and `_verify`, restricted to status and stage, over the log the queue writes: a recursive function over the length of the log |
| `Investigation` | abstract specification: what the queue promises, without workers |
| `QueueRefinement` | the refinement mapping from the queue to `Investigation` |
| `Assessment` | one investigation from candidates to ranked hypotheses: what the stages compute, check and store |
| `Promotion`, `Hypotheses`, `Verdicts`, `Retrieval` | the pure functions of those stages: batches and clusters, accepted drafts and critiques, test results, confidences and statuses, search |
| `CanonicalRecords` | the tables of an investigation, what its events replay to and which events replay accepts |
| `SemanticPipeline` | the semantic stage of `casezero process` and the lock of the case |
| `CandidateBatches` | the candidate stage of `casezero process` |
| `ProcessingRuns` | the inventory and structural stage of `casezero process`, with the artifact store |
| `CaseBoundary` | ingestion, cutoff, linking, the blind role's reads, lock, evaluation and the leakage auditor |
| `MCQueue`, `MCSemantic`, `MCCandidates`, `MCProcessing`, `MCBoundary`, `MCAssessment` | values for TLC |
| `Loops` | lemmas: induction over sets of numbers, and that recursive functions exist |
| `InvestigationQueue_proofs`, `QueueRefinement_proofs`, `SemanticPipeline_proofs`, `CandidateBatches_proofs`, `ProcessingRuns_proofs`, `CaseBoundary_proofs`, `Assessment_proofs` | proofs |

`Assessment` is the composition of `Promotion`, `Retrieval` and `CanonicalRecords` (which
extends `Verdicts`, which extends `Hypotheses`). `InvestigationQueue`, `EventReplay` and
`QueueRefinement` are a chain that ends in `MCQueue`. The other modules meet the queue only
through the state of the case; each has its own `LockCase`, `LockReads`/`LockCommits` or
`LockBegin`/`LockEnd` with the part of `lock_investigation` that it can observe.

### How InvestigationQueue corresponds to the code

*State.* One function per column that a guard or a property reads: `jstat`,
`attempts`, `requests`, `owner` and `lease` are `investigation_jobs`; `outcome`,
`span` and `request` are the attempt, AGENT-span and request rows of each job;
`status`, `stage` and `log` the investigation and its events; `caseState` the case.
A lease is a Boolean, since only `lease_expires_at > clock_timestamp()` is ever asked.
`calls` is a history variable: the provider calls made under each reservation.
The rest is what a worker session knows.

*Steps.* A database function that is one transaction is one action, with everything
its code changes. Two transactions are split, because another session can commit in
between:

- the claim reads the investigation without a lock (`ClaimRead`), sweeps the expired
  jobs and picks one (`ClaimPicks`, `ClaimDooms`, `ClaimNothing`) and then waits for the
  investigation row (`Grant`, `Doom`);
- `persist_stage_result` fences the job (`FenceJob`), takes the advisory lock and fences
  again (`FenceInvestigation`), takes the investigation row with its first append
  (`LockInvestigation`), completes the job (`Complete`) and commits (`CommitOne`,
  `CommitStage`, `CommitInvestigation`).

What such a transaction writes appears at its commit, as other sessions see it. Row
locks are not variables: `HoldsJob`, `InvFree`, `AdvisoryFree` and `InTx` derive them from
where each session is. FOR UPDATE waits for them, SKIP LOCKED passes over locked rows.

*Failures.* `Crash` ends a session anywhere: its transaction rolls back, its locks go,
the row it claimed stays RUNNING until `LeaseExpires`. A worker that lost its lease goes
on until its next call asserts the lease (`LeaseLost`). `StageFails`, `AuditFails` and
`Rejected` are the exceptions of a stage, of the audit before a call and of the
persisting transaction; all take the failure path of `run_once` (`FinishSpan`, `FailJob`).
`LockCase` is `lock_investigation`, at any time.

*Data.* A stage is a number; the eleven of the code are `LastStage`. The constants say
which stages have the single work key `case` (`CaseStage`), which may call the model
(`ModelStage`), which may do without (`PureStage`) and which turn exhausted requests into
a result (`ResolvingStage`, the falsification tests). A model answer is usable or not.

### How Assessment corresponds to the code

*State.* `stage`, `status` and `done` are the investigation and its jobs; `tables` the
canonical tables as the rows are written, with their link tables; `replayed` the state that
`replay` rebuilds from the events; `answers` what a worker holds between the end of
`Worker._stage` and the persisting transaction.

*Steps.* `Answer(k)` is a job up to its result: `Results` has a case for each stage, and a
result is a sequence of mutations. `Persist(k)` is `persist_stage_result`: the verification of
the stored state, `Attributed` and `Counted` (`_ALLOWED` and the checks of each mutation),
the writes, the events, the verification of what they replay to and, in `Finish`, the end of
the job and the stage. `Lost(k)` is a worker that dies between the two, `Exhausted(k)` a model
that never answers usably.

*Evidence.* `Pinned` is what `create_investigation` pinned; no later step changes it.
`InvestigationRepository.evidence`, which the worker and the persisting transaction each call for
themselves, joins it to the completions of the units as they are at that moment. `eligible` is what
it returns. `Reinterpret` is `casezero process` with another template, which moves the completion
of a unit under a running investigation and so withdraws the items of the run before. They do not
come back: a repetition under the old template makes a run with an id of its own. `Available(k)`
is what the reads of a job need before it can ask the model (`get_state` refuses a state, and
`candidate_batch` a candidate, that refers to a withdrawn item); `Unavailable(k)` is the failure
otherwise. The reads of one job are taken as one moment.

*Data.* A *world* holds what is pinned and everything the model may say: candidates, ideas for
hypotheses, critiques, text ranks of evidence. Names, texts and titles are tokens; two that the
code normalises to the same string are one token. Confidences are ten-thousandths and time points
numbers, so that the arithmetic is the code's (the rounding of a search's total to four places
aside, and a search has both time bounds or none; the investigator's own searches use the text
only, so that the filters are exercised by the repository's function and its tests). What the
model may answer is enumerated, right and wrong answers alike, and filtered by the validators of
the code.

### How SemanticPipeline and CandidateBatches correspond

*State.* A session is one invocation of the command: the prompt template it runs, where the task
of each unit is (`task`), what its answer holds (`got`), the unit whose transaction is open on the
shared connection (`holder`), the rows written in it (`written`) and the run its completion names
(`chosen`), if the look-up found one. `rows` and `completion` are committed; `caseState` and
`locker` the case and its lock.

*Steps.* Each `await` of a task and each statement is a step: `Start`, `Audit`, `Call`, `Record`,
then `BeginStore`, `GuardItems` (the trigger), `AddItems` (the foreign keys), `Complete`,
`Commit`. `complete_semantic_unit` is an INSERT of what a SELECT of the model runs finds
(`Candidates`). The policy of that table shows the processor the runs of BLIND cases only: once
the case is locked the statement writes nothing, reaches no trigger and raises nothing, and the
transaction commits without a completion. psycopg's connection is in autocommit mode, but a
statement of one task executed while another one's `transaction()` block is open belongs to that
transaction: `Execute`. `Raise` is an error of any statement, which rolls that transaction back
and takes its task and the open one with it; `Abort` is the cancellation of the session by the
task group and `Crash` a kill. `LockReads` and `LockCommits` are `lock_investigation`, cut between
the read of the evidence and its commit.

`CandidateBatches` starts where the semantic stage ends. `Interpret` is one run of that stage,
which may complete some of the open units only; `Packed` is `_candidate_batches` over the
evidence in the order `process_case` lists it (`Listed`); `Propose` stores a batch with its
completion, `Reject` is a failed call or an answer that cites foreign evidence.

### How ProcessingRuns corresponds

*State.* `stored` is what acquisition left of each item: no row, a row whose object cannot be
fetched, an object with other bytes, or the reviewed one. `run`, `artifact` and `file` are the
processing run, its artifact row and its object by checksum of the content; the others are what
a session knows: where it is, the sources it materialized, the units it hands on, its report.
The stores are `SupabaseSourceStore` and `SupabaseArtifactStore`, which `process_from_cli` passes in.

*Steps.* `Skip`, `Refuse` and `Materialize` are the inventory; `Select`, `Start`,
`Unsupported`, `Process`, `Add`, `Complete` and `Fail` the orchestrator, one statement
each, since each commits by itself. `Process` is the processor and the store: one request creates
the object, a second fetches it for comparison, and an error may come before, between or after.

*How a session ends.* The inventory and the orchestrator catch a few kinds of error, which fail the
item; every other ends the session: an item without a row (`refused`), an object that cannot be
fetched (`unreadable`), an error of a processor or a store that is not caught (`raised`), the
unique constraint of the artifacts (`collided`), units that name a source the case does not have
(`keyerror`). `Crash` (`lost`) is a kill anywhere.

### How CaseBoundary corresponds

*State.* The case (`caseState`, `cutoff`, `lockedAt`), its `source_documents` (`rows`), the
objects in the store (`files`), the versions the site serves (`site`), the transactions under
way (`ingest`, `link`, `lock`), the answer that `BlindAccessService` has read and not yet
recorded (`reader`), what it handed out (`handed`) and the audit trail (`events`).

*Steps.* An ingestion is a transaction: `Upsert`, one `Download` for each document with the
retries of `_get_with_retries`, `EnterBlind` or `IngestLost`. A link and a lock are stamped when
their transaction begins (`LinkBegin`, `LockBegin`) and act when they have the row of the
case (`LinkEnd`, `LockEnd`); the clock may tick between. A read is its query (`Ask`) and then
`Record`, which stores the event and returns the answer. `Incidents` is
`audit_temporal_leakage`, `Eligible` is `is_blind_metadata_eligible` and `Visible` the row policy.
That title and type make a document an official finding is one predicate of the model (`Final`),
although `visibility.py` and the policy each recognise it by patterns and types of their own.

## Runs

| Run | Instance | Checks |
|---|---|---|
| `queue_safety` | 2 workers, 3 stages, up to 2 jobs in the middle one, 2 attempts, no model calls | `TypeOK`, `StageBarrier`, `ResultOnce`, `ReplayMatchesRow`, `SettledJobsStay`, `SuccessIsFinal`, `LockFreezes`, `ImplementsInvestigation` |
| `queue_requests` | 2 workers, one of them a poller, 1 job with 2 attempts and 3 requests, then COMPLETE | `CallsWithinBudget`, `OpenRequestsOwned`, `AttemptHistory`, `EventuallySettled` |
| `queue_siblings` | the same with 2 jobs in the first stage, 1 attempt, 2 requests | `ReplayMatchesRow`, when claims and failures meet around the first start; `EventuallySettled` |
| `semantic_stage` | 2 sessions, 2 prompt templates, 2 units of up to 1 item, 2 tasks at a time | `CompletionMatchesEvidence`, `EndedSessionsKept`, `LockClosesActive`, `NoRepeatedCall`, `CleanSessionCovers`, `SessionsEnd` |
| `structural_stage` | two operators and two cases that share a document, 6 items of every kind and in every state acquisition may leave, 1 lost session, 1 failing processor | `SucceededIsStored`, `ReportCovers`, `SuccessIsReused`, `ResumesCorrectly` |
| `candidate_stage` | 4 units of up to 2 items, batches of 3, 2 failures | `PackingSound`, `NoDuplicates`, `EventuallyCovered` |
| `case_boundary` | 2 documents, 2 cutoffs, 2 ingestions, 2 reads, 2 instants | `BlindSeesReviewedOnly`, `HandedIsAudited`, `AuditorSeparates`, `ClassifiedByCutoff`, `SourcesHaveFiles`, `LockClosesSources` |
| `assessment` | five worlds of up to 7 candidates, 4 ideas and 6 critiques, evidence withdrawn in four of them | `LineageKept`, `MergesAreIdentities`, `AnswersPersist`, `VerdictsGrounded`, `BetterTestsNeverLower`, `LeaderJustified`, `SearchIsComplete` |
| `queue_terminal` | as `queue_safety` with a model stage | `FailureIsTerminal`: violated |
| `queue_reclaim` | as `queue_requests`, 3 attempts | `InterruptionReclaimable`: violated |
| `semantic_lock` | as `semantic_stage` | `LockedPointersStand`: violated |
| `candidate_repeat` | as `candidate_stage` | `RepeatProposesNothing`: violated |

*What the properties of the pipelines say.* `EndedSessionsKept`: the report of an ended session
can be relied on, although each row was written in the transaction of whichever task had one open:
a unit counted as done is stored, and complete unless the case was locked.
`CompletionMatchesEvidence`: a completion counts the evidence of the run it names, although the
run is looked up again. `LockClosesActive`: nothing joins the active evidence once the lock has
read it, although items may be committed and completions move afterwards. `NoRepeatedCall` and
`CleanSessionCovers`: resumption pays nothing twice and skips nothing. `ReportCovers`: a session
that reaches its report has a status for every item and hands on just the units of the sources it
calls successful. `SuccessIsReused`: a successful run is not begun again, by any operator, once
those who were at work on it when it succeeded are past it. `ResumesCorrectly`: repeating the
command gets every readable document processed, but for a loss at one named place and if every
document has an object that can be fetched. `NoDuplicates` and `EventuallyCovered` are the same
promise for candidates. `BlindSeesReviewedOnly`: the temporal boundary, over everything ever
handed out. `AuditorSeparates`: the leakage auditor, which recomputes eligibility from other data,
agrees with the policies. `AnswersPersist`: an answer computed from a state that siblings have
changed since still passes every check, and the tables equal the replay, unless a test in it names
evidence that was withdrawn meanwhile. `VerdictsGrounded`, `BetterTestsNeverLower` and
`LeaderJustified`: the ranking follows from the tests and these from pinned evidence.
`SearchIsComplete`: no evidence that passes the filters is left out for one that ranks lower.

*Bounds of the queue.* Two sessions give every pairwise race: claim against failure, two
siblings finishing, a stale worker against its successor. A third session would only wait for
a lock one of the two holds, or repeat one of their roles. Three stages give a first stage,
a barrier with several jobs and a last stage. Two attempts are one that is lost and one that
reclaims; the three requests are those of the code. `MCSymmetry` permutes the workers; it is
used only without liveness. No counter is unbounded: attempts and requests are guarded by the
code, `log` and `calls` by them.

*Bounds of the others.* `Sessions`: the first is lost or half done, the second resumes it, under
the same template or another. `Concurrency` 2 with two units lets one task write into the
transaction of the other. `MaxFailures` of `candidate_stage` is two, so that a repair may fail
too. The dockets of `structural_stage` have an item of each kind between them, one has two
processable ones, and one of these is in both: each operator may be the first, the second or in
the middle of what the other does, and a loss and a failure each may leave one of them behind. The
docket of `case_boundary` has one exhibit which only the later cutoff admits and one early
document which is an official finding, and each may be replaced by the site. `MaxIngests`,
`MaxReads` and `MaxClock` are two: a repeated ingestion with another cutoff, a read before and
after a change, a transaction stamped before an event and one after it. Four units give batches
that are exactly full, split and overfull. Each world of `assessment` is made for a group of
stages: chains of names over two batches, events of equal and unknown order, tests with nothing to
cite, ties at a threshold, nothing to explain; in each but the last one or two units may be
interpreted again, before or after the answer of any job.

*CHECK_DEADLOCK FALSE*: every one of these systems may stop. An investigation has ended or the
case is locked and no worker is under way; the sessions a run allows have been used up; an
operator whose sessions are all done need not start another.

*Fairness of the queue.* A transaction ends, by committing or by rolling back, so the steps of
an open transaction are weakly fair for every session, and a claim that keeps being ready to
take the investigation row gets it in the end (strong fairness of `Grant` and `Doom`, which wait
for a lock that is released over and over). At least one session is run again and again by
an operator, as the CLI is: its steps are weakly fair and its claims are not dropped every
time. Time passes, so leases expire. No other session has to do anything: it may stop
anywhere, and nothing forces a crash to happen or not to happen.

*Fairness of the pipelines.* In `semantic_stage` a running session is driven by its event loop,
so its steps taken together are weakly fair, and a lock that has read the evidence commits; no
session has to be started, and crashes may happen. In `structural_stage` and `candidate_stage`
an operator repeats the command for ever; crashes and failures are bounded, since nothing is
promised to a command that fails every time.

### What the violated runs show

- `queue_terminal`: w1 reads the RUNNING investigation; w2 fails a sibling job, which sets it
  FAILED; w1 is past the check for failed jobs and commits its claim, whose update sets it
  RUNNING again. The next claim fails it again, so it does end (`queue_siblings`), but a job
  of a failed investigation runs meanwhile. `Investigation` has the step `Revive` for this.
- `queue_reclaim`: the first attempt uses the three requests and the worker dies. The sweep
  fails the job, and with it the investigation, with two attempts left.
- `semantic_lock`: a task passes the trigger of its completion while the case is BLIND. The
  lock reads the active evidence and commits. The completion, which has no foreign key to the
  case, then commits, and the pointer of a locked case changes. If it named a run
  with evidence before, that evidence is no longer active, though `evidence_set_hash` covers it.
- `candidate_repeat`: a first session interprets some units and fails on others, a second one the
  rest. The second lists the evidence of reused units first, so its batches differ from those of a
  third session, to which all units are reused. The third finds its batches incomplete and stores
  candidates for evidence that has some, though nothing changed.

### Other things the models show of the code

These are outside of what the properties claim, and each is visible in a step of a
model or in the assumption that keeps it out.

- *An evidence item can be committed to a locked case* (`GuardItems`, `AddItems`, `Complete`): it
  passes its trigger while the case is BLIND and then waits, with its foreign key, for the case row
  that the lock holds. When the lock has committed, the item is inserted. The completion then finds
  no run, because the policy hides those of a locked case; it writes nothing and raises nothing, and
  the transaction commits: an item in a locked case, and a unit the session counts as done without a
  completion. The item is not active, so what `evidence_set_hash` covers stays (`LockClosesActive`).
- *Overlapping sessions of the semantic stage*, or a template that is changed and changed back
  with a lost run in between (`NoRevert`), can leave a completion that names a run whose
  evidence is not stored.
- *A session that aborts loses rows of tasks that went well*: an audit or run row that was
  written in another task's transaction is rolled back with it, also when the call was made.
- *A structural session lost between its artifact and the completion of the run* makes
  every later session end in a unique violation (`HalfDone`). Processors that fail do not.
- *One object that cannot be fetched ends every session* before any document is processed and without
  a report: the error of the HTTP client is not among those the inventory catches (`Refuse`,
  `unreadable`). So does an item that acquisition has not stored as reviewed (`refused`). A document
  with altered bytes, in contrast, fails alone.
- *Two operators of one document* may both look for a success before either has one. The slower one
  then sets the run that has succeeded meanwhile to RUNNING; its artifact violates a unique constraint
  and its session ends, which leaves the run in the state of `HalfDone`. `SuccessIsReused` is
  about all the sessions that look later.
- *A run that succeeded for a file shared with another case* is reused, but its units name the
  source of that case, and the session ends in a KeyError (`Finish`). Two
  items of one case with the same bytes share one run, and its units are interpreted once for each
  of them.
- *UNSUPPORTED sources* get their run restarted by every session.
- *The auditor raises a false alarm* (POST_LOCK_MUTATION) when a link that begins after a
  lock began gets the row of the case first: the link is legal, but stamped later than the
  lock. A denied read of an eligible source that is not linked yet is not reported.
- *A record may link withdrawn evidence*: `persist_stage_result` asks for active evidence in tests and
  critiques only. When another template completes a unit between the reads of a worker and its
  persisting transaction (`Reinterpret`), what it promotes is written with the old items. The next job
  finds a state that refers to them and fails the investigation (`Unavailable`). A test that names
  them fails at once.
- *Entities in different promotion batches* are not merged, whatever names they share: a batch
  has at most three candidates.
- *A presence test with named evidence and no filter* survives always: the evidence is there.

## Proofs

For every value of the constants that satisfies the assumption of the module (`QueueAssumption`,
`SemanticAssumption`, `CandidatesAssumption`, `ProcessingAssumption`, `BoundaryAssumption`:
finiteness where something is counted, markers that are not values, bounds that are numbers;
`ReplayAssumption`: there is more than one stage; `WorldAssumption`: the candidates of a kind, the
ideas and the tests of a critique are sequences, candidates link evidence with one of the
polarities, the tests have the fields of a draft with a type and a strength of the enumerations,
the pinned evidence is finite and numbered, units consist of it, and text ranks are natural
numbers; `PageAssumption`: a page has room; `HypothesesAssumption`: the marker of a missing
outcome is not an outcome, at least one hypothesis is asked for, and a critique has at most nine
tests, which are told apart by the last digit of their number; five in the code):

| Module | Theorem | Says |
|---|---|---|
| `InvestigationQueue_proofs` | `TypeCorrect` | `Spec => []TypeOK` |
| | `SettledStay` | `Spec => SettledJobsStay` |
| | `CallsBounded` | `Spec => []CallsWithinBudget` |
| | `LockFinal` | `Spec => LockFreezes` |
| | `StagesInOrder` | `Spec => []StageBarrier` |
| | `SuccessFinal` | `Spec => SuccessIsFinal` |
| | `AttemptsTold` | `Spec => []AttemptHistory` |
| | `RequestsOwned` | `Spec => []OpenRequestsOwned` |
| `QueueRefinement_proofs` | `QueueImplements` | `Spec => ImplementsInvestigation` |
| | `ResultsRecordedOnce` | `Spec => []ResultOnce` |
| | `LogReplays` | `Spec => []ReplayMatchesRow` |
| `SemanticPipeline_proofs` | `TypeCorrect` | `Spec => []TypeOK` |
| | `ReportHolds` | `Spec => []EndedSessionsKept` |
| | `CleanCovers` | `Spec => CleanSessionCovers` |
| | `CallsOnce` | `Spec => NoRepeatedCall` |
| | `CompletionsCount` | `Spec => []CompletionMatchesEvidence` |
| | `LockCloses` | `Spec => LockClosesActive` |
| `CandidateBatches_proofs` | `PackingIsSound` | `Spec => []PackingSound` |
| | `NothingProposedTwice` | `Spec => []NoDuplicates` |
| `ProcessingRuns_proofs` | `TypeCorrect` | `Spec => []TypeOK` |
| | `SuccessStored` | `Spec => []SucceededIsStored` |
| | `ReportComplete` | `Spec => []ReportCovers` |
| | `SuccessReused` | `Spec => SuccessIsReused`, for any number of operators |
| `CaseBoundary_proofs` | `TypeCorrect` | `Spec => []TypeOK` |
| | `BlindBoundary` | `Spec => []BlindSeesReviewedOnly` |
| | `AuditComplete` | `Spec => []HandedIsAudited` |
| | `StoreBeforeRow` | `Spec => []SourcesHaveFiles` |
| | `OneCutoff` | `Spec => []ClassifiedByCutoff` |
| | `AuditorAgrees` | `Spec => []AuditorSeparates` |
| | `LockCloses` | `Spec => LockClosesSources` |
| `Assessment_proofs` | `MergesExact` | `Spec => []MergesAreIdentities` |
| | `LineageIsKept` | `Spec => []LineageKept` |
| | `VerdictsAreGrounded` | `Spec => []VerdictsGrounded` |
| | `LeaderIsJustified` | `Spec => []LeaderJustified` |
| | `SearchesAreComplete` | `Spec => []SearchIsComplete` |
| | `BetterIsNeverLower` | `Spec => []BetterTestsNeverLower` |
| | `AnswersAlwaysPersist` | `Spec => []AnswersPersist` |

The types of `SemanticPipeline`, `ProcessingRuns` and `CaseBoundary` are proved and not
checked by a run.

*Queue.* `TypeOK` is not inductive: that a grant does not exceed the attempt limit, or that
a commit settles a RUNNING job, depends on what a session read before and on nobody having
changed it since. `LockInv` adds `LocksExclusive` (no job row is locked by two sessions) and
`LockedRows` (what a session read of the rows it has locked still holds). `LocksAcquired` and
`StepRows` carry it: a session comes to hold only rows nobody holds, and a step writes a row
that is there only if it holds it or nobody does; so a row held by another session stays as it
was (`HeldRowStays`). `SettledStay` follows from `StepRows` alone. `CallsBounded` adds
`CallsReserved`: an unused reservation belongs to one session and no call was made under an
ordinal not handed out.

*Stage barrier.* `StagesInOrder` adds, for the investigation row, `SoleWriter` and
`WriterKnows`: the one session that holds the row still sees the status, the stage and the
siblings it decided on. Between its `Complete` and its commit no other step can finish a job or
change the status (`OtherSteps`). `DoomReason` says that a claim fails the investigation only
for a job that is failed or expired. `SuccessFinal` follows from the barrier: after SUCCEEDED
no job is left that any action could start from.

*Job history.* The rows alone are not inductive: a commit closes the attempt its session was
handed, and nothing in the rows says that this is still the open one. `HistoryInv` adds what
each session knows (`SessionHistory`): a persisting session still owns its attempt
(`HeldAttempt`), its span is finished before its job is failed (`SpanFinished`), and no request
is open between two calls (`NoneOpen`). A session that was overtaken is no longer the owner, so
the last two ask nothing of it. `OwnedRowsStay` says that the rows of an owned job are written by
its owner only, and `OwnerWritten` that the owner changes only under a lock on the row or on a
free one.

*What the queue promises.* `QueueImplements` maps each step of the queue to one of
`Investigation` or to a stutter. Most write nothing the mapping shows (`ShownOther`); a grant, a
claim that dooms, a failed job and a commit each have a lemma that names the abstract step
(`ShownGrant`, `ShownDoom`, `ShownFailJob`, `ShownCommit`). Beyond `BarrierInv` this takes
`QueueInv`: what a claim read of the counters of the jobs it swept (`ClaimKnows`), that nothing
was claimed before the investigation runs (`Unstarted`) and that a stage of the whole case has
one job (`CaseJobs`). `ResultsRecordedOnce` and `LogReplays` rest on `LogInv`: the log has
exactly one result of each job that succeeded (`RecordedOnce`), its events are in the order of
their stages, none ahead of the row (`InOrder`), and it replays to the row (`Replayed`).
`ReplayAppend` says what replay makes of one more event, by induction over the length of the
log; with `InOrder` it makes the commit of a stage and of the whole investigation legal.

*Semantic stage.* `SemanticInv` speaks of each session by itself (`SessionInv`) and of the few
things sessions share. `TaskInv`: the task that is storing is the one that holds the
transaction. `ItemInv`: the items of a unit are all in the open transaction, or all in the
table, or nowhere. `TrailInv`: as long as no task of the session raised, what was executed is in
the table or in the open transaction; this is what carries `ReportHolds` past rows that
land in another task's transaction. `CoverInv` ties the tasks to the completions, with
`OneRunning` (no other session moves them meanwhile). `LockInv`: once the case is locked, a
transaction that holds items names no run, and while the lock holds the case row there is none.
`LockCloses` goes on from there: what commits after the read either has items and names no run,
or has none and names a run without any (`CommitActive`). `CompletionsCount` adds
`EvidenceInv`: items refer to their run, so a run whose items are stored is on record
(`RunKept`); a completion names the run of its own session, or an empty one (`NamesRun`); a unit
with stored items stays complete under their prompt until a session with another one
(`Lineage`). The last is why an older run of the same prompt that is found instead is empty,
unless a prompt was changed and changed back, which is the exception `NoRevert` makes.

*Candidate stage.* The loops of `_candidate_batches` are recursive functions. `PackedSound`
shows by induction over the units that a round of the loop keeps the units in order, each in one
place, and every batch within its size unless it is a single unit. `NothingProposedTwice` adds
`Once`: without a half-done semantic stage the batches of all sessions are the same, those
completed and those pending are apart, and a unit is cited once if its batch is completed;
`BatchesApart` says that no two batches share a unit.

*Structural stage.* `TypeInv` adds `Accounted` (every item looked at is a status or a source) and
`Ready` (a session about to complete a run has its artifact and its object). Steps of other
sessions are handled by `Frame`: objects and artifacts stay. `SuccessReused` adds `KindInv`: what
is processed and what has succeeded has a processor, so every `Select` finds a settled run, and
only a session at work on its content writes it.

*Merging.* `MergesExact` is about every group of candidates, not about a step. The rounds of
`_entity_names` exist and are unique (`WalkSteps`); what is known after each are the names of the
candidates taken in (`Walked`); after as many rounds as there are candidates nothing more can be
taken in (`WalkEnds`). So a refusal leaves a rest without a name in common with what was taken in,
and a group that can be split is never taken in across the split (`ApartUnconnected`).

*Assessment.* Jobs are answered from one state and persisted into another, and a result is a
sequence of events of which only the last state is seen. `AssessInv` says that the tables are what
the events replay to, and of that state: which hypotheses have been searched, given a test and
ranked (`HypothesesInv`), that every verdict follows from the records (`TestsInv`) and that each
candidate of a finished batch, and no other, is the source of exactly one record (`RecordsInv`). It
also says what a waiting answer holds on to (`Fits`): a verdict computed before siblings committed
is still one, because the records no longer change once tests are run. `AnswerFits` shows that the
stages give such answers. For `Persist`, `PersistedIs` gives the path of states from event to
event, each accepted by `replay._apply` (`Path`); along it hypotheses open once, at a confidence
within the bounds (`HypothesesOpen`), revisions and changes of status leave those that are ranked
(`HypothesesRevised`), every test is designed for its hypothesis (`TestsDesigned`) and records are
only added (`RecordsAdd`). `HypothesesKept`, `TestsKept` and `RecordsKept` carry the three parts
past the end of a job or of a stage. That a hypothesis leads by its confidence is the check of the
revision stage; that it was searched and tested rests on `Counted`, which lets no job of those
stages end without a result, and on the order of the stages. That a lineage is exact rests on
`CoversBatch` and on the batches being apart (`BatchOf`), whatever grouping the model chose.

*Search.* `SearchesAreComplete` is about one query over any records. The ranking, by the total, its
parts and then the id, is a strict order (`BeforeOrders`); in a finite set with a strict order as
many items are ahead of each as its place says, and every place is taken (`RanksFill`), so the page
of the first `limit` places is well defined and holds the best of what the filters let through
(`PageIs`). That a filter on entities or times lets through just what a record links is `QueryFits`.

*Confidence.* `BetterIsNeverLower` rests on a second invariant, `Ranked`: a hypothesis has the
confidence it began with until it is revised, and then that plus the sum of the deltas of its tests,
clamped; and nothing is revised before its stage, so no test changes under a revision. Every kind of
event keeps it (`RankKept`), for a revision because replay recomputes it (`RevisionFits`). The sum
is over a set and so has no order of its own: that it may be taken apart at any item is `SumAny`,
from which tests that do no worse one by one add up to no less (`DeltasGrow`), also where one of
two corresponding tests has failed and counts for nothing.

*Persistence.* `AnswersAlwaysPersist` says that an answer can fail for one reason only that its
worker could not have seen: a test in it names evidence that was withdrawn after it was read. What
siblings commit is never one. That records, searches and links may be about withdrawn evidence too
does not fail them. The proof takes everything at once: `PersistInv` is
`AssessInv` and `Ranked` with three parts. `Keyed`: no row of a link table, of deltas or of search
results refers to a record that is not there, without which a record that is added could find
links of its own already waiting. `Settled`: what a job adds is not there before it is done (its
retrieval, its critique and the tests numbered for it, the resolution of its test, the records of
its batch), which is what replay asks of an event. `Holds`, of each waiting answer: that it is one
the stage gives, in terms that siblings do not disturb. From these `HeldPasses` follows in three
steps. Each mutation belongs to the job and they are as many as the stage wants (`HeldAttributed`,
`HeldCounted`). Replay accepts them one after the other (`HeldAccepted`); for a revision that is
`RevisionAccepted`: the sum in the order of the test ids, which the worker computes, is the sum
over a set that replay recomputes (`SumIs`, `RevisionCounts`), and every change of status is still
one after all revisions (`ChangeTaken`). And what they write reads back as what replay makes of
them (`HeldWritten`): one event at a time for all kinds (`PlainWritten`) but a critique, whose
proposed tests are read from the rows of the tests, so that tables and replay disagree until the
last test of the job is written (`CritiqueFirst`, `TestNext`, `CritiqueRead`). What the answer of
a stage promises is `AnswerHolds`; that a commit settles no more than its own job is
`HeldSettles`, and so the answers of the siblings hold on (`HoldsKept`).

*Boundary.* `BoundaryInv` adds to the properties `IngestInv` (the uncommitted rows of an
ingestion are the committed ones or classified by its own cutoff, and have their files),
`LinkedInv` (a linked source is eligible and stays so) and `AnswerInv` (answers and recorded
reads are about linked sources). That eligibility stays rests on the cutoff being set once.

Each strengthening was checked with TLC on the instances of the runs before it was proved.

*Induction.* The library's induction theorems are about operators, which the provers cannot
instantiate. `Loops` restates them for sets: a set of naturals with zero and all successors is
`Nat` (`SetInduction`), from the well-foundedness of `<`. From it follow that a function defined
by recursion over `1..N` exists (`Recursion`) and that what its steps keep holds at its end
(`LoopStays`). The loops that are proved about are therefore recursive functions.

*Only model-checked:* liveness (`EventuallySettled`, `SessionsEnd`, `EventuallyCovered`,
`ResumesCorrectly`), which is out of the prover's reach. Every other property of the passing runs
is the statement of a theorem.

## Not modelled, and why

- *Document processors*: parsing of PDF, spreadsheets, images and audio by external libraries,
  without state. In `ProcessingRuns` a processor succeeds or fails.
- *Scripts and probes*, among them the vision probe: one-off operator scripts.
- *HTTP clients* of the model, of NTSB and of the hosted store, the repair of JSON answers, rate
  limits: I/O. What the code does with an answer, a refusal or a lost call is modelled.
- *Prompts, wording, schemas of answers, rendering of reports*: no property depends on them.
- *The hash chain of the events*: one hash over the canonical JSON of each event; a model of it
  would assume that hashes differ, which is all it could show.
- *Embeddings and text ranks*: numbers a world gives.
- *`failure_code` and the audit rows of the queue*, which no later step reads; the number of
  workers per host and the polling interval. The clock of the database and the lease token are
  one Boolean per job.
- *Argument parsing, settings, wiring* of the command line, and the mapping of rows to models.
- *Several investigations of one case, several cases in one store*: one of each is modelled, but for
  the two cases of `structural_stage` that share a document. That
  `create_investigation` returns a failed one of the same configuration is a single query.
- *The step from LOCKED to REVEALED* has no caller in the code.

## What could come next

Two overlapping sessions in `SemanticPipeline` would turn the observation about them above into a
run, and so would the candidate stage under a lock, whose completion is an INSERT of a SELECT too.
