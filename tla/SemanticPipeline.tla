-------------------------- MODULE SemanticPipeline --------------------------
(***************************************************************************)
(* The semantic stage of `casezero process`: one asyncio task per          *)
(* structural unit audits, calls the model, records the run and persists   *)
(* its evidence.  A session is one invocation of the command.  All tasks   *)
(* of a session share one autocommit connection, so that a statement of    *)
(* one task falls into the transaction another task has open.  The case    *)
(* may be locked meanwhile.  Sessions follow each other and are numbered   *)
(* in that order, which is the order of their runs' started_at.            *)
(***************************************************************************)
EXTENDS Integers, FiniteSets, FiniteSetsExt

CONSTANTS
    Sessions,      \* how often the command is invoked
    Unit,          \* structural units of the case
    Prompt,        \* versions of the prompt template
    MaxItems,      \* observations of an answer, at most
    Concurrency,   \* semantic_concurrency
    None

ASSUME SemanticAssumption ==
    /\ IsFiniteSet(Unit)
    /\ None \notin Unit \cup Prompt
    /\ {Sessions, MaxItems, Concurrency} \subseteq Nat \ {0}

Session == 1..Sessions
NoSession == 0

VARIABLES
    prompt,       \* [Session -> the template of the code it runs, or None]
    phase,        \* [Session -> "new", "running", "ended", "lost"]
    task,         \* [Session -> [Unit -> where the task of the unit is]]
    got,          \* [Session -> [Unit -> observations answered, or Invented]]
    holder,       \* [Session -> the unit whose transaction is open, or None]
    written,      \* [Session -> rows written in the open transaction]
    chosen,       \* [Session -> the run the open completion names]
    rows,         \* committed rows: audits, model runs, evidence items
    completion,   \* [Unit -> the row of semantic_unit_completions]
    caseState, locker   \* the case, lock_investigation

vars == <<prompt, phase, task, got, holder, written, chosen, rows, completion,
          caseState, locker>>
caseVars == <<caseState, locker>>

Invented == -1
NoRow == [run |-> NoSession, count |-> 0]

Row(kind, s, u, n) == [kind |-> kind, session |-> s, unit |-> u, n |-> n]
ItemRows(s, u, n) == {Row("item", s, u, i) : i \in 1..n}
Stored(s, u) == {r \in rows : r.kind = "item" /\ r.session = s /\ r.unit = u}

(* The join of lock_investigation and list_active_evidence. *)
Active == {r \in rows : r.kind = "item" /\ completion[r.unit].run = r.session}

Statements == {"auditing", "recording", "refused", "storing", "inserting",
               "completing", "committing"}
InFlight(s) ==
    {u \in Unit : task[s][u] \in {"auditing", "calling", "recording", "refused"}}
Settled == {"reused", "done", "failed"}

Go(s, u, where) == task' = [task EXCEPT ![s][u] = where]

(* A statement outside a transaction commits at once; inside the           *)
(* transaction of any task of the session it waits for that commit.        *)
Execute(s, r) ==
    IF holder[s] = None
    THEN rows' = rows \cup r /\ UNCHANGED written
    ELSE written' = [written EXCEPT ![s] = @ \cup r] /\ UNCHANGED rows
Seen(s) == rows \cup written[s]

Init ==
    /\ prompt = [s \in Session |-> None]
    /\ phase = [s \in Session |-> "new"]
    /\ task = [s \in Session |-> [u \in Unit |-> "none"]]
    /\ got = [s \in Session |-> [u \in Unit |-> 0]]
    /\ holder = [s \in Session |-> None]
    /\ written = [s \in Session |-> {}]
    /\ chosen = [s \in Session |-> NoSession]
    /\ rows = {}
    /\ completion = [u \in Unit |-> NoRow]
    /\ caseState = "BLIND" /\ locker = "idle"

-----------------------------------------------------------------------------
(* has_completed_semantic_unit *)
Completed(p, u) == completion[u].run # NoSession /\ prompt[completion[u].run] = p

PlanAll(p, u) == "queued"
PlanAnyPrompt(p, u) == IF completion[u].run # NoSession THEN "reused" ELSE "queued"
PlanFor(p, u) == IF Completed(p, u) THEN "reused" ELSE "queued"

(* The plan of a session that runs template p: completed units are reused, *)
(* the others get a task.  The role of the processor sees BLIND cases only. *)
Plan(s) ==
    /\ phase[s] = "new" /\ caseState = "BLIND"
    /\ \A t \in Session : phase[t] # "running" /\ (t < s => phase[t] # "new")
    /\ phase' = [phase EXCEPT ![s] = "running"]
    /\ \E p \in Prompt :
         /\ prompt' = [prompt EXCEPT ![s] = p]
         /\ task' = [task EXCEPT ![s] = [u \in Unit |-> PlanFor(p, u)]]
    /\ UNCHANGED <<got, holder, written, chosen, rows, completion, caseVars>>

(* A task gets the semaphore; its run starts, by the clock of the host. *)
Start(s, u) ==
    /\ task[s][u] = "queued"
    /\ Cardinality(InFlight(s)) < Concurrency
    /\ Go(s, u, "auditing")
    /\ UNCHANGED <<prompt, phase, got, holder, written, chosen, rows, completion, caseVars>>

(* The audit row of the call. *)
Audit(s, u) ==
    /\ task[s][u] = "auditing"
    /\ Execute(s, {Row("audit", s, u, 0)})
    /\ Go(s, u, "calling")
    /\ UNCHANGED <<prompt, phase, got, holder, chosen, completion, caseVars>>

(* The provider answers: observations, one that names a foreign unit, or   *)
(* a failure.                                                              *)
Call(s, u) ==
    /\ task[s][u] = "calling"
    /\ \/ /\ \E n \in {Invented} \cup 0..MaxItems : got' = [got EXCEPT ![s][u] = n]
          /\ Go(s, u, "recording")
       \/ Go(s, u, "refused") /\ UNCHANGED got
    /\ UNCHANGED <<prompt, phase, holder, written, chosen, rows, completion, caseVars>>

(* record_model_run; an invented id is only found out after it.  The row   *)
(* may have to wait for the lock of the case, which nothing observes.      *)
Record(s, u) ==
    /\ caseState = "BLIND"
    /\ \/ /\ task[s][u] = "recording"
          /\ Execute(s, {Row("run", s, u, 0)})
          /\ Go(s, u, IF got[s][u] = Invented THEN "failed" ELSE "returned")
       \/ /\ task[s][u] = "refused"
          /\ Execute(s, {Row("failure", s, u, 0)})
          /\ Go(s, u, "failed")
    /\ UNCHANGED <<prompt, phase, got, holder, chosen, completion, caseVars>>

-----------------------------------------------------------------------------
(* persist_semantic_result, under the persistence lock of the session.     *)
LockFree(s) == holder[s] = None

BeginStore(s, u) ==
    /\ task[s][u] = "returned"
    /\ LockFree(s)
    /\ holder' = [holder EXCEPT ![s] = u]
    /\ Go(s, u, IF got[s][u] = 0 THEN "completing" ELSE "storing")
    /\ UNCHANGED <<prompt, phase, got, written, chosen, rows, completion, caseVars>>

(* The trigger of evidence_items reads the case without a lock ... *)
GuardItems(s, u) ==
    /\ task[s][u] = "storing" /\ caseState = "BLIND"
    /\ Go(s, u, "inserting")
    /\ UNCHANGED <<prompt, phase, got, holder, written, chosen, rows, completion, caseVars>>

CaseRowIgnored == TRUE
CaseRowFree == locker # "holding"

(* ... and its foreign keys need the run and wait for a locked case row.   *)
(* When the lock committed meanwhile, the item that waited is inserted and *)
(* the trigger of the next one raises.                                     *)
AddItems(s, u) ==
    /\ task[s][u] = "inserting" /\ CaseRowFree
    /\ caseState = "BLIND" \/ got[s][u] = 1
    /\ Row("run", s, u, 0) \in Seen(s)
    /\ written' = [written EXCEPT ![s] = @ \cup ItemRows(s, u, got[s][u])]
    /\ Go(s, u, "completing")
    /\ UNCHANGED <<prompt, phase, got, holder, chosen, rows, completion, caseVars>>

(* The completion names the latest successful run of the unit under the    *)
(* prompt, whichever session made it.  The policy of model_runs shows none *)
(* once the case is not BLIND; without a run the statement writes no row,  *)
(* fires no trigger and succeeds.                                          *)
RunsVisible == caseState = "BLIND"
Candidates(s, u) ==
    {t \in Session :
       RunsVisible /\ prompt[t] = prompt[s] /\ Row("run", t, u, 0) \in Seen(s)}
EarliestRun(s, u) == Min(Candidates(s, u) \cup {Sessions})
LatestRun(s, u) == Max(Candidates(s, u) \cup {NoSession})

CompletionRowFree(s, u) == \A t \in Session \ {s} : task[t][u] # "committing"

Complete(s, u) ==
    /\ task[s][u] = "completing"
    /\ RunsVisible => CompletionRowFree(s, u)
    /\ chosen' = [chosen EXCEPT ![s] = LatestRun(s, u)]
    /\ Go(s, u, "committing")
    /\ UNCHANGED <<prompt, phase, got, holder, written, rows, completion, caseVars>>

StillHeld(s) == holder
Released(s) == [holder EXCEPT ![s] = None]

Commit(s, u) ==
    /\ task[s][u] = "committing"
    /\ rows' = rows \cup written[s]
    /\ completion' =
         IF chosen[s] = NoSession THEN completion
         ELSE [completion EXCEPT ![u] = [run |-> chosen[s], count |-> got[s][u]]]
    /\ written' = [written EXCEPT ![s] = {}]
    /\ holder' = Released(s)
    /\ chosen' = [chosen EXCEPT ![s] = NoSession]
    /\ Go(s, u, "done")
    /\ UNCHANGED <<prompt, phase, got, caseVars>>

-----------------------------------------------------------------------------
RollBack(s) ==
    /\ holder' = [holder EXCEPT ![s] = None]
    /\ written' = [written EXCEPT ![s] = {}]
    /\ chosen' = [chosen EXCEPT ![s] = NoSession]

CaughtInTask(s, u) == [task[s] EXCEPT ![u] = "failed"]
Uncaught(s, u) ==
    [v \in Unit |-> IF v \in {u, holder[s]} THEN "raised" ELSE task[s][v]]

Raise(s, u) ==
    /\ task[s][u] \in Statements
    /\ task' = [task EXCEPT ![s] = Uncaught(s, u)]
    /\ RollBack(s)
    /\ UNCHANGED <<prompt, phase, got, rows, completion, caseVars>>

Close(s) ==
    /\ phase[s] = "running"
    /\ phase' = [phase EXCEPT ![s] = "lost"]
    /\ task' = [task EXCEPT ![s] = [u \in Unit |-> "none"]]
    /\ got' = [got EXCEPT ![s] = [u \in Unit |-> 0]]
    /\ RollBack(s)
    /\ UNCHANGED <<prompt, rows, completion, caseVars>>
Abort(s) == (\E u \in Unit : task[s][u] = "raised") /\ Close(s)
Crash(s) == Close(s)

Finish(s) ==
    /\ phase[s] = "running" /\ \A u \in Unit : task[s][u] \in Settled
    /\ phase' = [phase EXCEPT ![s] = "ended"]
    /\ UNCHANGED <<prompt, task, got, holder, written, chosen, rows, completion,
                   caseVars>>

(* lock_investigation: FOR UPDATE waits for rows that refer to the case,   *)
(* then the active evidence is read and hashed.                            *)
LockReads ==
    /\ caseState = "BLIND" /\ locker = "idle"
    /\ \A s \in Session : written[s] = {}
    /\ Active # {}
    /\ locker' = "holding"
    /\ UNCHANGED <<prompt, phase, task, got, holder, written, chosen, rows, completion,
                   caseState>>
LockCommits ==
    /\ locker = "holding"
    /\ locker' = "done" /\ caseState' = "LOCKED"
    /\ UNCHANGED <<prompt, phase, task, got, holder, written, chosen, rows, completion>>

Interpret(s, u) == Start(s, u) \/ Audit(s, u) \/ Call(s, u) \/ Record(s, u)
Store(s, u) ==
    \/ BeginStore(s, u) \/ GuardItems(s, u) \/ AddItems(s, u)
    \/ Complete(s, u) \/ Commit(s, u)
Run(s) ==
    \/ \E u \in Unit : Interpret(s, u) \/ Store(s, u) \/ Raise(s, u)
    \/ Abort(s) \/ Finish(s)
Next ==
    \/ \E s \in Session : Plan(s) \/ Run(s) \/ Crash(s)
    \/ LockReads \/ LockCommits

Spec == Init /\ [][Next]_vars
Fairness == WF_vars(LockCommits) /\ \A s \in Session : WF_vars(Run(s))
FairSpec == Spec /\ Fairness

-----------------------------------------------------------------------------
RowType ==
    [kind : {"audit", "run", "failure", "item"}, session : Session, unit : Unit,
     n : 0..MaxItems]
Where == Statements \cup Settled \cup {"none", "queued", "calling", "returned", "raised"}

(* The types of the variables; rows are only held back in a transaction.   *)
TypeOK ==
    /\ prompt \in [Session -> Prompt \cup {None}]
    /\ phase \in [Session -> {"new", "running", "ended", "lost"}]
    /\ task \in [Session -> [Unit -> Where]]
    /\ got \in [Session -> [Unit -> Invented..MaxItems]]
    /\ holder \in [Session -> Unit \cup {None}]
    /\ written \in [Session -> SUBSET RowType]
    /\ chosen \in [Session -> 0..Sessions]
    /\ rows \subseteq RowType
    /\ completion \in [Unit -> [run : 0..Sessions, count : 0..MaxItems]]
    /\ caseState \in {"BLIND", "LOCKED"} /\ locker \in {"idle", "holding", "done"}
    /\ \A s \in Session : holder[s] = None => written[s] = {}

(* No session goes back to a template that another one has replaced.       *)
NoRevert ==
    \A q, r, t \in Session :
        q < r /\ r < t /\ prompt[t] # None /\ prompt[q] = prompt[t] => prompt[r] = prompt[t]

(* A completion counts the evidence stored for the very run it names:      *)
(* complete_semantic_unit looks the run up again instead of being told.    *)
CompletionMatchesEvidence ==
    NoRevert => \A u \in Unit : completion[u].run # NoSession =>
        completion[u].count = Cardinality(Stored(completion[u].run, u))

(* What the report of an ended session can be relied on for: all the       *)
(* observations of a unit it counts as done are stored, the unit has a     *)
(* completion unless the case was locked, and every call it has on record  *)
(* has its audit row ("Audit insertion failure: fail the protected         *)
(* operation rather than perform an unlogged access"), though each row was *)
(* written in the transaction of whatever task had one open.               *)
EndedSessionsKept ==
    \A s \in Session : phase[s] = "ended" =>
        /\ \A u \in Unit : task[s][u] = "done" =>
             /\ completion[u].run # NoSession \/ caseState = "LOCKED"
             /\ Cardinality(Stored(s, u)) = got[s][u]
        /\ \A r \in rows : r.session = s /\ r.kind \in {"run", "failure"} =>
             Row("audit", s, r.unit, 0) \in rows

(* A session that ended on a case still BLIND without a failure leaves     *)
(* every unit completed under its own prompt, reused completions included. *)
CleanSessionCovers ==
    [][\A s \in Session :
          phase[s] = "running" /\ phase'[s] = "ended"
            /\ caseState = "BLIND" /\ (\A u \in Unit : task[s][u] # "failed")
          => \A u \in Unit : Completed(prompt[s], u)]_vars

(* Resumption never pays twice: the model is not called for a unit that is *)
(* complete under the same prompt.                                         *)
NoRepeatedCall ==
    [][\A s \in Session, u \in Unit :
          task[s][u] = "calling" /\ task'[s][u] \in {"recording", "refused"}
            => ~Completed(prompt[s], u)]_vars

(* Every session ends, whatever fails in its tasks. *)
SessionsEnd ==
    \A s \in Session : phase[s] = "running" ~> phase[s] \in {"ended", "lost"}

(* From the moment lock_investigation has read the active evidence whose   *)
(* hash it keeps, nothing joins it, whichever task had passed a trigger, a *)
(* foreign key or its look-up of the run by then.                          *)
LockClosesActive == [][NoRevert /\ locker # "idle" => Active' \subseteq Active]_vars

(* "After lock, policies reject changes to: [...] semantic and candidate   *)
(* completion pointers".                                                   *)
LockedPointersStand == [][caseState = "LOCKED" => completion' = completion]_vars
=============================================================================
