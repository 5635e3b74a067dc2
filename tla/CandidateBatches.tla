-------------------------- MODULE CandidateBatches --------------------------
(***************************************************************************)
(* The candidate stage of `casezero process`: the evidence of all units is *)
(* packed into batches, a batch that is complete under the hash of its     *)
(* items is reused, the others are proposed and stored.  Sessions follow   *)
(* each other; the semantic stage is taken as SemanticPipeline has it, a   *)
(* session completing some of the units that are still open.               *)
(***************************************************************************)
EXTENDS Integers, Sequences, FiniteSets, SequencesExt

CONSTANTS
    Units,          \* the structural units of the case, in the order of the plan
    MaxSize,        \* observations of a unit, at most
    BatchSize,      \* candidate_batch_size
    MaxFailures     \* failures of the model, per behaviour

ASSUME CandidatesAssumption ==
    /\ Units \in Seq(ToSet(Units)) /\ IsInjective(Units)
    /\ MaxSize \in Nat /\ BatchSize \in Nat \ {0} /\ MaxFailures \in Nat

Unit == ToSet(Units)

VARIABLES
    size,           \* [Unit -> observations its evidence has]
    partial,        \* may the semantic stage complete some units only?
    done,           \* units with a semantic completion
    phase,          \* "idle" or "proposing"
    order,          \* the units in the order the session lists their evidence
    pending,        \* batches (sets of units) still to be proposed
    completed,      \* candidate_batch_completions, by the units of the batch
    cited,          \* [Unit -> stored proposals that cite it, capped at 2]
    failures

vars == <<size, partial, done, phase, order, pending, completed, cited, failures>>

Init ==
    /\ size \in [Unit -> 0..MaxSize]
    /\ partial \in BOOLEAN
    /\ done = {} /\ phase = "idle" /\ order = <<>> /\ pending = {}
    /\ completed = {} /\ cited = [u \in Unit |-> 0]
    /\ failures = 0

-----------------------------------------------------------------------------
Weight(b) ==
  LET sum[n \in 0..Len(b)] == IF n = 0 THEN 0 ELSE sum[n - 1] + size[b[n]]
  IN  sum[Len(b)]

FitsOneMore(b, u) == Weight(b) + size[u] <= BatchSize + 1
Fits(b, u) == Weight(b) + size[u] <= BatchSize

(* _candidate_batches: the items of a unit stay together; the next unit    *)
(* opens a new batch if it does not fit.  A unit without items is no group. *)
Grouped(batches, u) ==
    IF size[u] = 0 THEN batches
    ELSE IF batches = <<>> \/ ~Fits(batches[Len(batches)], u) THEN Append(batches, <<u>>)
    ELSE [batches EXCEPT ![Len(batches)] = Append(@, u)]
Packed(units) ==
    LET pack[n \in 0..Len(units)] ==
          IF n = 0 THEN <<>> ELSE Grouped(pack[n - 1], units[n])
    IN  pack[Len(units)]

NeverCompleted(b) == FALSE
Overlapping(b) == \E c \in completed : b \cap c # {}
HasCompleted(b) == b \in completed

(* The evidence is listed by unit in the order of the plan, that of reused *)
(* units before that of fresh ones.                                        *)
Among(S) ==
    LET list[n \in 0..Len(Units)] ==
          IF n = 0 THEN <<>>
          ELSE IF Units[n] \in S THEN Append(list[n - 1], Units[n]) ELSE list[n - 1]
    IN  list[Len(Units)]
Listed(fresh) == Among(Unit \ fresh) \o Among(fresh)

(* A session: the semantic stage completes all the open units, or some of  *)
(* them and the candidate stage is put off.                                *)
Interpret ==
    /\ phase = "idle"
    /\ \E fresh \in SUBSET (Unit \ done) :
         /\ done' = done \cup fresh
         /\ IF done' = Unit
            THEN /\ phase' = "proposing" /\ order' = Listed(fresh)
                 /\ pending' = {b \in {ToSet(l) : l \in ToSet(Packed(order'))} : ~HasCompleted(b)}
                 /\ UNCHANGED failures
            ELSE /\ partial /\ failures < MaxFailures
                 /\ failures' = failures + 1
                 /\ UNCHANGED <<phase, order, pending>>
    /\ UNCHANGED <<size, partial, completed, cited>>

Cite(b) == [u \in Unit |-> IF u \in b /\ cited[u] < 2 THEN cited[u] + 1 ELSE cited[u]]

(* The proposal of a batch cites items of the batch only; its candidates   *)
(* and its completion are stored in one transaction.                       *)
Propose(b) ==
    /\ b \in pending
    /\ pending' = pending \ {b}
    /\ completed' = completed \cup {b}
    /\ cited' = Cite(b)
    /\ UNCHANGED <<size, partial, done, phase, order, failures>>

(* The call fails, or its answer names evidence that is not in the batch. *)
Reject(b) ==
    /\ b \in pending /\ failures < MaxFailures
    /\ pending' = pending \ {b}
    /\ failures' = failures + 1
    /\ UNCHANGED <<size, partial, done, phase, order, completed, cited>>

Finish ==
    /\ phase = "proposing" /\ pending = {}
    /\ phase' = "idle" /\ order' = <<>>
    /\ UNCHANGED <<size, partial, done, pending, completed, cited, failures>>

Crash ==
    /\ phase = "proposing" /\ failures < MaxFailures
    /\ phase' = "idle" /\ order' = <<>> /\ pending' = {} /\ failures' = failures + 1
    /\ UNCHANGED <<size, partial, done, completed, cited>>

Run == Interpret \/ Finish \/ \E b \in pending : Propose(b) \/ Reject(b)
Next == Run \/ Crash

Spec == Init /\ [][Next]_vars
FairSpec == Spec /\ WF_vars(Run)

-----------------------------------------------------------------------------
WithEvidence == {u \in Unit : size[u] > 0}

Before(u, v) == \E i, j \in DOMAIN order : i < j /\ order[i] = u /\ order[j] = v

(* What the packing must be, whatever way it is made: all the units with   *)
(* evidence, each in one place and in the order they are listed, no batch  *)
(* too large unless a single unit is, and none that could have taken the   *)
(* first unit of the next one.                                             *)
PackingSound ==
    LET batches == Packed(order)
    IN  /\ UNION {ToSet(b) : b \in ToSet(batches)} = {u \in ToSet(order) : size[u] > 0}
        /\ \A k, l \in DOMAIN batches :
             \A i \in DOMAIN batches[k], j \in DOMAIN batches[l] :
               k < l \/ (k = l /\ i < j) => Before(batches[k][i], batches[l][j])
        /\ \A k \in DOMAIN batches :
             /\ Weight(batches[k]) <= BatchSize \/ Len(batches[k]) = 1
             /\ k > 1 => Weight(batches[k - 1]) + size[batches[k][1]] > BatchSize

(* "Repeated identical runs create no duplicates": unless a semantic stage *)
(* stopped half-way, which changes the order of the evidence and with it   *)
(* the batches, no evidence is proposed from twice, whatever failed.       *)
NoDuplicates == ~partial => \A u \in Unit : cited[u] <= 1

(* "repeated identical runs create no duplicates": a session that finds all *)
(* units interpreted and all evidence in completed batches proposes nothing. *)
RepeatProposesNothing ==
    [][phase = "idle" /\ phase' = "proposing" /\ done = Unit
          /\ WithEvidence \subseteq UNION completed => pending' = {}]_vars

(* Whatever fails at first, repeating the command brings all the evidence  *)
(* into completed batches.                                                 *)
EventuallyCovered == <>[](WithEvidence \subseteq UNION completed)
=============================================================================
