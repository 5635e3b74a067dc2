--------------------------- MODULE Investigation ---------------------------
(***************************************************************************)
(* What the queue promises of one investigation, with no worker, lease,    *)
(* attempt or request in sight: its stages run in order, each of them      *)
(* records the result of each of its jobs once, in any order, and gives way*)
(* to the next when the last of them is recorded. Once begun it may fail at*)
(* any time, and a failed one may be set running again while it has open   *)
(* jobs: a concurrent claim does so, but the stage cannot end any more.    *)
(***************************************************************************)
EXTENDS Integers, Sequences

CONSTANTS Key, CaseKey, LastStage, CaseStage

VARIABLES
  caseState, status, stage, log,
  open,      \* the jobs that have neither a result nor a failure
  failed     \* the jobs that failed

vars == <<caseState, status, stage, log, open, failed>>

Stage == 1..LastStage

Event(kind, s, k) == [kind |-> kind, stage |-> s, key |-> k]

\* The jobs stage s may be given.
Batches(s) == {{s} \X keys : keys \in IF s \in CaseStage THEN {{CaseKey}} ELSE (SUBSET Key) \ {{}}}

Init ==
  /\ caseState = "BLIND" /\ status = "PENDING" /\ stage = 1
  /\ log = <<Event("STARTED", 1, CaseKey)>>
  /\ open \in Batches(1)
  /\ failed = {}

Begin ==
  /\ status = "PENDING"
  /\ status' = "RUNNING"
  /\ log' = Append(log, Event("TRANSITION", 1, CaseKey))
  /\ UNCHANGED <<stage, open, failed>>

Revive ==
  /\ status = "FAILED" /\ open # {}
  /\ status' = "RUNNING"
  /\ UNCHANGED <<stage, log, open, failed>>

Fail ==
  /\ status \in {"RUNNING", "FAILED"}
  /\ \E F \in SUBSET open :
       /\ failed \cup F # {}
       /\ failed' = failed \cup F
       /\ open' = open \ F
  /\ status' = "FAILED"
  /\ UNCHANGED <<stage, log>>

Record(j) ==
  /\ status = "RUNNING" /\ j \in open
  /\ log' = Append(log, Event("RESULT", j[1], j[2]))
  /\ open' = open \ {j}
  /\ open' \cup failed # {}
  /\ UNCHANGED <<status, stage, failed>>

Advance(j) ==
  /\ status = "RUNNING" /\ open = {j} /\ failed = {} /\ stage < LastStage
  /\ log' = Append(Append(log, Event("RESULT", j[1], j[2])),
                   Event("TRANSITION", stage + 1, CaseKey))
  /\ stage' = stage + 1
  /\ open' \in Batches(stage + 1)
  /\ UNCHANGED <<status, failed>>

Finish(j) ==
  /\ status = "RUNNING" /\ open = {j} /\ failed = {} /\ stage = LastStage
  /\ log' = Append(log, Event("RESULT", j[1], j[2]))
  /\ open' = {}
  /\ status' = "SUCCEEDED"
  /\ UNCHANGED <<stage, failed>>

Lock == caseState' = "LOCKED" /\ UNCHANGED <<status, stage, log, open, failed>>

Next ==
  /\ caseState = "BLIND"
  /\ \/ /\ Begin \/ Revive \/ Fail \/ \E j \in open : Record(j) \/ Advance(j) \/ Finish(j)
        /\ UNCHANGED caseState
     \/ Lock

Spec == Init /\ [][Next]_vars
=============================================================================
