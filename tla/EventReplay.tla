---------------------------- MODULE EventReplay ----------------------------
(***************************************************************************)
(* The lifecycle half of casezero_investigation/replay.py: what the event  *)
(* stream alone says of the status and the stage of an investigation, and  *)
(* that it agrees with the row the queue keeps (persistence._verify).       *)
(* The hash chain and the canonical records are left out.                   *)
(***************************************************************************)
EXTENDS InvestigationQueue

\* COMPLETE is a stage of its own: the events of stage 1 do not end anything.
ASSUME ReplayAssumption == LastStage > 1

Mismatch == [status |-> "ReplayError", stage |-> 0]

\* A transition names the stage it leads to: the first one starts stage 1, any
\* other one comes from the stage before.
From(e) == IF e.stage = 1 THEN 1 ELSE e.stage - 1

Started(e) ==
  IF e.kind = "STARTED" THEN [status |-> "PENDING", stage |-> e.stage] ELSE Mismatch

Apply(p, e) ==
  IF p = Mismatch \/ e.kind = "STARTED" THEN Mismatch
  ELSE IF p.status = "SUCCEEDED" THEN Mismatch
  ELSE IF e.kind = "RESULT" /\ e.stage = LastStage
       THEN IF p.stage = LastStage THEN [p EXCEPT !.status = "SUCCEEDED"] ELSE Mismatch
  ELSE IF p.stage = LastStage THEN Mismatch
  ELSE IF e.kind = "RESULT" THEN p
  ELSE IF p.stage = From(e) /\ (p.stage = e.stage => p.status = "PENDING")
       THEN [status |-> "RUNNING", stage |-> e.stage]
  ELSE Mismatch

Replay(events) ==
  LET after[i \in 1..Len(events)] ==
        IF i = 1 THEN Started(events[1]) ELSE Apply(after[i - 1], events[i])
  IN after[Len(events)]

\* persistence._verify, which every result runs before and after its writes:
\* the stream replays to the status and the stage of the row.  FAILED is the one
\* status no event tells, and a failed row still replays without an error.
ReplayMatchesRow ==
  LET p == Replay(log) IN
  /\ p # Mismatch
  /\ p.stage = stage
  /\ status # "FAILED" => p.status = status
=============================================================================
