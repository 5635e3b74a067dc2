-------------------------- MODULE QueueRefinement --------------------------
(* The leased queue implements the investigation it is there to drive.      *)
EXTENDS EventReplay

JobsIn(states) == {j \in Job : jstat[j] \in states}

Abstract == INSTANCE Investigation WITH
              open   <- JobsIn({"PENDING", "RUNNING"}),
              failed <- JobsIn({"FAILED"})

\* Whatever workers crash, stall, lose their leases or race each other, the rows
\* of the investigation only take the steps the abstract one allows.
ImplementsInvestigation == Abstract!Spec
=============================================================================
