--------------------------- MODULE ProcessingRuns ---------------------------
(***************************************************************************)
(* The inventory and the structural stage of `casezero process`: skipped   *)
(* and linked docket items, processing runs keyed by the checksum of the   *)
(* content, artifacts in a content-addressed store and their units.  A     *)
(* session is an operator who repeats the command; every statement commits *)
(* by itself, so a session may be lost between any two of them.  The       *)
(* stores are the hosted ones that the command is wired with.              *)
(***************************************************************************)
EXTENDS Integers, Sequences, FiniteSets, Functions

CONSTANTS
    Session,        \* operators that run the command
    Item,           \* docket items
    Manifest,       \* Manifest[s]: the items of the case s processes, in order
    ContentOf,      \* ContentOf[i]: the checksum of its bytes
    KindOf,         \* KindOf[i]: "rights", "hidden", "unsupported" or "plain"
    MaxCrashes,     \* sessions lost (killed, or ended by a database error)
    MaxFailures,    \* answers of a processor that are errors
    None

ASSUME ProcessingAssumption ==
    /\ None \notin Item
    /\ Manifest \in [Session -> Seq(Item)]
    /\ KindOf \in [Item -> {"rights", "hidden", "unsupported", "plain"}]
    /\ \A i, j \in Item : ContentOf[i] = ContentOf[j] => KindOf[i] = KindOf[j]
    /\ {MaxCrashes, MaxFailures} \subseteq Nat

Content == {ContentOf[i] : i \in Item}

VARIABLES
    stored,         \* [Item -> what acquisition left of it, a member of Stored]
    run,            \* [Content -> status of its processing run, or "absent"]
    artifact,       \* [Content -> the source its artifact and units name, or None]
    file,           \* [Content -> its object in the artifact store]
    pc,             \* [Session -> where it is]
    at,             \* [Session -> items or sources done in this phase]
    sources,        \* [Session -> materialized sources, in order]
    units,          \* [Session -> the source named by the units of each run]
    report,         \* [Session -> statuses counted so far, in order]
    crashes, failures

vars == <<stored, run, artifact, file, pc, at, sources, units, report,
          crashes, failures>>
tables == <<stored, run, artifact, file>>
faults == <<crashes, failures>>

(* No row with the reviewed checksum; a row whose object cannot be fetched; *)
(* an object with other bytes; an object with the reviewed bytes.          *)
Stored == {"absent", "missing", "altered", "whole"}
Eligible(i) == KindOf[i] \in {"plain", "unsupported"}

(* Where no session is under way; all but the first name what ended it.    *)
Idle == {"idle", "lost", "refused", "unreadable", "raised", "collided", "keyerror"}
Init ==
    /\ stored \in [Item -> Stored]
    /\ \A i \in Item : ~Eligible(i) => stored[i] \in {"absent", "whole"}
    /\ run = [c \in Content |-> "absent"]
    /\ artifact = [c \in Content |-> None] /\ file = [c \in Content |-> "none"]
    /\ pc = [s \in Session |-> "idle"] /\ at = [s \in Session |-> 0]
    /\ sources = [s \in Session |-> <<>>] /\ units = [s \in Session |-> <<>>]
    /\ report = [s \in Session |-> <<>>]
    /\ crashes = 0 /\ failures = 0

Go(s, where) == pc' = [pc EXCEPT ![s] = where]
Count(s, status) == report' = [report EXCEPT ![s] = Append(@, status)]
Advance(s) == at' = [at EXCEPT ![s] = @ + 1]
Source(s) == sources[s][at[s] + 1]
Key(s) == ContentOf[Source(s)]

Open(s) ==
    /\ pc[s] \in Idle
    /\ Go(s, "inventory")
    /\ at' = [at EXCEPT ![s] = 0]
    /\ sources' = [sources EXCEPT ![s] = <<>>]
    /\ units' = [units EXCEPT ![s] = <<>>]
    /\ report' = [report EXCEPT ![s] = <<>>]
    /\ UNCHANGED <<tables, faults>>

-----------------------------------------------------------------------------
(* A source kept from the processor is none to it: its role sees only the  *)
(* sources of investigation evidence that a reviewer has linked.           *)
Skip(s, i) ==
    /\ \/ KindOf[i] = "rights" /\ Count(s, "SKIPPED_RIGHTS")
       \/ KindOf[i] = "hidden" /\ Count(s, "SKIPPED_VISIBILITY")
    /\ Advance(s) /\ UNCHANGED <<pc, sources>>

(* Errors of the database and of HTTP are not among those the inventory    *)
(* catches: an item that was not acquired as reviewed ends the session, as *)
(* does one whose object cannot be fetched.                                *)
Refuse(s, i) ==
    /\ Eligible(i)
    /\ \/ stored[i] = "absent" /\ Go(s, "refused")
       \/ stored[i] = "missing" /\ Go(s, "unreadable")
    /\ UNCHANGED <<report, at, sources>>

(* Bytes with another checksum fail the item. *)
Materialize(s, i) ==
    /\ Eligible(i)
    /\ \/ stored[i] = "whole" /\ sources' = [sources EXCEPT ![s] = Append(@, i)]
          /\ UNCHANGED report
       \/ stored[i] = "altered" /\ Count(s, "FAILED") /\ UNCHANGED sources
    /\ Advance(s) /\ UNCHANGED pc

Inventory(s) ==
    /\ pc[s] = "inventory" /\ at[s] < Len(Manifest[s])
    /\ LET i == Manifest[s][at[s] + 1]
       IN  Skip(s, i) \/ Refuse(s, i) \/ Materialize(s, i)
    /\ UNCHANGED <<tables, units, faults>>

Inventoried(s) ==
    /\ pc[s] = "inventory" /\ at[s] = Len(Manifest[s])
    /\ Go(s, "select")
    /\ at' = [at EXCEPT ![s] = 0]
    /\ UNCHANGED <<tables, sources, units, report, faults>>

-----------------------------------------------------------------------------
FoundNone(c) == FALSE
FoundAny(c) == run[c] # "absent"
Found(c) == run[c] = "SUCCEEDED"

(* Select a processor; reuse the run of the same content if it succeeded.  *)
Select(s) ==
    /\ pc[s] = "select" /\ at[s] < Len(sources[s])
    /\ \/ /\ KindOf[Source(s)] = "plain" /\ Found(Key(s))
          /\ units' = [units EXCEPT ![s] = Append(@, artifact[Key(s)])]
          /\ Count(s, "SUCCEEDED") /\ Advance(s)
          /\ UNCHANGED pc
       \/ /\ KindOf[Source(s)] = "plain" /\ ~Found(Key(s))
          /\ Go(s, "start")
          /\ UNCHANGED <<units, report, at>>
       \/ /\ KindOf[Source(s)] = "unsupported"
          /\ Go(s, "start")
          /\ UNCHANGED <<units, report, at>>
    /\ UNCHANGED <<tables, sources, faults>>

(* start_processing_run: whatever the row said, it is RUNNING now. *)
Start(s) ==
    /\ pc[s] = "start"
    /\ run' = [run EXCEPT ![Key(s)] = "RUNNING"]
    /\ Go(s, IF KindOf[Source(s)] = "unsupported" THEN "unsupported" ELSE "process")
    /\ UNCHANGED <<stored, artifact, file, at, sources, units, report, faults>>

(* One update of the run that has to exist, then the next source. *)
SetResult(s, status) ==
    /\ run' = [run EXCEPT ![Key(s)] = status]
    /\ Go(s, "select") /\ Advance(s)
    /\ UNCHANGED <<stored, artifact, file, sources, faults>>

Unsupported(s) ==
    /\ pc[s] = "unsupported"
    /\ SetResult(s, "UNSUPPORTED") /\ Count(s, "UNSUPPORTED")
    /\ UNCHANGED units

CompletedFirst(s) == Go(s, "complete")
ThenAdded(s) == Go(s, "add")
Put(s) == file' = [file EXCEPT ![Key(s)] = "whole"]

(* The processor runs and its output is put into the store, one request    *)
(* that creates the object under its address, before it is fetched and     *)
(* compared.  An error may come before that or after; OSError, ValueError  *)
(* and a failed comparison are caught, any other error ends the session.   *)
Process(s) ==
    /\ pc[s] = "process"
    /\ \/ Put(s) /\ ThenAdded(s) /\ UNCHANGED failures
       \/ /\ failures < MaxFailures /\ failures' = failures + 1
          /\ Put(s) \/ UNCHANGED file
          /\ Go(s, "fail") \/ Go(s, "raised")
    /\ UNCHANGED <<stored, run, artifact, at, sources, units, report, crashes>>

(* The artifact and its units in one transaction; an artifact of the same  *)
(* run with the same checksum violates a unique constraint, which is not   *)
(* among the errors the orchestrator catches.                              *)
Add(s) ==
    /\ pc[s] = "add"
    /\ \/ /\ artifact[Key(s)] = None
          /\ artifact' = [artifact EXCEPT ![Key(s)] = Source(s)]
          /\ Go(s, "complete")
       \/ /\ artifact[Key(s)] # None
          /\ Go(s, "collided") /\ UNCHANGED artifact
    /\ UNCHANGED <<stored, run, file, at, sources, units, report, faults>>

Complete(s) ==
    /\ pc[s] = "complete"
    /\ SetResult(s, "SUCCEEDED") /\ Count(s, "SUCCEEDED")
    /\ units' = [units EXCEPT ![s] = Append(@, Source(s))]

Unreported(s) == UNCHANGED report
Reported(s) == Count(s, "FAILED")
Fail(s) ==
    /\ pc[s] = "fail"
    /\ SetResult(s, "FAILED") /\ Reported(s)
    /\ UNCHANGED units

(* The later stages look the source of every unit up among their own.      *)
Finish(s) ==
    /\ pc[s] = "select" /\ at[s] = Len(sources[s])
    /\ Go(s, IF Range(units[s]) \subseteq Range(sources[s]) THEN "ended" ELSE "keyerror")
    /\ UNCHANGED <<tables, at, sources, units, report, faults>>

Close(s) ==
    /\ pc[s] = "ended"
    /\ Go(s, "idle")
    /\ UNCHANGED <<tables, at, sources, units, report, faults>>

Crash(s) ==
    /\ pc[s] \notin Idle /\ crashes < MaxCrashes
    /\ crashes' = crashes + 1
    /\ Go(s, "lost")
    /\ UNCHANGED <<tables, at, sources, units, report, failures>>

Run(s) ==
    \/ Inventory(s) \/ Inventoried(s) \/ Select(s) \/ Start(s) \/ Unsupported(s)
    \/ Process(s) \/ Add(s) \/ Complete(s) \/ Fail(s)
    \/ Finish(s) \/ Close(s)
Next == \E s \in Session : Open(s) \/ Run(s) \/ Crash(s)

Spec == Init /\ [][Next]_vars
FairSpec == Spec /\ \A s \in Session : WF_vars(Open(s) \/ Run(s))

-----------------------------------------------------------------------------
Status == {"absent", "RUNNING", "SUCCEEDED", "FAILED", "UNSUPPORTED"}
Skips == {"SKIPPED_RIGHTS", "SKIPPED_VISIBILITY"}
Where == Idle \cup {"inventory", "select", "start", "unsupported", "process",
                   "add", "complete", "fail", "ended"}

(* The types of the variables, with the constraints of the tables. *)
TypeOK ==
    /\ stored \in [Item -> Stored]
    /\ run \in [Content -> Status]
    /\ artifact \in [Content -> Item \cup {None}]
    /\ file \in [Content -> {"none", "whole"}]
    /\ pc \in [Session -> Where]
    /\ at \in [Session -> Nat] /\ \A s \in Session : at[s] <= Len(Manifest[s])
    /\ sources \in [Session -> Seq(Item)] /\ units \in [Session -> Seq(Item)]
    /\ report \in [Session -> Seq(Status \cup Skips)]
    /\ crashes \in 0..MaxCrashes /\ failures \in 0..MaxFailures

(* A run counts as successful only once its artifact and units are stored  *)
(* and the object they point to is there, whatever was lost before.        *)
SucceededIsStored ==
    \A c \in Content : run[c] = "SUCCEEDED" => artifact[c] # None /\ file[c] = "whole"

(* "All failures/skips appear in the case processing report": a session    *)
(* that reaches its report has a status for every item of the inventory,   *)
(* and hands on units for exactly the sources it calls successful.         *)
ReportCovers ==
    \A s \in Session : pc[s] = "ended" =>
        /\ Len(report[s]) = Len(Manifest[s])
        /\ Len(units[s]) =
             Cardinality({k \in DOMAIN report[s] : report[s][k] = "SUCCEEDED"})

(* A successful run that no session is at work on.                         *)
AtWork == {"start", "unsupported", "process", "add", "complete", "fail"}
Settled(c) ==
    run[c] = "SUCCEEDED" /\ \A s \in Session : pc[s] \in AtWork => Key(s) # c

(* "A prior successful match is reused": once a run is successful and the  *)
(* sessions that were at work on it when it succeeded are past it, no      *)
(* session begins it again, however many operators repeat the command.     *)
SuccessIsReused == [][\A c \in Content : Settled(c) => Settled(c)']_vars

(* The artifact of a run is stored and no session is about to complete the *)
(* run (orchestrator.py:185 commits the artifact, 186 the run): a session  *)
(* was lost in between, or another one has begun or failed it again.       *)
HalfDone(c) ==
    /\ artifact[c] # None /\ run[c] # "SUCCEEDED"
    /\ \A s \in Session : pc[s] = "complete" => Key(s) # c

Acquired(i) == Eligible(i) => stored[i] # "absent"
Fetched(i) == Eligible(i) => stored[i] # "missing"
Readable(i) == KindOf[i] = "plain" /\ stored[i] = "whole"

(* "Unit failures preserve successful siblings and resume correctly": with *)
(* operators who repeat the command, every readable document succeeds in   *)
(* the end, whichever processors failed and wherever sessions were lost,   *)
(* unless a run was left half done, from where the code never recovers, or *)
(* a document that is to be processed has no object that can be fetched.   *)
ResumesCorrectly ==
    (\A i \in Item : Acquired(i) /\ Fetched(i)) /\ [](\A c \in Content : ~HalfDone(c))
        => <>[](\A i \in Item : Readable(i) => run[ContentOf[i]] = "SUCCEEDED")
=============================================================================
