---------------------------- MODULE CaseBoundary ----------------------------
(***************************************************************************)
(* The boundary around a case: `casezero ingest` acquires the documents in *)
(* one transaction that ends in enter_blind, the processor links reviewed  *)
(* ones, the blind role reads through the row policies and an audit trail, *)
(* lock_investigation closes the case, evaluation follows, and the auditor *)
(* of temporal leakage judges the trail.  Transactions are stamped when    *)
(* they begin, which may be long before they get the row of the case.      *)
(***************************************************************************)
EXTENDS Integers, FiniteSets, FiniteSetsExt, Sequences, SequencesExt

CONSTANTS
    Docs,           \* the docket, in the order of the manifest
    Published,      \* Published[d]: the date of d
    Final,          \* Final[d]: do title and type make d an official finding?
    AiAllowed,      \* AiAllowed[d]: the reviewed processing disposition
    Cutoff,         \* cutoffs an operator may give
    MaxAttempts,    \* max_attempts of the downloader
    MaxIngests,     \* invocations of `casezero ingest`
    MaxReads,       \* different accesses of the blind role
    MaxClock,       \* instants of the database clock
    None

ASSUME BoundaryAssumption ==
    /\ Docs \in Seq(ToSet(Docs)) /\ IsInjective(Docs)
    /\ None \notin ToSet(Docs) \cup Cutoff \cup (1..MaxClock)
    /\ Cutoff \subseteq Nat /\ {MaxAttempts, MaxClock} \subseteq Nat \ {0} /\ MaxIngests \in Nat
    /\ Published \in [ToSet(Docs) -> Nat]
    /\ {Final, AiAllowed} \subseteq [ToSet(Docs) -> BOOLEAN]

Doc == ToSet(Docs)
Reviewed == 1                   \* the bytes whose checksum the review pins
Version == {Reviewed, 2}

VARIABLES
    clock,
    site,           \* [Doc -> the version ntsb.gov serves]
    files,          \* objects of the source store: <<document, version>>
    caseState, cutoff, lockedAt,
    legacy,         \* was the case acquired before cutoffs were stored?
    rows,           \* [Doc -> its row of source_documents, or NoRow]
    ingest,         \* the running ingestion and its uncommitted rows
    ingests,
    link, lock,     \* transactions of the processor and of the lock
    reader,         \* BlindAccessService: the answer not recorded yet
    handed,         \* <<document, version>> handed to the blind investigator
    events          \* access_audit_events

caseRow == <<caseState, cutoff, lockedAt, legacy>>
vars == <<clock, site, files, caseRow, rows, ingest, ingests, link, lock, reader,
          handed, events>>

NoRow == [version |-> 0, visibility |-> "none", linked |-> FALSE]
NoIngest == [active |-> FALSE, cutoff |-> 0, next |-> 1,
             rows |-> [d \in Doc |-> NoRow]]
NoLink == [doc |-> None, begin |-> 0]
NoAnswer == [op |-> "none", docs |-> {}, target |-> None]

(* No check depends on when a document was acquired or read: NoTime. *)
NoTime == 0
Event(stage, op, target, at) ==
    [stage |-> stage, op |-> op, target |-> target, at |-> at]

(* classify_visibility *)
Classify(d, c) ==
    IF ~Final[d] /\ Published[d] <= c THEN "EVIDENCE" ELSE "OFFICIAL"
Row(d, v, c) == [version |-> v, visibility |-> Classify(d, c), linked |-> FALSE]

Init ==
    /\ clock = 1 /\ site = [d \in Doc |-> Reviewed]
    /\ cutoff = None /\ lockedAt = None
    /\ legacy \in BOOLEAN
    /\ IF legacy
       THEN /\ caseState = "BLIND"
            /\ \E c \in Cutoff : rows = [d \in Doc |-> Row(d, Reviewed, c)]
            /\ files = {<<d, Reviewed>> : d \in Doc}
       ELSE caseState = "absent" /\ rows = [d \in Doc |-> NoRow] /\ files = {}
    /\ ingest = NoIngest /\ ingests = 0
    /\ link = NoLink /\ lock = 0 /\ reader = NoAnswer
    /\ handed = {} /\ events = {}

-----------------------------------------------------------------------------
(* The row of the case, locked by the transaction of an ingestion. *)
RowFree == ~ingest.active

(* enter_blind *)
Conflicts(c) == caseState = "LOCKED" \/ (cutoff # None /\ cutoff # c)

(* upsert_case inserts or updates the row of the case and refuses a locked *)
(* one; nothing is committed before the end of the ingestion.              *)
Upsert ==
    /\ ingests < MaxIngests /\ RowFree
    /\ ingests' = ingests + 1
    /\ IF caseState = "LOCKED" THEN UNCHANGED ingest
       ELSE \E c \in Cutoff :
              ingest' = [NoIngest EXCEPT !.active = TRUE, !.cutoff = c, !.rows = rows]
    /\ UNCHANGED <<clock, site, files, caseRow, rows, link, lock, reader, handed, events>>

(* _get_with_retries: a busy server is asked again, the last answer counts. *)
Answer == {"served", "busy", "missing"}
Response(answers) ==
    LET final == {n \in DOMAIN answers : answers[n] # "busy"}
    IN  IF final = {} THEN "busy" ELSE answers[Min(final)]

(* What is not served is listed as a retrieval error and the ingestion     *)
(* goes on.  What is served is put into the store, where it stays; the row *)
(* of a known address is kept, and other bytes end the ingestion.          *)
PutLater == files
PutVerified == files \cup {<<Docs[ingest.next], site[Docs[ingest.next]]>>}
Added(d) == [ingest EXCEPT !.next = @ + 1, !.rows[d] = Row(d, site[d], ingest.cutoff)]
Download ==
    /\ ingest.active /\ ingest.next <= Len(Docs)
    /\ LET d == Docs[ingest.next]  old == ingest.rows[d]
       IN  \E answers \in [1..MaxAttempts -> Answer] :
             IF Response(answers) # "served"
             THEN ingest' = [ingest EXCEPT !.next = @ + 1] /\ UNCHANGED files
             ELSE /\ files' = PutVerified
                  /\ \/ old = NoRow /\ ingest' = Added(d)
                     \/ old.version = site[d] /\ ingest' = [ingest EXCEPT !.next = @ + 1]
                     \/ old # NoRow /\ old.version # site[d] /\ ingest' = NoIngest
    /\ UNCHANGED <<clock, site, caseRow, rows, ingests, link, lock, reader, handed, events>>

KeepRows == rows' = ingest.rows
Undo == UNCHANGED rows

(* enter_blind ends the transaction: the case is BLIND with this cutoff,   *)
(* or nothing of the ingestion remains.                                    *)
EnterBlind ==
    /\ ingest.active /\ ingest.next > Len(Docs)
    /\ ingest' = NoIngest
    /\ \/ /\ Conflicts(ingest.cutoff)
          /\ Undo
          /\ UNCHANGED <<caseState, cutoff, events>>
       \/ /\ ~Conflicts(ingest.cutoff)
          /\ rows' = ingest.rows
          /\ caseState' = "BLIND" /\ cutoff' = ingest.cutoff
          /\ events' = events \cup {Event("ACQUISITION", "WRITE", None, NoTime)}
    /\ UNCHANGED <<clock, site, files, lockedAt, legacy, ingests, link, lock, reader, handed>>

IngestLost ==
    /\ ingest.active
    /\ ingest' = NoIngest
    /\ UNCHANGED <<clock, site, files, caseRow, rows, ingests, link, lock, reader, handed,
                   events>>

(* backfill_registered_cutoffs: an old case gets the cutoff of its manifest. *)
Backfill ==
    /\ legacy /\ caseState = "BLIND" /\ RowFree
    /\ \E c \in Cutoff : ~Conflicts(c) /\ cutoff' = c
    /\ events' = events \cup {Event("ACQUISITION", "WRITE", None, NoTime)}
    /\ UNCHANGED <<clock, site, files, caseState, lockedAt, legacy, rows, ingest, ingests,
                   link, lock, reader, handed>>

-----------------------------------------------------------------------------
EligibleAnyTime(d) == rows[d].visibility = "EVIDENCE" /\ AiAllowed[d] /\ ~Final[d]
(* is_blind_metadata_eligible *)
Eligible(d) ==
    /\ rows[d].visibility = "EVIDENCE" /\ AiAllowed[d] /\ ~Final[d]
    /\ cutoff # None /\ Published[d] <= cutoff

(* link_processable_source: stamped when it begins, ... *)
LinkBegin(d) ==
    /\ link = NoLink
    /\ link' = [doc |-> d, begin |-> clock]
    /\ UNCHANGED <<clock, site, files, caseRow, rows, ingest, ingests, lock, reader, handed,
                   events>>

ReviewedBytes(d) == rows[d].version = Reviewed
AnyState(d) == ReviewedBytes(d) /\ Eligible(d)
Processable(d) == caseState = "BLIND" /\ ReviewedBytes(d) /\ Eligible(d)

(* ... it judges the state that it finds when it has the row of the case.  *)
LinkEnd ==
    /\ link # NoLink /\ RowFree
    /\ IF Processable(link.doc)
       THEN /\ rows' = [rows EXCEPT ![link.doc].linked = TRUE]
            /\ events' = events \cup {Event("PROCESSING", "WRITE", link.doc, link.begin)}
       ELSE UNCHANGED <<rows, events>>
    /\ link' = NoLink
    /\ UNCHANGED <<clock, site, files, caseRow, ingest, ingests, lock, reader, handed>>

(* The row policies of the blind role. *)
Visible(d) == caseState \in {"BLIND", "LOCKED"} /\ rows[d].linked /\ Eligible(d)

(* lock_investigation *)
LockBegin ==
    /\ lock = 0
    /\ lock' = clock
    /\ UNCHANGED <<clock, site, files, caseRow, rows, ingest, ingests, link, reader, handed,
                   events>>
LockEnd ==
    /\ lock # 0 /\ RowFree
    /\ IF caseState = "BLIND" /\ cutoff # None /\ \E d \in Doc : Visible(d)
       THEN /\ caseState' = "LOCKED" /\ lockedAt' = lock
            /\ events' = events \cup {Event("BLIND", "LOCK", None, lock)}
       ELSE UNCHANGED <<caseState, lockedAt, events>>
    /\ lock' = 0
    /\ UNCHANGED <<clock, site, files, cutoff, legacy, rows, ingest, ingests, link, reader,
                   handed>>

-----------------------------------------------------------------------------
(* BlindAccessService: the rows are read, ... *)
Ask(op, docs, target) ==
    /\ reader = NoAnswer
    /\ Cardinality({e \in events : e.stage = "BLIND" /\ e.at = NoTime}) < MaxReads
    /\ reader' = [op |-> op, docs |-> docs, target |-> target]
    /\ UNCHANGED <<clock, site, files, caseRow, rows, ingest, ingests, link, lock, handed,
                   events>>
ListEvidence == Ask("LIST", {d \in Doc : Visible(d)}, None)
GetEvidence(d) == IF Visible(d) THEN Ask("READ", {d}, d) ELSE Ask("DENY", {}, None)
GetSource(d) == IF Visible(d) THEN Ask("READ", {d}, d) ELSE Ask("DENY", {}, d)

DenialsOnly == events \cup
    {e \in {Event("BLIND", reader.op, reader.target, NoTime)} : e.op = "DENY"}
Recorded == events \cup {Event("BLIND", reader.op, reader.target, NoTime)}

(* ... the access is recorded, then the answer returned. *)
Record ==
    /\ reader # NoAnswer
    /\ events' = Recorded
    /\ handed' = handed \cup {<<d, rows[d].version>> : d \in reader.docs}
    /\ reader' = NoAnswer
    /\ UNCHANGED <<clock, site, files, caseRow, rows, ingest, ingests, link, lock>>
ReaderLost ==
    /\ reader # NoAnswer
    /\ reader' = NoAnswer
    /\ UNCHANGED <<clock, site, files, caseRow, rows, ingest, ingests, link, lock, handed,
                   events>>

EvaluationAnyTime == caseState # "absent"
EvaluationPolicy == caseState = "LOCKED" /\ lockedAt # None
Evaluate ==
    /\ EvaluationPolicy
    /\ events' = events \cup {Event("EVALUATION", "READ", None, clock)}
    /\ UNCHANGED <<clock, site, files, caseRow, rows, ingest, ingests, link, lock, reader,
                   handed>>

Tick ==
    /\ clock < MaxClock
    /\ clock' = clock + 1
    /\ UNCHANGED <<site, files, caseRow, rows, ingest, ingests, link, lock, reader, handed,
                   events>>
Republish(d) ==
    /\ site' = [site EXCEPT ![d] = 2]
    /\ UNCHANGED <<clock, files, caseRow, rows, ingest, ingests, link, lock, reader, handed,
                   events>>

Acquire == Upsert \/ Download \/ EnterBlind \/ IngestLost
Read == ListEvidence \/ Record \/ ReaderLost \/ \E d \in Doc : GetEvidence(d) \/ GetSource(d)
Next ==
    \/ Acquire \/ Backfill \/ LinkEnd \/ LockBegin \/ LockEnd \/ Read \/ Evaluate \/ Tick
    \/ \E d \in Doc : LinkBegin(d) \/ Republish(d)
Spec == Init /\ [][Next]_vars

-----------------------------------------------------------------------------
(* audit_temporal_leakage over the trail, with the case as it is.          *)
ReadsEvidence(e) == e.stage = "BLIND" /\ e.op \in {"READ", "DENY"}
InSources(e) == e.target # None /\ rows[e.target] # NoRow

UntilCutoffOnly(d) == Published[d] < cutoff
UntilCutoff(d) == Published[d] <= cutoff
Expected(d) == rows[d].visibility = "EVIDENCE" /\ UntilCutoff(d)

Early(e) == e.at < lockedAt

Incidents(e) ==
    {code \in {"MALFORMED", "BLOCKED_VISIBILITY", "POST_CUTOFF", "MISMATCH",
              "EVALUATION_BEFORE_LOCK", "POST_LOCK_MUTATION"} :
       \/ code = "MALFORMED" /\ ReadsEvidence(e) /\ ~InSources(e)
       \/ /\ ReadsEvidence(e) /\ InSources(e)
          /\ LET d == e.target
             IN  \/ code = "BLOCKED_VISIBILITY" /\ rows[d].visibility # "EVIDENCE"
                 \/ code = "POST_CUTOFF" /\ ~UntilCutoff(d)
                 \/ code = "MISMATCH" /\ Eligible(d) # Expected(d)
       \/ code = "EVALUATION_BEFORE_LOCK" /\ e.stage = "EVALUATION"
            /\ (lockedAt = None \/ Early(e))
       \/ code = "POST_LOCK_MUTATION" /\ e.stage \in {"PROCESSING", "BLIND"}
            /\ lockedAt # None /\ e.op = "WRITE" /\ e.at > lockedAt}

-----------------------------------------------------------------------------
Visibility == {"none", "EVIDENCE", "OFFICIAL"}
RowType == [version : Version \cup {0}, visibility : Visibility, linked : BOOLEAN]
EventType ==
    [stage : {"ACQUISITION", "PROCESSING", "BLIND", "EVALUATION"},
     op : {"READ", "LIST", "WRITE", "LOCK", "DENY"},
     target : Doc \cup {None}, at : 0..MaxClock]

(* The types of the variables, the constraints of the tables included: a   *)
(* locked case has a cutoff and a lock, a linked source has the checksum   *)
(* of its docket item.                                                     *)
TypeOK ==
    /\ clock \in 1..MaxClock /\ site \in [Doc -> Version]
    /\ files \subseteq Doc \X Version
    /\ caseState \in {"absent", "BLIND", "LOCKED"}
    /\ cutoff \in Cutoff \cup {None} /\ lockedAt \in (1..MaxClock) \cup {None}
    /\ caseState = "LOCKED" => cutoff # None /\ lockedAt # None
    /\ legacy \in BOOLEAN /\ rows \in [Doc -> RowType]
    /\ \A d \in Doc : rows[d].linked => rows[d].version = Reviewed
    /\ ingest \in [active : BOOLEAN, cutoff : Cutoff \cup {0}, next : 1..Len(Docs) + 1,
                   rows : [Doc -> RowType]]
    /\ ingests \in 0..MaxIngests
    /\ link \in [doc : Doc \cup {None}, begin : 0..MaxClock] /\ lock \in 0..MaxClock
    /\ reader \in [op : {"none", "READ", "LIST", "DENY"}, docs : SUBSET Doc,
                   target : Doc \cup {None}]
    /\ handed \subseteq Doc \X Version
    /\ events \subseteq EventType

(* The temporal boundary: what the blind investigator was ever handed was  *)
(* published by the cutoff of the case, is no official finding, and has    *)
(* the bytes that were reviewed, whatever was acquired, under whichever    *)
(* cutoffs, and whatever the site serves now.                              *)
BlindSeesReviewedOnly ==
    \A h \in handed :
        /\ cutoff # None /\ Published[h[1]] <= cutoff
        /\ ~Final[h[1]] /\ AiAllowed[h[1]]
        /\ h[2] = Reviewed

(* No document is handed out without a record of the access in the trail.  *)
HandedIsAudited ==
    \A h \in handed : \E e \in events :
        e.stage = "BLIND" /\ (e.op = "LIST" \/ (e.op = "READ" /\ e.target = h[1]))

(* The auditor separates: it finds nothing wrong with a read that was      *)
(* allowed, and reports every denied read of a document that the boundary  *)
(* excludes, though it recomputes eligibility from other data.             *)
AuditorSeparates ==
    cutoff # None => \A e \in events : ReadsEvidence(e) =>
        /\ e.op = "READ" => Incidents(e) = {}
        /\ e.op = "DENY" /\ (e.target = None \/ ~Eligible(e.target)) => Incidents(e) # {}

(* Once the lock has committed no source is added or linked and no write   *)
(* is recorded, also by a transaction that began before it.                *)
LockClosesSources ==
    [][caseState = "LOCKED" =>
          rows' = rows /\ \A e \in events' \ events : e.op # "WRITE"]_vars

(* Ingestion is all or nothing: the documents of a case are classified by  *)
(* the very cutoff the case has, also after failed and repeated runs with  *)
(* another one (old cases apart, whose cutoff was filled in).              *)
ClassifiedByCutoff ==
    \A d \in Doc : ~legacy /\ rows[d] # NoRow =>
        cutoff # None /\ rows[d].visibility = Classify(d, cutoff)

(* Every committed source has its bytes in the store, wherever an          *)
(* ingestion was lost, and the first bytes acquired are kept.              *)
SourcesHaveFiles ==
    \A d \in Doc : rows[d] # NoRow => <<d, rows[d].version>> \in files
=============================================================================
