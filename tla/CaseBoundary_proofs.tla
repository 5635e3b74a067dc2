-------------------------- MODULE CaseBoundary_proofs --------------------------
(***************************************************************************)
(* Proofs about the boundary around a case, for any docket, any dates, any *)
(* cutoffs the operators try and any number of ingestions and reads: what  *)
(* the blind role is handed, what the trail records of it, what an         *)
(* ingestion leaves behind and what the lock closes.                       *)
(***************************************************************************)
EXTENDS CaseBoundary, TLAPS

(***************************************************************************)
(* The inductive invariant.                                                *)
(***************************************************************************)

\* A row a running ingestion will commit: the committed one if there is one, or one that
\* is classified by the cutoff of the command and not linked.
Pending(d) ==
  IF rows[d] # NoRow THEN ingest.rows[d] = rows[d]
  ELSE \/ ingest.rows[d] = NoRow
       \/ \E v \in Version : ingest.rows[d] = Row(d, v, ingest.cutoff)

\* While an ingestion holds the row of the case nothing else changes it.
IngestInv ==
  ingest.active =>
    /\ caseState # "LOCKED" /\ ingest.cutoff \in Cutoff
    /\ \A d \in Doc : /\ Pending(d)
                      /\ ingest.rows[d] # NoRow => <<d, ingest.rows[d].version>> \in files

\* A linked source is eligible and has the reviewed bytes; it stays so, because rows are
\* kept and the cutoff is set once.
LinkedInv == \A d \in Doc : rows[d].linked => Eligible(d) /\ rows[d].version = Reviewed

\* Answers are about linked sources, and so is every recorded read.
AnswerInv ==
  /\ \A d \in reader.docs : rows[d].linked
  /\ reader.op = "READ" => reader.docs = {reader.target} /\ reader.target \in Doc
  /\ reader.op \in {"none", "DENY"} => reader.docs = {}
  /\ reader.op = "none" => reader = NoAnswer
  /\ \A e \in events : e.stage = "BLIND" /\ e.op = "READ" => e.target \in Doc /\ rows[e.target].linked

BoundaryInv ==
  /\ TypeOK /\ IngestInv /\ LinkedInv /\ AnswerInv
  /\ SourcesHaveFiles /\ ClassifiedByCutoff /\ BlindSeesReviewedOnly /\ HandedIsAudited

-----------------------------------------------------------------------------
\* The parts of a state that the invariant is about, the case and its rows.
LEMMA RowFacts ==
  ASSUME NEW d \in Doc, NEW v \in Version, NEW c \in Cutoff
  PROVE  /\ NoRow \in RowType /\ NoRow.linked = FALSE /\ NoRow.version = 0
         /\ Row(d, v, c) \in RowType /\ Row(d, v, c).linked = FALSE
         /\ Row(d, v, c).version = v /\ Row(d, v, c).visibility = Classify(d, c)
         /\ Row(d, v, c) # NoRow
  <1>1. Classify(d, c) \in Visibility
    BY DEF Classify, Visibility
  <1>2. v # 0 /\ 0 \notin Version
    BY DEF Version, Reviewed
  <1> QED BY <1>1, <1>2 DEF NoRow, Row, RowType, Visibility

\* No ingestion.
LEMMA NoIngestType ==
  /\ NoIngest \in [active : BOOLEAN, cutoff : Cutoff \cup {0}, next : 1..Len(Docs) + 1,
                   rows : [Doc -> RowType]]
  /\ ~NoIngest.active
  <1>1. NoRow \in RowType
    BY DEF NoRow, RowType, Visibility, Version
  <1> QED BY <1>1, BoundaryAssumption DEF NoIngest

LEMMA InitInv == Init => BoundaryInv
  <1> SUFFICES ASSUME Init PROVE BoundaryInv
    OBVIOUS
  <1>1. Reviewed \in Version
    BY DEF Version
  <1>2. NoRow \in RowType /\ NoRow.linked = FALSE
    BY DEF NoRow, RowType, Visibility, Version
  <1>3. ASSUME NEW d \in Doc
        PROVE  /\ rows[d] \in RowType /\ rows[d].linked = FALSE
               /\ rows[d] # NoRow => <<d, rows[d].version>> \in files
    <2>1. CASE legacy
      <3>1. PICK c \in Cutoff : rows = [x \in Doc |-> Row(x, Reviewed, c)]
        BY <2>1 DEF Init
      <3>2. files = {<<x, Reviewed>> : x \in Doc}
        BY <2>1 DEF Init
      <3>3. rows[d] = Row(d, Reviewed, c)
        BY <3>1
      <3>4. rows[d] \in RowType /\ rows[d].linked = FALSE /\ rows[d].version = Reviewed
        BY <1>1, <3>1, <3>3, RowFacts
      <3> QED BY <3>2, <3>4
    <2>2. CASE ~legacy
      <3>1. rows[d] = NoRow
        BY <2>2 DEF Init
      <3> QED BY <1>2, <3>1
    <2> QED BY <2>1, <2>2
  <1>4. rows \in [Doc -> RowType]
    BY <1>3 DEF Init
  <1>5. TypeOK
    <2>1. files \subseteq Doc \X Version
      BY <1>1 DEF Init
    <2>2. clock \in 1..MaxClock /\ ingests \in 0..MaxIngests /\ lock \in 0..MaxClock
      BY BoundaryAssumption DEF Init
    <2>3. NoLink \in [doc : Doc \cup {None}, begin : 0..MaxClock]
      BY BoundaryAssumption DEF NoLink
    <2>4. NoAnswer \in [op : {"none", "READ", "LIST", "DENY"}, docs : SUBSET Doc,
                        target : Doc \cup {None}]
      BY DEF NoAnswer
    <2> QED BY <1>1, <1>3, <1>4, NoIngestType, <2>1, <2>2, <2>3, <2>4 DEF Init, TypeOK
  <1>6. IngestInv
    BY NoIngestType DEF Init, IngestInv
  <1>7. LinkedInv /\ AnswerInv
    BY <1>3 DEF Init, LinkedInv, AnswerInv, NoAnswer
  <1>8. SourcesHaveFiles
    BY <1>3 DEF SourcesHaveFiles
  <1>9. ClassifiedByCutoff /\ BlindSeesReviewedOnly /\ HandedIsAudited
    BY DEF Init, ClassifiedByCutoff, BlindSeesReviewedOnly, HandedIsAudited
  <1> QED BY <1>5, <1>6, <1>7, <1>8, <1>9 DEF BoundaryInv

(***************************************************************************)
(* Steps that only touch the clock, the site, or transactions that begin.  *)
(***************************************************************************)
caseAndAnswers == <<files, caseRow, rows, ingest, reader, handed, events>>

LEMMA QuietInv ==
  ASSUME BoundaryInv, TypeOK', UNCHANGED caseAndAnswers
  PROVE  BoundaryInv'
  BY DEF BoundaryInv, IngestInv, Pending, LinkedInv, Eligible, AnswerInv, SourcesHaveFiles,
         ClassifiedByCutoff, BlindSeesReviewedOnly, HandedIsAudited, caseAndAnswers, caseRow

LEMMA QuietStep ==
  ASSUME BoundaryInv,
         \/ Tick \/ LockBegin
         \/ \E d \in Doc : LinkBegin(d) \/ Republish(d)
  PROVE  BoundaryInv'
  <1>1. CASE Tick
    <2>1. TypeOK' /\ UNCHANGED caseAndAnswers
      BY <1>1, BoundaryAssumption DEF BoundaryInv, TypeOK, Tick, caseRow, caseAndAnswers
    <2> QED BY <2>1, QuietInv
  <1>2. CASE LockBegin
    <2>1. TypeOK' /\ UNCHANGED caseAndAnswers
      BY <1>2, BoundaryAssumption DEF BoundaryInv, TypeOK, LockBegin, caseRow, caseAndAnswers
    <2> QED BY <2>1, QuietInv
  <1>3. ASSUME NEW d \in Doc, LinkBegin(d) PROVE BoundaryInv'
    <2>1. [doc |-> d, begin |-> clock] \in [doc : Doc \cup {None}, begin : 0..MaxClock]
      BY BoundaryAssumption DEF BoundaryInv, TypeOK
    <2>2. TypeOK' /\ UNCHANGED caseAndAnswers
      BY <1>3, <2>1 DEF BoundaryInv, TypeOK, LinkBegin, caseRow, caseAndAnswers
    <2> QED BY <2>2, QuietInv
  <1>4. ASSUME NEW d \in Doc, Republish(d) PROVE BoundaryInv'
    <2>1. TypeOK' /\ UNCHANGED caseAndAnswers
      BY <1>4 DEF BoundaryInv, TypeOK, Republish, Version, caseRow, caseAndAnswers
    <2> QED BY <2>1, QuietInv
  <1> QED BY <1>1, <1>2, <1>3, <1>4

(***************************************************************************)
(* The steps of an ingestion before its end: nothing is committed but      *)
(* files.                                                                  *)
(***************************************************************************)
LEMMA IngestOnly ==
  ASSUME BoundaryInv, TypeOK', IngestInv', files \subseteq files',
         UNCHANGED <<caseRow, rows, reader, handed, events>>
  PROVE  BoundaryInv'
  BY DEF BoundaryInv, LinkedInv, Eligible, AnswerInv, SourcesHaveFiles, ClassifiedByCutoff,
         BlindSeesReviewedOnly, HandedIsAudited, caseRow

LEMMA UpsertInv ==
  ASSUME BoundaryInv, Upsert
  PROVE  BoundaryInv'
  <1>1. UNCHANGED <<clock, site, files, caseRow, rows, link, lock, reader, handed, events>>
    BY DEF Upsert
  <1>2. ingests' \in 0..MaxIngests
    <2>1. ingests < MaxIngests /\ ingests' = ingests + 1
      BY DEF Upsert
    <2>2. ingests \in 0..MaxIngests /\ MaxIngests \in Nat
      BY BoundaryAssumption DEF BoundaryInv, TypeOK
    <2> QED BY <2>1, <2>2
  <1>3. CASE UNCHANGED ingest
    <2>1. TypeOK'
      BY <1>1, <1>2, <1>3 DEF BoundaryInv, TypeOK, caseRow
    <2>2. IngestInv'
      BY <1>1, <1>3 DEF BoundaryInv, IngestInv, Pending, caseRow
    <2> QED BY <1>1, <2>1, <2>2, IngestOnly
  <1>4. ASSUME NEW c \in Cutoff, caseState # "LOCKED",
               ingest' = [NoIngest EXCEPT !.active = TRUE, !.cutoff = c, !.rows = rows]
        PROVE  BoundaryInv'
    <2>1. /\ ingest'.active = TRUE /\ ingest'.cutoff = c /\ ingest'.rows = rows
          /\ ingest' = [active |-> TRUE, cutoff |-> c, next |-> 1, rows |-> rows]
      BY <1>4 DEF NoIngest
    <2>2. TypeOK'
      BY <1>1, <1>2, <2>1, BoundaryAssumption DEF BoundaryInv, TypeOK, caseRow
    <2>3. IngestInv'
      BY <1>1, <1>4, <2>1 DEF BoundaryInv, IngestInv, Pending, SourcesHaveFiles, caseRow
    <2> QED BY <1>1, <2>2, <2>3, IngestOnly
  <1> QED BY <1>3, <1>4 DEF Upsert

LEMMA DownloadInv ==
  ASSUME BoundaryInv, Download
  PROVE  BoundaryInv'
  <1> DEFINE d == Docs[ingest.next]  v == site[d]  past == [ingest EXCEPT !.next = @ + 1]
  <1>1. /\ ingest.active /\ ingest.next <= Len(Docs)
        /\ UNCHANGED <<clock, site, caseRow, rows, ingests, link, lock, reader, handed, events>>
    BY DEF Download
  <1>2. d \in Doc /\ v \in Version /\ ingest.cutoff \in Cutoff /\ caseState # "LOCKED"
    <2>1. ingest.next \in 1..Len(Docs)
      BY <1>1, BoundaryAssumption DEF BoundaryInv, TypeOK
    <2>2. d \in Doc
      BY <2>1, BoundaryAssumption DEF Doc, ToSet
    <2> QED BY <1>1, <2>2 DEF BoundaryInv, TypeOK, IngestInv
  <1>3. \/ files' = files \/ files' = files \cup {<<d, v>>}
    BY DEF Download, PutVerified
  <1>4. files \subseteq files' /\ files' \subseteq Doc \X Version
    BY <1>2, <1>3 DEF BoundaryInv, TypeOK
  <1>5. \/ ingest' = past
        \/ ingest' = NoIngest
        \/ ingest' = Added(d) /\ ingest.rows[d] = NoRow /\ <<d, v>> \in files'
    BY DEF Download, PutVerified
  <1>6. past.rows = ingest.rows /\ past.active = ingest.active /\ past.cutoff = ingest.cutoff
        /\ past \in [active : BOOLEAN, cutoff : Cutoff \cup {0}, next : 1..Len(Docs) + 1,
                     rows : [Doc -> RowType]]
    <2>1. ingest \in [active : BOOLEAN, cutoff : Cutoff \cup {0}, next : 1..Len(Docs) + 1,
                      rows : [Doc -> RowType]]
      BY DEF BoundaryInv, TypeOK
    <2>2. ingest.next + 1 \in 1..Len(Docs) + 1
      BY <1>1, <2>1, BoundaryAssumption
    <2> QED BY <2>1, <2>2
  <1>7. CASE ingest' = past
    <2>1. TypeOK'
      BY <1>1, <1>4, <1>6, <1>7 DEF BoundaryInv, TypeOK, caseRow
    <2>2. IngestInv'
      <3> HIDE DEF past
      <3> QED BY <1>1, <1>4, <1>6, <1>7 DEF BoundaryInv, IngestInv, Pending, caseRow
    <2> QED BY <1>1, <1>4, <2>1, <2>2, IngestOnly
  <1>8. CASE ingest' = NoIngest
    <2>1. TypeOK' /\ IngestInv'
      BY <1>1, <1>4, <1>8, NoIngestType DEF BoundaryInv, TypeOK, IngestInv, caseRow
    <2> QED BY <1>1, <1>4, <2>1, IngestOnly
  <1>9. CASE ingest' = Added(d) /\ ingest.rows[d] = NoRow /\ <<d, v>> \in files'
    <2> DEFINE new == Row(d, v, ingest.cutoff)
    <2>1. new \in RowType /\ new.version = v /\ new # NoRow
      BY <1>2, RowFacts
    <2>2. ingest' = [past EXCEPT !.rows = [ingest.rows EXCEPT ![d] = new]]
      BY <1>9 DEF Added
    <2>3. /\ ingest'.rows = [ingest.rows EXCEPT ![d] = new] /\ ingest'.active /\ ingest'.cutoff = ingest.cutoff
          /\ ingest' \in [active : BOOLEAN, cutoff : Cutoff \cup {0}, next : 1..Len(Docs) + 1,
                          rows : [Doc -> RowType]]
      <3> HIDE DEF past, new
      <3>1. [ingest.rows EXCEPT ![d] = new] \in [Doc -> RowType]
        BY <2>1 DEF BoundaryInv, TypeOK
      <3> QED BY <1>1, <1>6, <2>2, <3>1
    <2>4. TypeOK'
      BY <1>1, <1>4, <2>3 DEF BoundaryInv, TypeOK, caseRow
    <2>5. ASSUME NEW x \in Doc
          PROVE  Pending(x)' /\ (ingest'.rows[x] # NoRow => <<x, ingest'.rows[x].version>> \in files')
      <3>1. Pending(x) /\ (ingest.rows[x] # NoRow => <<x, ingest.rows[x].version>> \in files)
        BY <1>1 DEF BoundaryInv, IngestInv
      <3>2. CASE x = d
        <4>1. ingest'.rows[x] = new /\ rows[x] = NoRow
          BY <1>2, <1>9, <2>3, <3>1, <3>2 DEF BoundaryInv, TypeOK, Pending
        <4> QED BY <1>1, <1>2, <1>9, <2>1, <2>3, <3>2, <4>1 DEF Pending
      <3>3. CASE x # d
        <4>1. ingest'.rows[x] = ingest.rows[x]
          BY <2>3, <3>3 DEF BoundaryInv, TypeOK
        <4> QED BY <1>1, <1>4, <2>3, <3>1, <4>1 DEF Pending
      <3> QED BY <3>2, <3>3
    <2>6. IngestInv'
      BY <1>1, <1>2, <2>3, <2>5 DEF IngestInv, caseRow
    <2> QED BY <1>1, <1>4, <2>4, <2>6, IngestOnly
  <1> QED BY <1>5, <1>7, <1>8, <1>9

LEMMA IngestLostInv ==
  ASSUME BoundaryInv, IngestLost
  PROVE  BoundaryInv'
  <1>1. TypeOK' /\ IngestInv'
    BY NoIngestType DEF IngestLost, BoundaryInv, TypeOK, IngestInv, caseRow
  <1> QED BY <1>1, IngestOnly DEF IngestLost

(***************************************************************************)
(* The steps that commit: what is linked stays as it is, the cutoff is set *)
(* at most once, the trail grows.                                          *)
(***************************************************************************)
LEMMA CommitInv ==
  ASSUME BoundaryInv, TypeOK', IngestInv', ClassifiedByCutoff',
         UNCHANGED <<files, legacy, reader, handed>>,
         cutoff # None => cutoff' = cutoff,
         events \subseteq events',
         \A e \in events' \ events : ~(e.stage = "BLIND" /\ e.op = "READ"),
         \A d \in Doc : rows[d].linked => rows'[d] = rows[d],
         \A d \in Doc : rows'[d].linked /\ ~rows[d].linked =>
            Eligible(d)' /\ rows'[d].version = Reviewed,
         \A d \in Doc : rows'[d] # NoRow => <<d, rows'[d].version>> \in files
  PROVE  BoundaryInv'
  <1>1. LinkedInv'
    BY DEF BoundaryInv, LinkedInv, Eligible
  <1>2. AnswerInv'
    <2>1. \A d \in reader'.docs : rows'[d].linked
      BY DEF BoundaryInv, TypeOK, AnswerInv
    <2>2. \A e \in events' : e.stage = "BLIND" /\ e.op = "READ" => e.target \in Doc /\ rows'[e.target].linked
      BY DEF BoundaryInv, AnswerInv
    <2> QED BY <2>1, <2>2 DEF BoundaryInv, AnswerInv
  <1>3. SourcesHaveFiles'
    BY DEF SourcesHaveFiles
  <1>4. BlindSeesReviewedOnly' /\ HandedIsAudited'
    BY DEF BoundaryInv, BlindSeesReviewedOnly, HandedIsAudited
  <1> QED BY <1>1, <1>2, <1>3, <1>4 DEF BoundaryInv

\* What is added to the trail outside of the reader.
LEMMA EventTyped ==
  ASSUME NEW stage \in {"ACQUISITION", "PROCESSING", "BLIND", "EVALUATION"},
         NEW op \in {"READ", "LIST", "WRITE", "LOCK", "DENY"},
         NEW target \in Doc \cup {None}, NEW at \in 0..MaxClock
  PROVE  /\ Event(stage, op, target, at) \in EventType
         /\ Event(stage, op, target, at).stage = stage /\ Event(stage, op, target, at).op = op
         /\ Event(stage, op, target, at).target = target
  BY DEF Event, EventType

LEMMA EnterBlindInv ==
  ASSUME BoundaryInv, EnterBlind
  PROVE  BoundaryInv'
  <1>1. /\ ingest.active /\ ingest' = NoIngest /\ ~ingest'.active
        /\ UNCHANGED <<clock, site, files, lockedAt, legacy, ingests, link, lock, reader, handed>>
    BY NoIngestType DEF EnterBlind
  <1>2. IngestInv'
    BY <1>1 DEF IngestInv
  <1>3. CASE UNCHANGED <<rows, caseState, cutoff, events>>
    <2>1. TypeOK'
      BY <1>1, <1>3, NoIngestType DEF BoundaryInv, TypeOK
    <2>2. ClassifiedByCutoff' /\ \A d \in Doc : rows'[d] # NoRow => <<d, rows'[d].version>> \in files
      BY <1>1, <1>3 DEF BoundaryInv, ClassifiedByCutoff, SourcesHaveFiles
    <2> QED BY <1>1, <1>2, <1>3, <2>1, <2>2, CommitInv
  <1>4. CASE /\ ~Conflicts(ingest.cutoff) /\ rows' = ingest.rows
             /\ caseState' = "BLIND" /\ cutoff' = ingest.cutoff
             /\ events' = events \cup {Event("ACQUISITION", "WRITE", None, NoTime)}
    <2> DEFINE new == Event("ACQUISITION", "WRITE", None, NoTime)
    <2>1. new \in EventType /\ new.stage = "ACQUISITION"
      <3>1. NoTime \in 0..MaxClock /\ None \in Doc \cup {None}
        BY BoundaryAssumption DEF NoTime
      <3> QED BY <3>1, EventTyped
    <2>2. cutoff' \in Cutoff /\ cutoff' # None /\ (cutoff # None => cutoff' = cutoff)
      BY <1>1, <1>4, BoundaryAssumption DEF BoundaryInv, IngestInv, Conflicts
    <2>3. rows' \in [Doc -> RowType]
      BY <1>4 DEF BoundaryInv, TypeOK
    <2>4. ASSUME NEW d \in Doc
          PROVE  \/ rows[d] # NoRow /\ rows'[d] = rows[d]
                 \/ rows[d] = NoRow /\ rows'[d] = NoRow
                 \/ /\ rows[d] = NoRow /\ rows'[d].linked = FALSE
                    /\ rows'[d].visibility = Classify(d, cutoff')
      <3>1. Pending(d)
        BY <1>1 DEF BoundaryInv, IngestInv
      <3>2. ASSUME NEW v \in Version, rows'[d] = Row(d, v, cutoff')
            PROVE  rows'[d].linked = FALSE /\ rows'[d].visibility = Classify(d, cutoff')
        <4>1. ingest.cutoff \in Cutoff
          BY <1>1 DEF BoundaryInv, IngestInv
        <4>2. /\ Row(d, v, ingest.cutoff).linked = FALSE
              /\ Row(d, v, ingest.cutoff).visibility = Classify(d, ingest.cutoff)
          BY <4>1, RowFacts
        <4> QED BY <1>4, <3>2, <4>2
      <3> QED BY <1>4, <3>1, <3>2 DEF Pending
    <2>5. NoRow.linked = FALSE
      BY DEF NoRow
    <2>6. \A d \in Doc : /\ rows[d].linked => rows'[d] = rows[d]
                         /\ rows'[d].linked => rows[d].linked
      BY <2>4, <2>5
    <2>7. \A d \in Doc : rows'[d] # NoRow => <<d, rows'[d].version>> \in files
      BY <1>1, <1>4 DEF BoundaryInv, IngestInv
    <2>8. ClassifiedByCutoff'
      <3> SUFFICES ASSUME NEW d \in Doc, ~legacy, rows'[d] # NoRow
                   PROVE  rows'[d].visibility = Classify(d, cutoff')
        BY <1>1, <2>2 DEF ClassifiedByCutoff, Classify
      <3>1. CASE rows[d] # NoRow
        BY <2>2, <2>4, <3>1 DEF BoundaryInv, ClassifiedByCutoff
      <3> QED BY <2>4, <3>1
    <2>9. TypeOK'
      <3>1. \A d \in Doc : rows'[d].linked => rows'[d].version = Reviewed
        BY <2>6 DEF BoundaryInv, TypeOK
      <3>2. events' \subseteq EventType
        BY <1>4, <2>1 DEF BoundaryInv, TypeOK
      <3> QED BY <1>1, <1>4, <2>2, <2>3, <3>1, <3>2, NoIngestType DEF BoundaryInv, TypeOK
    <2> QED BY <1>1, <1>2, <1>4, <2>1, <2>2, <2>6, <2>7, <2>8, <2>9, CommitInv
  <1> QED BY <1>3, <1>4 DEF EnterBlind, Undo

LEMMA BackfillInv ==
  ASSUME BoundaryInv, Backfill
  PROVE  BoundaryInv'
  <1> DEFINE new == Event("ACQUISITION", "WRITE", None, NoTime)
  <1>1. /\ legacy /\ ~ingest.active /\ events' = events \cup {new}
        /\ UNCHANGED <<clock, site, files, caseState, lockedAt, legacy, rows, ingest, ingests,
                        link, lock, reader, handed>>
    BY DEF Backfill, RowFree
  <1>2. new \in EventType /\ new.stage = "ACQUISITION"
    <2>1. NoTime \in 0..MaxClock /\ None \in Doc \cup {None}
      BY BoundaryAssumption DEF NoTime
    <2> QED BY <2>1, EventTyped
  <1>3. cutoff' \in Cutoff /\ cutoff' # None /\ (cutoff # None => cutoff' = cutoff)
    BY BoundaryAssumption DEF Backfill, Conflicts
  <1>4. TypeOK'
    BY <1>1, <1>2, <1>3 DEF BoundaryInv, TypeOK
  <1>5. IngestInv' /\ ClassifiedByCutoff'
    BY <1>1 DEF IngestInv, ClassifiedByCutoff
  <1>6. \A d \in Doc : rows'[d] # NoRow => <<d, rows'[d].version>> \in files
    BY <1>1 DEF BoundaryInv, SourcesHaveFiles
  <1> QED BY <1>1, <1>2, <1>3, <1>4, <1>5, <1>6, CommitInv

LEMMA LinkEndInv ==
  ASSUME BoundaryInv, LinkEnd
  PROVE  BoundaryInv'
  <1>1. /\ ~ingest.active /\ link' = NoLink
        /\ UNCHANGED <<clock, site, files, caseRow, ingest, ingests, lock, reader, handed>>
    BY DEF LinkEnd, RowFree
  <1>2. NoLink \in [doc : Doc \cup {None}, begin : 0..MaxClock]
    BY BoundaryAssumption DEF NoLink
  <1>3. IngestInv'
    BY <1>1 DEF IngestInv
  <1>4. CASE UNCHANGED <<rows, events>>
    <2>1. TypeOK'
      BY <1>1, <1>2, <1>4 DEF BoundaryInv, TypeOK, caseRow
    <2>2. ClassifiedByCutoff' /\ \A d \in Doc : rows'[d] # NoRow => <<d, rows'[d].version>> \in files
      BY <1>1, <1>4 DEF BoundaryInv, ClassifiedByCutoff, SourcesHaveFiles, caseRow
    <2> QED BY <1>1, <1>3, <1>4, <2>1, <2>2, CommitInv DEF caseRow
  <1>5. CASE /\ link # NoLink /\ Processable(link.doc)
             /\ rows' = [rows EXCEPT ![link.doc].linked = TRUE]
             /\ events' = events \cup {Event("PROCESSING", "WRITE", link.doc, link.begin)}
    <2> DEFINE x == link.doc  new == Event("PROCESSING", "WRITE", x, link.begin)
    <2>1. Eligible(x) /\ rows[x].version = Reviewed /\ x \in Doc \cup {None}
      BY <1>5 DEF Processable, ReviewedBytes, BoundaryInv, TypeOK
    <2>2. new \in EventType /\ new.stage = "PROCESSING"
      <3>1. link.begin \in 0..MaxClock
        BY DEF BoundaryInv, TypeOK
      <3> QED BY <2>1, <3>1, EventTyped
    <2>3. rows \in [Doc -> RowType]
      BY DEF BoundaryInv, TypeOK
    <2>4. ASSUME NEW d \in Doc
          PROVE  /\ rows'[d] \in RowType
                 /\ rows'[d].version = rows[d].version /\ rows'[d].visibility = rows[d].visibility
                 /\ d # x => rows'[d] = rows[d]
                 /\ d = x => rows'[d].linked = TRUE
                 /\ rows[d].linked => rows'[d] = rows[d]
                 /\ rows'[d] # NoRow => rows[d] # NoRow
      <3>1. rows[d] \in RowType
        BY <2>3
      <3>2. CASE d = x
        <4>1. rows'[d] = [rows[d] EXCEPT !.linked = TRUE]
          BY <1>5, <2>3, <3>2
        <4>2. rows[d] # NoRow
          BY <2>1, <3>2 DEF NoRow, Reviewed
        <4> QED BY <3>1, <3>2, <4>1, <4>2 DEF RowType
      <3>3. CASE d # x
        <4>1. rows'[d] = rows[d]
          BY <1>5, <2>3, <3>3
        <4> QED BY <3>1, <3>3, <4>1
      <3> QED BY <3>2, <3>3
    <2>5. rows' \in [Doc -> RowType]
      BY <1>5, <2>3, <2>4
    <2>6. \A d \in Doc : rows'[d].linked /\ ~rows[d].linked => Eligible(d)' /\ rows'[d].version = Reviewed
      <3> SUFFICES ASSUME NEW d \in Doc, rows'[d].linked, ~rows[d].linked
                   PROVE  Eligible(d)' /\ rows'[d].version = Reviewed
        OBVIOUS
      <3>1. d = x
        BY <2>4
      <3>2. Eligible(d) /\ rows[d].version = Reviewed
        BY <2>1, <3>1
      <3> QED BY <1>1, <2>4, <3>2 DEF Eligible, caseRow
    <2>7. \A d \in Doc : rows'[d] # NoRow => <<d, rows'[d].version>> \in files
      BY <2>4 DEF BoundaryInv, SourcesHaveFiles
    <2>8. ClassifiedByCutoff'
      BY <1>1, <2>4 DEF BoundaryInv, ClassifiedByCutoff, caseRow
    <2>9. TypeOK'
      <3>1. \A d \in Doc : rows'[d].linked => rows'[d].version = Reviewed
        BY <2>4, <2>6 DEF BoundaryInv, TypeOK
      <3>2. events' \subseteq EventType
        BY <1>5, <2>2 DEF BoundaryInv, TypeOK
      <3> QED BY <1>1, <1>2, <2>5, <3>1, <3>2 DEF BoundaryInv, TypeOK, caseRow
    <2> QED BY <1>1, <1>3, <1>5, <2>2, <2>4, <2>6, <2>7, <2>8, <2>9, CommitInv DEF caseRow
  <1> QED BY <1>4, <1>5 DEF LinkEnd

LEMMA LockEndInv ==
  ASSUME BoundaryInv, LockEnd
  PROVE  BoundaryInv'
  <1> DEFINE new == Event("BLIND", "LOCK", None, lock)
  <1>1. /\ lock # 0 /\ ~ingest.active /\ lock' = 0
        /\ UNCHANGED <<clock, site, files, cutoff, legacy, rows, ingest, ingests, link, reader, handed>>
        /\ \/ UNCHANGED <<caseState, lockedAt, events>>
           \/ /\ cutoff # None /\ caseState' = "LOCKED" /\ lockedAt' = lock
              /\ events' = events \cup {new}
    BY DEF LockEnd, RowFree
  <1>2. new \in EventType /\ new.op = "LOCK"
    <2>1. lock \in 0..MaxClock /\ None \in Doc \cup {None}
      BY DEF BoundaryInv, TypeOK
    <2> QED BY <2>1, EventTyped
  <1>3. TypeOK'
    <2>1. lock \in 1..MaxClock /\ 0 \in 0..MaxClock
      BY <1>1, BoundaryAssumption DEF BoundaryInv, TypeOK
    <2>2. lockedAt' \in (1..MaxClock) \cup {None} /\ caseState' \in {"absent", "BLIND", "LOCKED"}
      BY <1>1, <2>1 DEF BoundaryInv, TypeOK
    <2>3. caseState' = "LOCKED" => cutoff' # None /\ lockedAt' # None
      BY <1>1, <2>1, BoundaryAssumption DEF BoundaryInv, TypeOK
    <2>4. events' \subseteq EventType
      BY <1>1, <1>2 DEF BoundaryInv, TypeOK
    <2> QED BY <1>1, <2>1, <2>2, <2>3, <2>4 DEF BoundaryInv, TypeOK
  <1>4. IngestInv' /\ ClassifiedByCutoff'
    BY <1>1 DEF BoundaryInv, IngestInv, ClassifiedByCutoff
  <1>5. \A d \in Doc : rows'[d] # NoRow => <<d, rows'[d].version>> \in files
    BY <1>1 DEF BoundaryInv, SourcesHaveFiles
  <1> QED BY <1>1, <1>2, <1>3, <1>4, <1>5, CommitInv

LEMMA EvaluateInv ==
  ASSUME BoundaryInv, Evaluate
  PROVE  BoundaryInv'
  <1> DEFINE new == Event("EVALUATION", "READ", None, clock)
  <1>1. /\ events' = events \cup {new}
        /\ UNCHANGED <<clock, site, files, caseRow, rows, ingest, ingests, link, lock, reader, handed>>
    BY DEF Evaluate
  <1>2. new \in EventType /\ new.stage = "EVALUATION"
    <2>1. clock \in 0..MaxClock /\ None \in Doc \cup {None}
      BY BoundaryAssumption DEF BoundaryInv, TypeOK
    <2> QED BY <2>1, EventTyped
  <1>3. TypeOK'
    BY <1>1, <1>2 DEF BoundaryInv, TypeOK, caseRow
  <1>4. IngestInv' /\ ClassifiedByCutoff'
    BY <1>1 DEF BoundaryInv, IngestInv, Pending, ClassifiedByCutoff, caseRow
  <1>5. \A d \in Doc : rows'[d] # NoRow => <<d, rows'[d].version>> \in files
    BY <1>1 DEF BoundaryInv, SourcesHaveFiles
  <1> QED BY <1>1, <1>2, <1>3, <1>4, <1>5, CommitInv DEF caseRow

(***************************************************************************)
(* The reader.                                                             *)
(***************************************************************************)
\* An answer is asked for about linked sources only.
Asked(op, docs, target) ==
  /\ Ask(op, docs, target)
  /\ \A d \in docs : rows[d].linked
  /\ op = "READ" => docs = {target} /\ target \in Doc
  /\ op = "DENY" => docs = {}

LEMMA AskInv ==
  ASSUME BoundaryInv,
         ListEvidence \/ (\E d \in Doc : GetEvidence(d) \/ GetSource(d))
  PROVE  BoundaryInv'
  <1>1. PICK op \in {"READ", "LIST", "DENY"}, docs \in SUBSET Doc, target \in Doc \cup {None} :
          Asked(op, docs, target)
    <2>1. CASE ListEvidence
      <3>1. Asked("LIST", {d \in Doc : Visible(d)}, None)
        BY <2>1 DEF ListEvidence, Asked, Visible
      <3> QED BY <3>1
    <2>2. ASSUME NEW d \in Doc, GetEvidence(d) \/ GetSource(d)
          PROVE  Asked("READ", {d}, d) \/ Asked("DENY", {}, None) \/ Asked("DENY", {}, d)
      BY <2>2 DEF GetEvidence, GetSource, Visible, Asked
    <2>3. {} \in SUBSET Doc /\ \A d \in Doc : {d} \in SUBSET Doc
      OBVIOUS
    <2> QED BY <2>1, <2>2, <2>3
  <1>2. /\ reader' = [op |-> op, docs |-> docs, target |-> target]
        /\ UNCHANGED <<clock, site, files, caseRow, rows, ingest, ingests, link, lock, handed, events>>
    BY <1>1 DEF Ask, Asked
  <1>3. reader' \in [op : {"none", "READ", "LIST", "DENY"}, docs : SUBSET Doc, target : Doc \cup {None}]
    BY <1>2
  <1>4. TypeOK'
    BY <1>2, <1>3 DEF BoundaryInv, TypeOK, caseRow
  <1>5. AnswerInv'
    BY <1>1, <1>2 DEF Asked, BoundaryInv, AnswerInv
  <1> QED BY <1>2, <1>4, <1>5
          DEF BoundaryInv, IngestInv, Pending, LinkedInv, Eligible, SourcesHaveFiles,
              ClassifiedByCutoff, BlindSeesReviewedOnly, HandedIsAudited, caseRow

LEMMA ReaderLostInv ==
  ASSUME BoundaryInv, ReaderLost
  PROVE  BoundaryInv'
  <1>1. NoAnswer \in [op : {"none", "READ", "LIST", "DENY"}, docs : SUBSET Doc, target : Doc \cup {None}]
    BY DEF NoAnswer
  <1>2. TypeOK' /\ AnswerInv'
    BY <1>1 DEF ReaderLost, BoundaryInv, TypeOK, AnswerInv, NoAnswer, caseRow
  <1> QED BY <1>2
          DEF ReaderLost, BoundaryInv, IngestInv, Pending, LinkedInv, Eligible, SourcesHaveFiles,
              ClassifiedByCutoff, BlindSeesReviewedOnly, HandedIsAudited, caseRow

LEMMA RecordInv ==
  ASSUME BoundaryInv, Record
  PROVE  BoundaryInv'
  <1> DEFINE new == Event("BLIND", reader.op, reader.target, NoTime)
  <1>1. /\ reader # NoAnswer /\ events' = events \cup {new} /\ reader' = NoAnswer
        /\ handed' = handed \cup {<<d, rows[d].version>> : d \in reader.docs}
        /\ UNCHANGED <<clock, site, files, caseRow, rows, ingest, ingests, link, lock>>
    BY DEF Record, Recorded
  <1>2. /\ reader.op \in {"READ", "LIST", "DENY"} /\ reader.target \in Doc \cup {None}
        /\ reader.docs \subseteq Doc
    BY <1>1 DEF BoundaryInv, TypeOK, AnswerInv
  <1>3. /\ new \in EventType /\ new.stage = "BLIND" /\ new.op = reader.op
        /\ new.target = reader.target
    <2>1. NoTime \in 0..MaxClock
      BY BoundaryAssumption DEF NoTime
    <2> QED BY <1>2, <2>1, EventTyped
  <1>4. \A d \in reader.docs : rows[d].linked /\ Eligible(d) /\ rows[d].version = Reviewed
    BY <1>2 DEF BoundaryInv, AnswerInv, LinkedInv
  <1>5. NoAnswer \in [op : {"none", "READ", "LIST", "DENY"}, docs : SUBSET Doc, target : Doc \cup {None}]
    BY DEF NoAnswer
  <1>6. TypeOK'
    <2>1. handed' \subseteq Doc \X Version
      <3>1. Reviewed \in Version
        BY DEF Version
      <3> QED BY <1>1, <1>2, <1>4, <3>1 DEF BoundaryInv, TypeOK
    <2>2. events' \subseteq EventType
      BY <1>1, <1>3 DEF BoundaryInv, TypeOK
    <2> QED BY <1>1, <1>5, <2>1, <2>2 DEF BoundaryInv, TypeOK, caseRow
  <1>7. AnswerInv'
    <2>1. reader.op = "READ" => reader.target \in Doc /\ rows[reader.target].linked
      BY <1>4 DEF BoundaryInv, AnswerInv
    <2>2. \A e \in events' : e.stage = "BLIND" /\ e.op = "READ" => e.target \in Doc /\ rows[e.target].linked
      BY <1>1, <1>3, <2>1 DEF BoundaryInv, AnswerInv
    <2> QED BY <1>1, <2>2 DEF AnswerInv, NoAnswer
  <1>8. BlindSeesReviewedOnly'
    <2>1. ASSUME NEW h \in handed', h \notin handed
          PROVE  /\ cutoff # None /\ Published[h[1]] <= cutoff
                 /\ ~Final[h[1]] /\ AiAllowed[h[1]] /\ h[2] = Reviewed
      <3>1. PICK d \in reader.docs : h = <<d, rows[d].version>>
        BY <1>1, <2>1
      <3> QED BY <1>4, <3>1 DEF Eligible
    <2> QED BY <1>1, <2>1 DEF BoundaryInv, BlindSeesReviewedOnly, caseRow
  <1>9. HandedIsAudited'
    <2>1. ASSUME NEW h \in handed', h \notin handed
          PROVE  new.op = "LIST" \/ (new.op = "READ" /\ new.target = h[1])
      <3>1. PICK d \in reader.docs : h = <<d, rows[d].version>>
        BY <1>1, <2>1
      <3>2. reader.op = "READ" => d = reader.target
        BY <3>1 DEF BoundaryInv, AnswerInv
      <3>3. reader.op # "DENY"
        BY <3>1 DEF BoundaryInv, AnswerInv
      <3> QED BY <1>2, <1>3, <3>1, <3>2, <3>3
    <2>2. ASSUME NEW h \in handed'
          PROVE  \E e \in events' : e.stage = "BLIND" /\ (e.op = "LIST" \/ (e.op = "READ" /\ e.target = h[1]))
      <3>1. CASE h \in handed
        BY <1>1, <3>1 DEF BoundaryInv, HandedIsAudited
      <3>2. CASE h \notin handed
        <4>1. new \in events'
          BY <1>1
        <4> HIDE DEF new
        <4> QED BY <1>3, <2>1, <3>2, <4>1
      <3> QED BY <3>1, <3>2
    <2> QED BY <2>2 DEF HandedIsAudited
  <1> QED BY <1>1, <1>6, <1>7, <1>8, <1>9
          DEF BoundaryInv, IngestInv, Pending, LinkedInv, Eligible, SourcesHaveFiles,
              ClassifiedByCutoff, caseRow

(***************************************************************************)
(* The invariant of the specification, and what follows from it.           *)
(***************************************************************************)
LEMMA StepInv == BoundaryInv /\ [Next]_vars => BoundaryInv'
  <1> SUFFICES ASSUME BoundaryInv, [Next]_vars PROVE BoundaryInv'
    OBVIOUS
  <1>1. CASE Acquire
    BY <1>1, UpsertInv, DownloadInv, EnterBlindInv, IngestLostInv DEF Acquire
  <1>2. CASE Read
    BY <1>2, AskInv, RecordInv, ReaderLostInv DEF Read
  <1>3. CASE Tick \/ LockBegin \/ \E d \in Doc : LinkBegin(d) \/ Republish(d)
    BY <1>3, QuietStep
  <1>4. CASE UNCHANGED vars
    <2>1. TypeOK' /\ UNCHANGED caseAndAnswers
      BY <1>4 DEF BoundaryInv, TypeOK, vars, caseRow, caseAndAnswers
    <2> QED BY <2>1, QuietInv
  <1> QED BY <1>1, <1>2, <1>3, <1>4, BackfillInv, LinkEndInv, LockEndInv, EvaluateInv DEF Next

LEMMA AlwaysInv == Spec => []BoundaryInv
  <1> QED BY InitInv, StepInv, PTL DEF Spec

\* Every variable has its type, and the constraints of the tables hold: a locked case has a
\* cutoff and a lock, a linked source has the checksum of its docket item.
THEOREM TypeCorrect == Spec => []TypeOK
  <1>1. BoundaryInv => TypeOK
    BY DEF BoundaryInv
  <1> QED BY <1>1, AlwaysInv, PTL

\* The temporal boundary: whatever was acquired, under whichever cutoffs, in whichever order
\* of ingestions, links, locks and reads, the blind role is handed documents published by the
\* cutoff of the case, no official finding, with the bytes that were reviewed.
THEOREM BlindBoundary == Spec => []BlindSeesReviewedOnly
  <1>1. BoundaryInv => BlindSeesReviewedOnly
    BY DEF BoundaryInv
  <1> QED BY <1>1, AlwaysInv, PTL

\* No answer of BlindAccessService leaves without its event in the trail.
THEOREM AuditComplete == Spec => []HandedIsAudited
  <1>1. BoundaryInv => HandedIsAudited
    BY DEF BoundaryInv
  <1> QED BY <1>1, AlwaysInv, PTL

\* An ingestion that is lost between the store and the commit leaves files, never a row
\* without its file.
THEOREM StoreBeforeRow == Spec => []SourcesHaveFiles
  <1>1. BoundaryInv => SourcesHaveFiles
    BY DEF BoundaryInv
  <1> QED BY <1>1, AlwaysInv, PTL

\* However many ingestions with other cutoffs failed or were refused, the sources of a case
\* were classified by the cutoff that enter_blind stored.
THEOREM OneCutoff == Spec => []ClassifiedByCutoff
  <1>1. BoundaryInv => ClassifiedByCutoff
    BY DEF BoundaryInv
  <1> QED BY <1>1, AlwaysInv, PTL

\* The auditor finds nothing in a recorded read, and something in every recorded denial of a
\* source that is not eligible, for all dates and cutoffs: its own test of the dates and the
\* predicate of the row policies agree.
THEOREM AuditorAgrees == Spec => []AuditorSeparates
  <1>1. ASSUME BoundaryInv PROVE AuditorSeparates
    <2> SUFFICES ASSUME cutoff # None, NEW e \in events, ReadsEvidence(e)
                 PROVE  /\ e.op = "READ" => Incidents(e) = {}
                        /\ e.op = "DENY" /\ (e.target = None \/ ~Eligible(e.target)) => Incidents(e) # {}
      BY DEF AuditorSeparates
    <2>1. e.stage = "BLIND" /\ e.target \in Doc \cup {None} /\ None \notin Doc
      BY <1>1, BoundaryAssumption DEF BoundaryInv, TypeOK, EventType, ReadsEvidence, Doc
    <2>2. CASE e.op = "READ"
      <3>1. e.target \in Doc /\ rows[e.target].linked /\ Eligible(e.target)
        BY <1>1, <2>1, <2>2 DEF BoundaryInv, AnswerInv, LinkedInv
      <3>2. InSources(e)
        BY <2>1, <3>1 DEF InSources, NoRow
      <3>3. rows[e.target].visibility = "EVIDENCE" /\ UntilCutoff(e.target) /\ Expected(e.target)
        BY <3>1 DEF Eligible, UntilCutoff, Expected
      <3> QED BY <2>1, <2>2, <3>1, <3>2, <3>3 DEF Incidents
    <2>3. CASE e.op = "DENY" /\ (e.target = None \/ ~Eligible(e.target))
      <3>1. CASE ~InSources(e)
        <4>1. "MALFORMED" \in Incidents(e)
          BY <3>1 DEF Incidents
        <4> QED BY <2>3, <4>1
      <3>2. CASE InSources(e) /\ rows[e.target].visibility # "EVIDENCE"
        <4>1. "BLOCKED_VISIBILITY" \in Incidents(e)
          BY <3>2 DEF Incidents
        <4> QED BY <2>3, <4>1
      <3>3. CASE InSources(e) /\ ~UntilCutoff(e.target)
        <4>1. "POST_CUTOFF" \in Incidents(e)
          BY <3>3 DEF Incidents
        <4> QED BY <2>3, <4>1
      <3>4. CASE InSources(e) /\ rows[e.target].visibility = "EVIDENCE" /\ UntilCutoff(e.target)
        <4>1. ~Eligible(e.target)
          BY <2>3, <3>4 DEF InSources
        <4>2. Eligible(e.target) # Expected(e.target)
          BY <3>4, <4>1 DEF Expected
        <4>3. "MISMATCH" \in Incidents(e)
          BY <3>4, <4>2 DEF Incidents
        <4> QED BY <2>3, <4>3
      <3> QED BY <3>1, <3>2, <3>3, <3>4
    <2> QED BY <2>2, <2>3
  <1> QED BY <1>1, AlwaysInv, PTL

\* Once the case is locked, links and ingestions that began before it, and repeated backfills,
\* change no source and record no write.
THEOREM LockCloses == Spec => LockClosesSources
  <1>1. ASSUME BoundaryInv, [Next]_vars, caseState = "LOCKED"
        PROVE  rows' = rows /\ \A e \in events' \ events : e.op # "WRITE"
    <2>1. CASE Acquire
      <3>1. ~EnterBlind
        BY <1>1 DEF EnterBlind, BoundaryInv, IngestInv
      <3> QED BY <2>1, <3>1 DEF Acquire, Upsert, Download, IngestLost
    <2>2. CASE LockEnd
      <3>1. Event("BLIND", "LOCK", None, lock).op = "LOCK"
        BY DEF Event
      <3> QED BY <2>2, <3>1, <1>1 DEF LockEnd
    <2>3. CASE Record
      <3>1. Event("BLIND", reader.op, reader.target, NoTime).op # "WRITE"
        BY <1>1 DEF Event, BoundaryInv, TypeOK
      <3> QED BY <2>3, <3>1 DEF Record, Recorded
    <2>4. CASE Evaluate
      <3>1. Event("EVALUATION", "READ", None, clock).op # "WRITE"
        BY DEF Event
      <3> QED BY <2>4, <3>1 DEF Evaluate
    <2>5. CASE LinkEnd
      BY <1>1, <2>5 DEF LinkEnd, Processable
    <2>6. CASE Backfill
      BY <1>1, <2>6 DEF Backfill
    <2>7. CASE ListEvidence \/ ReaderLost \/ \E d \in Doc : GetEvidence(d) \/ GetSource(d)
      BY <2>7 DEF ListEvidence, ReaderLost, GetEvidence, GetSource, Ask
    <2>8. CASE Tick \/ LockBegin \/ \E d \in Doc : LinkBegin(d) \/ Republish(d)
      BY <2>8 DEF Tick, LockBegin, LinkBegin, Republish
    <2>9. CASE UNCHANGED vars
      BY <2>9 DEF vars
    <2> QED BY <1>1, <2>1, <2>2, <2>3, <2>4, <2>5, <2>6, <2>7, <2>8, <2>9 DEF Next, Read
  <1> QED BY <1>1, AlwaysInv, PTL DEF Spec, LockClosesSources
=============================================================================
