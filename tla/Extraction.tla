----------------------------- MODULE Extraction -----------------------------
(***************************************************************************)
(* The records extracted from one document: extraction runs (read the      *)
(* unread pages chunk by chunk, stitch the acts split by a page break,     *)
(* check the numbering), re-extraction of a corrected page, merges and     *)
(* splits by hand, and the re-recognitions that give a page a new active   *)
(* transcription.                                                          *)
(*                                                                         *)
(* Book[p] is what is written on page p: the numbers of its acts, top to   *)
(* bottom.  An act that ends page p and begins page p+1 is split, and      *)
(* <<p, k>> is the k-th act of page p, or the part of it that is there.    *)
(* The model the code asks reads every act of a page or fails, and may     *)
(* overlook that an act is split.                                          *)
(* A row <<p, v>> is version v of the transcription of page p.             *)
(***************************************************************************)
EXTENDS Integers, FiniteSets, Sequences, SequencesExt

CONSTANTS
    Book,          \* page |-> sequence of the acts on it
    Jobs,          \* extraction jobs that may be created
    Chunk,         \* CONCURRENCY: pages per chunk
    MaxVersions,   \* bound: transcriptions per page
    MaxMishaps,    \* bound: crashes, merges, splits, recognitions, reconciliations
    None

ASSUME BookAssumption == Book \in Seq(Seq(Nat)) /\ Book # <<>>
ASSUME BoundsAssumption ==
    Chunk \in Nat \ {0} /\ MaxVersions \in Nat \ {0} /\ MaxMishaps \in Nat
ASSUME NoneAssumption == None \notin Nat \cup (Nat \X Nat)

VARIABLES
    tx,        \* page |-> version of its active transcription
    stored,    \* page |-> versions of its transcription in the table
    records,   \* sequence of every record ever inserted; deleted ones keep their place
    job,       \* jobs.status
    modality,  \* the modality a job was created with
    pc,        \* where the task body of a job is
    targets,   \* rows the run selected
    tried,     \* rows it has attempted
    missed,    \* rows it failed on
    reading,   \* rows whose answers it is waiting for
    batch,     \* rows of the submitted batch (jobs.params.batch_id)
    seen,      \* records the stitch pass has loaded
    merging,   \* the merge request in flight: the two records it has loaded
    mishaps,   \* how many of them there were
    overlapped, \* history: two runs, or a run and a request, were under way together
    edited      \* history: a record was split, an act joined before taken for its first
                \* page only, or a page recognised again

docs == <<tx, stored>>
run  == <<pc, targets, tried, missed, reading, batch, seen>>
vars == <<docs, records, job, modality, run, merging, mishaps, overlapped, edited>>

Pages  == DOMAIN Book
Rows   == Pages \X (1..MaxVersions)
Row(p) == <<p, tx[p]>>
InTable(row) == row[2] \in stored[row[1]]

Active   == {"extracted", "needs_review"}
Live(rs) == {i \in DOMAIN rs : rs[i].status \in Active}
Parts    == UNION {{p} \X DOMAIN Book[p] : p \in Pages}

(***************************************************************************)
(* Selecting the targets.                                                  *)
(***************************************************************************)

\* Active rows no live record starts or ends on.
unread_starts(rs) == {Row(p) : p \in Pages} \ {rs[i].tx : i \in Live(rs)}
Unread(rs) ==
    {Row(p) : p \in Pages} \ UNION {{rs[i].tx, rs[i].tx_end} : i \in Live(rs)}

\* transcription_id NOT IN (subquery) selects nothing once the subquery has a NULL;
\* the subquery on transcription_end_id leaves its NULLs out.
select_targets == IF \E i \in Live(records) : records[i].tx = None THEN {} ELSE Unread(records)

(***************************************************************************)
(* Records.                                                                *)
(***************************************************************************)
Begins(p, a) == p + 1 \in Pages /\ Len(Book[p + 1]) > 0 /\ Head(Book[p + 1]) = a
Ends(p, a)   == p - 1 \in Pages /\ Len(Book[p - 1]) > 0 /\ Last(Book[p - 1]) = a

\* The record of the k-th act of the page of a row; noted: the model reports split acts.
\* The number is written where the act starts.
page_record(row, k, noted) ==
    LET p    == row[1]
        a    == Book[p][k]
        tail == k = Len(Book[p]) /\ Begins(p, a)
        head == k = 1 /\ Ends(p, a)
    IN  [page |-> p, tx |-> row, page_end |-> None, tx_end |-> None, continued |-> FALSE,
         holds |-> {<<p, k>>}, seq |-> IF head THEN None ELSE a, pos |-> k,
         incomplete |-> noted /\ tail, continues |-> noted /\ head,
         manual |-> FALSE, status |-> "extracted"]
page_records(row, noted) == {page_record(row, k, noted) : k \in DOMAIN Book[row[1]]}

\* merge_boundary_records: the answer covers both pages, its fallback is the union of the halves.
boundary_first_half(start, end, answered) ==
    [start EXCEPT !.page_end = end.page, !.tx_end = end.tx, !.continued = TRUE,
        !.holds = @ \cup {h \in end.holds : answered}, !.incomplete = FALSE]
boundary_record(start, end, answered) ==
    [page |-> start.page, tx |-> start.tx, page_end |-> end.page, tx_end |-> end.tx,
     continued |-> TRUE,
     holds |-> start.holds \cup {h \in end.holds : answered => h[1] = end.page},
     seq |-> IF start.seq = None THEN end.seq ELSE start.seq, pos |-> start.pos,
     incomplete |-> FALSE, continues |-> FALSE, manual |-> FALSE, status |-> "extracted"]

Deleted == [page |-> None, tx |-> None, page_end |-> None, tx_end |-> None, continued |-> FALSE,
            holds |-> {}, seq |-> None, pos |-> None, incomplete |-> FALSE, continues |-> FALSE,
            manual |-> FALSE, status |-> "deleted"]
Without(rs, ids) == [i \in DOMAIN rs |-> IF i \in ids THEN Deleted ELSE rs[i]]

\* pairs: the <<start, end>> records to merge, as they were loaded.
Merged(rs, loaded, pairs, answered) ==
    Without(rs, UNION {{q[1], q[2]} : q \in pairs})
        \o SetToSeq({boundary_record(loaded[q[1]], loaded[q[2]], answered) : q \in pairs})

\* The new record would name a deleted row.
Broken(loaded, q) == \E i \in {q[1], q[2]} : loaded[i].tx # None /\ ~InTable(loaded[i].tx)

\* What _stitch_spans finds on a page: the loaded records, by position, then age.
OnPage(loaded, p) == {i \in DOMAIN loaded : loaded[i].page = p}
Before(loaded, i, k) == loaded[i].pos < loaded[k].pos \/ (loaded[i].pos = loaded[k].pos /\ i <= k)
first_on(loaded, p) == CHOOSE i \in OnPage(loaded, p) :
                            \A k \in OnPage(loaded, p) : Before(loaded, i, k)
last_unsorted(loaded, p) == CHOOSE i \in OnPage(loaded, p) : TRUE
last_on(loaded, p)  == CHOOSE i \in OnPage(loaded, p) :
                            \A k \in OnPage(loaded, p) : Before(loaded, k, i)

Joins(last, first) ==
    ~last.continued /\ ~last.manual /\ ~first.manual /\ last.incomplete /\ first.continues
boundaries(loaded) ==
    {<<last_on(loaded, p), first_on(loaded, p + 1)>> :
        p \in {p \in Pages : /\ OnPage(loaded, p) # {} /\ OnPage(loaded, p + 1) # {}
                             /\ Joins(loaded[last_on(loaded, p)], loaded[first_on(loaded, p + 1)])}}

\* _validate_sequence, within a year: a number equal to the one before it, or 2 or 3 above.
Numbered(rs)    == {i \in Live(rs) : rs[i].seq # None}
Precede(rs, i)  == {k \in Numbered(rs) : rs[k].seq < rs[i].seq \/ (rs[k].seq = rs[i].seq /\ k < i)}
warned_of_gaps(rs) == {i \in Numbered(rs) : \E k \in Precede(rs, i) :
                        /\ \A l \in Precede(rs, i) : l \in Precede(rs, k) \/ l = k
                        /\ rs[i].seq - rs[k].seq \in {2, 3}}
Warned(rs)      == {i \in Numbered(rs) : \E k \in Precede(rs, i) :
                        /\ \A l \in Precede(rs, i) : l \in Precede(rs, k) \/ l = k
                        /\ rs[i].seq - rs[k].seq \in {0, 2, 3}}
validate_sequence(rs) ==
    [i \in DOMAIN rs |->
        IF i \in Warned(rs) THEN [rs[i] EXCEPT !.status = "needs_review"] ELSE rs[i]]

(***************************************************************************)
(* Jobs: created at most once per document at a time by the start button,  *)
(* without that check by a re-extraction.                                  *)
(***************************************************************************)
Pending  == {j \in Jobs : job[j] \in {"queued", "running"}}
Running  == {j \in Jobs : pc[j] \notin {"none", "queued", "done"}}

alone == overlapped' = (overlapped \/ Running # {} \/ merging # <<>>)

insert_job(j, m) ==
    /\ pc[j] = "none"
    /\ job' = [job EXCEPT ![j] = "queued"] /\ pc' = [pc EXCEPT ![j] = "queued"]
    /\ modality' = [modality EXCEPT ![j] = m]
    /\ UNCHANGED <<targets, tried, missed, reading, batch, seen>>

create_job(j) ==
    /\ Pending = {}
    /\ \E m \in {"sync", "batch"} : insert_job(j, m)
    /\ UNCHANGED <<docs, records, merging, mishaps, overlapped, edited>>

\* Supersedes what starts or ends on the page and starts a run.
superseded(rs, row) ==
    [i \in DOMAIN rs |-> IF row \in {rs[i].tx, rs[i].tx_end} /\ rs[i].status # "deleted"
                         THEN [rs[i] EXCEPT !.status = "superseded"] ELSE rs[i]]
reextract_transcription(j) == \E p \in Pages :
    /\ records' = superseded(records, Row(p))
    /\ insert_job(j, "sync")
    /\ alone
    /\ UNCHANGED <<docs, merging, mishaps, edited>>

cancel_job(j) ==
    /\ j \in Pending
    /\ job' = [job EXCEPT ![j] = "cancelled"]
    /\ UNCHANGED <<docs, records, modality, run, merging, mishaps, overlapped, edited>>

(***************************************************************************)
(* The task body extract_records.                                          *)
(***************************************************************************)
\* The end of the body; what it kept, and the arguments of the job, are of no more use.
leave(j) ==
    /\ pc' = [pc EXCEPT ![j] = "done"] /\ modality' = [modality EXCEPT ![j] = "sync"]
    /\ targets' = [targets EXCEPT ![j] = {}] /\ tried' = [tried EXCEPT ![j] = {}]
    /\ missed' = [missed EXCEPT ![j] = {}] /\ reading' = [reading EXCEPT ![j] = {}]
    /\ batch' = [batch EXCEPT ![j] = {}] /\ seen' = [seen EXCEPT ![j] = <<>>]

begin(j) ==
    /\ pc[j] = "queued"
    /\ job' = [job EXCEPT ![j] = "running"]
    /\ pc' = [pc EXCEPT ![j] = "pages"]
    /\ targets' = [targets EXCEPT ![j] = select_targets]
    /\ alone
    /\ UNCHANGED <<docs, records, modality, tried, missed, reading, batch, seen, merging,
                   mishaps, edited>>

no_provider(j) ==
    /\ pc[j] = "queued"
    /\ job' = [job EXCEPT ![j] = "error"] /\ leave(j)
    /\ UNCHANGED <<docs, records, merging, mishaps, overlapped, edited>>

Left(j) == targets[j] \ tried[j]

wait_for(j, rows) ==
    /\ pc' = [pc EXCEPT ![j] = "waiting"] /\ reading' = [reading EXCEPT ![j] = rows]
    /\ UNCHANGED <<docs, records, job, modality, targets, tried, missed, seen,
                   merging, mishaps, overlapped, edited>>

\* The cancel checkpoint, then the next pages.
next_chunk(j) ==
    /\ pc[j] = "pages" /\ modality[j] = "sync" /\ job[j] # "cancelled"
    /\ \E rows \in SUBSET Left(j) :
         /\ rows # {}
         /\ Cardinality(rows) = Chunk \/ (rows = Left(j) /\ Cardinality(rows) < Chunk)
         /\ wait_for(j, rows)
    /\ UNCHANGED batch

\* _run_batch_extraction: submit unless a batch is on record, poll until it is there.
poll_batch(j) ==
    /\ pc[j] = "pages" /\ modality[j] = "batch" /\ job[j] # "cancelled" /\ tried[j] = {}
    /\ batch' = [batch EXCEPT ![j] = IF @ = {} THEN targets[j] ELSE @]
    /\ batch'[j] # {}
    /\ wait_for(j, batch'[j] \cap targets[j])

batch_failed(j) ==
    /\ pc[j] = "pages" /\ modality[j] = "batch" /\ job[j] # "cancelled" /\ tried[j] = {}
    /\ job' = [job EXCEPT ![j] = "error"] /\ leave(j)
    /\ UNCHANGED <<docs, records, merging, mishaps, overlapped, edited>>

leave_cancelled(j) ==
    /\ pc[j] = "pages" /\ job[j] = "cancelled"
    /\ modality[j] = "sync" => Left(j) # {}
    /\ leave(j)
    /\ UNCHANGED <<docs, records, job, merging, mishaps, overlapped, edited>>

\* The answers are stored in one transaction.  A row that has been deleted meanwhile breaks
\* the foreign key and the run with it.
after_pages(j) == IF modality[j] = "batch" THEN "loading" ELSE "pages"
persist(j) == \E ok \in SUBSET reading[j] : \E noted \in [ok -> BOOLEAN] :
    /\ pc[j] = "waiting"
    /\ \A r \in ok : InTable(r)
    /\ records' = records \o SetToSeq(UNION {page_records(r, noted[r]) : r \in ok})
    /\ tried' = [tried EXCEPT ![j] = @ \cup reading[j]]
    /\ missed' = [missed EXCEPT ![j] = @ \cup (reading[j] \ ok)]
    /\ reading' = [reading EXCEPT ![j] = {}]
    /\ pc' = [pc EXCEPT ![j] = after_pages(j)]
    /\ UNCHANGED <<docs, job, modality, targets, batch, seen, merging,
                   mishaps, overlapped, edited>>

\* An exception nothing catches: the row stays "running" until it is reaped.
dies(j) ==
    /\ \/ pc[j] = "waiting" /\ \E r \in reading[j] : ~InTable(r)
       \/ pc[j] = "stitching" /\ \E q \in boundaries(seen[j]) : Broken(seen[j], q)
       \/ pc[j] = "pages" /\ modality[j] = "batch" /\ targets[j] \cup batch[j] = {}
    /\ leave(j)
    /\ UNCHANGED <<docs, records, job, merging, mishaps, overlapped, edited>>

\* _stitch_spans loads the live records, asks the model about every boundary, and commits
\* with _validate_sequence.
load_records(j) ==
    /\ pc[j] = "loading" \/ (pc[j] = "pages" /\ modality[j] = "sync" /\ Left(j) = {})
    /\ seen' = [seen EXCEPT ![j] = [i \in Live(records) |-> records[i]]]
    /\ pc' = [pc EXCEPT ![j] = "stitching"]
    /\ UNCHANGED <<docs, records, job, modality, targets, tried, missed, reading, batch,
                   merging, mishaps, overlapped, edited>>

stitch_spans(j) == \E answered \in BOOLEAN :
    LET pairs == boundaries(seen[j]) IN
    /\ pc[j] = "stitching"
    /\ \A q \in pairs : ~Broken(seen[j], q)
    /\ records' = validate_sequence(Merged(records, seen[j], pairs, answered))
    /\ seen' = [seen EXCEPT ![j] = <<>>]
    /\ pc' = [pc EXCEPT ![j] = "ending"]
    /\ UNCHANGED <<docs, job, modality, targets, tried, missed, reading, batch,
                   merging, mishaps, overlapped, edited>>

final_status(failed, attempted) == IF failed * 10 > attempted * 3 THEN "error" ELSE "completed"

finish(j) ==
    /\ pc[j] = "ending"
    /\ job' = [job EXCEPT ![j] = final_status(Cardinality(missed[j]), Cardinality(tried[j]))]
    /\ leave(j)
    /\ UNCHANGED <<docs, records, merging, mishaps, overlapped, edited>>

\* The worker dies and the job is delivered again.
crash(j) ==
    /\ j \in Running /\ mishaps < MaxMishaps
    /\ mishaps' = mishaps + 1
    /\ pc' = [pc EXCEPT ![j] = "queued"]
    /\ targets' = [targets EXCEPT ![j] = {}] /\ tried' = [tried EXCEPT ![j] = {}]
    /\ missed' = [missed EXCEPT ![j] = {}] /\ reading' = [reading EXCEPT ![j] = {}]
    /\ seen' = [seen EXCEPT ![j] = <<>>]
    /\ UNCHANGED <<docs, records, job, modality, batch, merging, overlapped, edited>>

(***************************************************************************)
(* By hand.  A merge asks the model between loading its records and its    *)
(* commit.                                                                 *)
(***************************************************************************)
merge_load == \E i \in Live(records) :
    LET next == {k \in Live(records) : records[k].page = records[i].page + 1} IN
    /\ merging = <<>> /\ mishaps < MaxMishaps
    /\ ~records[i].continued /\ next # {}
    /\ LET first == first_on([l \in next |-> records[l]], records[i].page + 1)
       IN  merging' = [k \in {i, first} |-> records[k]]
    /\ mishaps' = mishaps + 1 /\ alone
    /\ UNCHANGED <<docs, records, job, modality, run, edited>>

merge_with_next == \E answered \in BOOLEAN : \E i, k \in DOMAIN merging :
    /\ merging[k].page = merging[i].page + 1
    /\ records' = IF Broken(merging, <<i, k>>) THEN records
                  ELSE Merged(records, merging, {<<i, k>>}, answered)
    /\ merging' = <<>> /\ edited' = (edited \/ merging[k].continued)
    /\ UNCHANGED <<docs, job, modality, run, mishaps, overlapped>>

split_record == \E i \in DOMAIN records :
    /\ mishaps < MaxMishaps /\ records[i].status # "deleted"
    /\ records' = [records EXCEPT ![i] = [@ EXCEPT !.continued = FALSE, !.page_end = None,
                                                   !.tx_end = None, !.manual = TRUE]]
    /\ mishaps' = mishaps + 1 /\ edited' = TRUE /\ alone
    /\ UNCHANGED <<docs, job, modality, run, merging>>

\* Recognising a page again adds a version, active at once or a candidate.
Newest(vs) == CHOOSE v \in vs : \A w \in vs : w <= v
recognise == \E p \in Pages, active \in BOOLEAN :
    LET v == Newest(stored[p]) + 1 IN
    /\ mishaps < MaxMishaps /\ v <= MaxVersions
    /\ stored' = [stored EXCEPT ![p] = @ \cup {v}]
    /\ tx' = [tx EXCEPT ![p] = IF active THEN v ELSE @]
    /\ mishaps' = mishaps + 1 /\ edited' = TRUE /\ alone
    /\ UNCHANGED <<records, job, modality, run, merging>>

\* reconcile_versions, where it keeps the history (otherwise the unique index refuses it,
\* see Transcription): on every page with inactive rows the newest of them becomes active,
\* unless it is left undecided, and the older ones are deleted (ON DELETE SET NULL).
Inactive(p) == stored[p] \ {tx[p]}
stale == {row \in Rows : row[2] \in Inactive(row[1]) /\ row[2] # Newest(Inactive(row[1]))}
Unlink(row) == IF row \in stale THEN None ELSE row
reconcile_versions == \E decided \in SUBSET {p \in Pages : Inactive(p) # {}} :
    /\ mishaps < MaxMishaps /\ \E p \in Pages : Inactive(p) # {}
    /\ stored' = [p \in Pages |-> {v \in stored[p] : <<p, v>> \notin stale}]
    /\ tx' = [p \in Pages |-> IF p \in decided THEN Newest(Inactive(p)) ELSE tx[p]]
    /\ records' = [i \in DOMAIN records |->
                    [records[i] EXCEPT !.tx = Unlink(@), !.tx_end = Unlink(@)]]
    /\ mishaps' = mishaps + 1 /\ edited' = TRUE /\ alone
    /\ UNCHANGED <<job, modality, run, merging>>

Init ==
    /\ tx = [p \in Pages |-> 1] /\ stored = [p \in Pages |-> {1}] /\ records = <<>>
    /\ job = [j \in Jobs |-> "none"] /\ modality = [j \in Jobs |-> "sync"]
    /\ pc = [j \in Jobs |-> "none"]
    /\ targets = [j \in Jobs |-> {}] /\ tried = [j \in Jobs |-> {}] /\ missed = [j \in Jobs |-> {}]
    /\ reading = [j \in Jobs |-> {}] /\ batch = [j \in Jobs |-> {}] /\ seen = [j \in Jobs |-> <<>>]
    /\ merging = <<>> /\ mishaps = 0
    /\ overlapped = FALSE /\ edited = FALSE

Step(j) ==
    \/ begin(j) \/ no_provider(j)
    \/ next_chunk(j) \/ poll_batch(j) \/ batch_failed(j) \/ leave_cancelled(j)
    \/ persist(j) \/ dies(j) \/ load_records(j) \/ stitch_spans(j) \/ finish(j)

Next ==
    \/ \E j \in Jobs : create_job(j) \/ reextract_transcription(j) \/ cancel_job(j)
                         \/ Step(j) \/ crash(j)
    \/ merge_load \/ merge_with_next \/ split_record
    \/ recognise \/ reconcile_versions

Spec == Init /\ [][Next]_vars

(***************************************************************************)
(* Properties.                                                             *)
(***************************************************************************)
Held(rs) == UNION {rs[i].holds : i \in Live(rs)}

\* The parts a live record holds or a run that starts now would read.
Kept(rs) == Held(rs) \cup {h \in Parts : Row(h[1]) \in Unread(rs)}

Stitched(j) == pc[j] = "stitching" /\ pc'[j] = "ending"

\* A run nothing overlaps never loses a part of the book: what was in a live
\* record or waiting to be read still is (extract_records, merge_boundary_records).
RunsLoseNothing ==
    [][~overlapped' /\ (\E j \in Jobs : pc[j] # "none" /\ pc'[j] # pc[j])
         => Kept(records) \subseteq Kept(records)']_vars

\* Without splits, reconciliations and overlapping runs, through crashes, redeliveries,
\* cancels, failed pages and re-extractions, no part of the book is in two live records.
ReadOnce ==
    ~overlapped /\ ~edited =>
        \A i, k \in Live(records) : records[i].holds \cap records[k].holds # {} => i = k

\* Such a run leaves no split act it could have joined, also those whose halves earlier
\* runs have read (_stitch_spans).
BoundariesClosed ==
    [][\A j \in Jobs : ~overlapped /\ ~edited /\ Stitched(j) =>
         ~\E i, k \in Live(records)' : /\ records'[i].incomplete /\ records'[k].continues
                                       /\ records'[k].page = records'[i].page + 1]_vars

\* Two live records with one entry number are never both left unflagged when a run ends,
\* whoever made them (_validate_sequence).
DoublesAreFlagged ==
    [][\A j \in Jobs : Stitched(j) =>
         \A i, k \in Numbered(records)' : records'[i].seq = records'[k].seq /\ i # k
             => "needs_review" \in {records'[i].status, records'[k].status}]_vars
=============================================================================
