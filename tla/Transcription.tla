---------------------------- MODULE Transcription ----------------------------
(***************************************************************************)
(* The versions of a document's pages: recognition runs add rows, people   *)
(* correct and reconcile them, embedding jobs index them.  All of them     *)
(* work on the same rows from connections of their own (READ COMMITTED).   *)
(*                                                                         *)
(* A text is a number, 0 for NULL: each recognition, correction or merge   *)
(* yields a new one, and a vector is the number of the text it was         *)
(* computed from.  A chunk of pages is one page: the pages of a chunk only *)
(* share their fate, which may also be that of several chunks.             *)
(***************************************************************************)
EXTENDS Naturals, FiniteSets

CONSTANTS Page,         \* pages of the document
          MaxVersions,  \* bound: rows ever inserted
          MaxTexts,     \* bound: texts ever produced
          Run,          \* transcription jobs (two may slip past the dedup)
          Embed,        \* embedding jobs
          Request,      \* reconcile requests: nothing serialises them
          Pk            \* primary keys: random, so in any order

Version == 1..MaxVersions   \* in the order of created_at

ASSUME TranscriptionAssumption ==
    /\ MaxVersions \in Nat /\ MaxTexts \in Nat
    /\ Pk \in [Version -> Nat]
    /\ \A v, w \in Version : Pk[v] = Pk[w] => v = w
    /\ 0 \notin Page

VARIABLES
    page,      \* page of each row, 0 while there is no such row
    active,    \* is_active
    status,    \* ok, error, corrected, archived
    text,
    vec,       \* embedding: the text it stands for, 0 for NULL
    last,      \* rows inserted so far
    texts,     \* texts produced so far
    phase,     \* run: off, ready, tx (a chunk's transaction is open)
    replace,   \* run: re-recognition, new rows enter as candidates
    todo,      \* run: pages still to recognise
    snap,      \* run: pages with an active row when it started (replace only)
    at,        \* run: page of the open transaction
    base,      \* run: active row its UPDATE locked, 0 if none
    etask,     \* embedding job: off, queued, computing
    targets,   \* embedding job: the <<row, text>> pairs it read
    seen,      \* reconcile request: the rows as it read them, <<>> if none
    crossed    \* history: pages another reconciliation settled since that read

rowVars   == <<page, active, status, text, vec, last, texts>>
runVars   == <<phase, replace, todo, snap, at, base>>
embedVars == <<etask, targets>>
seenVars  == <<seen, crossed>>
vars == <<rowVars, runVars, embedVars, seenVars>>

-----------------------------------------------------------------------------
Live == {v \in Version : page[v] # 0}
ActiveAt(p) == {v \in Version : page[v] = p /\ active[v]}
Readable(p) == \E v \in ActiveAt(p) : text[v] # 0

\* What a run leaves out when it is not a re-recognition.
done_pages == {p \in Page : \E v \in ActiveAt(p) : status[v] = "ok"}

\* session.add(Transcription(...)) of a recognised (ok) or failed page.
\* It takes the place of row old, if there is one.
insert_version(p, ok, act, old) ==
    /\ last < MaxVersions /\ texts < MaxTexts
    /\ LET v == last + 1 IN
       /\ last' = v
       /\ page' = [page EXCEPT ![v] = p]
       /\ status' = [status EXCEPT ![v] = IF ok THEN "ok" ELSE "error"]
       /\ text' = [text EXCEPT ![v] = IF ok THEN texts + 1 ELSE 0]
       /\ active' = [w \in Version |-> IF w = v THEN act ELSE active[w] /\ w # old]
    /\ texts' = IF ok THEN texts + 1 ELSE texts
    /\ UNCHANGED vec

Init ==
    /\ page = [v \in Version |-> 0]
    /\ active = [v \in Version |-> FALSE]
    /\ status = [v \in Version |-> "ok"]
    /\ text = [v \in Version |-> 0]
    /\ vec = [v \in Version |-> 0]
    /\ last = 0 /\ texts = 0
    /\ phase = [r \in Run |-> "off"]
    /\ replace = [r \in Run |-> FALSE]
    /\ todo = [r \in Run |-> {}]
    /\ snap = [r \in Run |-> {}]
    /\ at = [r \in Run |-> 0]
    /\ base = [r \in Run |-> 0]
    /\ etask = [e \in Embed |-> "off"]
    /\ targets = [e \in Embed |-> {}]
    /\ seen = [q \in Request |-> <<>>]
    /\ crossed = [q \in Request |-> {}]

\* Nothing of a run survives it but its rows.
forget(r) ==
    /\ phase' = [phase EXCEPT ![r] = "off"]
    /\ replace' = [replace EXCEPT ![r] = FALSE]
    /\ todo' = [todo EXCEPT ![r] = {}]
    /\ snap' = [snap EXCEPT ![r] = {}]
    /\ at' = [at EXCEPT ![r] = 0]
    /\ base' = [base EXCEPT ![r] = 0]

-----------------------------------------------------------------------------
(* Recognition runs                                                        *)

transcribe_document(r) ==
    /\ phase[r] = "off"
    /\ \E again \in BOOLEAN :
          /\ replace' = [replace EXCEPT ![r] = again]
          /\ todo' = [todo EXCEPT ![r] = IF again THEN Page ELSE Page \ done_pages]
          /\ snap' = [snap EXCEPT ![r] = IF again THEN {p \in Page : ActiveAt(p) # {}} ELSE {}]
    /\ phase' = [phase EXCEPT ![r] = "ready"]
    /\ UNCHANGED <<rowVars, at, base, embedVars, seenVars>>

becomes_active(r, p) == ~(replace[r] /\ p \in snap[r])

\* Mutant: the UPDATE is committed on its own.
supersede_committed(r) ==
    /\ phase[r] = "ready"
    /\ \E p \in todo[r] :
          /\ becomes_active(r, p)
          /\ at' = [at EXCEPT ![r] = p]
          /\ active' = [v \in Version |-> active[v] /\ page[v] # p]
    /\ phase' = [phase EXCEPT ![r] = "tx"]
    /\ UNCHANGED <<page, status, text, vec, last, texts, replace, todo, snap, base,
                   embedVars, seenVars>>

\* The recogniser answered for a page: the UPDATE that supersedes the active
\* row reads it, and locks it until the transaction ends.
supersede(r) ==
    /\ phase[r] = "ready"
    /\ \E p \in todo[r] :
          /\ becomes_active(r, p)
          /\ at' = [at EXCEPT ![r] = p]
          /\ \E v \in ActiveAt(p) \union {0} :
                /\ v = 0 => ActiveAt(p) = {}
                /\ base' = [base EXCEPT ![r] = v]
    /\ phase' = [phase EXCEPT ![r] = "tx"]
    /\ UNCHANGED <<rowVars, replace, todo, snap, embedVars, seenVars>>

\* Mutant: without the unique index the second of two runs adds its row too.
unique_active_missing(p, v) == v \in Nat

\* uq_active_transcription_per_page: the row v may be (or be made) active.
unique_active(p, v) == ActiveAt(p) \subseteq {v}

\* The INSERT of the new active row and the COMMIT.  The unique index refuses
\* it when another run got there first: the task dies with an IntegrityError.
commit_active(r) ==
    LET p == at[r] IN
    /\ phase[r] = "tx"
    /\ \/ /\ unique_active(p, base[r])
          /\ insert_version(p, TRUE, TRUE, base[r])
          /\ phase' = [phase EXCEPT ![r] = "ready"]
          /\ todo' = [todo EXCEPT ![r] = @ \ {p}]
          /\ at' = [at EXCEPT ![r] = 0]
          /\ base' = [base EXCEPT ![r] = 0]
          /\ UNCHANGED <<replace, snap>>
       \/ /\ ~unique_active(p, base[r])
          /\ forget(r)
          /\ UNCHANGED rowVars
    /\ UNCHANGED <<embedVars, seenVars>>

\* Mutant: the row of a failed page supersedes the active one.
commit_failure(r) ==
    /\ phase[r] = "ready"
    /\ \E p \in todo[r] : \E v \in ActiveAt(p) :
          /\ insert_version(p, FALSE, TRUE, v)
          /\ todo' = [todo EXCEPT ![r] = @ \ {p}]
    /\ UNCHANGED <<phase, replace, snap, at, base, embedVars, seenVars>>

\* A candidate of a re-recognition, or the row of a page that failed: nothing
\* is superseded.
commit_inactive(r) ==
    /\ phase[r] = "ready"
    /\ \E p \in todo[r], ok \in BOOLEAN :
          /\ ok => ~becomes_active(r, p)
          /\ insert_version(p, ok, FALSE, 0)
          /\ todo' = [todo EXCEPT ![r] = @ \ {p}]
    /\ UNCHANGED <<phase, replace, snap, at, base, embedVars, seenVars>>

\* The run ends: done, cancelled between chunks, timed out or crashed (an open
\* transaction is rolled back).  ARQ may deliver it again.
end_run(r) ==
    /\ phase[r] # "off"
    /\ forget(r)
    /\ UNCHANGED <<rowVars, embedVars, seenVars>>

-----------------------------------------------------------------------------
(* People                                                                  *)

\* Is the row locked by the open transaction of some run?
Locked(v) == \E r \in Run : phase[r] = "tx" /\ base[r] = v

\* The embedding job is created and enqueued in a try block: best effort.
enqueue_embed ==
    \/ UNCHANGED embedVars
    \/ \E e \in Embed : /\ etask[e] = "off"
                        /\ etask' = [etask EXCEPT ![e] = "queued"]
                        /\ UNCHANGED targets

correct_text(v) ==
    /\ v \in Live /\ ~Locked(v) /\ texts < MaxTexts
    /\ texts' = texts + 1
    /\ text' = [text EXCEPT ![v] = texts + 1]
    /\ status' = [status EXCEPT ![v] = "corrected"]
    /\ vec' = [vec EXCEPT ![v] = 0]
    /\ enqueue_embed
    /\ UNCHANGED <<page, active, last, runVars, seenVars>>

\* The request reads every row, and may then ask a language model to merge.
reconcile_versions(q) ==
    /\ seen[q] = <<>>
    /\ \E v \in Live : ~active[v]
    /\ seen' = [seen EXCEPT ![q] = [page |-> page, active |-> active, status |-> status,
                                    text |-> text, vec |-> vec]]
    /\ UNCHANGED <<rowVars, runVars, embedVars, crossed>>

\* The inactive rows the request saw -- all of them, failed and archived ones
\* too -- and the newest one of each page.
waiting(q) == {v \in Version : seen[q].page[v] # 0 /\ ~seen[q].active[v]}
candidates(q) ==
    {v \in waiting(q) : \A w \in waiting(q) : seen[q].page[w] = seen[q].page[v] => w <= v}
old_active(q, p) == {v \in Version : seen[q].page[v] = p /\ seen[q].active[v]}

\* Can the request make candidate c active?  The unit of work sends UPDATEs in
\* the order of the keys, then DELETEs.  An UPDATE that finds its row gone fails
\* the flush (a DELETE does not); and the old row makes room for c only if it is
\* updated, and updated first.
makes_room(q, c, keep) ==
    LET p == seen[q].page[c] IN
    /\ page[c] # 0
    /\ keep => \A a \in old_active(q, p) : page[a] # 0
    /\ \A a \in ActiveAt(p) \ {c} : keep /\ a \in old_active(q, p) /\ Pk[a] < Pk[c]

\* What the request decides for the page of candidate v: the old text, the
\* candidate's, or a merged or typed one.
final(q, v, choice) ==
    LET old == old_active(q, seen[q].page[v]) IN
    CASE choice = "edited" -> texts + 1
      [] choice = "old" /\ old # {} -> seen[q].text[CHOOSE a \in old : TRUE]
      [] OTHER -> seen[q].text[v]

\* A request is over; the ones still under way did not see what it did.
answered(q, settled) ==
    /\ seen' = [seen EXCEPT ![q] = <<>>]
    /\ crossed' = [o \in Request |->
          IF o = q THEN {} ELSE IF seen[o] # <<>> THEN crossed[o] \union settled ELSE crossed[o]]

\* The flush, and the commit with the embedding job.  In manual mode a page may
\* be left undecided; its older candidates are deleted all the same, whatever
\* became of them.
reconcile_flush(q) ==
    /\ seen[q] # <<>>
    /\ \E keep \in BOOLEAN, choice \in [candidates(q) -> {"old", "new", "edited", "undecided"}] :
       LET chosen  == {v \in candidates(q) : choice[v] # "undecided"}
           old     == UNION {old_active(q, seen[q].page[v]) : v \in chosen}
           dropped == (waiting(q) \ candidates(q)) \union (IF keep THEN {} ELSE old)
           edits   == \E v \in chosen : choice[v] = "edited"
       IN
       /\ \A v \in chosen \union old : ~Locked(v)
       /\ \A v \in chosen : makes_room(q, v, keep)
       /\ edits => texts < MaxTexts
       /\ texts' = IF edits THEN texts + 1 ELSE texts
       /\ page' = [v \in Version |-> IF v \in dropped THEN 0 ELSE page[v]]
       /\ active' = [v \in Version |-> v \in chosen \/ (active[v] /\ v \notin old \union dropped)]
       \* only attributes that differ from what was loaded are written
       /\ status' = [v \in Version |->
             IF v \in chosen /\ seen[q].status[v] # "ok" THEN "ok"
             ELSE IF v \in old \ dropped THEN "archived" ELSE status[v]]
       /\ text' = [v \in Version |->
             IF v \in chosen /\ final(q, v, choice[v]) # seen[q].text[v]
             THEN final(q, v, choice[v]) ELSE text[v]]
       /\ vec' = [v \in Version |-> IF v \in chosen /\ seen[q].vec[v] # 0 THEN 0 ELSE vec[v]]
       /\ answered(q, {seen[q].page[v] : v \in chosen})
    /\ enqueue_embed
    /\ UNCHANGED <<last, runVars>>

\* The flush is refused, by the unique index or for a row that is gone:
\* everything is rolled back.
reconcile_refused(q) ==
    /\ seen[q] # <<>>
    /\ \E keep \in BOOLEAN, v \in candidates(q) : ~makes_room(q, v, keep)
    /\ answered(q, {})
    /\ UNCHANGED <<rowVars, runVars, embedVars>>

-----------------------------------------------------------------------------
(* Embedding jobs                                                          *)

embed_document(e) ==
    /\ etask[e] = "queued"
    /\ etask' = [etask EXCEPT ![e] = "computing"]
    /\ targets' = [targets EXCEPT ![e] =
          {<<v, text[v]>> : v \in {w \in Live : active[w] /\ text[w] # 0 /\ vec[w] = 0}}]
    /\ UNCHANGED <<rowVars, runVars, seenVars>>

\* The vectors of a batch arrive; rows deleted meanwhile are not found.
store_vectors(e) ==
    /\ etask[e] = "computing"
    /\ \A t \in targets[e] : ~Locked(t[1])
    /\ vec' = [v \in Version |->
          IF page[v] # 0 /\ \E t \in targets[e] : t[1] = v
          THEN (CHOOSE t \in targets[e] : t[1] = v)[2] ELSE vec[v]]
    /\ etask' = [etask EXCEPT ![e] = "off"]
    /\ targets' = [targets EXCEPT ![e] = {}]
    /\ UNCHANGED <<page, active, status, text, last, texts, runVars, seenVars>>

\* A recognition run's rows are indexed when somebody asks for it, and an
\* embedding job that fails has indexed nothing.
ask_embed ==
    /\ enqueue_embed
    /\ UNCHANGED <<rowVars, runVars, seenVars>>
fail_embed(e) ==
    /\ etask[e] # "off"
    /\ etask' = [etask EXCEPT ![e] = "off"]
    /\ targets' = [targets EXCEPT ![e] = {}]
    /\ UNCHANGED <<rowVars, runVars, seenVars>>

-----------------------------------------------------------------------------
Next ==
    \/ \E r \in Run : \/ transcribe_document(r) \/ supersede(r) \/ commit_active(r)
                      \/ commit_inactive(r) \/ end_run(r)
    \/ \E v \in Version : correct_text(v)
    \/ \E q \in Request : reconcile_versions(q) \/ reconcile_flush(q) \/ reconcile_refused(q)
    \/ ask_embed
    \/ \E e \in Embed : embed_document(e) \/ store_vectors(e) \/ fail_embed(e)

Spec == Init /\ [][Next]_vars

-----------------------------------------------------------------------------
(* Properties                                                              *)

\* "Exactly one row per (document, page) is active": never two, whatever runs,
\* redeliveries and reconciliations overlap.
OneActive ==
    \A v, w \in Version : active[v] /\ active[w] /\ page[v] = page[w] => v = w

\* The step of a reconcile request that another one overtook at page p.
Overtaken(p) == \E q \in Request : p \in crossed[q] /\ seen[q] # <<>> /\ seen'[q] = <<>>

\* Superseding, reconciling, racing and dying half-way never leave a page that
\* had an active transcription without one.  Only a reconciliation can, that
\* read the page before another one settled it: it deletes the row that became
\* active meanwhile, with the candidates it saw.
PagesKeepActive ==
    [][\A p \in Page : ActiveAt(p) # {} => (ActiveAt(p) # {})' \/ Overtaken(p)]_vars

\* "Only on success -- a transient failure must never wipe a good existing
\* transcription": however runs end, fail or overlap, a page people can read
\* stays readable until somebody reconciles it.
RunsNeverWipe ==
    [][\A p \in Page : Readable(p) /\ seen' = seen => Readable(p)']_vars
=============================================================================
