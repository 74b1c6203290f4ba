# Verification of gen_suite

TLA+ models, TLC runs and TLAPS proofs for gen_suite: a multi-tenant
genealogy suite whose FastAPI backend (`backend/app`), ARQ worker
(`backend/app/tasks`) and React frontend share PostgreSQL (row-level security,
pgvector), MinIO and Redis. Paths below are relative to `backend/app/` unless
they say otherwise.

## Inventory

| component | state it keeps | operations | interacts with | hard behaviour |
|---|---|---|---|---|
| Job lifecycle (`modules/jobs`, `core/events.py`, `core/queue.py`, `tasks/worker.py`, `tasks/maintenance_tasks.py`) | `jobs` rows, ARQ entries in Redis, pub/sub channels, SSE connections | create with dedup, enqueue, cancel, run, reap, boot sweep, relay | every background task, every endpoint that starts one | check-then-insert dedup, cancel against completion, redelivery after a crash, lost events, a queue at its limit |
| Transcription versions (`modules/transcription`, `tasks/transcription_tasks.py`) | `transcriptions` rows: active flag, status, text | recognise, re-recognise, correct, reconcile | jobs, embeddings, extraction | overlapping runs, failed pages, one flush against a unique index |
| Embeddings (`tasks/embedding_tasks.py`, `modules/search`) | vector columns | embed a document, mentions, the whole corpus; hybrid search | transcriptions, providers | a vector that arrives after its text changed |
| Tree editing and its history (`modules/tree`) | persons, families, children, events, places; the `change_log` | add, edit, link, unlink, merge, delete, revert | linkage, importer, exporter | an undo that meets later edits, cycles, one of several steps failing |
| Extraction (`modules/extraction`, `tasks/extraction_tasks.py`) | records, mentions | extract pages, stitch spans, check sequence, split, merge | transcriptions, jobs, linkage | resume after interruption, stale page text, boundary records |
| Documents (`modules/documents`, `tasks/document_tasks.py`, `tasks/index_tasks.py`) | documents, pages, stored blobs | upload, rasterise, split, publish, discard, delete | storage, jobs | blobs and rows that must agree, shared prefixes |
| Linkage (`modules/linkage`, `tasks/linkage_tasks.py`) | match candidates, resolved mentions, people created from an act | discover, discover the family, confirm, reject, accept a relative | mentions, tree, jobs | two decisions about one act, a decision against a tree that moved, answers that arrive after the rows they are about |
| Reconstruction (`linkage/reconstruct.py`, `tasks/reconstruction_tasks.py`) | one proposal per tenant | cluster every mention into people and families, merge all or some of them | mentions, tree | merged twice or in parts, people deleted in between, namesakes |
| Tree queries (`tree/kinship.py`, `tree/service.py`, `tree/consistency.py`) | none | relationship, panel, families, subgraph, roots, consistency | tree | trees nobody drew in a test: circles, families without parents, several marriages |
| Providers and budget (`modules/providers`) | credentials, bindings, usage, the monthly cap | bind a model, resolve it, record usage, check the cap | every AI task, the vectors of the corpus | a cap checked before and spent after, a model changed under the jobs that use it |
| Auth, tenancy, API keys (`modules/auth`, `modules/tenancy`, `modules/api_keys`, `core/deps.py`, `core/security.py`, `db/rls.py`) | users, memberships, tokens, GUCs | sign up, log in, invite, switch, reset | every request | bootstrap races, tenant context lost by a commit |
| Search, media, sources, geo, connectors, storage | rows and blobs | reads and simple CRUD | | little of their own |
| Frontend, `libs/fs_downloader`, docker, migrations, tests | | | | outside the server's state |

What makes each correct: a job is settled in the end, never runs more often
than its deliveries, stops after a cancel and never shows a success it did not
have; a page has exactly one active version and failures never wipe it; a
change to the tree can be undone exactly and the edits of places make no cycle; a
record is read once and no act is lost; an image that a page names can be read; a
researcher's decision stands and the tree it builds says what the acts say; the
vectors a search compares are of one model, and nothing is charged twice.

## Modules

Each module is one component; every action is one committed transaction, one
change of what is stored outside the database, or the read a later write depends
on, so that whatever the code lets happen in between can happen in between.
The operators carry the names of the functions they translate; a definition
whose comment begins with "Mutant" (or that stands just before its counterpart,
with the same parameters) is a plausible bug, used by nothing but the mutation
of the definition after it.

### JobBoard, Jobs, MCJobs, JobsProofs

**JobBoard** is the abstract promise of the job list: rows are posted once, are
started only while the queue has budget, and are otherwise only settled.
**Jobs** is the concrete lifecycle.

| variable | code |
|---|---|
| `row`, `stale` | `jobs.status` as committed; `updated_at` older than the reaper's limit |
| `request` | where the endpoint that creates the job is: `active_job_for`, `insert_job` and `enqueue_job` are three steps |
| `entry`, `tries` | ARQ's entry in Redis and its `job_try` |
| `task`, `left`, `verdict` | program counter of the task body, chunks to do, the event it will announce |
| `cancel` | a cancel request: `cancel_read`, `cancel_flush` (holds the row lock), `cancel_end` (the commit in `core/deps.py`) |
| `up`, `crashes` | the worker process |
| `sphase`, `sjob`, `inbox`, `got` | an SSE stream: the router's read, then the relay's subscription |
| `asked`, `late`, `work` | history: a cancel was committed and no claim came after; the chunks persisted since; how far a run got, whatever the row says: through all its chunks, or, of a download, out of its loop before |

The families of tasks (`Kinds`) differ in how they look at a cancel (`Polls`),
how they fail, and in `eager`: those whose endpoint enqueues before it commits.

### Transcription, MCTranscription, TranscriptionProofs

The versions of a document's pages under recognition runs, corrections,
reconciliation and embedding jobs. A text is a number, a vector the number of
the text it was computed from. `phase`/`todo`/`snap`/`at`/`base` are a run
(`transcribe_document`): `base` is the row its UPDATE has locked until the
INSERT commits. Reconcile requests (`Request`) overlap freely, as in the code:
each has in `seen` the rows it read before it awaited the model, and decides and
writes in `reconcile_flush`. `crossed` is history: the pages that another request
settled in between. `unique_active` is the partial unique index of migration
0019, `makes_room` the order of the statements in the flush of a request, which
follows the primary keys (`Pk`), and what it does when a row it read is gone.

### TreeIds, TreeRows, Tree, MCTree, TreeProofs

**TreeRows** is the database under the tree: rows with a type, an id, references
and an abstract datum; foreign keys with their ON DELETE, of which `Belonging` are
the rows that CASCADE takes along and `Forgetting` the columns that SET NULL empties,
the candidate and the mention of a citation among them; `Apply`, what the
flushes of a request do, and `Applies`, whether they can. **Tree** has the
audited operations of `editing.py` and `citations.py` and `revert_change`. A
request is two steps: the function reads and decides what to write (`req`),
`commit` applies it and appends to `log` (`change_log`), or a constraint refuses
it and `rollback` drops it. Any number of requests (`Writers`) may be between the two;
`overtaken` is history: the open ones that read the tree before its last change; `prior`
is the tree before that change, None when its own request had been overtaken. What
`capture_changes` sees is exactly what the session writes: rows that go by a
cascade, and references that the database nulls, are not in the log. A citation that
a revert brings back loses what it cited and is no more (`Living`).

### Places, MCPlaces, PlacesProofs

The hierarchy of places: `parent`, the place of each event (`at`) and `log`.
`update_place`, `clear_parent`, `merge_place`, `resolve_place`, `forget_place`
and `revert_change`. The walk `_is_descendant` visits the least set of places
that holds the candidate and the parents of its members; it is defined that way,
which needs no recursion and serves the proofs. Requests are serial here. A
revert puts a parent back without walking, so after an undo the hierarchy may
have a cycle: `EditsAcyclic` is about the hierarchies no undo has touched, and
`UndoRestores` compares every undo with the log replayed up to it (`Replayed`).

### Extraction, MCExtraction, ExtractionProofs

The records of one document. A book is a constant: which acts are written on
which page; an act that ends one page and begins the next is split. A part is a
position, `<<page, k>>`: the k-th act there, or what of it is on that page. A record
`holds` the parts it was read from, and names the rows it came from (`tx`, `tx_end`). A run (`extract_records`) selects the active transcriptions no
live record starts or ends on, reads them chunk by chunk behind a cancel
checkpoint or as one batch (`poll_batch` resumes the batch a crashed attempt
submitted), loads the live records, asks about every boundary, merges the halves
and checks the numbering. Re-extraction, merges and splits by hand, new
recognitions and reconciliations are the environment. The answers of the model
are nondeterministic: a page fails or is read whole, a split act is noted or
not, a merged answer covers both halves or leaves the fallback to the code.
`edited` remembers that somebody split a record, recognised a page again, reconciled
versions, or joined by hand a record that already was of two pages (the merge takes
it for its first page only); `overlapped` that two runs, or a run and a request, were
under way at once.

### Documents, MCDocuments, DocumentsProofs

Rows and blobs. `docs` and `pages` are the tables, `blobs` the objects in both
buckets, `runs` the background tasks (`rasterize_document`,
`rerasterize_document`, `compact_to_pdf`, `fs_download`), `req` the request that
has touched the blobs and not committed its rows. A run stores an image
(`put_image`), then commits its row (`commit_page`); between any two steps it may
die or be delivered again. `mixed` and `shared` are history: the prefixes where
a run and a request overlapped or a request failed after touching the blobs, and
the prefixes of documents that were split.

### Linkage, MCLinkage, LinkageProofs

From a person of the tree to the acts that may be theirs, and from a decision to
the tree.

| variable | code |
|---|---|
| `origin` | `persons`: in the tree from the start, created from a mention, deleted, or an id not used yet |
| `husband`, `wife`, `child` | `families`, `family_children` |
| `resolved`, `matched` | `person_mentions.resolved_person_id`, `match_status` |
| `status`, `sibling` | `match_candidates`, unique for a person and a mention; those with relation `sibling` |
| `req` | what a request (`confirm_candidate`, its sibling form, `reject_candidate`, `accept_proposal`) has decided to write |
| `job` | what `generate_candidates` or `generate_family_candidates` has found and not stored |
| `events`, `crossed` | history: inferred events per candidate; the acts, people, families and names two of them had in hand at once; `kin`: the family one of them looked up, which another wrote, looked up, or lost a spouse of |

A request reads when it begins and writes at `commit`; a row it refers to that is
gone, or one it inserts that is there, makes it `rollback`. `linked` is the code's
choice of family and slots for each relation, `materialized` the parents a
confirmed sibling brings along. `Found`, a constant, says which written names
`_find_existing_person` matches: not a name without a surname, nor one whose surname
has other accents, so the same name may be created again (`Findable`, `Named`). `crossed` says what was contested: the code has
no lock and no condition on its UPDATEs, so the properties speak of what only one
request had in hand.

### Kinship, Reconstruct, MCReconstruct

**Kinship** are the queries of the tree as operators on its families: the
ancestors (`climb`, one generation of `_ancestors`) and the nearest common one
(`blood`), the labels (`label`, `by_marriage`, `by_their_marriage`), the path (`pop`,
one turn of the search's loop), the panel of a person, the drawn part of the tree and
the consistency report. The tree changes row by row, so that they are asked of every
small tree, circles included. Where the code takes the first of a set, the operator
gives the set of what it may take. TreeProofs brings it together with Tree (they share
the ids of **TreeIds**): there `GraphIsRead` says that `persons`, `husband`, `wife` and
`child` are what the code reads from the tables.
**Reconstruct** extends it with the super-discovery: the couples of the acts, the
union-find of mentions, the proposal and its merge. Its worlds are part of the
state: `world` has the mentions and the true tree they speak of, an INSTANCE of
Kinship, which is what lets the properties say that the merged tree is true.

A merge is two steps, as nothing locks what it looks up: `merge` finds people and
families and decides on rows (`work`), `commit` inserts them, or a key refuses them
(`roll_back`). Its graph may be that of an earlier reconstruction (`earlier`). A name is
looked up as the code does it: the surname as written has to be in that of the person
(`contains`, a constant, in which accents count), and what that leaves is compared
without case and accents (`fold`). `crossed` is history: what two overlapping requests
both found missing. Two reconstructions that run at once are not modelled: the endpoint
answers with the one under way, and two that slip past that check store a graph each.

### Providers, MCProviders, ProvidersProofs

Credentials, the binding of the embedding task, the cap, the vectors (a vector
is the name of its model), and the jobs that use them: `reembed_corpus`,
`embed_document`, `embed_mentions`, reading jobs, and the index, which logs its
usage in the transaction that completes it. A task resolves its model once
(`resolve`), and may be cancelled, fail, or die and be handed out again at every
step after that, also between its end and ARQ's note of it (`ack`). A batch extraction
is paid when it is submitted (`submit_batch`) and its id outlives the run: the next one
fetches the same results and adds up the same tokens (`fetch_batch`). `pure` is history:
there was a wipe that no task of another model outlives, and the binding still stands
for the same model. `again` is history too: a batch was fetched once more after its
usage had been logged.

## Runs

| run | question | bounds, and why they are enough |
|---|---|---|
| Jobs_double | types, rows durable before the queue, the cancel checkpoint, refinement of JobBoard | 2 jobs for one book (the double click), 2 slots, 2 chunks (one before and one after a cancel), 2 tries and 1 crash (a redelivery) |
| Jobs_stream | no false `all_done`; a live stream closes | a download and a linkage job sharing 1 slot (one waits for the other; the download has an early way out), 1 stream over either, 1 chunk |
| Jobs_settle | every job is settled for good | a polling and an eager job, 1 slot, 1 try, 1 crash (an orphan that is not delivered again) |
| Transcription_pages | one active version, never none again, runs never wipe | 1 page (rows of different pages share nothing but a run), 2 runs, 2 reconcile requests, 3 rows (one more than can be active or superseded at a time), 2 texts, 1 embedding job, keys against the order of creation |
| Tree_audit | exact reverts, merges that lose no evidence, slots taken over by overtaken requests only | a father and a child with names, an event, mentions and candidates that collide, and the two citations of an accepted candidate; 3 changes: a change, one over it or its revert, the revert of that; 2 requests at once when the first change added a man (see below) |
| Places_edit | edits keep a forest, merges gather, an undo restores | 3 places in a row, 2 new ones, 2 events, 4 changes (two edits that depend on each other, their reverts, or an edit after a revert) |
| Extraction_runs | nothing lost, nothing read twice, boundaries closed, doubles flagged | 2 pages with an act across them, chunks of 1 page (so a chunk boundary can fall inside the act), 2 runs, 2 versions, 2 mishaps |
| Documents_rows | readable images, one visibility, numbered pages, wipes only to render | 2 documents, 2 runs, 1 sheet (2 pages when it is cut), uploads of 2 images, 3 requests, 1 crash |
| Linkage_decisions | decisions stand, slots are kept, nobody is created twice, relatives are where the act puts them | 5 people of whom 1 or 2 live at the start, once as a child and a father the act does not know, 2 families, the baptisms of two half-known siblings, one with both parents (the father's surname is not written, so nobody finds him) and a household in two extractions, 2 requests, 1 job |
| Linkage_links | violated, see Findings | the same acts, 1 request |
| Discovery_tree | the queries agree with their references and with one another; the merged reconstruction tells the truth and is stable | every tree of up to 4 people, 2 families and 5 facts (half siblings, step parents, in-laws, circles); six worlds: three generations with cousins in 5 acts of 2 places, a household whose surname has an accent in one act only, a widow's household, a father and son of one name, a father in the tree under a surname with an accent; 2 merge requests at once where somebody was known at the start |
| Providers_vectors | one model in the index, no usage logged twice, wiped rows get their vector back | 2 credentials with a model each, 2 transcriptions and a mention, 2 jobs in the five pairs that share rows or money, one of them with a batch, 2 tries, 2 changes of the settings or the corpus (1 where the way back makes no difference, `Turns`), 1 failure or crash |

Several runs prune with a constraint. `Apart` in Transcription_pages follows two of the
runs and requests at a time, and the embedding job, which writes nothing the properties
speak of, only while no request is under way. In Tree_audit one request does everything
and reverts; where the first change has added a man, a second one links relatives while
the first links, merges or deletes (`MCNext`): what it needs for a slot, a citation or a
person to change hands between its reading and its commit. `Apart` in Extraction_runs follows overlapping
actors only as far as two synchronous runs that miss no page, or one run and a
mishap: `ReadOnce`, `RunsLoseNothing` and `BoundariesClosed` say nothing once actors
overlapped; `DoublesAreFlagged` does, and is what the remaining overlaps are for.
`InOrder` in Documents_rows stops after an overlap or a failed request: all
properties leave the prefix in question out anyway. In
Linkage_decisions at most two requests and jobs are under way (`TwoAtOnce`), jobs
that find nothing are left out (`Worth`), and once two of them had something but a
family they looked up in hand at once, what is under way is finished and nothing more
begins (`Finish`). In
Discovery_tree a reconstruction is merged family by family or at once, again when
all of it was, from the graph before it, and after one person was deleted; two requests
overlap where somebody was in the tree before, and nothing was deleted (`Asked`,
`Bounded`); the answers about a
tree are checked on trees of at most `MaxAsked` people and with years of birth that are
the same, close or a life apart (`Years`); those of the worlds are
larger and are compared with the truth instead. In Providers_vectors ARQ notes the ends of
tasks in one step with the rest once no worker dies any more (`Ended`). Symmetry is used only where the ids
are interchangeable in Init and in every operator, and in no run with a liveness
property. CHECK_DEADLOCK is FALSE everywhere: with the bounds used up and every job
done the system does stop.

## Fairness

`Jobs` (`FairSpec`) and `Providers` have liveness. What is assumed of Jobs, and the
code that justifies it:

* weak fairness of `startup`: the worker is restarted by its supervisor
  (the loop of `backend/run_worker.sh`, `restart: unless-stopped` in `compose.yaml`);
* weak fairness of `TaskStep`: the worker polls its queue and takes what is ready
  while a slot is free, the event loop runs what it took, `job_timeout` ends what
  hangs; that an embedding job waits behind a long one costs nothing, because a row
  that nobody touches is reaped;
* strong fairness of `reap_stale_jobs`: its cron fires every three minutes for
  ever; strong, because a row that a cancel has locked again and again is only
  disabled in between, while the real UPDATE queues for the lock;
* weak fairness of `grow_stale`: clocks advance;
* weak fairness of `enqueue_job`, `cancel_flush`, `cancel_end`: a request that
  began ends;
* weak fairness of `subscribe` and of `relay \/ check_terminal`: a stream that is
  open keeps polling (two silent intervals, then it looks at the row).

Nobody has to create, cancel or watch anything, and the 30-minute cap on silent streams (`stream_timeout`) is
not used: streams close because jobs settle.

Of Providers only that a task goes on with its own steps (`Work`), as in Jobs. It
may fail, and the worker may die as often as there are tries; `Restored` holds in
spite of the deaths and gives up on a job that failed. Nothing is assumed about
requests, settings or cancels.

## Proofs

TLAPS checks everything below for arbitrary constants (any sets of jobs,
streams, pages, runs, places, any bounds that satisfy the ASSUMEs).

**JobsProofs.** `TypeCorrect` needs `ChunkHasWork` (a task about to persist a
chunk has one left) beside `TypeOK`: otherwise the countdown could leave its
range. `Durable`: `DurableInv` adds the request that has committed and is about
to enqueue, the only way into the queue. `CancelStops`: `late <= 1` is not
inductive; `CancelInv` adds that the row is still cancelled while a task that was told
to stop is at work (only a claim takes that back, and the claim ends `asked`), and that
one which persisted its late chunk has not begun another, as it re-reads the row before
each chunk. `AllDoneIsTrue`: `DoneInv` follows "completed" through a run about to write
it, the row, the verdict not yet announced and the inbox of a stream, and says of each
that some run went through its chunks, or was a download that left its loop (`Told`);
`ToldStays`: what a later run does takes nothing of that back. `JobsImplementBoard`: the mapping is
the identity on `row` and `BudgetLeft` for the budget (tries left, plus the one a
task has taken and not yet claimed); `BoardInv` (a row is created once, only rows
that exist are cancelled) and `QueueInv` (tasks belong to entries, entries to
ended requests) make every step a `Post`, a `Start`, a `Settle`, a `Forfeit` or a
stutter.

**TranscriptionProofs.** `AtMostOneActive` and `ActivePagesStayActive` rest on
`VersionInv`: types, rows that exist have a page (`RowsInv`), the row a run has
superseded belongs to its page (`LockInv`), and a row that a reconcile request saw
waiting is not active when it writes, unless another request settled its page
(`SeenInv`). `OneActive` is then what the unique index and
the order of the flush leave possible, for any number of requests; a page loses its
active row only in the step of a request that was overtaken at it. `ReadablePagesStay` (`RunsNeverWipe`) needs
beside it that a new text is never the NULL of a failed page (`TextInv`): a run takes a
row out of use only together with the insertion of one that can be read.

**PlacesProofs.** `NoCycles` (`EditsAcyclic`) and `MergesGather` hold of `Spec`,
reverts included. Acyclicity is stated without recursion: from every set of places
some member leads out. If a move closed a cycle, the cycle would be a set nothing
leads out of; it contains the moved place, so the walk from the new parent, which
stays in the least closed set, reaches it: the guard. A merge is checked in the same
way with the places between `src` and `dst`, which is why `dst` has to be lifted
first. A revert marks its change in the log for ever, so the condition of
`EditsAcyclic`, once false, stays false. `UndoIsExact` (`UndoRestores`) compares an
undo with the log replayed from the start: each column is the replay of the whole log,
and the last change has the images that lead from the replay without it to the column
(`Kept`, for every column in `Remembered`), so putting its images back gives that replay.

**ProvidersProofs.** `TypeCorrect` needs that a task under way holds a model
(`Resolved`), or a store could write none. `NothingLoggedTwice` is an induction on
the money alone: `SpendInv` adds that what a batch holds has been paid for, so that a run
which fetches it with nothing logged yet stays within what was paid. `VectorsOfOneModel` rests on `VectorInv`: while the index is pure,
a job that has not begun or is queued again holds nothing to send (`Idle`), every
task that can still write holds the bound model (`OneWriter`), and so does every
vector; a binding that stands for another model makes it impure, and a wipe makes it
pure only when no task of another model outlives it.

**LinkageProofs.** `WrittenOnce`, `DecisionsKept`, `SlotsStay` and `RelativesStay` say that the
checks a request makes when it begins are as good as checks at its commit wherever
nobody else had the rows in hand. That is `LinkInv`: whatever an open request found
(`Grounded`: a pending candidate, empty slots, names nobody has, ids nobody uses)
`HoldsStill`, or is in `crossed`; two open requests have nothing in common that is
not in `crossed` and create different people (`CrossInv`); an event belongs to a
decided candidate (`EventInv`). `Grounded` is shown of each of the four decisions on
its own, through the choice of slots (`LinkedKeepsSlots`) and the parents a sibling
brings along (`MakesParents`); the steps then only need `StillStays`. What is assumed
is that mentions, ids and the marks of an unused or deleted id are different things.
`RelativesStay` (`RelativesAreLinked`) looks at the family instead of the slot:
`LinkedPlaces` says, relation by relation, where the relative is once the write is done
(`Placed`), or that the family had no room; `KinInv` keeps that of an open request that
is `Alone`, because another request writes only the family it looked up and the mentions
of its act (`Shape`, `KinApart`), and a deletion that empties a slot of the family is
noted (`KinDelete`). That nobody else had the act and the two people in hand would not be
enough: an accepted father for whom there was no room is not written, and if one of the
parents is deleted before the commit, there is room after all; and a request that found
the focal person in a slot may commit after an earlier one, which saw that slot empty,
has written over it. One of the trees of the run is there for the first of the two.

**DocumentsProofs.** `OnePlace` is `OneVisibility` for any number of documents, runs,
requests and crashes. A run writes with the bucket and the visibility it read when it
began, a request moves the blobs before the rows: `PlaceInv` says of each run (`RunOK`)
that as long as nobody else was at work under its prefix there is one document of that
prefix, the run's own, and it still has what the run read; of the open request (`ReqOK`)
where the blobs already lie and what the rows still say; of two runs that they share no
prefix that is not in `mixed` (`AloneInv`), which covers the PDF of a compaction whose
document is not inserted yet. The steps that only move a run, remove pages or blobs, take
an id, touch the blobs or follow with the rows each have one lemma (`QuietKeeps`,
`TakeKeeps`, `TouchKeeps`, `RowsKeep`). `PagesCanBeShown` (`ImagesReadable`) adds `ShownInv`: where
only one is at work, the image of a page is in the bucket of its document (`ImageInv`),
a run that has stored an image still has it and one that renders again still has the
original (`HasInv`), a request that has moved the blobs has moved the images of the pages
(`MovedInv`), under keys that name prefix and number until a split (`KeyInv`).
`WipedPagesComeBack` (`WipesOnlyToRender`) then is `HasInv` of the run about to wipe.

`PagesAreNumbered` (`PagesNumbered`) is about what a run leaves when it finishes, after
whatever attempts died before it. `CountInv` says what is stored on the way: the pages of
a document are 1 to some m, and what its run has still to store is the rest (`FillOK`).
This holds because a run commits the pages in ascending order and a redelivered run either
wipes them first (`rerasterize_document`), starts a document of its own (`compact_to_pdf`)
or, if m is not 0, fails at the first page it stores (`rasterize_document`, by
`uq_pages_document_page`). It needs `OriginInv`, that no rasterising and no compaction is
about a document that a compaction made: `compact_to_pdf` copies the numbers of its source and counts the
images it found (`document_tasks.py:217, 253-262`), so a source on which a download and a
split have overlapped would pass its gaps on. Such a compaction finishes with pages that
are not 1 to `page_count`, although nobody else was at work under its own prefix; that is
why the property asks of a compaction that its source be `Sound`. A split needs no
such premise: it numbers both parts anew (`SplitNumbers`).

**TreeProofs.** All of Tree's properties, for any rows and ids and any number of
requests at a time, under one hypothesis: `NoRowIsNone` (None, which stands for "no
row", is not a record of the form of one; it is a hypothesis and not an ASSUME as TLC
does not compare a model value with a record). A request decides on the rows it
read, so its plan may be wrong for the rows it finds at its commit. `TreeInv` therefore
keeps two things apart. What a request decided is right for some rows (`Proper`: the
images are rows, each written once, and none changes what it is) as long as it is open,
and this is enough for what the commit of an overtaken request must not break: that the
rows satisfy their keys (`RowsOK`, with the columns that two UPDATEs of one row leave,
`OverlayOK`) and the log is well formed and marks as reverted what a later entry reverts
(`LogInv`). As long as nobody overtook it, it is besides the plan of some
operation for the rows there are (`Planned`, `RequestOK`; `PlanStands`: the steps of others
that change no row leave it one). `LastInv` says that the tree before the last change
and the tree now differ by the images of that change and by the references that citations
lost with the rows it deleted (`Differ`).

`AppliedExactly` is the core: a transaction that deletes nothing any row but a citation
refers to replaces the rows it read by those it wrote, and of the others only citations
change. Each operation of `editing.py` and `citations.py` is shown to plan such
transactions, but the deletion of a person, whose cascades are why `UndoRestores` leaves
it out. That a citation loses exactly the references to rows that are gone
(`RevertsAreInverse`) is `LossIsLife`: where the keys hold again after the commit, to
forget what was deleted and to keep what lives is the same. `SlotsAreRespected` is about
every commit of a link, the overtaken ones included: what it writes over was, when it
read, an empty slot (`KeepsSlots`).

The last part of TreeProofs is about what the tree answers: `CirclesAreFound`
(`CirclesAreReported`), `NearestIsShown` (`NothingNearer`) and `OneTreeIsSeen`
(`ViewsAgree`), for whatever tree the operations of Tree leave, of any size. The run
Discovery_tree checks the same three definitions on trees of its own, made row by row or
by a reconstruction; these theorems read the graph from the rows of Tree (`GraphIsRead`,
which only says what the variables of Kinship stand for), and `AnyTreeIsAnswered` is
about the trees made row by row. Besides the hypothesis above they assume a finite
tree to begin with (`IsFiniteSet(InitRows)`) and, the first and the last, that years are
integers (`Years` is a subset of Int). Kinship needs no
more of a tree than `TreeOK`: finitely many persons, slots and pairs that name persons
and families there are. `RowsAreTree` derives it from the keys of `RowsOK` and from
`FiniteInv`, which says that the rows, the images of each change and the writes of each
request are finitely many, because each operation writes an image of rows it read or a
row or two of its own (`FiniteRequest`). Two searches are shown to find the nearest:

* `_ancestors` has after n rounds exactly who is at most n generations above, each at the
  first generation they are met in (`ClimbLevels`), so that the common ancestor of least
  sum is nearest among all pairs of lines, also where a circle makes the lines endless;
* of `_shortest_path` the invariant is `Reached`: the queue is in ascending order of
  distance and spans one generation at most, who was seen first was seen from somebody
  one step nearer, and all neighbours of whoever was taken from the queue have been seen.
  What was not reached after one turn for each person is at no distance.

`CirclesFound` is by contradiction: were no error reported, every parent would be born
at least `FATHER_MIN` or `MOTHER_MIN` years before the child, so every ancestor before
the descendant (`AncestorsAreOlder`), and somebody before themselves.

**ExtractionProofs.** All four properties of Extraction, for any book, any number of
jobs, and any size of chunks. `RecInv` is the ground: every record is one of the book
(its flags are true of the act at its place: a record that says it is incomplete is the
last of its page and not joined yet) and what a run or a merge has loaded are such
records. What the code does to the table is stated once for all the proofs: `Leaves`
says what a merge leaves (every record but those it joined, and one for each two of
them), `ReadLeaves` what storing a chunk leaves, `SameRecs` what the numbering pass may
change. `NoDoubleUnseen` (`DoublesAreFlagged`) needs no more, so it holds with runs and
edits overlapping. `NothingIsLost` (`RunsLoseNothing`) adds `SoleInv`: where nothing
overlaps, there is one run, no merge beside it, and what was loaded is what is there.
`BoundariesAreClosed` adds `PlaceInv`: unedited live records name the active
transcriptions of their pages, no two are in one place, and what a run has left to read
is unread; so the record of a half is the last, or the first, the pass finds on its page
(`IsBoundary`). `NothingIsReadTwice` (`ReadOnce`) adds `HoldInv`, that a record holds parts of
the pages it names, and one hypothesis, `NoMiddlePage`: no page holds nothing but the
middle of an act. On such a page the record both continues and is continued, a pass
joins it to the one before and again to the one after, and the property is false (see
Findings); on every other book the pairs of a pass have no record in common
(`BoundariesApart`). The book of the run is one of those. That what a merge takes for a
half is one held only because `edited` covers the merge by hand of a record that already
was of two pages.

**Model-checked only.** Liveness (`JobsSettle`, `StreamsClose`, `Restored`): out of the
provers' reach, as is ENABLED. The violation. The properties of Reconstruct
(`ProposalIsTrue`, `TreeIsTrue`, `NobodyTwice`): what the union-find and the folds over
sets of clusters compute is induction over data, and `depth` is a RECURSIVE operator,
which no module with a theorem may reach; besides, they hold of the worlds the run has,
where names tell people apart, through what the acts of each say.

## Findings

| run | what the code does | what the repository says |
|---|---|---|
| Linkage_links | accepting a wife for a man who already is the husband of a family without a wife writes him into the wife's slot as well and drops her; her mention is confirmed all the same (`modules/linkage/service.py:741`) | "so that accepting a co-resident/relative from any document type builds the right tree link" (`modules/linkage/service.py:101-103`) |

Other disagreements are in the models, as reachable states the properties have
to live with, without a run of their own:

| where | what the code does | what the repository says |
|---|---|---|
| `modules/transcription/service.py:172` | reconciling takes the newest inactive row of a page, also that of a failed recognition: its NULL text becomes active | "a transient failure must never wipe a good existing transcription" (`tasks/transcription_tasks.py:184`) |
| `modules/tree/editing.py:378` | `delete_person` leaves candidates and mentions to the foreign keys, which the log does not see: the revert brings the person back without them | "every tree mutation is audited and reversible" (`tests/test_tree_changes.py:1`) |
| `modules/tree/editing.py:339` | a merge deletes the candidate of the person merged where the other has one for the same mention; `models/citation.py:41-43` nulls it in the citations of others, which no log sees and no revert puts back; and where the merge moves a citation of that candidate too, its revert is refused (409), as the row is no more as the log has it | "every tree mutation is audited and reversible" (`tests/test_tree_changes.py:1`) |
| `tasks/transcription_tasks.py:99` | the claim writes "running" without a look at the row: a job cancelled in the queue, or between its delivery and its claim, runs to its end | "A still-active worker stops at its next checkpoint" (`modules/jobs/service.py:30`) |
| `tasks/fs_tasks.py:168-170, 204-205` | a download that saw its cancel, or gave up after too many errors, writes "completed" over its cancelled row and announces `all_done` (`227-235`) | "mark it cancelled with a finished_at + default error" (`modules/jobs/service.py:28`) |
| `tasks/extraction_tasks.py:333-341, 363, 410-413` | a batch extraction redelivered after its usage was logged fetches its batch again and logs the same tokens a second time | "AI spend so far this calendar month" (`modules/providers/router.py`) |
| `modules/linkage/service.py:618-620, 625` | the lookup of a person finds nobody without a surname, and compares accents before it folds them: the person is created again | "instead of creating a duplicate" (`modules/linkage/service.py:617`) |
| `modules/tree/audit.py:298` | the revert of an old move restores `parent_id` without walking the hierarchy: a cycle | "no cycles" (`modules/tree/places.py:177`) |
| `modules/extraction/service.py:84` | re-extracting a page of a spanning act supersedes the act and reads that page only | "must be re-stitched, not left stale" (`modules/extraction/service.py:82-83`) |
| `tasks/document_tasks.py:248` | a compacted FamilySearch book can be published | downloaded books stay private (`README.md:99`) |
| `tasks/extraction_tasks.py:535`, `tasks/transcription_tasks.py:164` | a cancelled reading job logs no usage although its pages were paid | "AI spend so far this calendar month" (`modules/providers/router.py`) |
| `modules/providers/service.py:233` | the cap is compared with what is recorded, at the door only: concurrent jobs overrun it, and embedding a document is not checked | "monthly cap" (`modules/providers/router.py:152`) |
| `modules/linkage/reconstruct.py:229-230` | father and son of one name are one person after a merge, his own parent | "deduping against existing tree people" (`modules/linkage/reconstruct.py:230`) |

* Jobs: two active jobs for one book (check, then insert); a terminal status
  overwritten by a second delivery, a late write of the task or a cancel that
  read before it; an eager job that starts before its row is committed.
* Transcription: a vector of a text corrected while it was computed; a
  reconciliation that keeps no history refused by the unique index when the keys
  are in the wrong order; of two overlapping reconciliations the second deletes the row
  the first made active, and the page is left without one
  (`transcription/service.py:136-204` takes no lock); a plain run that reads pages again whose active row
  failed or was corrected.
* Tree: a link that creates a family is logged with empty slots and can never be
  reverted; a row added between a revert's check and its
  deletion goes with the cascade, and of two requests that saw a slot empty the later
  overwrites the earlier (the run has it); reverting the creation of a candidate looks for no
  dependents (`_DELETE_DEPENDENTS` has none of them), and citations lose it. Places: two interleaved moves close a cycle.
* Extraction: an act on three pages whose middle page holds nothing else is
  stitched twice; a page recognised again is read beside its old records; after a
  transcription with records has been deleted the subquery `done_start` contains a
  NULL and no run selects any page (`extraction_tasks.py:483`, `select_targets`);
  a run that was cancelled while waiting and the one started after it read the
  same pages; a page re-extracted or split during the stitch pass is overwritten by
  what the pass had loaded.
* Documents: the books of a split share a prefix, so discarding, deleting,
  publishing or rendering one destroys or moves the images of the other; a run
  that fills a document goes on in the bucket it loaded after a publication; a
  request that fails after touching the blobs leaves rows without images.
* Linkage: two requests about one act decide it twice, write its event twice or
  create a relative twice; a focal person whose family has both parents gets none
  of a third.
* Reconstruction: a widow who heads a household, or a bride whose groom's sex is
  not written, is husband and wife of herself (`reconstruct.py:122-123, 134-135`);
  people without a surname, and families of one parent, are made again at each
  merge; merge requests that overlap each make what both found missing
  (`reconstruct.py:249-296` takes no lock); somebody known by surname only is whoever has that surname; a proposal
  linked to a person deleted since cannot be merged.
* Queries: children of a family without parents are siblings in the panel and not
  in the calculator, which goes by parents; `get_relationship` reads families and
  children in two statements, and may see a change between them.

## Not modelled, and what is left out of what is

* **Jobs**: payloads and progress; the retention of ARQ results; the 403/404 of
  other tenants. **Transcription**: engines, confidence, the similarity that
  decides a reconciliation (nondeterministic). **Tree**: notes, media, GEDCOM
  import, geocoding, names beyond a signature; the record, the page and the transcription
  a citation names, which other components delete. **Places**: names and coordinates; a
  place is found by its id. **Extraction**: folio labels, mentions, the place and
  the date of a record, the index cross-check. **Documents**: what an image shows
  (of the raster settings only the cutting of spreads, and every sheet is one),
  page kinds, the record and transcription rows that follow a page, an upload or a
  move that fails half-way; one request at a time.
* **Linkage**: the scores (arithmetic on features of names), the semantic
  expansion, the duplicates report; a name is one value, and which spellings find which is
  the constant `Found`.
  **Reconstruct**: confidence, the dates and places of the people it makes.
  **Kinship**: searches, statistics, research suggestions; the words of a label.
  **Providers**: a call's inside, prices by kind of token, the bindings of other
  tasks (they differ in their price only), the encryption of a key.
* **Accounts**: login, tokens, memberships and the settings of the row-level
  security share no state with the modules but the tenant of a row. What is
  concurrent there is small: the first administrator, under an advisory lock
  (`auth/service.py:46-49`), the rotation of a refresh token, a slug that is looked
  up and then inserted. The reset of a tenant is one transaction of deletions.
* **Book index**: one job that replaces the entries of a document; its usage is in
  Providers, its run in Jobs.
* Rate limiting, search queries, sources, media, geocoding: no state with
  concurrent writers of interest. GEDCOM, normalisation, scoring, similarity:
  conversions of text. Frontend: the environment of every module. Migrations: the
  constraints they add are in the modules.

## Plan

Done: JobBoard and Jobs, Transcription, TreeRows and Tree, Places, Extraction,
Documents, Linkage, Kinship and Reconstruct, Providers, with proofs about all of them
but Reconstruct. Next, in this order:

1. A composition of Documents, Transcription and Extraction: rendering a book again
   wipes what the others derived while they run.
2. The **book index** as an extension of Documents, compared with the records of the
   same book.
