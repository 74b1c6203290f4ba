------------------------------ MODULE Documents ------------------------------
(***************************************************************************)
(* Documents, their pages and the images of the pages: rows in PostgreSQL, *)
(* blobs in object storage, and no transaction over both.  Requests touch  *)
(* the blobs first and commit the rows when they end; the background runs  *)
(* that fill a document store an image, then commit its row, page by page. *)
(*                                                                         *)
(* A blob is <<bucket, prefix, name>>: name 0 is original.pdf, name n the  *)
(* file pages/n.  A prefix is the id of the document it was made for; the  *)
(* documents a split makes keep it.  What an image shows is left out: of   *)
(* the raster settings only autosplit counts, which doubles the pages.     *)
(***************************************************************************)
EXTENDS Naturals, FiniteSets, FiniteSetsExt

CONSTANTS
    Docs,         \* ids of documents
    Jobs,         \* background jobs that may be created
    Sheets,       \* pages of an uploaded PDF, each a spread of two faces
    MaxImages,    \* bound: images of an upload or a download
    MaxRequests,  \* bound: requests about an existing document
    MaxCrashes,   \* bound: how often a run is interrupted and delivered again
    None

ASSUME DocumentsAssumption ==
    /\ None \notin Docs
    /\ None \notin [doc : Docs, prefix : Docs, op : {"discard", "publish", "delete"},
                    visibility : {"private", "public", None}]
    /\ Sheets \in Nat \ {0} /\ MaxImages \in Nat /\ MaxRequests \in Nat /\ MaxCrashes \in Nat

VARIABLES
    docs,       \* id |-> row, None while there is none
    pages,      \* id |-> number |-> row of a page
    blobs,      \* the objects in storage
    autosplit,  \* tenants.raster_autosplit
    runs,       \* job |-> what its task keeps, None before it is created
    req,        \* the request that has touched the blobs and not committed yet
    used,       \* ids taken
    requests,   \* how many requests there were
    crashes,    \* how many runs were interrupted
    mixed,      \* history: prefixes on which two of them overlapped, or a request failed
    shared      \* history: prefixes of documents that were split

rowVars == <<docs, pages, used>>
bounds  == <<requests, crashes>>
vars    == <<rowVars, blobs, autosplit, runs, req, bounds, mixed, shared>>

Fresh == LET free == Docs \ used IN IF free = {} THEN {} ELSE {CHOOSE d \in free : TRUE}
Live  == {d \in Docs : docs[d] # None}

bucket_for(visibility) == visibility

Under(bucket, prefix)   == {b \in blobs : b[1] = bucket /\ b[2] = prefix}
Image(bucket, key)      == <<bucket, key[1], key[2]>>
Original(bucket, prefix) == <<bucket, prefix, 0>>

Document(prefix, visibility, type, source, count) ==
    [prefix |-> prefix, bucket |-> bucket_for(visibility), visibility |-> visibility,
     type |-> type, source |-> source, count |-> count]

Page(key, visibility) == [key |-> key, visibility |-> visibility, purged |-> FALSE]
NoPages == [n \in {} |-> None]
With(f, n, x) == [m \in DOMAIN f \cup {n} |-> IF m = n THEN x ELSE f[m]]

(***************************************************************************)
(* A run: the job's arguments, where its task is, and what it read when it *)
(* began (sessions keep what they loaded: expire_on_commit=False).         *)
(***************************************************************************)
Queued(kind, d) == [kind |-> kind, doc |-> d, at |-> "queued", home |-> None, prefix |-> None,
                    bucket |-> None, visibility |-> None, wanted |-> {}, todo |-> {}, total |-> 0]
Done          == [Queued("done", None) EXCEPT !.at = "done"]
Pending(j)    == runs[j] # None /\ runs[j].at # "done"
Under_way(j)  == Pending(j) /\ runs[j].at # "queued"
At(j, kinds, phase) == runs[j] # None /\ runs[j].kind \in kinds /\ runs[j].at = phase
goes(j, r)    == runs' = [runs EXCEPT ![j] = r]

Rasters == {"rasterize", "rerasterize"}
Kinds   == Rasters \cup {"compact", "download"}

\* Who else is at work under this prefix?
Busy(p) == (\E j \in Jobs : Under_way(j) /\ runs[j].prefix = p)
           \/ (req # None /\ req.prefix = p)
enters(p) == mixed' = IF Busy(p) THEN mixed \cup {p} ELSE mixed

(***************************************************************************)
(* Uploads, and the endpoints that create jobs.                            *)
(***************************************************************************)
take(d, row, images) ==
    /\ docs' = [docs EXCEPT ![d] = row]
    /\ pages' = [pages EXCEPT ![d] = [n \in images |-> Page(<<d, n>>, row.visibility)]]
    /\ used' = used \cup {d}

upload_images == \E d \in Fresh, n \in 1..MaxImages, v \in {"private", "public"} :
    /\ blobs' = blobs \cup {<<bucket_for(v), d, i>> : i \in 1..n}
    /\ take(d, Document(d, v, "image_set", "upload", n), 1..n)
    /\ UNCHANGED <<autosplit, runs, req, bounds, mixed, shared>>

upload_pdf(j) == \E d \in Fresh, v \in {"private", "public"} :
    /\ runs[j] = None
    /\ blobs' = blobs \cup {Original(bucket_for(v), d)}
    /\ take(d, Document(d, v, "pdf", "upload", Sheets), {})
    /\ goes(j, Queued("rasterize", d))
    /\ UNCHANGED <<autosplit, req, bounds, mixed, shared>>

\* rerasterize is for PDFs, compact_pdf for sets of images; one active job of a kind each.
job_for(j, kind, type) == \E d \in Live :
    /\ runs[j] = None
    /\ docs[d].type = type
    /\ ~\E k \in Jobs : Pending(k) /\ runs[k].kind = kind /\ runs[k].doc = d
    /\ goes(j, Queued(kind, d))
    /\ UNCHANGED <<rowVars, blobs, autosplit, req, bounds, mixed, shared>>

rerasterize_job(j) == job_for(j, "rerasterize", "pdf")
compact_pdf_job(j) == job_for(j, "compact", "image_set")

start_download(j) ==
    /\ runs[j] = None
    /\ goes(j, Queued("download", None))
    /\ UNCHANGED <<rowVars, blobs, autosplit, req, bounds, mixed, shared>>

set_raster_settings ==
    /\ requests < MaxRequests /\ requests' = requests + 1
    /\ autosplit' = ~autosplit
    /\ UNCHANGED <<rowVars, blobs, runs, req, crashes, mixed, shared>>

(***************************************************************************)
(* rasterize_document and rerasterize_document.                            *)
(***************************************************************************)
Rendered == 1..(IF autosplit THEN 2 * Sheets ELSE Sheets)

always_renders(d) == docs[d] # None
can_render(d)     == docs[d] # None /\ Original(docs[d].bucket, docs[d].prefix) \in blobs

\* The document is read, its original fetched and rendered, or the run ends there.
load_pdf(j) ==
    LET d == runs[j].doc row == docs[d] IN
    /\ At(j, Rasters, "queued")
    /\ \/ /\ can_render(d)
          /\ goes(j, [runs[j] EXCEPT
                !.at = IF runs[j].kind = "rasterize" THEN "ready" ELSE "loaded",
                !.home = d, !.prefix = row.prefix, !.bucket = row.bucket,
                !.visibility = row.visibility, !.todo = Rendered,
                !.total = Cardinality(Rendered)])
          /\ enters(row.prefix)
       \/ goes(j, Done) /\ UNCHANGED mixed
    /\ UNCHANGED <<rowVars, blobs, autosplit, req, bounds, shared>>

wipe_images_only(j) ==
    /\ At(j, {"rerasterize"}, "loaded")
    /\ goes(j, [runs[j] EXCEPT !.at = "wiped"])
    /\ UNCHANGED <<rowVars, blobs, autosplit, req, bounds, mixed, shared>>
wipe(j) ==
    /\ At(j, {"rerasterize"}, "loaded")
    /\ pages' = [pages EXCEPT ![runs[j].home] = NoPages]
    /\ goes(j, [runs[j] EXCEPT !.at = "wiped"])
    /\ UNCHANGED <<docs, used, blobs, autosplit, req, bounds, mixed, shared>>

\* delete_prefix of pages/; a failure is swallowed.
clear_images(j) ==
    LET r == runs[j] IN
    /\ At(j, {"rerasterize"}, "wiped")
    /\ blobs' \in {blobs, blobs \ {b \in Under(r.bucket, r.prefix) : b[3] # 0}}
    /\ goes(j, [r EXCEPT !.at = "ready"])
    /\ UNCHANGED <<rowVars, autosplit, req, bounds, mixed, shared>>

(***************************************************************************)
(* What all runs do for a page: store the image, then commit the row.  A   *)
(* number that is taken (uq_pages_document_page) or a document that is     *)
(* gone is an exception nothing catches.                                   *)
(***************************************************************************)
put_image(j) ==
    LET r == runs[j] IN
    /\ At(j, Kinds, "ready") /\ r.todo # {}
    /\ blobs' = blobs \cup {<<r.bucket, r.prefix, Min(r.todo)>>}
    /\ goes(j, [r EXCEPT !.at = "stored"])
    /\ UNCHANGED <<rowVars, autosplit, req, bounds, mixed, shared>>

page_private(r, n) == Page(<<r.prefix, n>>, "private")
page_row(r, n)     == Page(<<r.prefix, n>>, r.visibility)

commit_page(j) ==
    LET r == runs[j] n == Min(r.todo) IN
    /\ At(j, Kinds, "stored")
    /\ IF docs[r.home] = None \/ n \in DOMAIN pages[r.home]
       THEN goes(j, Done) /\ UNCHANGED pages
       ELSE /\ pages' = [pages EXCEPT ![r.home] = With(@, n, page_row(r, n))]
            /\ goes(j, [r EXCEPT !.at = "ready", !.todo = @ \ {n}])
    /\ UNCHANGED <<docs, used, blobs, autosplit, req, bounds, mixed, shared>>

counts(d, n) == docs' = IF docs[d] = None THEN docs ELSE [docs EXCEPT ![d].count = n]

finish(j) ==
    /\ At(j, Rasters \cup {"compact"}, "ready") /\ runs[j].todo = {}
    /\ IF runs[j].kind = "compact" THEN UNCHANGED docs ELSE counts(runs[j].home, runs[j].total)
    /\ goes(j, Done)
    /\ UNCHANGED <<pages, used, blobs, autosplit, req, bounds, mixed, shared>>

(***************************************************************************)
(* compact_to_pdf: read the page rows, fetch every image, store the PDF,   *)
(* commit the new document (it refers to its parent), copy the pages.      *)
(***************************************************************************)
load_pages(j) ==
    LET d == runs[j].doc row == docs[d] IN
    /\ At(j, {"compact"}, "queued")
    /\ IF row = None THEN goes(j, Done)
       ELSE goes(j, [runs[j] EXCEPT !.at = "loaded", !.bucket = row.bucket,
                        !.visibility = row.visibility, !.todo = DOMAIN pages[d],
                        !.wanted = {pages[d][n].key : n \in DOMAIN pages[d]},
                        !.total = Cardinality(DOMAIN pages[d])])
    /\ UNCHANGED <<rowVars, blobs, autosplit, req, bounds, mixed, shared>>

convert(j) ==
    LET r == runs[j] IN
    /\ At(j, {"compact"}, "loaded")
    /\ \/ \E d \in Fresh :
            /\ \A key \in r.wanted : Image(r.bucket, key) \in blobs
            /\ used' = used \cup {d}
            /\ blobs' = blobs \cup {Original(r.bucket, d)}
            /\ goes(j, [r EXCEPT !.at = "converted", !.home = d, !.prefix = d, !.wanted = {}])
       \/ goes(j, Done) /\ UNCHANGED <<used, blobs>>
    /\ UNCHANGED <<docs, pages, autosplit, req, bounds, mixed, shared>>

insert_document(j) ==
    LET r == runs[j] IN
    /\ At(j, {"compact"}, "converted")
    /\ IF docs[r.doc] = None
       THEN goes(j, Done) /\ UNCHANGED docs
       ELSE /\ docs' = [docs EXCEPT ![r.home] =
                  Document(r.home, r.visibility, "pdf", "familysearch_pdf", r.total)]
            /\ goes(j, [r EXCEPT !.at = "ready"])
    /\ UNCHANGED <<pages, used, blobs, autosplit, req, bounds, mixed, shared>>

(***************************************************************************)
(* fs_download: a new private document that grows image by image until the *)
(* last one, a cancel or too many errors; an empty one is removed.  An     *)
(* expired session, or no first image, leaves what there is.               *)
(***************************************************************************)
begin_download(j) == \E d \in Fresh, n \in 0..MaxImages :
    /\ At(j, {"download"}, "queued")
    /\ take(d, Document(d, "private", "image_set", "familysearch", 0), {})
    /\ goes(j, [runs[j] EXCEPT !.at = "ready", !.home = d, !.prefix = d,
                    !.bucket = bucket_for("private"), !.visibility = "private",
                    !.todo = 1..n, !.total = n])
    /\ UNCHANGED <<blobs, autosplit, req, bounds, mixed, shared>>

end_download(j) ==
    LET r == runs[j] index == r.total - Cardinality(r.todo) IN
    /\ At(j, {"download"}, "ready")
    /\ IF index = 0
       THEN docs' = [docs EXCEPT ![r.home] = None] /\ pages' = [pages EXCEPT ![r.home] = NoPages]
       ELSE counts(r.home, index) /\ UNCHANGED pages
    /\ goes(j, Done)
    /\ UNCHANGED <<used, blobs, autosplit, req, bounds, mixed, shared>>

leave_download(j) ==
    /\ At(j, {"download"}, "ready") \/ At(j, {"download"}, "queued")
    /\ goes(j, Done)
    /\ UNCHANGED <<rowVars, blobs, autosplit, req, bounds, mixed, shared>>

\* Storage or the database fails, or the time of the job is over: nothing catches it.
dies(j) ==
    /\ Under_way(j)
    /\ goes(j, Done)
    /\ UNCHANGED <<rowVars, blobs, autosplit, req, bounds, mixed, shared>>

\* A run is interrupted, and delivered again from its beginning.
crash(j) ==
    /\ Under_way(j) /\ crashes < MaxCrashes
    /\ crashes' = crashes + 1
    /\ goes(j, Queued(runs[j].kind, runs[j].doc))
    /\ UNCHANGED <<rowVars, blobs, autosplit, req, requests, mixed, shared>>

(***************************************************************************)
(* Requests about a document: first the blobs, then the rows.              *)
(***************************************************************************)
touches(d, op, visibility) ==
    /\ req = None /\ requests < MaxRequests
    /\ requests' = requests + 1
    /\ enters(docs[d].prefix)
    /\ req' = [doc |-> d, prefix |-> docs[d].prefix, op |-> op, visibility |-> visibility]
    /\ UNCHANGED <<rowVars, autosplit, runs, crashes, shared>>

discard_images == \E d \in Live :
    /\ touches(d, "discard", None)
    /\ blobs' = blobs \ Under(docs[d].bucket, docs[d].prefix)

delete_document == \E d \in Live :
    /\ touches(d, "delete", None)
    /\ blobs' = blobs \ Under(docs[d].bucket, docs[d].prefix)

move_prefix(from, to, p) == (blobs \ Under(from, p)) \cup {<<to, p, b[3]>> : b \in Under(from, p)}

set_visibility == \E d \in Live, v \in {"private", "public"} :
    /\ v = "public" => docs[d].source # "familysearch"
    /\ touches(d, "publish", v)
    /\ blobs' = IF bucket_for(v) = docs[d].bucket THEN blobs
                ELSE move_prefix(docs[d].bucket, bucket_for(v), docs[d].prefix)

commit_discard(d) ==
    /\ pages' = [pages EXCEPT ![d] = [n \in DOMAIN @ |-> [@[n] EXCEPT !.purged = TRUE]]]
    /\ UNCHANGED docs

commit_visibility(d, v) ==
    /\ docs' = [docs EXCEPT ![d].visibility = v, ![d].bucket = bucket_for(v)]
    /\ pages' = [pages EXCEPT ![d] = [n \in DOMAIN @ |-> [@[n] EXCEPT !.visibility = v]]]

commit_delete(d) ==
    /\ docs' = [docs EXCEPT ![d] = None]
    /\ pages' = [pages EXCEPT ![d] = NoPages]

commit ==
    /\ req # None /\ docs[req.doc] # None
    /\ CASE req.op = "discard" -> commit_discard(req.doc)
         [] req.op = "publish" -> commit_visibility(req.doc, req.visibility)
         [] req.op = "delete"  -> commit_delete(req.doc)
    /\ req' = None
    /\ UNCHANGED <<used, blobs, autosplit, runs, bounds, mixed, shared>>

\* The request fails after it has touched the blobs: its rows are rolled back.
rollback ==
    /\ req # None
    /\ mixed' = mixed \cup {req.prefix}
    /\ req' = None
    /\ UNCHANGED <<rowVars, blobs, autosplit, runs, bounds, shared>>

(***************************************************************************)
(* split_document at a page: the pages from there on become those of a new *)
(* document, both are numbered from 1, and all blobs stay where they are.  *)
(* Several breaks are several splits.                                      *)
(***************************************************************************)
Rank(S, n) == Cardinality({m \in S : m <= n})
kept_numbers(f, S) == [n \in S |-> f[n]]
renumber(f, S) == [k \in 1..Cardinality(S) |-> f[CHOOSE n \in S : Rank(S, n) = k]]

split_document == \E d \in Live, e \in Fresh, cut \in 2..(2 * Sheets + MaxImages) :
    LET head == {n \in DOMAIN pages[d] : n < cut}
        tail == DOMAIN pages[d] \ head
    IN
    /\ requests < MaxRequests
    /\ cut \in tail
    /\ requests' = requests + 1
    /\ docs' = [docs EXCEPT ![d].count = Cardinality(head),
                            ![e] = [docs[d] EXCEPT !.count = Cardinality(tail)]]
    /\ pages' = [pages EXCEPT
            ![d] = [n \in DOMAIN renumber(@, head) |->
                        [renumber(@, head)[n] EXCEPT !.visibility = docs[d].visibility]],
            ![e] = [n \in DOMAIN renumber(pages[d], tail) |->
                        [renumber(pages[d], tail)[n] EXCEPT !.visibility = docs[d].visibility]]]
    /\ used' = used \cup {e}
    /\ enters(docs[d].prefix)
    /\ shared' = shared \cup {docs[d].prefix}
    /\ UNCHANGED <<blobs, autosplit, runs, req, crashes>>

Init ==
    /\ docs = [d \in Docs |-> None] /\ pages = [d \in Docs |-> NoPages] /\ used = {}
    /\ blobs = {} /\ autosplit = TRUE
    /\ runs = [j \in Jobs |-> None] /\ req = None
    /\ requests = 0 /\ crashes = 0
    /\ mixed = {} /\ shared = {}

Step(j) ==
    \/ load_pdf(j) \/ wipe(j) \/ clear_images(j)
    \/ put_image(j) \/ commit_page(j) \/ finish(j)
    \/ load_pages(j) \/ convert(j) \/ insert_document(j)
    \/ begin_download(j) \/ end_download(j) \/ leave_download(j)

Next ==
    \/ \E j \in Jobs : upload_pdf(j) \/ rerasterize_job(j) \/ compact_pdf_job(j)
                         \/ start_download(j) \/ Step(j) \/ dies(j) \/ crash(j)
    \/ upload_images \/ set_raster_settings
    \/ discard_images \/ delete_document \/ set_visibility \/ commit \/ rollback
    \/ split_document

Spec == Init /\ [][Next]_vars

(***************************************************************************)
(* Properties.                                                             *)
(***************************************************************************)

\* Nobody else is, or was, in the way of what happened under this prefix.
InTurn(p) == p \notin mixed /\ (req # None => req.prefix # p)

\* A page that is not purged can be shown: its image is in the bucket of its document,
\* whichever runs crashed, died, were repeated or are at work (get_page_content 402-425).
ImagesReadable ==
    \A d \in Live : InTurn(docs[d].prefix) /\ docs[d].prefix \notin shared =>
        \A n \in DOMAIN pages[d] :
            ~pages[d][n].purged => Image(docs[d].bucket, pages[d][n].key) \in blobs

\* Nothing of a private document lies in the public bucket, nor the other way round, and its pages
\* say what it says: their visibility is denormalized (models/document.py 70-71, set_visibility).
OneVisibility ==
    \A d \in Live : InTurn(docs[d].prefix) /\ docs[d].prefix \notin shared =>
        /\ docs[d].bucket = bucket_for(docs[d].visibility)
        /\ \A b \in blobs : b[2] = docs[d].prefix => b[1] = docs[d].bucket
        /\ \A n \in DOMAIN pages[d] : pages[d][n].visibility = docs[d].visibility

\* A run that finishes, after whatever attempts, and a split leave pages 1 to page_count.
\* Left out: a run that overlapped with another or a request (mixed), and a compaction of a
\* document that has gaps from such an overlap: it copies the numbers of its pages and counts them.
Numbered(d) == docs[d] # None => DOMAIN pages[d] = 1..docs[d].count
Sound(d)    == IF docs[d] = None THEN mixed = {} ELSE docs[d].prefix \notin mixed
Finishes(j) == /\ finish(j) \/ end_download(j)
               /\ runs[j].prefix \notin mixed
               /\ runs[j].kind = "compact" => Sound(runs[j].doc)
PagesNumbered ==
    [][/\ \A j \in Jobs, d \in Docs : Finishes(j) /\ d = runs[j].home => Numbered(d)'
       /\ split_document => \A d \in Docs : pages'[d] # pages[d] => Numbered(d)']_vars

\* Pages are only wiped to be rendered again: where the original is gone, they stay
\* (rerasterize_document fetches and renders before it deletes).
WipesOnlyToRender ==
    [][\A d \in Live : /\ InTurn(docs[d].prefix) /\ docs[d].prefix \notin mixed' \cup shared'
                       /\ Original(docs[d].bucket, docs[d].prefix) \notin blobs
                       /\ docs'[d] # None
                       => DOMAIN pages[d] \subseteq DOMAIN pages'[d]]_vars
=============================================================================
