--------------------------- MODULE DocumentsProofs ---------------------------
(***************************************************************************)
(* Documents, for any documents, jobs, sizes and bounds, and wherever no   *)
(* two were at work under a prefix at once: nothing of a private document  *)
(* lies in the public bucket, nor the other way round, and its pages say   *)
(* what it says; every page that is not purged has its image; the run that *)
(* finishes a document, and a split, leave pages 1 to page_count; and      *)
(* pages are wiped only while the original is there to render them again.  *)
(*                                                                         *)
(* A run writes with the bucket and the visibility it read when it began;  *)
(* the argument is that they are the document's for as long as it is the   *)
(* only one at work under the prefix. It numbers a document right because  *)
(* what is stored of it is always a beginning, 1 to m, and what the run    *)
(* has still to store is the rest.                                         *)
(***************************************************************************)
EXTENDS Documents, FiniteSetTheorems, TLAPS

-----------------------------------------------------------------------------
(* The invariant                                                           *)

Clean(p) == p \notin mixed /\ p \notin shared

\* A row of documents has the bucket of its visibility; a run has the fields of a run.
IsRow(x) ==
    /\ x = [f \in {"prefix", "bucket", "visibility", "type", "source", "count"} |-> x[f]]
    /\ x.bucket = x.visibility
IsPage(x) == x = [f \in {"key", "visibility", "purged"} |-> x[f]]
IsRun(r) ==
    /\ r = [f \in {"kind", "doc", "at", "home", "prefix", "bucket", "visibility",
                   "wanted", "todo", "total"} |-> r[f]]
    /\ r.bucket = r.visibility
    /\ r.kind \in {"rasterize", "rerasterize", "compact"} => r.doc \in Docs

TableInv ==
    /\ DOMAIN docs = Docs /\ DOMAIN pages = Docs /\ DOMAIN runs = Jobs
    /\ used \subseteq Docs
    /\ \A b \in blobs : b[2] \in used

DocInv ==
    /\ \A d \in Docs : docs[d] # None => IsRow(docs[d]) /\ d \in used /\ docs[d].prefix \in used
    /\ \A d, e \in Docs :
          docs[d] # None /\ docs[e] # None /\ docs[d].prefix = docs[e].prefix =>
              d = e \/ docs[d].prefix \in shared
    /\ \A d \in Docs : d \notin used => DOMAIN pages[d] = {}
    /\ \A d \in Docs : docs[d] # None /\ docs[d].prefix \notin shared =>
          \A n \in DOMAIN pages[d] : IsPage(pages[d][n])

\* What lies under the prefix of a document, and its pages.
Agrees(d) ==
    /\ \A b \in blobs : b[2] = docs[d].prefix => b[1] = docs[d].visibility
    /\ \A n \in DOMAIN pages[d] : pages[d][n].visibility = docs[d].visibility
AgreeInv ==
    \A d \in Docs :
        docs[d] # None /\ Clean(docs[d].prefix) /\ (req # None => req.prefix # docs[d].prefix)
            => Agrees(d)

\* A run that has a prefix works for the one document that has it, with what that one says.
RunOK(r) ==
    /\ IsRun(r)
    /\ r.at \in {"queued", "done"} => r.prefix = None
    /\ r.prefix = None => r.at \in {"queued", "done"} \/ (r.at = "loaded" /\ r.kind = "compact")
    /\ r.prefix # None =>
          /\ r.prefix \in used /\ r.home \in used
          /\ docs[r.home] # None => docs[r.home].prefix = r.prefix
          /\ Clean(r.prefix) =>
                /\ \A d \in Docs : docs[d] # None /\ docs[d].prefix = r.prefix =>
                      d = r.home /\ docs[d].visibility = r.visibility
                /\ \A b \in blobs : b[2] = r.prefix => b[1] = r.visibility
                /\ req # None => req.prefix # r.prefix
    \* The PDF is stored, its document is not there yet.
    /\ r.at = "converted" =>
          /\ r.prefix # None /\ r.home = r.prefix
          /\ docs[r.home] = None /\ DOMAIN pages[r.home] = {}
          /\ \A d \in Docs : docs[d] # None => docs[d].prefix # r.prefix
          /\ req # None => req.doc # r.home
RunInv == \A j \in Jobs : \A r \in {runs[j]} : r # None => RunOK(r)

\* Two runs under one prefix are on record, and the document that is about to be inserted
\* is nobody else's.
AloneInv ==
    \A j, k \in Jobs :
        j # k /\ runs[j] # None /\ runs[k] # None /\ runs[k].prefix # None =>
            /\ runs[j].prefix = runs[k].prefix => runs[j].prefix \in mixed
            /\ runs[j].at = "converted" =>
                  runs[k].home # runs[j].home /\ runs[k].prefix # runs[j].prefix

\* A request has moved or deleted the blobs and is about to change the rows.
ReqOK(q) ==
    /\ q.op \in {"discard", "publish", "delete"}
    /\ q.doc \in used /\ q.prefix \in used
    /\ docs[q.doc] # None => docs[q.doc].prefix = q.prefix
    /\ Clean(q.prefix) =>
          \A d \in Docs : docs[d] # None /\ docs[d].prefix = q.prefix =>
              /\ d = q.doc
              /\ \A n \in DOMAIN pages[d] : pages[d][n].visibility = docs[d].visibility
              /\ \A b \in blobs : b[2] = q.prefix =>
                    b[1] = IF q.op = "publish" THEN q.visibility ELSE docs[d].visibility
ReqInv == \A q \in {req} : q # None => ReqOK(q)

PlaceInv == TableInv /\ DocInv /\ AgreeInv /\ RunInv /\ AloneInv /\ ReqInv

USE DEF rowVars, bounds, vars, bucket_for, Fresh

LEMMA InvInit == Init => PlaceInv
<1> SUFFICES ASSUME Init PROVE PlaceInv
  OBVIOUS
<1>1. \A d \in Docs : DOMAIN pages[d] = {}
  BY DEF Init, NoPages
<1> QED BY <1>1 DEF Init, PlaceInv, TableInv, DocInv, AgreeInv, RunInv, AloneInv, ReqInv

\* The property is what the invariant says while nobody has touched the blobs.
LEMMA InvImplies == PlaceInv => OneVisibility
<1> SUFFICES ASSUME PlaceInv, NEW d \in Docs, docs[d] # None,
                    docs[d].prefix \notin mixed, docs[d].prefix \notin shared,
                    req # None => req.prefix # docs[d].prefix
             PROVE  /\ docs[d].bucket = docs[d].visibility
                    /\ \A b \in blobs : b[2] = docs[d].prefix => b[1] = docs[d].bucket
                    /\ \A n \in DOMAIN pages[d] : pages[d][n].visibility = docs[d].visibility
  BY DEF OneVisibility, InTurn, Live
<1>1. docs[d].bucket = docs[d].visibility
  BY DEF PlaceInv, DocInv, IsRow
<1>2. Agrees(d)
  BY DEF PlaceInv, AgreeInv, Clean
<1> QED BY <1>1, <1>2 DEF Agrees

-----------------------------------------------------------------------------
(* Steps that add no document, no page and no blob                         *)

\* A run that has not begun, is over, or has no prefix yet.
Idle(r) == /\ IsRun(r) /\ r.prefix = None
           /\ r.at \in {"queued", "done"} \/ (r.at = "loaded" /\ r.kind = "compact")
GoesOn(r, x) ==
    /\ r # None /\ r.prefix # None
    /\ IsRun(x) /\ x.prefix = r.prefix /\ x.home = r.home /\ x.visibility = r.visibility
    /\ x.at \notin {"queued", "done", "converted"}

LEMMA QuietKeeps ==
    ASSUME PlaceInv,
           used' = used, req' = req, shared' = shared, mixed \subseteq mixed',
           blobs' \subseteq blobs,
           DOMAIN docs' = Docs, DOMAIN pages' = Docs, DOMAIN runs' = Jobs,
           \A d \in Docs : docs'[d] # None =>
                /\ docs[d] # None /\ IsRow(docs'[d])
                /\ docs'[d].prefix = docs[d].prefix /\ docs'[d].visibility = docs[d].visibility,
           \A d \in Docs : docs[d] = None => docs'[d] = None,
           \A d \in Docs : \A n \in DOMAIN pages'[d] :
                n \in DOMAIN pages[d] /\ pages'[d][n] = pages[d][n],
           \A k \in Jobs : runs'[k] = runs[k] \/ Idle(runs'[k]) \/ GoesOn(runs[k], runs'[k])
    PROVE  PlaceInv'
<1>1. TableInv'
  BY DEF PlaceInv, TableInv
<1>2. \A p : Clean(p)' => Clean(p)
  BY DEF Clean
<1>3. DocInv'
  <2>1. \A d \in Docs : docs'[d] # None =>
            IsRow(docs'[d]) /\ d \in used' /\ docs'[d].prefix \in used'
    BY DEF PlaceInv, DocInv
  <2>2. \A d, e \in Docs :
          docs'[d] # None /\ docs'[e] # None /\ docs'[d].prefix = docs'[e].prefix =>
              d = e \/ docs'[d].prefix \in shared'
    BY DEF PlaceInv, DocInv
  <2>3. \A d \in Docs : d \notin used' => DOMAIN pages'[d] = {}
    BY DEF PlaceInv, DocInv
  <2>4. \A d \in Docs : docs'[d] # None /\ docs'[d].prefix \notin shared' =>
            \A n \in DOMAIN pages'[d] : IsPage(pages'[d][n])
    BY DEF PlaceInv, DocInv
  <2> QED BY <2>1, <2>2, <2>3, <2>4 DEF DocInv, IsRow, IsPage
<1>4. AgreeInv'
  BY <1>2 DEF PlaceInv, AgreeInv, Agrees
<1>5. RunInv'
  <2> SUFFICES ASSUME NEW k \in Jobs, NEW x, x = runs'[k], x # None PROVE RunOK(x)'
    BY DEF RunInv
  <2>1. CASE x = runs[k]
    <3>1. RunOK(x)
      BY <2>1 DEF PlaceInv, RunInv
    <3>2. x.prefix # None => x.home \in Docs
      BY <3>1 DEF RunOK, PlaceInv, TableInv
    <3>3. x.at = "converted" => x.prefix # None /\ x.home \in Docs
      BY <3>1, <3>2 DEF RunOK
    <3> QED BY <1>2, <3>1, <3>2, <3>3 DEF RunOK, IsRun
  <2>2. CASE Idle(x)
    BY <2>2 DEF Idle, RunOK, IsRun
  <2>3. CASE GoesOn(runs[k], x)
    <3> DEFINE r == runs[k]
    <3>1. RunOK(r)
      BY <2>3 DEF PlaceInv, RunInv, GoesOn
    <3>2. /\ r.prefix # None /\ x.prefix = r.prefix /\ x.home = r.home
          /\ x.visibility = r.visibility /\ IsRun(x) /\ x.at \notin {"queued", "done", "converted"}
      BY <2>3 DEF GoesOn
    <3> HIDE DEF r
    <3>3. x.home \in Docs
      BY <3>1, <3>2 DEF RunOK, PlaceInv, TableInv
    <3> QED BY <1>2, <3>1, <3>2, <3>3 DEF RunOK, IsRun
  <2> QED BY <2>1, <2>2, <2>3
<1>6. AloneInv'
  BY DEF PlaceInv, AloneInv, Idle, GoesOn
<1>7. ReqInv'
  <2> SUFFICES ASSUME NEW q, q = req', q # None PROVE ReqOK(q)'
    BY DEF ReqInv
  <2>1. ReqOK(q) /\ q.doc \in Docs
    BY DEF PlaceInv, ReqInv, ReqOK, TableInv
  <2> QED BY <1>2, <2>1 DEF ReqOK
<1> QED BY <1>1, <1>3, <1>4, <1>5, <1>6, <1>7 DEF PlaceInv

LEMMA IdleRuns ==
    /\ \A kind, d : (kind \in {"rasterize", "rerasterize", "compact"} => d \in Docs) =>
            Idle(Queued(kind, d))
    /\ Idle(Done)
BY DEF Idle, IsRun, Queued, Done

\* A step of a run that keeps what the run read.
LEMMA RunMoves ==
    ASSUME NEW r, IsRun(r), r # None, r.prefix # None,
           NEW a, a \notin {"queued", "done", "converted"}, NEW todo
    PROVE  /\ GoesOn(r, [r EXCEPT !.at = a])
           /\ GoesOn(r, [r EXCEPT !.at = a, !.todo = todo])
<1>1. GoesOn(r, [r EXCEPT !.at = a])
  BY DEF IsRun, GoesOn
<1>2. GoesOn(r, [r EXCEPT !.at = a, !.todo = todo])
  BY DEF IsRun, GoesOn
<1> QED BY <1>1, <1>2

LEMMA RunIs ==
    ASSUME PlaceInv, NEW j \in Jobs, runs[j] # None
    PROVE  RunOK(runs[j]) /\ IsRun(runs[j])
BY DEF PlaceInv, RunInv, RunOK

\* A run under way that is not a compaction about to load its pages has its prefix.
LEMMA StepsOfARun ==
    ASSUME PlaceInv, NEW j \in Jobs, NEW x,
           UNCHANGED <<docs, pages, blobs, req, used, mixed, shared>>,
           runs' = [runs EXCEPT ![j] = x], Idle(x) \/ GoesOn(runs[j], x)
    PROVE  PlaceInv'
<1>1. /\ DOMAIN docs = Docs /\ DOMAIN pages = Docs /\ DOMAIN runs' = Jobs
      /\ \A k \in Jobs : runs'[k] = runs[k] \/ Idle(runs'[k]) \/ GoesOn(runs[k], runs'[k])
  BY DEF PlaceInv, TableInv
<1>2. \A d \in Docs : docs[d] # None => IsRow(docs[d])
  BY DEF PlaceInv, DocInv
<1> QED BY <1>1, <1>2, QuietKeeps

LEMMA JobsKeep ==
    ASSUME PlaceInv, NEW j \in Jobs,
           \/ rerasterize_job(j) \/ compact_pdf_job(j) \/ start_download(j)
           \/ load_pages(j) \/ leave_download(j) \/ dies(j) \/ crash(j)
    PROVE  PlaceInv'
<1>1. CASE rerasterize_job(j) \/ compact_pdf_job(j)
  <2>1. PICK kind \in {"rerasterize", "compact"}, d \in Docs : /\ runs' = [runs EXCEPT ![j] = Queued(kind, d)]
                                /\ UNCHANGED <<docs, pages, blobs, req, used, mixed, shared>>
    BY <1>1 DEF rerasterize_job, compact_pdf_job, job_for, goes, Live
  <2>2. Idle(Queued(kind, d))
    BY IdleRuns
  <2> QED BY <2>1, <2>2, StepsOfARun
<1>2. CASE start_download(j) \/ leave_download(j) \/ dies(j)
  <2>1. PICK x : /\ runs' = [runs EXCEPT ![j] = x]
                 /\ UNCHANGED <<docs, pages, blobs, req, used, mixed, shared>>
                 /\ Idle(x)
    BY <1>2, IdleRuns DEF start_download, leave_download, dies, goes
  <2> QED BY <2>1, StepsOfARun
<1>4. CASE crash(j)
  <2>1. runs[j] # None
    BY <1>4 DEF crash, Under_way, Pending
  <2>2. Idle(Queued(runs[j].kind, runs[j].doc))
    BY <2>1, RunIs, IdleRuns DEF IsRun
  <2> QED BY <1>4, <2>2, StepsOfARun DEF crash, goes
<1>3. CASE load_pages(j)
  <2> DEFINE d == runs[j].doc
             row == docs[d]
             r == runs[j]
             x == [r EXCEPT !.at = "loaded", !.bucket = row.bucket,
                        !.visibility = row.visibility, !.todo = DOMAIN pages[d],
                        !.wanted = {pages[d][n].key : n \in DOMAIN pages[d]},
                        !.total = Cardinality(DOMAIN pages[d])]
  <2>1. r # None /\ r.at = "queued" /\ r.kind = "compact"
    BY <1>3 DEF load_pages, At
  <2>2. RunOK(r) /\ IsRun(r)
    BY <2>1, RunIs
  <2>3. CASE row = None
    BY <1>3, <2>3, StepsOfARun, IdleRuns DEF load_pages, goes
  <2>4. CASE row # None
    <3>1. row.bucket = row.visibility
      BY <1>3, <2>2, <2>4 DEF load_pages, At, IsRun, PlaceInv, DocInv, IsRow
    <3>2. Idle(x)
      <4>1. r.prefix = None
        BY <2>1, <2>2 DEF RunOK
      <4> HIDE DEF r, row, d
      <4> QED BY <2>1, <2>2, <3>1, <4>1 DEF Idle, IsRun
    <3>3. runs' = [runs EXCEPT ![j] = x]
      BY <1>3, <2>4 DEF load_pages, goes
    <3> HIDE DEF x
    <3> QED BY <1>3, <3>2, <3>3, StepsOfARun DEF load_pages
  <2> QED BY <2>3, <2>4
<1> QED BY <1>1, <1>2, <1>3, <1>4

\* Images and pages that go, and the count of a document.
LEMMA RendersKeep ==
    ASSUME PlaceInv, NEW j \in Jobs, wipe(j) \/ clear_images(j) \/ finish(j) \/ end_download(j)
    PROVE  PlaceInv'
<1> DEFINE r == runs[j]
<1>1. r # None /\ r.at \in {"loaded", "wiped", "ready"}
         /\ (r.at = "loaded" => r.kind = "rerasterize")
         /\ UNCHANGED <<used, req, mixed, shared>> /\ blobs' \subseteq blobs
  BY DEF wipe, clear_images, finish, end_download, At
<1>2. RunOK(r) /\ IsRun(r)
  BY <1>1, RunIs
<1>3. PICK x : runs' = [runs EXCEPT ![j] = x] /\ (Idle(x) \/ GoesOn(r, x))
  <2>1. CASE wipe(j)
    <3>1. GoesOn(r, [r EXCEPT !.at = "wiped"])
      <4>1. r.at = "loaded" /\ r.kind = "rerasterize"
        BY <2>1 DEF wipe, At
      <4>2. r.prefix # None
        BY <1>2, <4>1 DEF RunOK
      <4> HIDE DEF r
      <4> QED BY <1>1, <1>2, <4>2, RunMoves
    <3> QED BY <2>1, <3>1 DEF wipe, goes
  <2>2. CASE clear_images(j)
    <3>1. GoesOn(r, [r EXCEPT !.at = "ready"])
      <4>1. r.at = "wiped"
        BY <2>2 DEF clear_images, At
      <4>2. r.prefix # None
        BY <1>2, <4>1 DEF RunOK
      <4> HIDE DEF r
      <4> QED BY <1>1, <1>2, <4>2, RunMoves
    <3> QED BY <2>2, <3>1 DEF clear_images, goes
  <2>3. CASE finish(j) \/ end_download(j)
    BY <2>3, IdleRuns DEF finish, end_download, goes
  <2> QED BY <2>1, <2>2, <2>3
<1>4. /\ DOMAIN docs = Docs /\ DOMAIN pages = Docs /\ DOMAIN runs = Jobs
      /\ \A d \in Docs : docs[d] # None => IsRow(docs[d])
  BY DEF PlaceInv, TableInv, DocInv
<1>5. DOMAIN runs' = Jobs
      /\ \A k \in Jobs : runs'[k] = runs[k] \/ Idle(runs'[k]) \/ GoesOn(runs[k], runs'[k])
  BY <1>3, <1>4
<1>6. /\ DOMAIN pages' = Docs
      /\ \A d \in Docs : \A n \in DOMAIN pages'[d] : n \in DOMAIN pages[d] /\ pages'[d][n] = pages[d][n]
  <2>1. pages' = pages \/ \E d : pages' = [pages EXCEPT ![d] = NoPages]
    BY DEF wipe, clear_images, finish, end_download
  <2> QED BY <1>4, <2>1 DEF NoPages
<1>7. \A d, n : counts(d, n) =>
        /\ DOMAIN docs' = Docs
        /\ \A e \in Docs : docs'[e] # None =>
              /\ docs[e] # None /\ IsRow(docs'[e])
              /\ docs'[e].prefix = docs[e].prefix /\ docs'[e].visibility = docs[e].visibility
        /\ \A e \in Docs : docs[e] = None => docs'[e] = None
  <2> SUFFICES ASSUME NEW d, NEW n, counts(d, n)
               PROVE  /\ DOMAIN docs' = Docs
                      /\ \A e \in Docs : docs'[e] # None =>
                            /\ docs[e] # None /\ IsRow(docs'[e])
                            /\ docs'[e].prefix = docs[e].prefix
                            /\ docs'[e].visibility = docs[e].visibility
                      /\ \A e \in Docs : docs[e] = None => docs'[e] = None
    OBVIOUS
  <2>1. CASE docs' = docs
    BY <1>4, <2>1
  <2>2. CASE docs[d] # None /\ docs' = [docs EXCEPT ![d] = [docs[d] EXCEPT !.count = n]]
    <3>1. d \in Docs => LET row == [docs[d] EXCEPT !.count = n] IN
              IsRow(row) /\ row.prefix = docs[d].prefix /\ row.visibility = docs[d].visibility
      BY <1>4, <2>2 DEF IsRow
    <3> QED BY <1>4, <2>2, <3>1
  <2> QED BY <2>1, <2>2 DEF counts
<1>8. /\ DOMAIN docs' = Docs
      /\ \A d \in Docs : docs'[d] # None =>
            /\ docs[d] # None /\ IsRow(docs'[d])
            /\ docs'[d].prefix = docs[d].prefix /\ docs'[d].visibility = docs[d].visibility
      /\ \A d \in Docs : docs[d] = None => docs'[d] = None
  <2>1. \/ docs' = docs
        \/ \E d, n : counts(d, n)
        \/ \E d : docs' = [docs EXCEPT ![d] = None]
    BY DEF wipe, clear_images, finish, end_download
  <2> QED BY <1>4, <1>7, <2>1
<1> QED BY <1>1, <1>5, <1>6, <1>8, QuietKeeps

-----------------------------------------------------------------------------
(* A page: its image, then its row                                         *)

LEMMA PutImageKeeps ==
    ASSUME PlaceInv, NEW j \in Jobs, put_image(j) PROVE PlaceInv'
<1> DEFINE r == runs[j]
<1>1. /\ r # None /\ r.at = "ready"
      /\ runs' = [runs EXCEPT ![j] = [r EXCEPT !.at = "stored"]]
      /\ UNCHANGED <<docs, pages, used, req, mixed, shared>>
  BY DEF put_image, At, goes
<1>2. RunOK(r) /\ IsRun(r)
  BY <1>1, RunIs
<1>3. r.prefix # None /\ r.prefix \in used /\ r.bucket = r.visibility
  BY <1>1, <1>2 DEF RunOK, IsRun
<1>4. GoesOn(r, [r EXCEPT !.at = "stored"])
  <2> HIDE DEF r
  <2> QED BY <1>1, <1>2, <1>3, RunMoves
<1>5. \A b \in blobs' : b \in blobs \/ (b[1] = r.visibility /\ b[2] = r.prefix)
  BY <1>3 DEF put_image
<1>6. \A k \in Jobs : k # j => runs'[k] = runs[k]
  BY <1>1 DEF PlaceInv, TableInv
<1>7. runs'[j] = [r EXCEPT !.at = "stored"]
  BY <1>1 DEF PlaceInv, TableInv
<1>8. GoesOn(r, runs'[j])
  BY <1>4, <1>7
<1> HIDE DEF r
<1>9. TableInv'
  BY <1>1, <1>3, <1>5 DEF PlaceInv, TableInv
<1>10. DocInv'
  BY <1>1 DEF PlaceInv, DocInv, IsRow, IsPage
<1>11. \A d \in Docs : (docs[d] # None /\ Clean(docs[d].prefix) /\ docs[d].prefix = r.prefix) =>
            docs[d].visibility = r.visibility
  BY <1>2, <1>3 DEF RunOK
<1>12. AgreeInv'
  BY <1>1, <1>5, <1>11 DEF PlaceInv, AgreeInv, Agrees, Clean
<1>13. RunInv'
  <2> SUFFICES ASSUME NEW k \in Jobs, NEW x, x = runs'[k], x # None PROVE RunOK(x)'
    BY DEF RunInv
  <2>1. CASE k = j
    <3>1. /\ x.prefix = r.prefix /\ x.home = r.home
          /\ x.visibility = r.visibility /\ IsRun(x) /\ x.at \notin {"queued", "done", "converted"}
      BY <1>8, <2>1 DEF GoesOn
    <3> QED BY <1>1, <1>2, <1>3, <1>5, <3>1 DEF RunOK, IsRun, Clean
  <2>2. CASE k # j
    <3>1. x = runs[k] /\ RunOK(x)
      BY <1>6, <2>2 DEF PlaceInv, RunInv
    <3>2. x.prefix = r.prefix => r.prefix \in mixed
      BY <1>1, <1>3, <2>2, <3>1 DEF PlaceInv, AloneInv, r
    <3> QED BY <1>1, <1>5, <3>1, <3>2 DEF RunOK, IsRun, Clean
  <2> QED BY <2>1, <2>2
<1>14. AloneInv'
  BY <1>1, <1>6, <1>8 DEF PlaceInv, AloneInv, GoesOn, r
<1>15. ReqInv'
  <2> SUFFICES ASSUME NEW q, q = req', q # None PROVE ReqOK(q)'
    BY DEF ReqInv
  <2>1. ReqOK(q)
    BY <1>1 DEF PlaceInv, ReqInv
  <2>2. Clean(r.prefix) => q.prefix # r.prefix
    BY <1>1, <1>2, <1>3 DEF RunOK
  <2> QED BY <1>1, <1>5, <2>1, <2>2 DEF ReqOK, Clean
<1> QED BY <1>9, <1>10, <1>12, <1>13, <1>14, <1>15 DEF PlaceInv

LEMMA CommitPageKeeps ==
    ASSUME PlaceInv, NEW j \in Jobs, commit_page(j) PROVE PlaceInv'
<1> DEFINE r == runs[j]
           n == Min(r.todo)
           d == r.home
           x == [r EXCEPT !.at = "ready", !.todo = r.todo \ {n}]
<1>1. /\ r # None /\ r.at = "stored"
      /\ UNCHANGED <<docs, used, blobs, req, mixed, shared>>
  BY DEF commit_page, At
<1>2. RunOK(r) /\ IsRun(r)
  BY <1>1, RunIs
<1>3. r.prefix # None /\ d \in used /\ d \in Docs
  BY <1>1, <1>2 DEF RunOK, PlaceInv, TableInv
<1>4. CASE docs[d] = None \/ n \in DOMAIN pages[d]
  BY <1>1, <1>4, StepsOfARun, IdleRuns DEF commit_page, goes
<1>5. CASE ~(docs[d] = None \/ n \in DOMAIN pages[d])
  <2>1. /\ pages' = [pages EXCEPT ![d] = With(pages[d], n, page_row(r, n))]
        /\ runs' = [runs EXCEPT ![j] = x]
    BY <1>5 DEF commit_page, goes
  <2>2. GoesOn(r, x)
    <3> DEFINE t == r.todo \ {n}
    <3> HIDE DEF r, t
    <3> QED BY <1>1, <1>2, <1>3, RunMoves
  <2>3. /\ \A k \in Jobs : k # j => runs'[k] = runs[k]
        /\ runs'[j] = x
        /\ \A e \in Docs : e # d => pages'[e] = pages[e]
        /\ pages'[d] = With(pages[d], n, page_row(r, n))
    BY <1>3, <2>1 DEF PlaceInv, TableInv
  <2>4. GoesOn(r, runs'[j])
    BY <2>2, <2>3
  <2>5. docs[d] # None
    BY <1>5
  <2>6. \A m \in DOMAIN pages'[d] :
            \/ m \in DOMAIN pages[d] /\ pages'[d][m] = pages[d][m]
            \/ IsPage(pages'[d][m]) /\ pages'[d][m].visibility = r.visibility
    <3>1. PICK g : g = page_row(r, n)
      OBVIOUS
    <3>2. IsPage(g) /\ g.visibility = r.visibility
      BY <3>1 DEF page_row, Page, IsPage
    <3>3. \A m \in DOMAIN pages'[d] :
              \/ m \in DOMAIN pages[d] /\ pages'[d][m] = pages[d][m]
              \/ pages'[d][m] = g
      BY <2>3, <3>1 DEF With
    <3> QED BY <3>2, <3>3
  <2>7. docs[d].prefix = r.prefix /\ (Clean(r.prefix) => docs[d].visibility = r.visibility)
    BY <1>2, <1>3, <2>5 DEF RunOK
  <2> HIDE DEF r, x, n, d
  <2>8. TableInv'
    BY <1>1, <2>1 DEF PlaceInv, TableInv
  <2>9. DocInv'
    <3>1. \A e \in Docs : docs[e] # None /\ docs[e].prefix \notin shared =>
              \A m \in DOMAIN pages'[e] : IsPage(pages'[e][m])
      <4> SUFFICES ASSUME NEW e \in Docs, docs[e] # None, docs[e].prefix \notin shared
                   PROVE  \A m \in DOMAIN pages'[e] : IsPage(pages'[e][m])
        OBVIOUS
      <4>1. \A m \in DOMAIN pages[e] : IsPage(pages[e][m])
        BY DEF PlaceInv, DocInv
      <4> QED BY <2>3, <2>6, <4>1
    <3>2. \A e \in Docs : e \notin used => DOMAIN pages'[e] = {}
      BY <1>3, <2>3 DEF PlaceInv, DocInv
    <3> QED BY <1>1, <3>1, <3>2 DEF PlaceInv, DocInv, IsRow, IsPage
  <2>10. AgreeInv'
    <3> SUFFICES ASSUME NEW e \in Docs, docs[e] # None, Clean(docs[e].prefix),
                        req # None => req.prefix # docs[e].prefix
                 PROVE  Agrees(e)'
      BY <1>1 DEF AgreeInv, Clean
    <3>1. Agrees(e)
      BY DEF PlaceInv, AgreeInv
    <3>2. CASE e # d
      BY <1>1, <2>3, <3>1, <3>2 DEF Agrees
    <3>3. CASE e = d
      BY <1>1, <2>6, <2>7, <3>1, <3>3 DEF Agrees
    <3> QED BY <3>2, <3>3
  <2>11. RunInv'
    <3> SUFFICES ASSUME NEW k \in Jobs, NEW y, y = runs'[k], y # None PROVE RunOK(y)'
      BY DEF RunInv
    <3>1. CASE k = j
      <4>1. /\ y.prefix = r.prefix /\ y.home = r.home
            /\ y.visibility = r.visibility /\ IsRun(y) /\ y.at \notin {"queued", "done", "converted"}
        BY <2>4, <3>1 DEF GoesOn
      <4> QED BY <1>1, <1>2, <1>3, <4>1 DEF RunOK, IsRun, Clean
    <3>2. CASE k # j
      <4>1. RunOK(y)
        BY <2>3, <3>2 DEF PlaceInv, RunInv
      <4>2. y.at = "converted" => y.home # d /\ y.home \in Docs
        BY <2>5, <4>1 DEF RunOK, PlaceInv, TableInv
      <4> QED BY <1>1, <2>3, <4>1, <4>2 DEF RunOK, IsRun, Clean
    <3> QED BY <3>1, <3>2
  <2>12. AloneInv'
    BY <1>1, <2>3, <2>4 DEF PlaceInv, AloneInv, GoesOn, r
  <2>13. ReqInv'
    <3> SUFFICES ASSUME NEW q, q = req', q # None PROVE ReqOK(q)'
      BY DEF ReqInv
    <3>1. ReqOK(q)
      BY <1>1 DEF PlaceInv, ReqInv
    <3>2. Clean(q.prefix) => q.prefix # r.prefix
      BY <1>1, <1>2, <1>3 DEF RunOK
    <3>3. Clean(q.prefix) => \A e \in Docs : docs[e] # None /\ docs[e].prefix = q.prefix => e # d
      BY <2>7, <3>2
    <3> QED BY <1>1, <2>3, <3>1, <3>3 DEF ReqOK, Clean
  <2> QED BY <2>8, <2>9, <2>10, <2>11, <2>12, <2>13 DEF PlaceInv
<1> QED BY <1>4, <1>5

-----------------------------------------------------------------------------
(* A run begins to work under a prefix                                     *)

LEMMA LoadPdfKeeps ==
    ASSUME PlaceInv, NEW j \in Jobs, load_pdf(j) PROVE PlaceInv'
<1> SUFFICES ASSUME NEW r, r = runs[j], NEW row, row = docs[r.doc] PROVE PlaceInv'
  OBVIOUS
<1> DEFINE d == r.doc
           p == row.prefix
<1>1. /\ r # None /\ r.at = "queued" /\ r.kind \in {"rasterize", "rerasterize"}
      /\ UNCHANGED <<docs, pages, used, blobs, req, shared>>
  BY DEF load_pdf, At, Rasters
<1>2. RunOK(r) /\ IsRun(r) /\ d \in Docs
  BY <1>1, RunIs DEF IsRun
<1>3. CASE runs' = [runs EXCEPT ![j] = Done] /\ UNCHANGED mixed
  BY <1>1, <1>3, StepsOfARun, IdleRuns
<1>4. CASE ~(runs' = [runs EXCEPT ![j] = Done] /\ UNCHANGED mixed)
  <2>1. PICK x :
          /\ x = [r EXCEPT !.at = IF r.kind = "rasterize" THEN "ready" ELSE "loaded",
                        !.home = d, !.prefix = row.prefix, !.bucket = row.bucket,
                        !.visibility = row.visibility, !.todo = Rendered,
                        !.total = Cardinality(Rendered)]
          /\ row # None
          /\ runs' = [runs EXCEPT ![j] = x]
          /\ enters(p)
    BY <1>4 DEF load_pdf, can_render, goes
  <2>2. IsRow(row) /\ row.bucket = row.visibility /\ d \in used /\ p \in used /\ p # None
    BY <1>2, <2>1, DocumentsAssumption DEF PlaceInv, DocInv, TableInv, IsRow, DocumentsAssumption
  <2>3. /\ IsRun(x) /\ x.home = d /\ x.prefix = p /\ x.visibility = row.visibility
        /\ x.at \in {"ready", "loaded"} /\ x.kind = r.kind
    <3>1. row.bucket = row.visibility
      BY <2>2
    <3> QED BY <1>2, <2>1, <3>1 DEF IsRun
  <2>4. /\ \A k \in Jobs : k # j => runs'[k] = runs[k]
        /\ runs'[j] = x /\ DOMAIN runs' = Jobs
    BY <2>1 DEF PlaceInv, TableInv
  <2>5. mixed \subseteq mixed' /\ (p \notin mixed' => ~Busy(p))
    BY <2>1 DEF enters
  <2>6. \A k \in Jobs : k # j /\ runs[k] # None /\ runs[k].prefix = p => p \in mixed'
    <3> SUFFICES ASSUME NEW k \in Jobs, k # j, runs[k] # None, runs[k].prefix = p PROVE Busy(p)
      BY <2>5
    <3>1. runs[k].at \notin {"queued", "done"}
      BY <2>2, RunIs DEF RunOK
    <3> QED BY <3>1 DEF Busy, Under_way, Pending
  <2>7. p \notin mixed' => (req # None => req.prefix # p)
    BY <2>5 DEF Busy
  <2>8. TableInv'
    BY <1>1, <2>4 DEF PlaceInv, TableInv
  <2>9. DocInv'
    BY <1>1 DEF PlaceInv, DocInv, IsRow, IsPage
  <2>10. AgreeInv'
    BY <1>1, <2>5 DEF PlaceInv, AgreeInv, Agrees, Clean
  <2>11. RunOK(x)'
    <3>1. Clean(p)' => Clean(p) /\ (req # None => req.prefix # p)
      BY <1>1, <2>5, <2>7 DEF Clean
    <3>2. Clean(p)' => \A e \in Docs : docs[e] # None /\ docs[e].prefix = p => e = d
      BY <1>2, <2>1, <3>1 DEF PlaceInv, DocInv, Clean
    <3>3. Clean(p)' => \A b \in blobs : b[2] = p => b[1] = row.visibility
      BY <1>2, <2>1, <3>1 DEF PlaceInv, AgreeInv, Agrees
    <3>4. /\ docs'[x.home] # None => docs'[x.home].prefix = x.prefix
          /\ x.prefix \in used' /\ x.home \in used'
      BY <1>1, <2>2, <2>3
    <3>5. x.prefix \notin mixed' /\ x.prefix \notin shared' =>
            /\ \A e \in Docs : docs'[e] # None /\ docs'[e].prefix = x.prefix =>
                  e = x.home /\ docs'[e].visibility = x.visibility
            /\ \A b \in blobs' : b[2] = x.prefix => b[1] = x.visibility
            /\ req' # None => req'.prefix # x.prefix
      BY <1>1, <2>3, <3>1, <3>2, <3>3 DEF Clean
    <3>6. x.at # "converted" /\ x.at \notin {"queued", "done"} /\ x.prefix # None
      BY <2>2, <2>3
    <3> QED BY <2>3, <3>4, <3>5, <3>6 DEF RunOK, IsRun, Clean
  <2>12. RunInv'
    <3> SUFFICES ASSUME NEW k \in Jobs, NEW y, y = runs'[k], y # None PROVE RunOK(y)'
      BY DEF RunInv
    <3>1. CASE k = j
      BY <2>4, <2>11, <3>1
    <3>2. CASE k # j
      <4>1. RunOK(y)
        BY <2>4, <3>2 DEF PlaceInv, RunInv
      <4> QED BY <1>1, <2>5, <4>1 DEF RunOK, IsRun, Clean
    <3> QED BY <3>1, <3>2
  <2>13. AloneInv'
    <3> SUFFICES ASSUME NEW i \in Jobs, NEW k \in Jobs, i # k,
                        runs'[i] # None, runs'[k] # None, runs'[k].prefix # None
                 PROVE  /\ runs'[i].prefix = runs'[k].prefix => runs'[i].prefix \in mixed'
                        /\ runs'[i].at = "converted" =>
                              /\ runs'[k].home # runs'[i].home
                              /\ runs'[k].prefix # runs'[i].prefix
      BY DEF AloneInv
    <3>1. CASE i = j
      BY <2>1, <2>3, <2>4, <2>6, <3>1
    <3>2. CASE k = j
      <4>1. runs[i].at = "converted" => /\ docs[runs[i].home] = None
                                        /\ runs[i].prefix # p
        BY <1>2, <2>1, <2>4, <3>2, RunIs DEF RunOK
      <4> QED BY <2>1, <2>3, <2>4, <2>6, <3>2, <4>1
    <3>3. CASE i # j /\ k # j
      BY <2>4, <2>5, <3>3 DEF PlaceInv, AloneInv
    <3> QED BY <3>1, <3>2, <3>3
  <2>14. ReqInv'
    <3> SUFFICES ASSUME NEW q, q = req', q # None PROVE ReqOK(q)'
      BY DEF ReqInv
    <3>1. ReqOK(q)
      BY <1>1 DEF PlaceInv, ReqInv
    <3> QED BY <1>1, <2>5, <3>1 DEF ReqOK, Clean
  <2> QED BY <2>8, <2>9, <2>10, <2>12, <2>13, <2>14 DEF PlaceInv
<1> QED BY <1>3, <1>4

\* The PDF of a compaction is stored under an id of its own, before there is a document.
LEMMA ConvertKeeps ==
    ASSUME PlaceInv, NEW j \in Jobs, convert(j) PROVE PlaceInv'
<1> SUFFICES ASSUME NEW r, r = runs[j] PROVE PlaceInv'
  OBVIOUS
<1>1. /\ r # None /\ r.at = "loaded" /\ r.kind = "compact"
      /\ UNCHANGED <<docs, pages, req, mixed, shared>>
  BY DEF convert, At
<1>2. RunOK(r) /\ IsRun(r)
  BY <1>1, RunIs
<1>3. CASE runs' = [runs EXCEPT ![j] = Done] /\ UNCHANGED <<used, blobs>>
  BY <1>1, <1>3, StepsOfARun, IdleRuns
<1>4. CASE ~(runs' = [runs EXCEPT ![j] = Done] /\ UNCHANGED <<used, blobs>>)
  <2>1. PICK d \in Fresh :
          /\ used' = used \cup {d}
          /\ blobs' = blobs \cup {Original(r.bucket, d)}
          /\ runs' = [runs EXCEPT ![j] = [r EXCEPT !.at = "converted", !.home = d,
                                                   !.prefix = d, !.wanted = {}]]
    BY <1>4 DEF convert, goes
  <2>0. PICK x : x = [r EXCEPT !.at = "converted", !.home = d, !.prefix = d, !.wanted = {}]
    OBVIOUS
  <2>2. d \in Docs /\ d \notin used /\ d # None
    BY DocumentsAssumption DEF DocumentsAssumption
  <2>3. /\ IsRun(x) /\ x.home = d /\ x.prefix = d /\ x.visibility = r.visibility
        /\ x.at = "converted"
    BY <1>2, <2>0 DEF IsRun
  <2>4. /\ \A k \in Jobs : k # j => runs'[k] = runs[k]
        /\ runs'[j] = x /\ DOMAIN runs' = Jobs
    BY <2>0, <2>1 DEF PlaceInv, TableInv
  <2>5. \A b \in blobs' : b \in blobs \/ (b[1] = r.visibility /\ b[2] = d)
    BY <1>2, <2>1 DEF Original, IsRun
  <2>6. TableInv'
    BY <1>1, <2>1, <2>2, <2>4, <2>5 DEF PlaceInv, TableInv
  <2>7. DocInv'
    <3>1. \A e \in Docs : docs[e] # None => e \in used /\ docs[e].prefix \in used
      BY DEF PlaceInv, DocInv
    <3> QED BY <1>1, <2>1, <3>1 DEF PlaceInv, DocInv, IsRow, IsPage
  <2>8. AgreeInv'
    BY <1>1, <2>2, <2>5 DEF PlaceInv, DocInv, AgreeInv, Agrees, Clean
  <2>9. RunOK(x)'
    <3>1. docs[d] = None /\ DOMAIN pages[d] = {}
          /\ \A e \in Docs : docs[e] # None => docs[e].prefix # d
      BY <2>2 DEF PlaceInv, DocInv
    <3>2. \A b \in blobs' : b[2] = d => b[1] = r.visibility
      BY <2>2, <2>5 DEF PlaceInv, TableInv
    <3>3. req # None => req.prefix # d /\ req.doc # d
      BY <2>2 DEF PlaceInv, ReqInv, ReqOK
    <3> QED BY <1>1, <2>1, <2>2, <2>3, <3>1, <3>2, <3>3 DEF RunOK, IsRun
  <2>10. RunInv'
    <3> SUFFICES ASSUME NEW k \in Jobs, NEW y, y = runs'[k], y # None PROVE RunOK(y)'
      BY DEF RunInv
    <3>1. CASE k = j
      BY <2>4, <2>9, <3>1
    <3>2. CASE k # j
      <4>1. RunOK(y)
        BY <2>4, <3>2 DEF PlaceInv, RunInv
      <4> QED BY <1>1, <2>1, <2>2, <2>5, <4>1 DEF RunOK, IsRun, Clean
    <3> QED BY <3>1, <3>2
  <2>11. AloneInv'
    <3> SUFFICES ASSUME NEW i \in Jobs, NEW k \in Jobs, i # k,
                        runs'[i] # None, runs'[k] # None, runs'[k].prefix # None
                 PROVE  /\ runs'[i].prefix = runs'[k].prefix => runs'[i].prefix \in mixed'
                        /\ runs'[i].at = "converted" =>
                              /\ runs'[k].home # runs'[i].home
                              /\ runs'[k].prefix # runs'[i].prefix
      BY DEF AloneInv
    <3>1. \A k1 \in Jobs : k1 # j /\ runs[k1] # None /\ runs[k1].prefix # None =>
              runs[k1].prefix # d /\ runs[k1].home # d
      BY <2>2, RunIs DEF RunOK
    <3>2. CASE i = j
      BY <2>3, <2>4, <3>1, <3>2
    <3>3. CASE k = j
      <4>1. runs[i].at = "converted" => runs[i].prefix # None
        BY <2>4, <3>3, RunIs DEF RunOK
      <4> QED BY <2>2, <2>3, <2>4, <3>1, <3>3, <4>1
    <3>4. CASE i # j /\ k # j
      BY <1>1, <2>4, <3>4 DEF PlaceInv, AloneInv
    <3> QED BY <3>2, <3>3, <3>4
  <2>12. ReqInv'
    <3> SUFFICES ASSUME NEW q, q = req', q # None PROVE ReqOK(q)'
      BY DEF ReqInv
    <3>1. ReqOK(q)
      BY <1>1 DEF PlaceInv, ReqInv
    <3> QED BY <1>1, <2>1, <2>2, <2>5, <3>1 DEF ReqOK, Clean
  <2> QED BY <2>6, <2>7, <2>8, <2>10, <2>11, <2>12 DEF PlaceInv
<1> QED BY <1>3, <1>4

-----------------------------------------------------------------------------
(* New documents                                                           *)

\* A new row is what it says (or there is none).
LEMMA DocumentIs ==
    ASSUME NEW p, NEW v, NEW t, NEW f, NEW c
    PROVE  LET row == Document(p, v, t, f, c) IN
           IsRow(row) /\ row.prefix = p /\ row.visibility = v
BY DEF Document, IsRow

LEMMA InsertKeeps ==
    ASSUME PlaceInv, NEW j \in Jobs, insert_document(j) PROVE PlaceInv'
<1> SUFFICES ASSUME NEW r, r = runs[j] PROVE PlaceInv'
  OBVIOUS
<1>1. /\ r # None /\ r.at = "converted"
      /\ UNCHANGED <<pages, used, blobs, req, mixed, shared>>
  BY DEF insert_document, At
<1>2. RunOK(r) /\ IsRun(r)
  BY <1>1, RunIs
<1> DEFINE d == r.home
<1>3. /\ r.prefix = d /\ d \in used /\ d \in Docs /\ d # None
      /\ docs[d] = None /\ DOMAIN pages[d] = {}
      /\ \A e \in Docs : docs[e] # None => docs[e].prefix # d
      /\ req # None => req.doc # d
  BY <1>1, <1>2 DEF RunOK, PlaceInv, TableInv
<1>4. CASE docs[r.doc] = None
  BY <1>1, <1>4, StepsOfARun, IdleRuns DEF insert_document, goes
<1>5. CASE docs[r.doc] # None
  <2>1. PICK row, x :
          /\ row = Document(d, r.visibility, "pdf", "familysearch_pdf", r.total)
          /\ x = [r EXCEPT !.at = "ready"]
          /\ docs' = [docs EXCEPT ![d] = row]
          /\ runs' = [runs EXCEPT ![j] = x]
    BY <1>5 DEF insert_document, goes
  <2>2. IsRow(row) /\ row.prefix = d /\ row.visibility = r.visibility
    BY <2>1, DocumentIs
  <2>3. GoesOn(r, x)
    BY <1>1, <1>2, <1>3, <2>1, RunMoves
  <2>4. /\ \A k \in Jobs : k # j => runs'[k] = runs[k]
        /\ runs'[j] = x /\ DOMAIN runs' = Jobs
        /\ \A e \in Docs : e # d => docs'[e] = docs[e]
        /\ docs'[d] = row /\ DOMAIN docs' = Docs
    BY <1>3, <2>1 DEF PlaceInv, TableInv
  <2>5. Clean(d) => /\ \A b \in blobs : b[2] = d => b[1] = r.visibility
                    /\ req # None => req.prefix # d
    BY <1>2, <1>3 DEF RunOK
  <2>6. \A k \in Jobs : k # j /\ runs[k] # None /\ runs[k].prefix # None =>
            runs[k].home # d /\ runs[k].prefix # d
    BY <1>1, <1>3 DEF PlaceInv, AloneInv
  <2>7. TableInv'
    BY <1>1, <2>4 DEF PlaceInv, TableInv
  <2>8. DocInv'
    <3>1. \A e \in Docs : docs'[e] # None =>
              IsRow(docs'[e]) /\ e \in used /\ docs'[e].prefix \in used
      BY <1>3, <2>2, <2>4 DEF PlaceInv, DocInv
    <3>2. \A e, f \in Docs :
            docs'[e] # None /\ docs'[f] # None /\ docs'[e].prefix = docs'[f].prefix =>
                e = f \/ docs'[e].prefix \in shared
      BY <1>3, <2>2, <2>4 DEF PlaceInv, DocInv
    <3>3. \A e \in Docs : docs'[e] # None /\ docs'[e].prefix \notin shared =>
              \A m \in DOMAIN pages[e] : IsPage(pages[e][m])
      BY <1>3, <2>2, <2>4 DEF PlaceInv, DocInv
    <3>4. \A e \in Docs : e \notin used => DOMAIN pages[e] = {}
      BY DEF PlaceInv, DocInv
    <3> QED BY <1>1, <3>1, <3>2, <3>3, <3>4 DEF DocInv, IsRow, IsPage
  <2>9. AgreeInv'
    <3> SUFFICES ASSUME NEW e \in Docs, docs'[e] # None, Clean(docs'[e].prefix),
                        req # None => req.prefix # docs'[e].prefix
                 PROVE  Agrees(e)'
      BY <1>1 DEF AgreeInv, Clean
    <3>1. CASE e = d
      BY <1>1, <1>3, <2>2, <2>4, <2>5, <3>1 DEF Agrees
    <3>2. CASE e # d
      BY <1>1, <2>4, <3>2 DEF PlaceInv, AgreeInv, Agrees
    <3> QED BY <3>1, <3>2
  <2>10. RunInv'
    <3> SUFFICES ASSUME NEW k \in Jobs, NEW y, y = runs'[k], y # None PROVE RunOK(y)'
      BY DEF RunInv
    <3>1. CASE k = j
      <4>1. /\ y.prefix = d /\ y.home = d /\ y.visibility = r.visibility
            /\ IsRun(y) /\ y.at \notin {"queued", "done", "converted"}
        BY <1>3, <2>3, <2>4, <3>1 DEF GoesOn
      <4>2. \A e \in Docs : docs'[e] # None /\ docs'[e].prefix = d =>
                e = d /\ docs'[e].visibility = r.visibility
        BY <1>3, <2>2, <2>4
      <4> QED BY <1>1, <1>3, <2>2, <2>4, <2>5, <4>1, <4>2 DEF RunOK, IsRun, Clean
    <3>2. CASE k # j
      <4>1. RunOK(y)
        BY <2>4, <3>2 DEF PlaceInv, RunInv
      <4>2. y.prefix # None => y.home # d /\ y.prefix # d /\ y.home \in Docs
        BY <2>4, <2>6, <3>2, <4>1 DEF RunOK, PlaceInv, TableInv
      <4> QED BY <1>1, <2>2, <2>4, <4>1, <4>2 DEF RunOK, IsRun, Clean
    <3> QED BY <3>1, <3>2
  <2>11. AloneInv'
    BY <1>1, <2>3, <2>4 DEF PlaceInv, AloneInv, GoesOn
  <2>12. ReqInv'
    <3> SUFFICES ASSUME NEW q, q = req', q # None PROVE ReqOK(q)'
      BY DEF ReqInv
    <3>1. ReqOK(q) /\ q.doc # d /\ q.doc \in Docs
      BY <1>1, <1>3 DEF PlaceInv, ReqInv, ReqOK, TableInv
    <3>2. Clean(q.prefix) => q.prefix # d
      BY <1>1, <2>5
    <3> QED BY <1>1, <2>2, <2>4, <3>1, <3>2 DEF ReqOK, Clean
  <2> QED BY <2>7, <2>8, <2>9, <2>10, <2>11, <2>12 DEF PlaceInv
<1> QED BY <1>4, <1>5

\* A document under an id of its own, with its blobs and pages; a run may begin to fill it.
LEMMA TakeKeeps ==
    ASSUME PlaceInv, NEW d \in Fresh, NEW row, NEW images, NEW v,
           IsRow(row), row.prefix = d, row.visibility = v,
           take(d, row, images),
           blobs \subseteq blobs', \A b \in blobs' : b \in blobs \/ (b[1] = v /\ b[2] = d),
           req' = req, mixed' = mixed, shared' = shared,
           NEW j, NEW x,
           \A k \in Jobs : k # j => runs'[k] = runs[k],
           DOMAIN runs' = Jobs, runs'[j] = x,
           \/ x = runs[j]
           \/ Idle(x)
           \/ /\ IsRun(x) /\ x.prefix = d /\ x.home = d /\ x.visibility = v
              /\ x.at \notin {"queued", "done", "converted"}
    PROVE  PlaceInv'
<1>1. d \in Docs /\ d \notin used /\ d # None
  BY DocumentsAssumption DEF DocumentsAssumption
<1>2. /\ \A e \in Docs : docs[e] # None => e \in used /\ docs[e].prefix \in used
      /\ \A b \in blobs : b[2] \in used
      /\ req # None => req.doc \in used /\ req.prefix \in used
  BY DEF PlaceInv, DocInv, TableInv, ReqInv, ReqOK
<1>3. /\ DOMAIN docs' = Docs /\ docs'[d] = row /\ \A e \in Docs : e # d => docs'[e] = docs[e]
      /\ DOMAIN pages' = Docs /\ \A e \in Docs : e # d => pages'[e] = pages[e]
      /\ \A n \in DOMAIN pages'[d] : IsPage(pages'[d][n]) /\ pages'[d][n].visibility = v
      /\ used' = used \cup {d}
  BY <1>1 DEF take, PlaceInv, TableInv, Page, IsPage
<1>4. TableInv'
  BY <1>1, <1>3 DEF PlaceInv, TableInv
<1>5. DocInv'
  <2>1. \A e \in Docs : docs'[e] # None =>
            IsRow(docs'[e]) /\ e \in used' /\ docs'[e].prefix \in used'
    BY <1>1, <1>2, <1>3 DEF PlaceInv, DocInv
  <2>2. \A e, f \in Docs :
          docs'[e] # None /\ docs'[f] # None /\ docs'[e].prefix = docs'[f].prefix =>
              e = f \/ docs'[e].prefix \in shared'
    BY <1>1, <1>2, <1>3 DEF PlaceInv, DocInv
  <2>3. \A e \in Docs : e \notin used' => DOMAIN pages'[e] = {}
    BY <1>3 DEF PlaceInv, DocInv
  <2>4. \A e \in Docs : docs'[e] # None /\ docs'[e].prefix \notin shared' =>
            \A n \in DOMAIN pages'[e] : IsPage(pages'[e][n])
    BY <1>3 DEF PlaceInv, DocInv
  <2> QED BY <2>1, <2>2, <2>3, <2>4 DEF DocInv, IsRow, IsPage
<1>6. AgreeInv'
  <2> SUFFICES ASSUME NEW e \in Docs, docs'[e] # None, Clean(docs'[e].prefix),
                      req # None => req.prefix # docs'[e].prefix
               PROVE  Agrees(e)'
    BY DEF AgreeInv, Clean
  <2>1. CASE e = d
    BY <1>1, <1>2, <1>3, <2>1 DEF Agrees
  <2>2. CASE e # d
    BY <1>1, <1>2, <1>3, <2>2 DEF PlaceInv, AgreeInv, Agrees
  <2> QED BY <2>1, <2>2
<1>7. \A k \in Jobs : runs[k] # None /\ runs[k].prefix # None =>
          runs[k].home # d /\ runs[k].prefix # d /\ runs[k].home \in Docs
  BY <1>1, RunIs DEF RunOK, PlaceInv, TableInv
<1>8. RunInv'
  <2> SUFFICES ASSUME NEW k \in Jobs, NEW y, y = runs'[k], y # None PROVE RunOK(y)'
    BY DEF RunInv
  <2>1. CASE y = runs[k]
    <3>1. RunOK(y)
      BY <2>1 DEF PlaceInv, RunInv
    <3>2. y.prefix # None => y.home # d /\ y.prefix # d /\ y.home \in Docs
      BY <1>7, <2>1
    <3> QED BY <1>1, <1>2, <1>3, <3>1, <3>2 DEF RunOK, IsRun, Clean
  <2>2. CASE Idle(y)
    BY <2>2 DEF Idle, RunOK, IsRun
  <2>3. CASE /\ IsRun(y) /\ y.prefix = d /\ y.home = d /\ y.visibility = v
             /\ y.at \notin {"queued", "done", "converted"}
    <3>1. \A e \in Docs : docs'[e] # None /\ docs'[e].prefix = d =>
              e = d /\ docs'[e].visibility = v
      BY <1>1, <1>2, <1>3
    <3>2. \A b \in blobs' : b[2] = d => b[1] = v
      BY <1>1, <1>2
    <3> QED BY <1>1, <1>2, <1>3, <2>3, <3>1, <3>2 DEF RunOK, IsRun, Clean
  <2> QED BY <2>1, <2>2, <2>3
<1>9. AloneInv'
  <2> SUFFICES ASSUME NEW i \in Jobs, NEW k \in Jobs, i # k,
                      runs'[i] # None, runs'[k] # None, runs'[k].prefix # None
               PROVE  /\ runs'[i].prefix = runs'[k].prefix => runs'[i].prefix \in mixed'
                      /\ runs'[i].at = "converted" =>
                            /\ runs'[k].home # runs'[i].home
                            /\ runs'[k].prefix # runs'[i].prefix
    BY DEF AloneInv
  <2>1. CASE runs'[i] = runs[i] /\ runs'[k] = runs[k]
    BY <2>1 DEF PlaceInv, AloneInv
  <2>2. CASE runs'[i] # runs[i]
    BY <1>1, <1>7, <2>2 DEF Idle
  <2>3. CASE runs'[k] # runs[k]
    <3>1. runs'[i] = runs[i]
      BY <2>3
    <3>2. runs[i].at = "converted" => runs[i].prefix # None
      BY <3>1, RunIs DEF RunOK
    <3> QED BY <1>1, <1>7, <2>3, <3>1, <3>2 DEF Idle
  <2> QED BY <2>1, <2>2, <2>3
<1>10. ReqInv'
  <2> SUFFICES ASSUME NEW q, q = req', q # None PROVE ReqOK(q)'
    BY DEF ReqInv
  <2>1. ReqOK(q) /\ q.doc # d /\ q.prefix # d /\ q.doc \in Docs
    BY <1>1, <1>2 DEF PlaceInv, ReqInv, TableInv
  <2> QED BY <1>1, <1>3, <2>1 DEF ReqOK, Clean
<1> QED BY <1>4, <1>5, <1>6, <1>8, <1>9, <1>10 DEF PlaceInv

LEMMA UploadsKeep ==
    ASSUME PlaceInv, upload_images \/ \E j \in Jobs : upload_pdf(j) \/ begin_download(j)
    PROVE  PlaceInv'
<1>1. CASE upload_images
  <2>1. PICK d \in Fresh, n \in 1..MaxImages, v \in {"private", "public"} :
          /\ blobs' = blobs \cup {<<v, d, i>> : i \in 1..n}
          /\ take(d, Document(d, v, "image_set", "upload", n), 1..n)
    BY <1>1 DEF upload_images
  <2>2. UNCHANGED <<runs, req, mixed, shared>> /\ DOMAIN runs = Jobs
    BY <1>1 DEF upload_images, PlaceInv, TableInv
  <2>3. /\ blobs \subseteq blobs'
        /\ \A b \in blobs' : b \in blobs \/ (b[1] = v /\ b[2] = d)
    BY <2>1
  <2>4. PICK row : /\ row = Document(d, v, "image_set", "upload", n)
                   /\ IsRow(row) /\ row.prefix = d /\ row.visibility = v
    BY DocumentIs
  <2>5. take(d, row, 1..n)
    BY <2>1, <2>4
  <2>6. PICK x : x = runs[d]
    OBVIOUS
  <2> QED BY <2>2, <2>3, <2>4, <2>5, <2>6, TakeKeeps
<1>2. ASSUME NEW j \in Jobs, upload_pdf(j) PROVE PlaceInv'
  <2>1. PICK d \in Fresh, v \in {"private", "public"} :
          /\ blobs' = blobs \cup {Original(v, d)}
          /\ take(d, Document(d, v, "pdf", "upload", Sheets), {})
          /\ runs' = [runs EXCEPT ![j] = Queued("rasterize", d)]
    BY <1>2 DEF upload_pdf, goes
  <2>2. UNCHANGED <<req, mixed, shared>>
    BY <1>2 DEF upload_pdf
  <2>3. /\ blobs \subseteq blobs'
        /\ \A b \in blobs' : b \in blobs \/ (b[1] = v /\ b[2] = d)
    BY <2>1 DEF Original
  <2>4. PICK row : /\ row = Document(d, v, "pdf", "upload", Sheets)
                   /\ IsRow(row) /\ row.prefix = d /\ row.visibility = v
    BY DocumentIs
  <2>5. take(d, row, {})
    BY <2>1, <2>4
  <2>6. PICK x : x = Queued("rasterize", d) /\ Idle(x)
    BY IdleRuns
  <2>7. DOMAIN runs' = Jobs /\ runs'[j] = x /\ \A k \in Jobs : k # j => runs'[k] = runs[k]
    BY <2>1, <2>6 DEF PlaceInv, TableInv
  <2> QED BY <2>2, <2>3, <2>4, <2>5, <2>6, <2>7, TakeKeeps
<1>3. ASSUME NEW j \in Jobs, begin_download(j) PROVE PlaceInv'
  <2> SUFFICES ASSUME NEW r, r = runs[j] PROVE PlaceInv'
    OBVIOUS
  <2>1. PICK d \in Fresh, n \in 0..MaxImages :
          /\ take(d, Document(d, "private", "image_set", "familysearch", 0), {})
          /\ runs' = [runs EXCEPT ![j] = [r EXCEPT !.at = "ready", !.home = d, !.prefix = d,
                    !.bucket = "private", !.visibility = "private",
                    !.todo = 1..n, !.total = n]]
    BY <1>3 DEF begin_download, goes
  <2>2. UNCHANGED <<blobs, req, mixed, shared>> /\ r # None
    BY <1>3 DEF begin_download, At
  <2>3. IsRun(r)
    BY <2>2, RunIs
  <2>4. PICK row : /\ row = Document(d, "private", "image_set", "familysearch", 0)
                   /\ IsRow(row) /\ row.prefix = d /\ row.visibility = "private"
    BY DocumentIs
  <2>5. take(d, row, {})
    BY <2>1, <2>4
  <2>6. PICK x : x = [r EXCEPT !.at = "ready", !.home = d, !.prefix = d,
                    !.bucket = "private", !.visibility = "private", !.todo = 1..n, !.total = n]
    OBVIOUS
  <2>7. /\ IsRun(x) /\ x.prefix = d /\ x.home = d /\ x.visibility = "private"
        /\ x.at \notin {"queued", "done", "converted"}
    BY <2>3, <2>6 DEF IsRun
  <2>8. DOMAIN runs' = Jobs /\ runs'[j] = x /\ \A k \in Jobs : k # j => runs'[k] = runs[k]
    BY <2>1, <2>6 DEF PlaceInv, TableInv
  <2> QED BY <2>2, <2>4, <2>5, <2>7, <2>8, TakeKeeps
<1> QED BY <1>1, <1>2, <1>3

-----------------------------------------------------------------------------
(* Requests about a document                                               *)

\* The blobs are moved or deleted: those of other prefixes stay, and no run that works under
\* this one goes unrecorded.
LEMMA TouchKeeps ==
    ASSUME PlaceInv, NEW d \in Docs, docs[d] # None, NEW op \in {"discard", "publish", "delete"},
           NEW v \in {"private", "public", None}, touches(d, op, v),
           \A b \in blobs' : \/ b \in blobs /\ b[2] # docs[d].prefix
                             \/ /\ b[2] = docs[d].prefix
                                /\ IF op = "publish" THEN b[1] = v \/ (b \in blobs /\ b[1] # docs[d].bucket)
                                                          \/ (b \in blobs /\ v = docs[d].bucket)
                                                     ELSE b \in blobs
    PROVE  PlaceInv'
<1> SUFFICES ASSUME NEW row, row = docs[d], NEW p, p = row.prefix PROVE PlaceInv'
  OBVIOUS
<1>1. /\ req = None
      /\ req' = [doc |-> d, prefix |-> p, op |-> op, visibility |-> v]
      /\ UNCHANGED <<docs, pages, used, runs, shared>>
      /\ enters(p)
  BY DEF touches
<1>2. IsRow(row) /\ row.bucket = row.visibility /\ d \in used /\ p \in used /\ p # None
  BY DocumentsAssumption DEF PlaceInv, DocInv, TableInv, IsRow, DocumentsAssumption
<1>3. mixed \subseteq mixed' /\ (p \notin mixed' => ~Busy(p))
  BY <1>1 DEF enters
<1>4. \A b \in blobs' : b \in blobs \/ b[2] = p
  OBVIOUS
<1>5. TableInv'
  BY <1>1, <1>2, <1>4 DEF PlaceInv, TableInv
<1>6. DocInv'
  BY <1>1 DEF PlaceInv, DocInv, IsRow, IsPage
<1>7. req'.prefix = p /\ req'.doc = d /\ req'.op = op /\ req'.visibility = v
  BY <1>1
<1>8. \A k \in Jobs : runs[k] # None /\ runs[k].prefix = p => p \in mixed'
  <2> SUFFICES ASSUME NEW k \in Jobs, runs[k] # None, runs[k].prefix = p PROVE Busy(p)
    BY <1>3
  <2>1. runs[k].at \notin {"queued", "done"}
    BY <1>2, RunIs DEF RunOK
  <2> QED BY <2>1 DEF Busy, Under_way, Pending
<1>9. PICK q : q = [doc |-> d, prefix |-> p, op |-> op, visibility |-> v]
  OBVIOUS
<1>10. /\ req' = q /\ q.prefix = p /\ q.doc = d /\ q.op = op /\ q.visibility = v
  BY <1>1, <1>9
<1>11. q # None
  BY <1>2, <1>9, DocumentsAssumption DEF DocumentsAssumption, PlaceInv, TableInv
<1>12. Clean(p) => \A b \in blobs : b[2] = p => b[1] = row.visibility
  BY <1>1 DEF PlaceInv, AgreeInv, Agrees
<1>13. Clean(p) => \A n \in DOMAIN pages[d] : pages[d][n].visibility = row.visibility
  BY <1>1 DEF PlaceInv, AgreeInv, Agrees
<1>14. p \notin mixed' /\ p \notin shared => Clean(p)
  BY <1>3 DEF Clean
<1>15. p \notin mixed' /\ p \notin shared => \A b \in blobs' : b[2] = p =>
            b[1] = IF op = "publish" THEN v ELSE row.visibility
  BY <1>2, <1>12, <1>14
<1>16. ReqOK(q)'
  <2>1. p \notin shared => \A e \in Docs : docs[e] # None /\ docs[e].prefix = p => e = d
    BY DEF PlaceInv, DocInv
  <2> QED BY <1>1, <1>2, <1>10, <1>13, <1>14, <1>15, <2>1 DEF ReqOK, Clean
<1>17. ReqInv'
  BY <1>10, <1>16 DEF ReqInv
<1>18. AgreeInv'
  <2> SUFFICES ASSUME NEW e \in Docs, docs[e] # None, docs[e].prefix \notin mixed',
                      docs[e].prefix \notin shared, docs[e].prefix # p
               PROVE  Agrees(e)'
    BY <1>1, <1>10, <1>11 DEF AgreeInv, Clean
  <2>1. Agrees(e)
    BY <1>1, <1>3 DEF PlaceInv, AgreeInv, Clean
  <2> QED BY <1>1, <1>4, <2>1 DEF Agrees
<1>19. RunInv'
  <2> SUFFICES ASSUME NEW k \in Jobs, NEW r, r = runs[k], r # None PROVE RunOK(r)'
    BY <1>1 DEF RunInv
  <2>1. RunOK(r)
    BY DEF PlaceInv, RunInv
  <2>2. r.prefix = p => p \in mixed' /\ r.at # "converted"
    BY <1>8, <2>1 DEF RunOK
  <2>3. r.at = "converted" => d # r.home
    BY <2>1 DEF RunOK
  <2> QED BY <1>1, <1>3, <1>4, <1>10, <2>1, <2>2, <2>3 DEF RunOK, IsRun, Clean
<1>20. AloneInv'
  BY <1>1, <1>3 DEF PlaceInv, AloneInv
<1> QED BY <1>5, <1>6, <1>17, <1>18, <1>19, <1>20 DEF PlaceInv

LEMMA RequestsKeep ==
    ASSUME PlaceInv, discard_images \/ delete_document \/ set_visibility
    PROVE  PlaceInv'
<1>1. CASE discard_images \/ delete_document
  <2>1. PICK d \in Docs, op \in {"discard", "delete"} :
          /\ docs[d] # None /\ touches(d, op, None)
          /\ blobs' = blobs \ Under(docs[d].bucket, docs[d].prefix)
    BY <1>1 DEF discard_images, delete_document, Live
  <2> QED BY <2>1, TouchKeeps DEF Under
<1>2. CASE set_visibility
  <2>1. PICK d \in Docs, v \in {"private", "public"} :
          /\ docs[d] # None /\ touches(d, "publish", v)
          /\ blobs' = IF v = docs[d].bucket THEN blobs
                      ELSE move_prefix(docs[d].bucket, v, docs[d].prefix)
    BY <1>2 DEF set_visibility, Live
  <2>2. CASE v = docs[d].bucket
    BY <2>1, <2>2, TouchKeeps
  <2>3. CASE v # docs[d].bucket
    <3> SUFFICES ASSUME NEW p, p = docs[d].prefix, NEW t, t = docs[d].bucket PROVE PlaceInv'
      OBVIOUS
    <3>1. \A b \in blobs' : (b \in blobs /\ ~(b[1] = t /\ b[2] = p)) \/ (b[1] = v /\ b[2] = p)
      BY <2>1, <2>3 DEF move_prefix, Under
    <3> QED BY <2>1, <3>1, TouchKeeps
  <2> QED BY <2>2, <2>3
<1> QED BY <1>1, <1>2

\* The rows follow the blobs: the request is over.
LEMMA RowsKeep ==
    ASSUME PlaceInv, NEW q, q = req, q # None, NEW d, d = q.doc, docs[d] # None,
           NEW p, p = docs[d].prefix,
           UNCHANGED <<used, blobs, runs, mixed, shared>>, req' = None,
           DOMAIN docs' = Docs, DOMAIN pages' = Docs,
           \A e \in Docs : e # d => docs'[e] = docs[e] /\ pages'[e] = pages[e],
           \/ docs'[d] = None /\ DOMAIN pages'[d] = {}
           \/ /\ IsRow(docs'[d]) /\ docs'[d].prefix = p
              /\ docs'[d].visibility = IF q.op = "publish" THEN q.visibility
                                       ELSE docs[d].visibility
              /\ \A n \in DOMAIN pages'[d] : n \in DOMAIN pages[d]
              /\ p \notin shared => \A n \in DOMAIN pages'[d] :
                    /\ IsPage(pages'[d][n])
                    /\ pages'[d][n].visibility = IF q.op = "publish" THEN q.visibility
                                                 ELSE pages[d][n].visibility
    PROVE  PlaceInv'
<1>1. ReqOK(q) /\ q.prefix = p /\ d \in Docs /\ d \in used
  BY DEF PlaceInv, ReqInv, ReqOK, TableInv
<1>2. TableInv'
  BY DEF PlaceInv, TableInv
<1>3. DocInv'
  <2>1. \A e \in Docs : docs'[e] # None =>
            IsRow(docs'[e]) /\ e \in used' /\ docs'[e].prefix \in used'
    BY <1>1 DEF PlaceInv, DocInv
  <2>2. \A e, f \in Docs :
          docs'[e] # None /\ docs'[f] # None /\ docs'[e].prefix = docs'[f].prefix =>
              e = f \/ docs'[e].prefix \in shared'
    BY <1>1 DEF PlaceInv, DocInv
  <2>3. \A e \in Docs : e \notin used' => DOMAIN pages'[e] = {}
    BY <1>1 DEF PlaceInv, DocInv
  <2>4. \A e \in Docs : docs'[e] # None /\ docs'[e].prefix \notin shared' =>
            \A n \in DOMAIN pages'[e] : IsPage(pages'[e][n])
    BY <1>1 DEF PlaceInv, DocInv
  <2> QED BY <2>1, <2>2, <2>3, <2>4 DEF DocInv, IsRow, IsPage
<1>4. \A e \in Docs : docs'[e] # None => docs[e] # None /\ docs'[e].prefix = docs[e].prefix
  BY <1>1
<1>5. AgreeInv'
  <2> SUFFICES ASSUME NEW e \in Docs, docs'[e] # None, Clean(docs'[e].prefix)
               PROVE  Agrees(e)'
    BY DEF AgreeInv, Clean
  <2>1. CASE e = d
    <3>1. Clean(p) /\ p \notin shared
      BY <1>1, <2>1 DEF Clean
    <3>2. \A b \in blobs' : b[2] = docs'[d].prefix => b[1] = docs'[d].visibility
      BY <1>1, <2>1, <3>1 DEF ReqOK
    <3>3. \A n \in DOMAIN pages'[d] : pages'[d][n].visibility = docs'[d].visibility
      BY <1>1, <2>1, <3>1 DEF ReqOK
    <3> QED BY <2>1, <3>2, <3>3 DEF Agrees
  <2>2. CASE e # d
    <3>1. docs[e].prefix # p
      BY <1>1, <1>4, <2>2 DEF PlaceInv, DocInv, Clean
    <3>2. Agrees(e)
      BY <1>1, <1>4, <2>2, <3>1 DEF PlaceInv, AgreeInv
    <3> QED BY <2>2, <3>2 DEF Agrees
  <2> QED BY <2>1, <2>2
<1>6. RunInv'
  <2> SUFFICES ASSUME NEW k \in Jobs, NEW r, r = runs[k], r # None PROVE RunOK(r)'
    BY DEF RunInv
  <2>1. RunOK(r)
    BY DEF PlaceInv, RunInv
  <2>2. r.prefix # None => r.home \in Docs
    BY <2>1 DEF RunOK, PlaceInv, TableInv
  <2>3. r.prefix # None /\ Clean(r.prefix) => r.prefix # p
    BY <1>1, <2>1 DEF RunOK
  <2>4. r.at = "converted" => d # r.home
    BY <2>1 DEF RunOK
  <2> QED BY <1>1, <1>4, <2>1, <2>2, <2>3, <2>4 DEF RunOK, IsRun, Clean
<1>7. AloneInv' /\ ReqInv'
  BY DEF PlaceInv, AloneInv, ReqInv
<1> QED BY <1>2, <1>3, <1>5, <1>6, <1>7 DEF PlaceInv

LEMMA CommitKeeps ==
    ASSUME PlaceInv, commit
    PROVE  PlaceInv'
<1> SUFFICES ASSUME NEW q, q = req, NEW d, d = q.doc, NEW row, row = docs[d],
                    NEW p, p = row.prefix
             PROVE  PlaceInv'
  OBVIOUS
<1>1. /\ q # None /\ row # None
      /\ UNCHANGED <<used, blobs, runs, mixed, shared>> /\ req' = None
  BY DEF commit
<1>2. ReqOK(q) /\ d \in Docs /\ IsRow(row) /\ DOMAIN docs = Docs /\ DOMAIN pages = Docs
  BY <1>1 DEF PlaceInv, ReqInv, ReqOK, TableInv, DocInv
<1>3. p \notin shared => \A n \in DOMAIN pages[d] : IsPage(pages[d][n])
  BY <1>1, <1>2 DEF PlaceInv, DocInv
<1>4. CASE q.op = "delete"
  <2>1. docs' = [docs EXCEPT ![d] = None] /\ pages' = [pages EXCEPT ![d] = NoPages]
    BY <1>4 DEF commit, commit_delete
  <2>2. docs'[d] = None /\ DOMAIN pages'[d] = {}
    BY <1>2, <2>1 DEF NoPages
  <2> QED BY <1>1, <1>2, <2>1, <2>2, RowsKeep
<1>5. CASE q.op = "discard"
  <2>1. docs' = docs /\ pages' = [pages EXCEPT ![d] =
            [n \in DOMAIN pages[d] |-> [pages[d][n] EXCEPT !.purged = TRUE]]]
    BY <1>5 DEF commit, commit_discard
  <2>2. pages'[d] = [n \in DOMAIN pages[d] |-> [pages[d][n] EXCEPT !.purged = TRUE]]
    BY <1>2, <2>1
  <2>3. /\ DOMAIN pages'[d] = DOMAIN pages[d]
        /\ \A n \in DOMAIN pages[d] : IsPage(pages[d][n]) =>
              IsPage(pages'[d][n]) /\ pages'[d][n].visibility = pages[d][n].visibility
    <3>1. /\ DOMAIN pages'[d] = DOMAIN pages[d]
          /\ \A n \in DOMAIN pages[d] : pages'[d][n] = [pages[d][n] EXCEPT !.purged = TRUE]
      BY <2>2
    <3> SUFFICES ASSUME NEW n \in DOMAIN pages[d], NEW x, x = pages[d][n], IsPage(x)
                 PROVE  IsPage(pages'[d][n]) /\ pages'[d][n].visibility = x.visibility
      BY <3>1
    <3>2. PICK y : y = [x EXCEPT !.purged = TRUE]
      OBVIOUS
    <3>3. IsPage(y) /\ y.visibility = x.visibility
      BY <3>2 DEF IsPage
    <3> QED BY <3>1, <3>2, <3>3
  <2>4. /\ DOMAIN pages' = Docs /\ \A e \in Docs : e # d => pages'[e] = pages[e]
    BY <1>2, <2>1
  <2>5. p \notin shared => \A n \in DOMAIN pages'[d] :
            IsPage(pages'[d][n]) /\ pages'[d][n].visibility = pages[d][n].visibility
    BY <1>3, <2>3
  <2>6. /\ DOMAIN docs' = Docs /\ \A e \in Docs : e # d => docs'[e] = docs[e]
        /\ IsRow(docs'[d]) /\ docs'[d].prefix = p /\ docs'[d].visibility = row.visibility
    BY <1>2, <2>1
  <2> QED BY <1>1, <1>2, <1>5, <2>3, <2>4, <2>5, <2>6, RowsKeep
<1>6. CASE q.op = "publish"
  <2> SUFFICES ASSUME NEW v, v = q.visibility PROVE PlaceInv'
    OBVIOUS
  <2>1. /\ docs' = [docs EXCEPT ![d].visibility = v, ![d].bucket = v]
        /\ pages' = [pages EXCEPT ![d] =
            [n \in DOMAIN pages[d] |-> [pages[d][n] EXCEPT !.visibility = v]]]
    BY <1>6 DEF commit, commit_visibility
  <2>2. pages'[d] = [n \in DOMAIN pages[d] |-> [pages[d][n] EXCEPT !.visibility = v]]
    BY <1>2, <2>1
  <2>3. /\ DOMAIN pages'[d] = DOMAIN pages[d]
        /\ \A n \in DOMAIN pages[d] : IsPage(pages[d][n]) =>
              IsPage(pages'[d][n]) /\ pages'[d][n].visibility = v
    <3>1. /\ DOMAIN pages'[d] = DOMAIN pages[d]
          /\ \A n \in DOMAIN pages[d] : pages'[d][n] = [pages[d][n] EXCEPT !.visibility = v]
      BY <2>2
    <3> SUFFICES ASSUME NEW n \in DOMAIN pages[d], NEW x, x = pages[d][n], IsPage(x)
                 PROVE  IsPage(pages'[d][n]) /\ pages'[d][n].visibility = v
      BY <3>1
    <3>2. PICK y : y = [x EXCEPT !.visibility = v]
      OBVIOUS
    <3>3. IsPage(y) /\ y.visibility = v
      BY <3>2 DEF IsPage
    <3> QED BY <3>1, <3>2, <3>3
  <2>4. /\ DOMAIN pages' = Docs /\ \A e \in Docs : e # d => pages'[e] = pages[e]
        /\ DOMAIN docs' = Docs /\ \A e \in Docs : e # d => docs'[e] = docs[e]
    BY <1>2, <2>1
  <2>5. docs'[d] = [row EXCEPT !.visibility = v, !.bucket = v]
    BY <1>2, <2>1
  <2>6. IsRow(docs'[d]) /\ docs'[d].prefix = p /\ docs'[d].visibility = v
    <3>1. PICK y : y = [row EXCEPT !.visibility = v, !.bucket = v]
      OBVIOUS
    <3>2. IsRow(y) /\ y.prefix = p /\ y.visibility = v
      BY <1>2, <3>1 DEF IsRow
    <3> QED BY <2>5, <3>1, <3>2
  <2>7. p \notin shared => \A n \in DOMAIN pages'[d] :
            IsPage(pages'[d][n]) /\ pages'[d][n].visibility = v
    BY <1>3, <2>3
  <2> QED BY <1>1, <1>2, <1>6, <2>3, <2>4, <2>6, <2>7, RowsKeep
<1> QED BY <1>2, <1>4, <1>5, <1>6 DEF ReqOK

LEMMA RollbackKeeps ==
    ASSUME PlaceInv, rollback
    PROVE  PlaceInv'
<1>1. /\ mixed' = mixed \cup {req.prefix} /\ req # None /\ req' = None
      /\ UNCHANGED <<docs, pages, used, blobs, runs, shared>>
  BY DEF rollback
<1>2. TableInv' /\ DocInv'
  BY <1>1 DEF PlaceInv, TableInv, DocInv, IsRow, IsPage
<1>3. AgreeInv'
  BY <1>1 DEF PlaceInv, AgreeInv, Agrees, Clean
<1>4. RunInv'
  <2> SUFFICES ASSUME NEW k \in Jobs, NEW r, r = runs[k], r # None PROVE RunOK(r)'
    BY <1>1 DEF RunInv
  <2>1. RunOK(r)
    BY DEF PlaceInv, RunInv
  <2> QED BY <1>1, <2>1 DEF RunOK, IsRun, Clean
<1>5. AloneInv' /\ ReqInv'
  BY <1>1 DEF PlaceInv, AloneInv, ReqInv
<1> QED BY <1>2, <1>3, <1>4, <1>5 DEF PlaceInv

\* The two documents of a split share a prefix, and that is on record.
LEMMA SplitKept ==
    ASSUME PlaceInv, NEW d \in Docs, NEW e \in Fresh, docs[d] # None,
           DOMAIN docs' = Docs, DOMAIN pages' = Docs,
           IsRow(docs'[d]), docs'[d].prefix = docs[d].prefix,
           IsRow(docs'[e]), docs'[e].prefix = docs[d].prefix,
           \A c \in Docs : c # d /\ c # e => docs'[c] = docs[c] /\ pages'[c] = pages[c],
           used' = used \cup {e},
           enters(docs[d].prefix),
           shared' = shared \cup {docs[d].prefix},
           UNCHANGED <<blobs, runs, req>>
    PROVE  PlaceInv'
<1> SUFFICES ASSUME NEW row, row = docs[d], NEW p, p = row.prefix PROVE PlaceInv'
  OBVIOUS
<1>2. /\ e \in Docs /\ e \notin used /\ IsRow(row) /\ d \in used /\ p \in used
      /\ DOMAIN docs = Docs /\ DOMAIN pages = Docs /\ d # e
  BY DEF PlaceInv, TableInv, DocInv
<1>4. IsRow(docs'[d]) /\ docs'[d].prefix = p /\ IsRow(docs'[e]) /\ docs'[e].prefix = p
  OBVIOUS
<1>5. /\ DOMAIN docs' = Docs /\ DOMAIN pages' = Docs
      /\ \A c \in Docs : c # d /\ c # e => docs'[c] = docs[c] /\ pages'[c] = pages[c]
  OBVIOUS
<1>6. mixed \subseteq mixed' /\ p \in shared' /\ shared \subseteq shared'
      /\ used' = used \cup {e} /\ UNCHANGED <<blobs, runs, req>>
  BY DEF enters
<1>7. TableInv'
  BY <1>2, <1>5, <1>6 DEF PlaceInv, TableInv
<1>8. DocInv'
  <2>1. \A c \in Docs : docs'[c] # None =>
            IsRow(docs'[c]) /\ c \in used' /\ docs'[c].prefix \in used'
    BY <1>2, <1>4, <1>5, <1>6 DEF PlaceInv, DocInv
  <2>2. \A b, c \in Docs :
          docs'[b] # None /\ docs'[c] # None /\ docs'[b].prefix = docs'[c].prefix =>
              b = c \/ docs'[b].prefix \in shared'
    BY <1>2, <1>4, <1>5, <1>6 DEF PlaceInv, DocInv
  <2>3. \A c \in Docs : c \notin used' => DOMAIN pages'[c] = {}
    BY <1>2, <1>5, <1>6 DEF PlaceInv, DocInv
  <2>4. \A c \in Docs : docs'[c] # None /\ docs'[c].prefix \notin shared' =>
            \A n \in DOMAIN pages'[c] : IsPage(pages'[c][n])
    BY <1>2, <1>4, <1>5, <1>6 DEF PlaceInv, DocInv
  <2> QED BY <2>1, <2>2, <2>3, <2>4 DEF DocInv, IsRow, IsPage
<1>9. AgreeInv'
  <2> SUFFICES ASSUME NEW c \in Docs, docs'[c] # None, docs'[c].prefix \notin mixed',
                      docs'[c].prefix \notin shared',
                      req # None => req.prefix # docs'[c].prefix
               PROVE  Agrees(c)'
    BY <1>6 DEF AgreeInv, Clean
  <2>1. c # d /\ c # e
    BY <1>4, <1>5, <1>6
  <2>2. Agrees(c)
    BY <1>5, <1>6, <2>1 DEF PlaceInv, AgreeInv, Clean
  <2> QED BY <1>5, <1>6, <2>1, <2>2 DEF Agrees
<1>10. RunInv'
  <2> SUFFICES ASSUME NEW k \in Jobs, NEW r, r = runs[k], r # None PROVE RunOK(r)'
    BY <1>6 DEF RunInv
  <2>1. RunOK(r)
    BY DEF PlaceInv, RunInv
  <2>2. r.prefix # None => r.home \in Docs /\ r.home # e
    BY <1>2, <2>1 DEF RunOK, PlaceInv, TableInv
  <2>3. r.at = "converted" => r.home # d /\ r.prefix # p /\ r.home # e /\ r.home \in Docs
    BY <2>1, <2>2 DEF RunOK
  <2>4. r.prefix # None /\ r.home = d => r.prefix = p
    BY <2>1 DEF RunOK
  <2>5. IsRun(r)' /\ (r.prefix # None => r.prefix \in used')
    BY <1>6, <2>1 DEF RunOK, IsRun
  <2>6. r.prefix # None /\ docs'[r.home] # None => docs'[r.home].prefix = r.prefix
    BY <1>4, <1>5, <2>1, <2>2, <2>4 DEF RunOK
  <2>7. r.prefix # None /\ Clean(r.prefix)' =>
            /\ \A c \in Docs : docs'[c] # None /\ docs'[c].prefix = r.prefix =>
                  c = r.home /\ docs'[c].visibility = r.visibility
            /\ \A b \in blobs' : b[2] = r.prefix => b[1] = r.visibility
            /\ req' # None => req'.prefix # r.prefix
    BY <1>4, <1>5, <1>6, <2>1 DEF RunOK, Clean
  <2>8. r.at = "converted" =>
          /\ docs'[r.home] = None /\ DOMAIN pages'[r.home] = {}
          /\ \A c \in Docs : docs'[c] # None => docs'[c].prefix # r.prefix
          /\ req' # None => req'.doc # r.home
    BY <1>4, <1>5, <1>6, <2>1, <2>3 DEF RunOK
  <2>9. r.prefix # None => r.home \in used'
    BY <1>6, <2>1 DEF RunOK
  <2> QED BY <2>1, <2>5, <2>6, <2>7, <2>8, <2>9 DEF RunOK
<1>11. AloneInv'
  BY <1>6 DEF PlaceInv, AloneInv
<1>12. ReqInv'
  <2> SUFFICES ASSUME NEW q, q = req', q # None PROVE ReqOK(q)'
    BY DEF ReqInv
  <2>1. ReqOK(q) /\ q.doc \in Docs /\ q.doc # e
    BY <1>2, <1>6 DEF PlaceInv, ReqInv, ReqOK, TableInv
  <2>2. q.doc = d => q.prefix = p
    BY <2>1 DEF ReqOK
  <2> QED BY <1>4, <1>5, <1>6, <2>1, <2>2 DEF ReqOK, Clean
<1> QED BY <1>7, <1>8, <1>9, <1>10, <1>11, <1>12 DEF PlaceInv

LEMMA SplitKeeps ==
    ASSUME PlaceInv, split_document
    PROVE  PlaceInv'
<1> SUFFICES ASSUME
        NEW d \in Live, NEW e \in Fresh, NEW cut \in 2..(2 * Sheets + MaxImages),
        LET head == {n \in DOMAIN pages[d] : n < cut}
            tail == DOMAIN pages[d] \ head
        IN
        /\ docs' = [docs EXCEPT ![d].count = Cardinality(head),
                                ![e] = [docs[d] EXCEPT !.count = Cardinality(tail)]]
        /\ pages' = [pages EXCEPT
                ![d] = [n \in DOMAIN renumber(@, head) |->
                            [renumber(@, head)[n] EXCEPT !.visibility = docs[d].visibility]],
                ![e] = [n \in DOMAIN renumber(pages[d], tail) |->
                            [renumber(pages[d], tail)[n] EXCEPT !.visibility = docs[d].visibility]]]
        /\ used' = used \cup {e}
        /\ enters(docs[d].prefix)
        /\ shared' = shared \cup {docs[d].prefix}
        /\ UNCHANGED <<blobs, runs, req>>
    PROVE  PlaceInv'
  BY Zenon DEF split_document
<1>0. PICK heads, tails, f, g :
        /\ docs' = [docs EXCEPT ![d].count = heads, ![e] = [docs[d] EXCEPT !.count = tails]]
        /\ pages' = [pages EXCEPT ![d] = f, ![e] = g]
  OBVIOUS
<1>1. d \in Docs /\ docs[d] # None
  BY DEF Live
<1>6. /\ used' = used \cup {e}
      /\ enters(docs[d].prefix)
      /\ shared' = shared \cup {docs[d].prefix}
      /\ UNCHANGED <<blobs, runs, req>>
  OBVIOUS
<1>2. /\ e \in Docs /\ e \notin used /\ IsRow(docs[d]) /\ d \in used
      /\ DOMAIN docs = Docs /\ DOMAIN pages = Docs /\ d # e
  BY <1>1 DEF PlaceInv, TableInv, DocInv
<1>3. PICK x, y : x = [docs[d] EXCEPT !.count = heads] /\ y = [docs[d] EXCEPT !.count = tails]
  OBVIOUS
<1>4. IsRow(x) /\ x.prefix = docs[d].prefix /\ IsRow(y) /\ y.prefix = docs[d].prefix
  BY <1>2, <1>3 DEF IsRow
<1>5. /\ DOMAIN docs' = Docs /\ docs'[d] = x /\ docs'[e] = y
      /\ DOMAIN pages' = Docs
      /\ \A c \in Docs : c # d /\ c # e => docs'[c] = docs[c] /\ pages'[c] = pages[c]
  BY <1>0, <1>1, <1>2, <1>3
<1>7. IsRow(docs'[d]) /\ docs'[d].prefix = docs[d].prefix
      /\ IsRow(docs'[e]) /\ docs'[e].prefix = docs[d].prefix
  BY <1>4, <1>5
<1> QED BY <1>1, <1>5, <1>6, <1>7, SplitKept

-----------------------------------------------------------------------------
LEMMA InvNext == PlaceInv /\ [Next]_vars => PlaceInv'
<1> SUFFICES ASSUME PlaceInv, [Next]_vars PROVE PlaceInv'
  OBVIOUS
<1>1. ASSUME NEW j \in Jobs,
             \/ upload_pdf(j) \/ rerasterize_job(j) \/ compact_pdf_job(j)
             \/ start_download(j) \/ Step(j) \/ dies(j) \/ crash(j)
      PROVE  PlaceInv'
  BY <1>1, UploadsKeep, JobsKeep, LoadPdfKeeps, RendersKeep, PutImageKeeps, CommitPageKeeps,
     ConvertKeeps, InsertKeeps DEF Step
<1>2. CASE upload_images
  BY <1>2, UploadsKeep
<1>3. CASE discard_images \/ delete_document \/ set_visibility
  BY <1>3, RequestsKeep
<1>4. CASE commit \/ rollback
  BY <1>4, CommitKeeps, RollbackKeeps
<1>5. CASE split_document
  BY <1>5, SplitKeeps
<1>6. CASE set_raster_settings \/ UNCHANGED vars
  <2>1. UNCHANGED <<docs, pages, used, blobs, runs, req, mixed, shared>>
    BY <1>6 DEF set_raster_settings
  <2>2. \A d \in Docs : docs[d] # None => IsRow(docs[d])
    BY DEF PlaceInv, DocInv
  <2> QED BY <2>1, <2>2, QuietKeeps DEF PlaceInv, TableInv, IsRow
<1> QED BY <1>1, <1>2, <1>3, <1>4, <1>5, <1>6 DEF Next

\* Nothing of a private document ever lies in the public bucket, nor the other way round, and
\* its pages say what it says, unless two were at work under its prefix at once, a request
\* failed there after it had moved the blobs, or the document was split.
THEOREM OnePlace == Spec => []OneVisibility
<1>1. PlaceInv /\ [Next]_vars => PlaceInv'
  BY InvNext
<1> QED BY InvInit, InvImplies, <1>1, PTL DEF Spec

-----------------------------------------------------------------------------
(* The images behind the pages                                             *)

\* The key of a page names its document's prefix and its number, until a split.
KeyInv ==
    \A d \in Docs : docs[d] # None /\ docs[d].prefix \notin shared =>
        \A n \in DOMAIN pages[d] : pages[d][n].key = <<docs[d].prefix, n>>

Behind(d, visibility) ==
    \A n \in DOMAIN pages[d] :
        ~pages[d][n].purged => <<visibility, docs[d].prefix, n>> \in blobs
ImageInv ==
    \A d \in Docs :
        docs[d] # None /\ Clean(docs[d].prefix) /\ (req # None => req.prefix # docs[d].prefix)
            => Behind(d, docs[d].visibility)

\* What a run has under its prefix while it is alone there: the original it is about to render
\* again, no page once it has wiped them, the image whose row it is about to commit.
RunHas(r) ==
    r.prefix # None /\ Clean(r.prefix) =>
        /\ r.at = "loaded" /\ r.kind = "rerasterize" => <<r.visibility, r.prefix, 0>> \in blobs
        /\ r.at = "wiped" => DOMAIN pages[r.home] = {}
        /\ r.at = "stored" => <<r.visibility, r.prefix, Min(r.todo)>> \in blobs
HasInv == \A j \in Jobs : \A r \in {runs[j]} : r # None => RunHas(r)

\* A request that has moved the blobs has moved the images of the pages with them.
MovedInv ==
    \A q \in {req} : q # None /\ q.op = "publish" /\ Clean(q.prefix) /\ docs[q.doc] # None =>
        Behind(q.doc, q.visibility)

ShownInv == KeyInv /\ ImageInv /\ HasInv /\ MovedInv

LEMMA ShownInit == Init => ShownInv
<1> SUFFICES ASSUME Init PROVE ShownInv
  OBVIOUS
<1> QED BY DEF Init, ShownInv, KeyInv, ImageInv, HasInv, MovedInv

LEMMA ShownImplies == PlaceInv /\ ShownInv => ImagesReadable
<1> SUFFICES ASSUME PlaceInv, ShownInv, NEW d \in Docs, docs[d] # None,
                    docs[d].prefix \notin mixed, docs[d].prefix \notin shared,
                    req # None => req.prefix # docs[d].prefix,
                    NEW n \in DOMAIN pages[d], ~pages[d][n].purged
             PROVE  Image(docs[d].bucket, pages[d][n].key) \in blobs
  BY DEF ImagesReadable, InTurn, Live
<1>1. docs[d].bucket = docs[d].visibility
  BY DEF PlaceInv, DocInv, IsRow
<1>2. pages[d][n].key = <<docs[d].prefix, n>>
  BY DEF ShownInv, KeyInv
<1>3. <<docs[d].visibility, docs[d].prefix, n>> \in blobs
  BY DEF ShownInv, ImageInv, Behind, Clean
<1> QED BY <1>1, <1>2, <1>3 DEF Image

\* Steps after which there is no other page and no less in storage.
LEMMA AddsShow ==
    ASSUME PlaceInv, ShownInv,
           req' = req, shared \subseteq shared', mixed \subseteq mixed', blobs \subseteq blobs',
           \A d \in Docs : docs'[d] # None =>
                \/ DOMAIN pages'[d] = {}
                \/ /\ docs[d] # None
                   /\ docs'[d].prefix = docs[d].prefix /\ docs'[d].visibility = docs[d].visibility,
           \A d \in Docs : \A n \in DOMAIN pages'[d] :
                n \in DOMAIN pages[d] /\ pages'[d][n] = pages[d][n],
           \A k \in Jobs : runs'[k] = runs[k] \/ runs'[k] = None \/ RunHas(runs[k])'
    PROVE  ShownInv'
<1>1. \A p : Clean(p)' => Clean(p)
  BY DEF Clean
<1>2. KeyInv'
  BY DEF ShownInv, KeyInv
<1>3. ImageInv'
  BY <1>1 DEF ShownInv, ImageInv, Behind
<1>4. HasInv'
  <2> SUFFICES ASSUME NEW k \in Jobs, NEW x, x = runs'[k], x # None PROVE RunHas(x)'
    BY DEF HasInv
  <2>1. CASE x = runs[k]
    <3>1. RunHas(x) /\ (x.prefix # None => x.home \in Docs)
      BY <2>1, RunIs DEF ShownInv, HasInv, RunOK, PlaceInv, TableInv
    <3> QED BY <1>1, <3>1 DEF RunHas
  <2> QED BY <2>1
<1>5. MovedInv'
  <2> SUFFICES ASSUME NEW q, q = req, q # None, q.op = "publish", Clean(q.prefix)', docs'[q.doc] # None
               PROVE  Behind(q.doc, q.visibility)'
    BY DEF MovedInv
  <2>1. q.doc \in Docs
    BY DEF PlaceInv, ReqInv, ReqOK, TableInv
  <2> QED BY <1>1, <2>1 DEF ShownInv, MovedInv, Behind
<1> QED BY <1>2, <1>3, <1>4, <1>5 DEF ShownInv

\* A run moves on, and at most stores something.
LEMMA MoveShows ==
    ASSUME PlaceInv, ShownInv, NEW j \in Jobs, NEW x, runs' = [runs EXCEPT ![j] = x],
           UNCHANGED <<docs, pages, req, shared>>, mixed \subseteq mixed', blobs \subseteq blobs',
           x.prefix = None \/ x.at \notin {"loaded", "wiped", "stored"} \/ RunHas(x)'
    PROVE  ShownInv'
<1>1. DOMAIN runs = Jobs
  BY DEF PlaceInv, TableInv
<1>2. runs'[j] = x /\ \A k \in Jobs : k # j => runs'[k] = runs[k]
  BY <1>1
<1>3. RunHas(x)'
  BY DEF RunHas
<1>4. \A k \in Jobs : runs'[k] = runs[k] \/ runs'[k] = None \/ RunHas(runs[k])'
  BY <1>2, <1>3
<1> QED BY <1>4, AddsShow

LEMMA JobsShow ==
    ASSUME PlaceInv, ShownInv, NEW j \in Jobs,
           \/ rerasterize_job(j) \/ compact_pdf_job(j) \/ start_download(j)
           \/ load_pages(j) \/ convert(j) \/ leave_download(j) \/ dies(j) \/ crash(j)
    PROVE  ShownInv'
<1>0. Done.prefix = None /\ \A kind, d : Queued(kind, d).prefix = None
  BY DEF Done, Queued
<1>1. CASE rerasterize_job(j) \/ compact_pdf_job(j)
  <2>1. PICK kind, d : /\ runs' = [runs EXCEPT ![j] = Queued(kind, d)]
                       /\ UNCHANGED <<docs, pages, blobs, req, mixed, shared>>
    BY <1>1 DEF rerasterize_job, compact_pdf_job, job_for, goes
  <2> QED BY <1>0, <2>1, MoveShows
<1>2. CASE start_download(j) \/ leave_download(j) \/ dies(j) \/ crash(j)
  <2>1. PICK x : /\ runs' = [runs EXCEPT ![j] = x]
                 /\ UNCHANGED <<docs, pages, blobs, req, mixed, shared>>
                 /\ x.prefix = None
    BY <1>0, <1>2 DEF start_download, leave_download, dies, crash, goes
  <2> QED BY <2>1, MoveShows
<1>3. CASE load_pages(j)
  <2>1. runs[j] # None /\ runs[j].at = "queued"
    BY <1>3 DEF load_pages, At
  <2>2. IsRun(runs[j]) /\ runs[j].prefix = None
    BY <2>1, RunIs DEF RunOK
  <2>3. PICK x : /\ runs' = [runs EXCEPT ![j] = x]
                 /\ UNCHANGED <<docs, pages, blobs, req, mixed, shared>>
                 /\ x.prefix = None
    <3>1. CASE docs[runs[j].doc] = None
      BY <1>0, <1>3, <3>1 DEF load_pages, goes
    <3>2. CASE docs[runs[j].doc] # None
      <4> DEFINE d == runs[j].doc
                 row == docs[d]
                 x == [runs[j] EXCEPT !.at = "loaded", !.bucket = row.bucket,
                        !.visibility = row.visibility, !.todo = DOMAIN pages[d],
                        !.wanted = {pages[d][n].key : n \in DOMAIN pages[d]},
                        !.total = Cardinality(DOMAIN pages[d])]
      <4>1. runs' = [runs EXCEPT ![j] = x] /\ UNCHANGED <<docs, pages, blobs, req, mixed, shared>>
        BY <1>3, <3>2 DEF load_pages, goes
      <4>2. x.prefix = None
        <5> HIDE DEF row, d
        <5> QED BY <2>2 DEF IsRun
      <4> HIDE DEF x
      <4> QED BY <4>1, <4>2
    <3> QED BY <3>1, <3>2
  <2> QED BY <2>3, MoveShows
<1>4. CASE convert(j)
  <2>1. runs[j] # None /\ IsRun(runs[j])
    BY <1>4, RunIs DEF convert, At
  <2>2. CASE goes(j, Done) /\ UNCHANGED <<used, blobs>>
    BY <1>0, <1>4, <2>2, MoveShows DEF convert, goes
  <2>3. ASSUME NEW d \in Fresh,
               blobs' = blobs \cup {Original(runs[j].bucket, d)},
               goes(j, [runs[j] EXCEPT !.at = "converted", !.home = d, !.prefix = d, !.wanted = {}])
        PROVE  ShownInv'
    <3>1. PICK x : x = [runs[j] EXCEPT !.at = "converted", !.home = d, !.prefix = d, !.wanted = {}]
      OBVIOUS
    <3>2. x.at = "converted"
      BY <2>1, <3>1 DEF IsRun
    <3> QED BY <1>4, <2>3, <3>1, <3>2, MoveShows DEF convert, goes
  <2> QED BY <1>4, <2>2, <2>3 DEF convert
<1> QED BY <1>1, <1>2, <1>3, <1>4

\* A run begins to render, stores an image, or ends.
LEMMA RendersShow ==
    ASSUME PlaceInv, ShownInv, NEW j \in Jobs,
           load_pdf(j) \/ put_image(j) \/ wipe(j) \/ finish(j) \/ end_download(j)
    PROVE  ShownInv'
<1> DEFINE r == runs[j]
<1>0. Done.prefix = None
  BY DEF Done, Queued
<1>1. r # None /\ IsRun(r) /\ RunOK(r) /\ RunHas(r) /\ DOMAIN runs = Jobs /\ DOMAIN pages = Docs
      /\ DOMAIN docs = Docs
  BY RunIs DEF load_pdf, put_image, wipe, finish, end_download, At, ShownInv, HasInv, PlaceInv, TableInv
<1>2. CASE load_pdf(j)
  <2>1. CASE goes(j, Done) /\ UNCHANGED mixed
    BY <1>0, <1>2, <2>1, MoveShows DEF load_pdf, goes
  <2>2. CASE ~(goes(j, Done) /\ UNCHANGED mixed)
    <3> DEFINE d == r.doc
               row == docs[d]
    <3>1. PICK x : /\ runs' = [runs EXCEPT ![j] = x]
                   /\ x = [r EXCEPT
                        !.at = IF r.kind = "rasterize" THEN "ready" ELSE "loaded",
                        !.home = d, !.prefix = row.prefix, !.bucket = row.bucket,
                        !.visibility = row.visibility, !.todo = Rendered,
                        !.total = Cardinality(Rendered)]
      BY <1>2, <2>2 DEF load_pdf, goes
    <3>2. /\ row # None /\ <<row.bucket, row.prefix, 0>> \in blobs
          /\ UNCHANGED <<docs, pages, blobs, req, shared>> /\ mixed \subseteq mixed'
          /\ d \in Docs
      BY <1>1, <1>2, <2>2 DEF load_pdf, can_render, Original, enters, At, Rasters, IsRun
    <3>3. row.bucket = row.visibility
      BY <3>2 DEF PlaceInv, DocInv, IsRow
    <3>4. x.at \in {"ready", "loaded"} /\ x.visibility = row.visibility /\ x.prefix = row.prefix
      BY <1>1, <3>1 DEF IsRun
    <3>5. RunHas(x)'
      BY <3>2, <3>3, <3>4 DEF RunHas
    <3> QED BY <3>1, <3>2, <3>5, MoveShows
  <2> QED BY <2>1, <2>2
<1>3. CASE put_image(j)
  <2>1. PICK x : runs' = [runs EXCEPT ![j] = x] /\ x = [r EXCEPT !.at = "stored"]
    BY <1>3 DEF put_image, goes
  <2>2. /\ x.at = "stored" /\ x.prefix = r.prefix /\ x.visibility = r.visibility /\ x.todo = r.todo
        /\ r.bucket = r.visibility
    BY <1>1, <2>1 DEF IsRun
  <2>3. /\ <<r.bucket, r.prefix, Min(r.todo)>> \in blobs' /\ blobs \subseteq blobs'
        /\ UNCHANGED <<docs, pages, req, mixed, shared>>
    BY <1>3 DEF put_image
  <2>4. RunHas(x)'
    BY <2>2, <2>3 DEF RunHas
  <2> QED BY <2>1, <2>3, <2>4, MoveShows
<1>4. CASE wipe(j)
  <2>1. PICK x : runs' = [runs EXCEPT ![j] = x] /\ x = [r EXCEPT !.at = "wiped"]
    BY <1>4 DEF wipe, goes
  <2>2. x.at = "wiped" /\ x.home = r.home /\ x.prefix = r.prefix
    BY <1>1, <2>1 DEF IsRun
  <2>3. /\ pages' = [pages EXCEPT ![r.home] = NoPages]
        /\ UNCHANGED <<docs, blobs, req, mixed, shared>>
    BY <1>4 DEF wipe
  <2>4. r.prefix # None /\ r.home \in Docs
    <3>1. r.at = "loaded" /\ r.kind = "rerasterize"
      BY <1>4 DEF wipe, At
    <3> QED BY <1>1, <3>1 DEF RunOK, PlaceInv, TableInv
  <2>5. DOMAIN pages'[r.home] = {} /\ \A d \in Docs : d # r.home => pages'[d] = pages[d]
    BY <1>1, <2>3, <2>4 DEF NoPages
  <2>6. RunHas(x)'
    BY <2>2, <2>5 DEF RunHas
  <2>7. \A k \in Jobs : runs'[k] = runs[k] \/ runs'[k] = None \/ RunHas(runs[k])'
    BY <1>1, <2>1, <2>6
  <2>8. \A d \in Docs : \A n \in DOMAIN pages'[d] : n \in DOMAIN pages[d] /\ pages'[d][n] = pages[d][n]
    BY <2>5
  <2> QED BY <2>3, <2>7, <2>8, AddsShow
<1>5. CASE finish(j) \/ end_download(j)
  <2>1. /\ runs' = [runs EXCEPT ![j] = Done] /\ UNCHANGED <<blobs, req, mixed, shared>>
        /\ r.prefix # None /\ r.home \in Docs
    BY <1>1, <1>5 DEF finish, end_download, goes, At, RunOK, PlaceInv, TableInv, Rasters
  <2>2. RunHas(Done)'
    BY <1>0 DEF RunHas
  <2>3. \A k \in Jobs : runs'[k] = runs[k] \/ runs'[k] = None \/ RunHas(runs[k])'
    BY <1>1, <2>1, <2>2
  <2>4. \A d \in Docs : \A n \in DOMAIN pages'[d] : n \in DOMAIN pages[d] /\ pages'[d][n] = pages[d][n]
    BY <1>1, <1>5, <2>1 DEF finish, end_download, NoPages
  <2>5. ASSUME NEW d \in Docs, docs'[d] # None
        PROVE  docs[d] # None /\ docs'[d].prefix = docs[d].prefix /\ docs'[d].visibility = docs[d].visibility
    <3>1. docs[d] # None => IsRow(docs[d])
      BY DEF PlaceInv, DocInv
    <3>2. PICK n : docs' \in {docs, [docs EXCEPT ![r.home] = None]} \/ (docs[r.home] # None /\ docs' = [docs EXCEPT ![r.home].count = n])
      BY <1>5 DEF finish, end_download, counts
    <3> QED BY <1>1, <2>1, <2>5, <3>1, <3>2 DEF IsRow
  <2> QED BY <2>1, <2>3, <2>4, <2>5, AddsShow
<1> QED BY <1>2, <1>3, <1>4, <1>5

\* The document a run made, or an upload, appears.
LEMMA InsertShows == ASSUME PlaceInv, ShownInv, NEW j \in Jobs, insert_document(j) PROVE ShownInv'
<1> DEFINE r == runs[j]
<1>1. /\ r # None /\ IsRun(r) /\ RunOK(r) /\ DOMAIN runs = Jobs /\ DOMAIN docs = Docs
      /\ UNCHANGED <<pages, blobs, req, mixed, shared>> /\ r.at = "converted"
  BY RunIs DEF insert_document, At, PlaceInv, TableInv
<1>2. Done.prefix = None
  BY DEF Done, Queued
<1>3. CASE docs[r.doc] = None
  BY <1>1, <1>2, <1>3, MoveShows DEF insert_document, goes
<1>4. CASE docs[r.doc] # None
  <2>1. PICK x, y : /\ runs' = [runs EXCEPT ![j] = x] /\ x = [r EXCEPT !.at = "ready"]
                    /\ docs' = [docs EXCEPT ![r.home] = y]
    BY <1>1, <1>4 DEF insert_document, goes
  <2>2. x.at = "ready"
    BY <1>1, <2>1 DEF IsRun
  <2>3. RunHas(x)'
    BY <2>2 DEF RunHas
  <2>4. \A k \in Jobs : runs'[k] = runs[k] \/ runs'[k] = None \/ RunHas(runs[k])'
    BY <1>1, <2>1, <2>3
  <2>5. DOMAIN pages'[r.home] = {} /\ \A d \in Docs : d # r.home => docs'[d] = docs[d]
    BY <1>1, <2>1 DEF RunOK
  <2> QED BY <1>1, <2>4, <2>5, AddsShow
<1> QED BY <1>3, <1>4

\* A new document takes a fresh id; its pages, if it has any, have their images.
LEMMA TakeShows ==
    ASSUME PlaceInv, ShownInv, NEW d \in Docs, d \notin used, NEW v, NEW kind, NEW source, NEW count,
           NEW images, take(d, Document(d, v, kind, source, count), images),
           blobs \subseteq blobs', \A n \in images : <<v, d, n>> \in blobs',
           UNCHANGED <<req, mixed, shared>>,
           \A k \in Jobs : runs'[k] = runs[k] \/ runs'[k] = None \/ runs'[k].at \in {"queued", "ready"}
    PROVE  ShownInv'
<1>1. DOMAIN docs = Docs /\ DOMAIN pages = Docs
  BY DEF PlaceInv, TableInv
<1>2. PICK row, f : /\ docs' = [docs EXCEPT ![d] = row] /\ row = Document(d, v, kind, source, count)
                    /\ pages' = [pages EXCEPT ![d] = f]
                    /\ f = [n \in images |-> Page(<<d, n>>, row.visibility)]
  BY DEF take
<1>3. row.prefix = d /\ row.visibility = v
  BY <1>2 DEF Document
<1>4. DOMAIN f = images /\ \A n \in images : f[n].key = <<d, n>>
  BY <1>2 DEF Page
<1>5. /\ docs'[d] = row /\ pages'[d] = f
      /\ \A c \in Docs : c # d => docs'[c] = docs[c] /\ pages'[c] = pages[c]
  BY <1>1, <1>2
<1>6. Clean(d)' = Clean(d) /\ \A p : Clean(p)' = Clean(p)
  BY DEF Clean
<1>7. KeyInv'
  BY <1>3, <1>4, <1>5 DEF ShownInv, KeyInv
<1>8. ImageInv'
  BY <1>3, <1>4, <1>5, <1>6 DEF ShownInv, ImageInv, Behind
<1>9. HasInv'
  <2> SUFFICES ASSUME NEW k \in Jobs, NEW x, x = runs'[k], x # None PROVE RunHas(x)'
    BY DEF HasInv
  <2>1. CASE x = runs[k]
    <3>1. RunHas(x) /\ (x.prefix # None => x.home \in Docs /\ x.home # d)
      BY <2>1, RunIs DEF ShownInv, HasInv, RunOK, PlaceInv, TableInv
    <3> QED BY <1>5, <1>6, <3>1 DEF RunHas
  <2>2. CASE x.at \in {"queued", "ready"}
    BY <2>2 DEF RunHas
  <2> QED BY <2>1, <2>2
<1>10. MovedInv'
  <2> SUFFICES ASSUME NEW q, q = req, q # None, q.op = "publish", Clean(q.prefix), docs'[q.doc] # None
               PROVE  Behind(q.doc, q.visibility)'
    BY <1>6 DEF MovedInv
  <2>1. q.doc \in Docs /\ q.doc # d
    BY DEF PlaceInv, ReqInv, ReqOK, TableInv
  <2> QED BY <1>5, <2>1 DEF ShownInv, MovedInv, Behind
<1> QED BY <1>7, <1>8, <1>9, <1>10 DEF ShownInv

LEMMA UploadsShow ==
    ASSUME PlaceInv, ShownInv,
           upload_images \/ \E j \in Jobs : upload_pdf(j) \/ begin_download(j)
    PROVE  ShownInv'
<1>1. used \subseteq Docs /\ DOMAIN runs = Jobs
  BY DEF PlaceInv, TableInv
<1>2. ASSUME NEW d \in Fresh PROVE d \in Docs /\ d \notin used
  OBVIOUS
<1>3. CASE upload_images
  <2>1. PICK d \in Fresh, n \in 1..MaxImages, v \in {"private", "public"} :
            /\ blobs' = blobs \cup {<<v, d, i>> : i \in 1..n}
            /\ take(d, Document(d, v, "image_set", "upload", n), 1..n)
            /\ UNCHANGED <<autosplit, runs, req, bounds, mixed, shared>>
    BY <1>3 DEF upload_images
  <2> QED BY <1>2, <2>1, TakeShows
<1>4. ASSUME NEW j \in Jobs, upload_pdf(j) PROVE ShownInv'
  <2>1. PICK d \in Fresh, v \in {"private", "public"} :
            /\ runs[j] = None
            /\ blobs' = blobs \cup {Original(v, d)}
            /\ take(d, Document(d, v, "pdf", "upload", Sheets), {})
            /\ goes(j, Queued("rasterize", d))
            /\ UNCHANGED <<autosplit, req, bounds, mixed, shared>>
    BY <1>4 DEF upload_pdf
  <2>2. \A k \in Jobs : runs'[k] = runs[k] \/ runs'[k].at \in {"queued", "ready"}
    BY <1>1, <2>1 DEF goes, Queued
  <2> QED BY <1>2, <2>1, <2>2, TakeShows
<1>5. ASSUME NEW j \in Jobs, begin_download(j) PROVE ShownInv'
  <2>1. PICK d \in Fresh, n \in 0..MaxImages :
            /\ take(d, Document(d, "private", "image_set", "familysearch", 0), {})
            /\ goes(j, [runs[j] EXCEPT !.at = "ready", !.home = d, !.prefix = d,
                            !.bucket = "private", !.visibility = "private",
                            !.todo = 1..n, !.total = n])
            /\ UNCHANGED <<blobs, autosplit, req, bounds, mixed, shared>>
    BY <1>5 DEF begin_download
  <2>2. runs[j] # None /\ IsRun(runs[j])
    BY <1>5, RunIs DEF begin_download, At
  <2>3. PICK x : goes(j, x) /\ x = [runs[j] EXCEPT !.at = "ready", !.home = d, !.prefix = d,
                            !.bucket = "private", !.visibility = "private",
                            !.todo = 1..n, !.total = n]
    BY <2>1
  <2>4. x.at = "ready"
    BY <2>2, <2>3 DEF IsRun
  <2>5. \A k \in Jobs : runs'[k] = runs[k] \/ runs'[k].at \in {"queued", "ready"}
    BY <1>1, <2>3, <2>4 DEF goes
  <2> QED BY <1>2, <2>1, <2>5, TakeShows
<1> QED BY <1>3, <1>4, <1>5

\* The images that are cleared belong to no page: they were wiped, and nobody else is there.
LEMMA ClearShows == ASSUME PlaceInv, ShownInv, NEW j \in Jobs, clear_images(j) PROVE ShownInv'
<1> DEFINE r == runs[j]
<1>1. /\ r # None /\ r.at = "wiped" /\ IsRun(r) /\ RunOK(r) /\ RunHas(r) /\ DOMAIN runs = Jobs
      /\ UNCHANGED <<docs, pages, req, mixed, shared>>
  BY RunIs DEF clear_images, At, ShownInv, HasInv, PlaceInv, TableInv
<1>2. r.prefix # None /\ r.home \in Docs
  BY <1>1 DEF RunOK, PlaceInv, TableInv
<1>3. \A b \in blobs : b \in blobs' \/ b[2] = r.prefix
  BY DEF clear_images, Under
<1>4. PICK x : runs' = [runs EXCEPT ![j] = x] /\ x = [r EXCEPT !.at = "ready"]
  BY DEF clear_images, goes
<1>5. x.at = "ready" /\ runs'[j] = x /\ \A k \in Jobs : k # j => runs'[k] = runs[k]
  BY <1>1, <1>4 DEF IsRun
<1>6. KeyInv'
  BY <1>1 DEF ShownInv, KeyInv
<1>7. ASSUME NEW v, NEW p, NEW n, p # r.prefix, <<v, p, n>> \in blobs PROVE <<v, p, n>> \in blobs'
  BY <1>3, <1>7
<1>8. ImageInv'
  <2> SUFFICES ASSUME NEW d \in Docs, docs[d] # None, Clean(docs[d].prefix),
                      req # None => req.prefix # docs[d].prefix
               PROVE  Behind(d, docs[d].visibility)'
    BY <1>1 DEF ImageInv, Clean
  <2>1. CASE docs[d].prefix = r.prefix
    <3>1. d = r.home /\ DOMAIN pages[d] = {}
      BY <1>1, <1>2, <2>1 DEF RunOK, RunHas
    <3> QED BY <1>1, <3>1 DEF Behind
  <2>2. CASE docs[d].prefix # r.prefix
    <3>1. Behind(d, docs[d].visibility)
      BY DEF ShownInv, ImageInv
    <3> QED BY <1>1, <1>7, <2>2, <3>1 DEF Behind
  <2> QED BY <2>1, <2>2
<1>9. HasInv'
  <2> SUFFICES ASSUME NEW k \in Jobs, NEW y, y = runs'[k], y # None, y.prefix # None, Clean(y.prefix)
               PROVE  RunHas(y)'
    BY <1>1 DEF HasInv, RunHas, Clean
  <2>1. CASE k = j
    BY <1>5, <2>1 DEF RunHas
  <2>2. CASE k # j
    <3>1. y = runs[k] /\ RunHas(y) /\ y.prefix # r.prefix
      BY <1>1, <1>2, <1>5, <2>2 DEF ShownInv, HasInv, PlaceInv, AloneInv, Clean
    <3> QED BY <1>1, <1>7, <3>1 DEF RunHas, Clean
  <2> QED BY <2>1, <2>2
<1>10. MovedInv'
  <2> SUFFICES ASSUME NEW q, q = req, q # None, q.op = "publish", Clean(q.prefix), docs[q.doc] # None
               PROVE  Behind(q.doc, q.visibility)'
    BY <1>1 DEF MovedInv, Clean
  <2>1. q.prefix # r.prefix
    BY <1>1, <1>2 DEF RunOK
  <2>2. docs[q.doc].prefix = q.prefix
    BY DEF PlaceInv, ReqInv, ReqOK
  <2>3. Behind(q.doc, q.visibility)
    BY DEF ShownInv, MovedInv
  <2> QED BY <1>1, <1>7, <2>1, <2>2, <2>3 DEF Behind
<1> QED BY <1>6, <1>8, <1>9, <1>10 DEF ShownInv

\* The row that is committed has its image.
LEMMA CommitPageShows == ASSUME PlaceInv, ShownInv, NEW j \in Jobs, commit_page(j) PROVE ShownInv'
<1> DEFINE r == runs[j]
           n == Min(r.todo)
           d == r.home
<1>1. /\ r # None /\ r.at = "stored" /\ IsRun(r) /\ RunOK(r) /\ RunHas(r) /\ DOMAIN runs = Jobs
      /\ DOMAIN pages = Docs /\ UNCHANGED <<docs, blobs, req, mixed, shared>>
  BY RunIs DEF commit_page, At, ShownInv, HasInv, PlaceInv, TableInv
<1>2. r.prefix # None /\ d \in Docs
  BY <1>1 DEF RunOK, PlaceInv, TableInv
<1>3. CASE docs[d] = None \/ n \in DOMAIN pages[d]
  <2>1. Done.prefix = None
    BY DEF Done, Queued
  <2> QED BY <1>1, <1>3, <2>1, MoveShows DEF commit_page, goes
<1>4. CASE ~(docs[d] = None \/ n \in DOMAIN pages[d])
  <2>1. PICK x, g, f : /\ x = [r EXCEPT !.at = "ready", !.todo = r.todo \ {n}]
                       /\ runs' = [runs EXCEPT ![j] = x]
                       /\ g = page_row(r, n) /\ f = With(pages[d], n, g)
                       /\ pages' = [pages EXCEPT ![d] = f]
    BY <1>4 DEF commit_page, goes
  <2>2. x.at = "ready"
    BY <1>1, <2>1 DEF IsRun
  <2>3. runs'[j] = x /\ \A k \in Jobs : k # j => runs'[k] = runs[k]
    BY <1>1, <2>1
  <2>4. g.key = <<r.prefix, n>>
    BY <2>1 DEF page_row, Page
  <2>5. /\ pages'[d] = f /\ \A e \in Docs : e # d => pages'[e] = pages[e]
        /\ \A m \in DOMAIN f : (m \in DOMAIN pages[d] /\ f[m] = pages[d][m]) \/ (m = n /\ f[m] = g)
    BY <1>1, <1>2, <2>1 DEF With
  <2>6. docs[d] # None /\ docs[d].prefix = r.prefix
    BY <1>1, <1>2, <1>4 DEF RunOK
  <2> HIDE DEF r, n, d
  <2>7. KeyInv'
    BY <1>1, <2>4, <2>5, <2>6 DEF ShownInv, KeyInv
  <2>8. ImageInv'
    <3> SUFFICES ASSUME NEW e \in Docs, docs[e] # None, Clean(docs[e].prefix),
                        req # None => req.prefix # docs[e].prefix
                 PROVE  Behind(e, docs[e].visibility)'
      BY <1>1 DEF ImageInv, Clean
    <3>1. Behind(e, docs[e].visibility)
      BY DEF ShownInv, ImageInv
    <3>2. CASE e # d
      BY <1>1, <2>5, <3>1, <3>2 DEF Behind
    <3>3. CASE e = d
      <4>1. <<r.visibility, r.prefix, n>> \in blobs /\ docs[d].visibility = r.visibility
        BY <1>1, <1>2, <2>6, <3>3 DEF RunOK, RunHas, n
      <4> QED BY <1>1, <2>5, <2>6, <3>1, <3>3, <4>1 DEF Behind
    <3> QED BY <3>2, <3>3
  <2>9. HasInv'
    <3> SUFFICES ASSUME NEW k \in Jobs, NEW y, y = runs'[k], y # None, y.prefix # None, Clean(y.prefix)
                 PROVE  RunHas(y)'
      BY <1>1 DEF HasInv, RunHas, Clean
    <3>1. CASE k = j
      BY <2>2, <2>3, <3>1 DEF RunHas
    <3>2. CASE k # j
      <4>1. y = runs[k] /\ RunHas(y) /\ y.prefix # r.prefix /\ RunOK(y)
        BY <1>1, <1>2, <2>3, <3>2 DEF ShownInv, HasInv, PlaceInv, AloneInv, Clean, RunInv, r
      <4>2. y.home # d /\ y.home \in Docs
        BY <2>6, <4>1 DEF RunOK, PlaceInv, TableInv
      <4> QED BY <1>1, <2>5, <4>1, <4>2 DEF RunHas, Clean
    <3> QED BY <3>1, <3>2
  <2>10. MovedInv'
    <3> SUFFICES ASSUME NEW q, q = req, q # None, q.op = "publish", Clean(q.prefix), docs[q.doc] # None
                 PROVE  Behind(q.doc, q.visibility)'
      BY <1>1 DEF MovedInv, Clean
    <3>1. q.doc \in Docs /\ docs[q.doc].prefix = q.prefix
      BY DEF PlaceInv, ReqInv, ReqOK, TableInv
    <3>2. q.prefix # r.prefix
      BY <1>1, <1>2 DEF RunOK
    <3>3. q.doc # d
      BY <2>6, <3>1, <3>2
    <3> QED BY <1>1, <2>5, <3>1, <3>3 DEF ShownInv, MovedInv, Behind
  <2> QED BY <2>7, <2>8, <2>9, <2>10 DEF ShownInv
<1> QED BY <1>3, <1>4

\* A request takes away or moves what lies under one prefix.
LEMMA TouchShows ==
    ASSUME PlaceInv, ShownInv, NEW d \in Docs, docs[d] # None,
           NEW op \in {"discard", "publish", "delete"}, NEW v \in {"private", "public", None},
           touches(d, op, v),
           NEW p, p = docs[d].prefix,
           \A b \in blobs : b[2] # p => b \in blobs',
           op = "publish" => \A n : <<docs[d].visibility, p, n>> \in blobs => <<v, p, n>> \in blobs'
    PROVE  ShownInv'
<1>1. /\ req = None
      /\ req' = [doc |-> d, prefix |-> p, op |-> op, visibility |-> v]
      /\ UNCHANGED <<docs, pages, used, runs, shared>>
      /\ enters(p)
  BY DEF touches
<1>2. p \in used /\ p # None
  BY DocumentsAssumption DEF PlaceInv, DocInv, TableInv, DocumentsAssumption
<1>3. mixed \subseteq mixed' /\ (p \notin mixed' => ~Busy(p))
  BY <1>1 DEF enters
<1>4. \A x : Clean(x)' => Clean(x)
  BY <1>1, <1>3 DEF Clean
<1>5. \A k \in Jobs : runs[k] # None /\ runs[k].prefix = p => p \in mixed'
  <2> SUFFICES ASSUME NEW k \in Jobs, runs[k] # None, runs[k].prefix = p PROVE Busy(p)
    BY <1>3
  <2>1. runs[k].at \notin {"queued", "done"}
    BY <1>2, RunIs DEF RunOK
  <2> QED BY <2>1 DEF Busy, Under_way, Pending
<1>6. PICK q : req' = q /\ q.prefix = p /\ q.doc = d /\ q.op = op /\ q.visibility = v
  BY <1>1
<1>7. KeyInv'
  BY <1>1 DEF ShownInv, KeyInv
<1>8. ASSUME NEW w, NEW x, NEW n, x # p, <<w, x, n>> \in blobs PROVE <<w, x, n>> \in blobs'
  BY <1>8
<1>9. ImageInv'
  <2> SUFFICES ASSUME NEW e \in Docs, docs[e] # None, Clean(docs[e].prefix)', docs[e].prefix # p
               PROVE  Behind(e, docs[e].visibility)'
    <3>1. req' # None
      BY <1>1, <1>2, <1>6, DocumentsAssumption DEF DocumentsAssumption, PlaceInv, TableInv
    <3> QED BY <1>1, <1>6, <3>1 DEF ImageInv, Clean
  <2>1. Behind(e, docs[e].visibility)
    BY <1>1, <1>4 DEF ShownInv, ImageInv
  <2> QED BY <1>1, <1>8, <2>1 DEF Behind
<1>10. HasInv'
  <2> SUFFICES ASSUME NEW k \in Jobs, NEW y, y = runs[k], y # None, y.prefix # None, Clean(y.prefix)'
               PROVE  RunHas(y)'
    BY <1>1 DEF HasInv, RunHas
  <2>1. RunHas(y) /\ y.prefix # p /\ Clean(y.prefix)
    BY <1>1, <1>4, <1>5 DEF ShownInv, HasInv, Clean
  <2> QED BY <1>1, <1>8, <2>1 DEF RunHas
<1>11. MovedInv'
  <2> SUFFICES ASSUME op = "publish", Clean(p)' PROVE Behind(d, v)'
    BY <1>1, <1>6 DEF MovedInv, Clean
  <2>1. Behind(d, docs[d].visibility)
    BY <1>1, <1>4 DEF ShownInv, ImageInv
  <2> QED BY <1>1, <2>1 DEF Behind
<1> QED BY <1>7, <1>9, <1>10, <1>11 DEF ShownInv

LEMMA RequestsShow ==
    ASSUME PlaceInv, ShownInv, discard_images \/ delete_document \/ set_visibility
    PROVE  ShownInv'
<1>1. CASE discard_images \/ delete_document
  <2>1. PICK d \in Docs, op \in {"discard", "delete"} :
          /\ docs[d] # None /\ touches(d, op, None)
          /\ blobs' = blobs \ Under(docs[d].bucket, docs[d].prefix)
    BY <1>1 DEF discard_images, delete_document, Live
  <2> QED BY <2>1, TouchShows DEF Under
<1>2. CASE set_visibility
  <2>1. PICK d \in Docs, v \in {"private", "public"} :
          /\ docs[d] # None /\ touches(d, "publish", v)
          /\ blobs' = IF v = docs[d].bucket THEN blobs
                      ELSE move_prefix(docs[d].bucket, v, docs[d].prefix)
    BY <1>2 DEF set_visibility, Live
  <2>2. docs[d].bucket = docs[d].visibility
    BY <2>1 DEF PlaceInv, DocInv, IsRow
  <2> SUFFICES ASSUME NEW p, p = docs[d].prefix, NEW t, t = docs[d].visibility PROVE ShownInv'
    OBVIOUS
  <2>3. \A b \in blobs : b[2] # p => b \in blobs'
    BY <2>1 DEF move_prefix, Under
  <2>4. ASSUME NEW n, <<t, p, n>> \in blobs PROVE <<v, p, n>> \in blobs'
    <3>1. CASE v = t
      BY <2>1, <2>2, <2>4, <3>1
    <3>2. CASE v # t
      <4>1. blobs' = (blobs \ Under(t, p)) \cup {<<v, p, b[3]>> : b \in Under(t, p)}
        BY <2>1, <2>2, <3>2 DEF move_prefix
      <4>2. <<t, p, n>> \in Under(t, p) /\ <<t, p, n>>[3] = n
        BY <2>4 DEF Under
      <4> QED BY <4>1, <4>2
    <3> QED BY <3>1, <3>2
  <2> QED BY <2>1, <2>3, <2>4, TouchShows
<1> QED BY <1>1, <1>2

\* The rows follow: what a published document shows has moved before.
LEMMA RowsShow ==
    ASSUME PlaceInv, ShownInv, NEW q, q = req, q # None, NEW d, d = q.doc, docs[d] # None,
           NEW p, p = docs[d].prefix,
           UNCHANGED <<used, blobs, runs, mixed, shared>>, req' = None,
           \A e \in Docs : e # d => docs'[e] = docs[e] /\ pages'[e] = pages[e],
           DOMAIN pages'[d] \subseteq DOMAIN pages[d],
           docs'[d] # None /\ p \notin shared =>
              /\ docs'[d].prefix = p
              /\ \A n \in DOMAIN pages'[d] : pages'[d][n].key = pages[d][n].key
              /\ \/ /\ q.op = "publish" /\ docs'[d].visibility = q.visibility
                    /\ \A n \in DOMAIN pages'[d] : pages'[d][n].purged = pages[d][n].purged
                 \/ \A n \in DOMAIN pages'[d] : pages'[d][n].purged,
           docs'[d] # None => docs'[d].prefix = p
    PROVE  ShownInv'
<1>1. ReqOK(q) /\ q.prefix = p /\ d \in Docs
  BY DEF PlaceInv, ReqInv, ReqOK, TableInv
<1>2. KeyInv'
  BY <1>1 DEF ShownInv, KeyInv
<1>3. ImageInv'
  <2> SUFFICES ASSUME NEW e \in Docs, docs'[e] # None, Clean(docs'[e].prefix)
               PROVE  Behind(e, docs[e].visibility)'
    BY DEF ImageInv, Clean
  <2>1. CASE e = d
    <3>1. Clean(p) /\ p \notin shared
      BY <2>1 DEF Clean
    <3>2. q.op = "publish" => Behind(d, q.visibility)
      BY <1>1, <3>1 DEF ShownInv, MovedInv
    <3> QED BY <2>1, <3>1, <3>2 DEF Behind
  <2>2. CASE e # d
    <3>1. docs[e].prefix # p
      BY <1>1, <2>2 DEF PlaceInv, DocInv, Clean
    <3>2. Behind(e, docs[e].visibility)
      BY <1>1, <2>2, <3>1 DEF ShownInv, ImageInv
    <3> QED BY <2>2, <3>2 DEF Behind
  <2> QED BY <2>1, <2>2
<1>4. HasInv'
  <2> SUFFICES ASSUME NEW k \in Jobs, NEW r, r = runs[k], r # None, r.prefix # None, Clean(r.prefix)
               PROVE  RunHas(r)'
    BY DEF HasInv, RunHas, Clean
  <2>1. RunOK(r) /\ RunHas(r)
    BY DEF PlaceInv, RunInv, ShownInv, HasInv
  <2>2. r.home \in Docs
    BY <2>1 DEF RunOK, PlaceInv, TableInv
  <2>3. DOMAIN pages'[r.home] \subseteq DOMAIN pages[r.home]
    BY <2>2
  <2> QED BY <2>1, <2>3 DEF RunHas, Clean
<1>5. MovedInv'
  BY DEF MovedInv
<1> QED BY <1>2, <1>3, <1>4, <1>5 DEF ShownInv

LEMMA CommitShows == ASSUME PlaceInv, ShownInv, commit PROVE ShownInv'
<1> SUFFICES ASSUME NEW q, q = req, NEW d, d = q.doc, NEW row, row = docs[d], NEW p, p = row.prefix
             PROVE  ShownInv'
  OBVIOUS
<1>1. /\ q # None /\ row # None
      /\ UNCHANGED <<used, blobs, runs, mixed, shared>> /\ req' = None
  BY DEF commit
<1>2. ReqOK(q) /\ d \in Docs /\ IsRow(row) /\ DOMAIN docs = Docs /\ DOMAIN pages = Docs
  BY <1>1 DEF PlaceInv, ReqInv, ReqOK, TableInv, DocInv
<1>3. p \notin shared => \A n \in DOMAIN pages[d] : IsPage(pages[d][n])
  BY <1>1, <1>2 DEF PlaceInv, DocInv
<1>4. CASE q.op = "delete"
  <2>1. docs' = [docs EXCEPT ![d] = None] /\ pages' = [pages EXCEPT ![d] = NoPages]
    BY <1>4 DEF commit, commit_delete
  <2>2. docs'[d] = None /\ DOMAIN pages'[d] = {}
    BY <1>2, <2>1 DEF NoPages
  <2> QED BY <1>1, <1>2, <2>1, <2>2, RowsShow
<1>5. CASE q.op = "discard"
  <2>1. docs' = docs /\ pages' = [pages EXCEPT ![d] =
            [n \in DOMAIN pages[d] |-> [pages[d][n] EXCEPT !.purged = TRUE]]]
    BY <1>5 DEF commit, commit_discard
  <2>2. \A e \in Docs : e # d => docs'[e] = docs[e] /\ pages'[e] = pages[e]
    BY <1>2, <2>1
  <2>3. /\ DOMAIN pages'[d] = DOMAIN pages[d]
        /\ \A n \in DOMAIN pages[d] : pages'[d][n] = [pages[d][n] EXCEPT !.purged = TRUE]
    BY <1>2, <2>1
  <2>4. ASSUME NEW n \in DOMAIN pages[d], p \notin shared
        PROVE  pages'[d][n].key = pages[d][n].key /\ pages'[d][n].purged
    <3>1. PICK x, y : x = pages[d][n] /\ y = [x EXCEPT !.purged = TRUE]
      OBVIOUS
    <3>2. y.key = x.key /\ y.purged = TRUE
      BY <1>3, <2>4, <3>1 DEF IsPage
    <3> QED BY <2>3, <3>1, <3>2
  <2>5. docs'[d].prefix = p
    BY <2>1
  <2>6. p \notin shared =>
            /\ \A n \in DOMAIN pages'[d] : pages'[d][n].key = pages[d][n].key
            /\ \A n \in DOMAIN pages'[d] : pages'[d][n].purged
    BY <2>3, <2>4
  <2> QED BY <1>1, <1>2, <2>2, <2>3, <2>5, <2>6, RowsShow
<1>6. CASE q.op = "publish"
  <2> SUFFICES ASSUME NEW v, v = q.visibility PROVE ShownInv'
    OBVIOUS
  <2>1. /\ docs' = [docs EXCEPT ![d].visibility = v, ![d].bucket = v]
        /\ pages' = [pages EXCEPT ![d] =
            [n \in DOMAIN pages[d] |-> [pages[d][n] EXCEPT !.visibility = v]]]
    BY <1>6 DEF commit, commit_visibility
  <2>2. \A e \in Docs : e # d => docs'[e] = docs[e] /\ pages'[e] = pages[e]
    BY <1>2, <2>1
  <2>3. /\ DOMAIN pages'[d] = DOMAIN pages[d]
        /\ \A n \in DOMAIN pages[d] : pages'[d][n] = [pages[d][n] EXCEPT !.visibility = v]
    BY <1>2, <2>1
  <2>4. ASSUME NEW n \in DOMAIN pages[d], p \notin shared
        PROVE  pages'[d][n].key = pages[d][n].key /\ pages'[d][n].purged = pages[d][n].purged
    <3>1. PICK x, y : x = pages[d][n] /\ y = [x EXCEPT !.visibility = v]
      OBVIOUS
    <3>2. y.key = x.key /\ y.purged = x.purged
      BY <1>3, <2>4, <3>1 DEF IsPage
    <3> QED BY <2>3, <3>1, <3>2
  <2>5. docs'[d].prefix = p /\ docs'[d].visibility = v
    <3>1. PICK y : y = [row EXCEPT !.visibility = v, !.bucket = v]
      OBVIOUS
    <3>2. y.prefix = p /\ y.visibility = v
      BY <1>2, <3>1 DEF IsRow
    <3> QED BY <1>2, <2>1, <3>1, <3>2
  <2> QED BY <1>1, <1>6, <2>2, <2>3, <2>4, <2>5, RowsShow
<1> QED BY <1>2, <1>4, <1>5, <1>6 DEF ReqOK

LEMMA RollbackShows == ASSUME PlaceInv, ShownInv, rollback PROVE ShownInv'
<1>1. /\ mixed' = mixed \cup {req.prefix} /\ req # None /\ req' = None
      /\ UNCHANGED <<docs, pages, used, blobs, runs, shared>>
  BY DEF rollback
<1>2. KeyInv' /\ MovedInv'
  BY <1>1 DEF ShownInv, KeyInv, MovedInv
<1>3. ImageInv'
  BY <1>1 DEF ShownInv, ImageInv, Behind, Clean
<1>4. HasInv'
  BY <1>1 DEF ShownInv, HasInv, RunHas, Clean
<1> QED BY <1>2, <1>3, <1>4 DEF ShownInv

\* A split only renumbers pages under a prefix that is shared from then on.
LEMMA SplitShown ==
    ASSUME PlaceInv, ShownInv, NEW d \in Live, NEW e \in Fresh, NEW x, NEW y, NEW f, NEW g, NEW p,
           p = docs[d].prefix, x.prefix = p, y.prefix = p,
           docs' = [docs EXCEPT ![d] = x, ![e] = y],
           pages' = [pages EXCEPT ![d] = f, ![e] = g],
           mixed \subseteq mixed', shared' = shared \cup {p},
           UNCHANGED <<blobs, runs, req>>
    PROVE  ShownInv'
<1>1. /\ d \in Docs /\ docs[d] # None /\ e \in Docs /\ e \notin used /\ d # e
      /\ DOMAIN docs = Docs /\ DOMAIN pages = Docs
  BY DEF Live, PlaceInv, TableInv, DocInv
<1>2. /\ docs'[d] = x /\ docs'[e] = y
      /\ \A c \in Docs : c # d /\ c # e => docs'[c] = docs[c] /\ pages'[c] = pages[c]
  BY <1>1
<1>3. \A z : Clean(z)' => Clean(z) /\ z # p
  BY DEF Clean
<1>4. KeyInv'
  BY <1>1, <1>2 DEF ShownInv, KeyInv
<1>5. ImageInv'
  BY <1>1, <1>2, <1>3 DEF ShownInv, ImageInv, Behind
<1>6. HasInv'
  <2> SUFFICES ASSUME NEW k \in Jobs, NEW r, r = runs[k], r # None, r.prefix # None, Clean(r.prefix)'
               PROVE  RunHas(r)'
    BY DEF HasInv, RunHas
  <2>1. RunOK(r) /\ RunHas(r) /\ Clean(r.prefix) /\ r.prefix # p
    BY <1>3 DEF PlaceInv, RunInv, ShownInv, HasInv
  <2>2. r.home \in Docs /\ r.home # e /\ r.home # d
    BY <1>1, <2>1 DEF RunOK, PlaceInv, TableInv
  <2> QED BY <1>2, <2>1, <2>2 DEF RunHas
<1>7. MovedInv'
  <2> SUFFICES ASSUME NEW q, q = req, q # None, q.op = "publish", Clean(q.prefix)', docs'[q.doc] # None
               PROVE  Behind(q.doc, q.visibility)'
    BY DEF MovedInv
  <2>1. ReqOK(q) /\ q.doc \in Docs /\ q.doc # e /\ q.prefix # p /\ Clean(q.prefix)
    BY <1>1, <1>3 DEF PlaceInv, ReqInv, ReqOK, TableInv
  <2>2. q.doc # d
    BY <1>1, <2>1 DEF ReqOK
  <2>3. docs'[q.doc] = docs[q.doc] /\ pages'[q.doc] = pages[q.doc]
    BY <1>2, <2>1, <2>2
  <2>4. Behind(q.doc, q.visibility)
    BY <2>1, <2>3 DEF ShownInv, MovedInv
  <2> QED BY <2>3, <2>4 DEF Behind
<1> QED BY <1>4, <1>5, <1>6, <1>7 DEF ShownInv

\* The effect of a split, the numbers left out.
LEMMA SplitIs ==
    ASSUME split_document
    PROVE  \E d, e, heads, tails, f, g :
              /\ d \in Live /\ e \in Fresh
              /\ docs' = [docs EXCEPT ![d].count = heads, ![e] = [docs[d] EXCEPT !.count = tails]]
              /\ pages' = [pages EXCEPT ![d] = f, ![e] = g]
              /\ enters(docs[d].prefix)
              /\ shared' = shared \cup {docs[d].prefix}
              /\ UNCHANGED <<blobs, runs, req>>
<1>1. PICK d \in Live, e \in Fresh, cut \in 2..(2 * Sheets + MaxImages) :
      LET head == {n \in DOMAIN pages[d] : n < cut}
          tail == DOMAIN pages[d] \ head
      IN
      /\ docs' = [docs EXCEPT ![d].count = Cardinality(head),
                              ![e] = [docs[d] EXCEPT !.count = Cardinality(tail)]]
      /\ pages' = [pages EXCEPT
              ![d] = [n \in DOMAIN renumber(@, head) |->
                          [renumber(@, head)[n] EXCEPT !.visibility = docs[d].visibility]],
              ![e] = [n \in DOMAIN renumber(pages[d], tail) |->
                          [renumber(pages[d], tail)[n] EXCEPT !.visibility = docs[d].visibility]]]
      /\ used' = used \cup {e}
      /\ enters(docs[d].prefix)
      /\ shared' = shared \cup {docs[d].prefix}
      /\ UNCHANGED <<blobs, runs, req>>
  BY Zenon DEF split_document
<1>2. PICK heads, tails, f, g :
      /\ docs' = [docs EXCEPT ![d].count = heads, ![e] = [docs[d] EXCEPT !.count = tails]]
      /\ pages' = [pages EXCEPT ![d] = f, ![e] = g]
  BY <1>1
<1>3. /\ enters(docs[d].prefix) /\ shared' = shared \cup {docs[d].prefix}
      /\ UNCHANGED <<blobs, runs, req>>
  BY <1>1
<1> QED BY <1>2, <1>3, Zenon

LEMMA SplitShows == ASSUME PlaceInv, ShownInv, split_document PROVE ShownInv'
<1>1. PICK d, e, heads, tails, f, g :
          /\ d \in Live /\ e \in Fresh
          /\ docs' = [docs EXCEPT ![d].count = heads, ![e] = [docs[d] EXCEPT !.count = tails]]
          /\ pages' = [pages EXCEPT ![d] = f, ![e] = g]
          /\ enters(docs[d].prefix)
          /\ shared' = shared \cup {docs[d].prefix}
          /\ UNCHANGED <<blobs, runs, req>>
  BY SplitIs, Zenon
<1>2. docs' = [docs EXCEPT ![d].count = heads, ![e] = [docs[d] EXCEPT !.count = tails]]
  BY <1>1
<1>3. PICK x, y : x = [docs[d] EXCEPT !.count = heads] /\ y = [docs[d] EXCEPT !.count = tails]
  OBVIOUS
<1>4. IsRow(docs[d]) /\ d \in Docs
  BY <1>1 DEF Live, PlaceInv, DocInv
<1>5. x.prefix = docs[d].prefix /\ y.prefix = docs[d].prefix
  BY <1>3, <1>4 DEF IsRow
<1>6. docs' = [docs EXCEPT ![d] = x, ![e] = y]
  BY <1>2, <1>3
<1>7. mixed \subseteq mixed'
  BY <1>1 DEF enters
<1>8. shared' = shared \cup {docs[d].prefix} /\ UNCHANGED <<blobs, runs, req>>
  BY <1>1
<1>9. pages' = [pages EXCEPT ![d] = f, ![e] = g]
  BY <1>1
<1>10. d \in Live /\ e \in Fresh
  BY <1>1
<1> QED BY <1>5, <1>6, <1>7, <1>8, <1>9, <1>10, SplitShown

LEMMA ShownNext == PlaceInv /\ ShownInv /\ [Next]_vars => ShownInv'
<1> SUFFICES ASSUME PlaceInv, ShownInv, [Next]_vars PROVE ShownInv'
  OBVIOUS
<1>1. ASSUME NEW j \in Jobs,
             \/ upload_pdf(j) \/ rerasterize_job(j) \/ compact_pdf_job(j)
             \/ start_download(j) \/ Step(j) \/ dies(j) \/ crash(j)
      PROVE  ShownInv'
  BY <1>1, UploadsShow, JobsShow, RendersShow, ClearShows, CommitPageShows, InsertShows DEF Step
<1>2. CASE discard_images \/ delete_document \/ set_visibility
  BY <1>2, RequestsShow
<1>3. CASE upload_images \/ commit \/ rollback \/ split_document
  BY <1>3, UploadsShow, CommitShows, RollbackShows, SplitShows
<1>4. CASE set_raster_settings \/ UNCHANGED vars
  <2>1. UNCHANGED <<docs, pages, used, blobs, runs, req, mixed, shared>>
    BY <1>4 DEF set_raster_settings
  <2> QED BY <2>1, AddsShow
<1> QED BY <1>1, <1>2, <1>3, <1>4 DEF Next

\* A page that is not purged can be shown: whichever runs crashed, died, were repeated or are
\* at work, its image is in the bucket of its document, with the same exceptions.
THEOREM PagesCanBeShown == Spec => []ImagesReadable
<1>1. PlaceInv /\ ShownInv /\ [Next]_vars => (PlaceInv /\ ShownInv)'
  BY InvNext, ShownNext
<1> QED BY InvInit, ShownInit, ShownImplies, <1>1, PTL DEF Spec

-----------------------------------------------------------------------------
(* Pages go only where the original can be rendered again                  *)

\* What was split stays on record.
LEMMA SharedGrows == [Next]_vars => shared \subseteq shared'
<1>1. ASSUME NEW j \in Jobs, rerasterize_job(j) \/ compact_pdf_job(j) PROVE UNCHANGED shared
  BY <1>1 DEF rerasterize_job, compact_pdf_job, job_for
<1>2. ASSUME NEW j \in Jobs, upload_pdf(j) \/ start_download(j) \/ dies(j) \/ crash(j) PROVE UNCHANGED shared
  BY <1>2 DEF upload_pdf, start_download, dies, crash
<1>3. ASSUME NEW j \in Jobs, load_pdf(j) \/ wipe(j) \/ clear_images(j) \/ put_image(j) \/ commit_page(j) \/ finish(j)
      PROVE  UNCHANGED shared
  BY <1>3 DEF load_pdf, wipe, clear_images, put_image, commit_page, finish
<1>4. ASSUME NEW j \in Jobs, \/ load_pages(j) \/ convert(j) \/ insert_document(j)
                             \/ begin_download(j) \/ end_download(j) \/ leave_download(j)
      PROVE  UNCHANGED shared
  BY <1>4 DEF load_pages, convert, insert_document, begin_download, end_download, leave_download
<1>5. ASSUME \/ upload_images \/ set_raster_settings \/ discard_images \/ delete_document
             \/ set_visibility \/ commit \/ rollback
      PROVE  UNCHANGED shared
  BY <1>5 DEF upload_images, set_raster_settings, discard_images, delete_document, set_visibility, touches,
              commit, rollback
<1>6. split_document => shared \subseteq shared'
  BY DEF split_document
<1> QED BY <1>1, <1>2, <1>3, <1>4, <1>5, <1>6 DEF Next, Step

\* A step that takes pages away from a document that stays.
LEMMA WipeNeedsOriginal ==
    ASSUME PlaceInv, ShownInv, [Next]_vars, NEW d \in Docs, docs[d] # None,
           NEW p, p = docs[d].prefix, Clean(p), Clean(p)',
           <<docs[d].visibility, docs[d].prefix, 0>> \notin blobs, docs'[d] # None
    PROVE  DOMAIN pages[d] \subseteq DOMAIN pages'[d]
<1>1. d \in used /\ IsRow(docs[d]) /\ DOMAIN pages = Docs /\ DOMAIN docs = Docs /\ used \subseteq Docs
  BY DEF PlaceInv, DocInv, TableInv
<1>2. CASE UNCHANGED pages
  BY <1>2
<1>3. CASE upload_images \/ \E j \in Jobs : upload_pdf(j) \/ begin_download(j)
  <2>1. PICK e, f : e \in Fresh /\ pages' = [pages EXCEPT ![e] = f]
    BY <1>3 DEF upload_images, upload_pdf, begin_download, take
  <2>2. e # d
    BY <1>1, <2>1
  <2> QED BY <1>1, <2>1, <2>2
<1>4. ASSUME NEW j \in Jobs, wipe(j) PROVE DOMAIN pages[d] \subseteq DOMAIN pages'[d]
  <2> SUFFICES ASSUME NEW r, r = runs[j], r.home = d PROVE FALSE
    <3>1. pages' = [pages EXCEPT ![runs[j].home] = NoPages]
      BY <1>4 DEF wipe
    <3> QED BY <1>1, <3>1
  <2>1. r # None /\ r.at = "loaded" /\ r.kind = "rerasterize"
    BY <1>4 DEF wipe, At
  <2>2. RunOK(r) /\ RunHas(r)
    BY <2>1, RunIs DEF ShownInv, HasInv
  <2>3. r.prefix # None /\ docs[d].prefix = r.prefix
    BY <2>1, <2>2 DEF RunOK
  <2>4. docs[d].visibility = r.visibility
    BY <2>2, <2>3 DEF RunOK
  <2>5. <<r.visibility, r.prefix, 0>> \in blobs
    BY <2>1, <2>2, <2>3 DEF RunHas
  <2> QED BY <2>3, <2>4, <2>5
<1>5. ASSUME NEW j \in Jobs, commit_page(j) PROVE DOMAIN pages[d] \subseteq DOMAIN pages'[d]
  <2>1. \/ pages' = pages
        \/ \E n, g : pages' = [pages EXCEPT ![runs[j].home] = With(@, n, g)]
    BY <1>5 DEF commit_page
  <2>2. \A n, g : DOMAIN pages[d] \subseteq DOMAIN With(pages[d], n, g)
    BY DEF With
  <2> QED BY <1>1, <2>1, <2>2
<1>6. ASSUME NEW j \in Jobs, end_download(j) PROVE DOMAIN pages[d] \subseteq DOMAIN pages'[d]
  BY <1>1, <1>6 DEF end_download
<1>7. CASE commit
  <2>1. CASE req.op = "delete"
    BY <1>1, <1>7, <2>1 DEF commit, commit_delete
  <2>2. CASE req.op \in {"discard", "publish"}
    <3>1. PICK h : pages' = [pages EXCEPT ![req.doc] = h] /\ DOMAIN h = DOMAIN pages[req.doc]
      <4>1. CASE req.op = "discard"
        BY <1>7, <4>1 DEF commit, commit_discard
      <4>2. CASE req.op = "publish"
        BY <1>7, <4>2 DEF commit, commit_visibility
      <4> QED BY <2>2, <4>1, <4>2
    <3> QED BY <1>1, <3>1
  <2> QED BY <1>7, <2>1, <2>2 DEF commit, PlaceInv, ReqInv, ReqOK
<1>8. CASE split_document
  <2>1. PICK c, e, heads, tails, f, g :
            /\ c \in Live /\ e \in Fresh
            /\ docs' = [docs EXCEPT ![c].count = heads, ![e] = [docs[c] EXCEPT !.count = tails]]
            /\ pages' = [pages EXCEPT ![c] = f, ![e] = g]
            /\ enters(docs[c].prefix)
            /\ shared' = shared \cup {docs[c].prefix}
            /\ UNCHANGED <<blobs, runs, req>>
    BY <1>8, SplitIs, Zenon
  <2>2. shared' = shared \cup {docs[c].prefix} /\ c \in Docs /\ e \in Fresh
    BY <2>1 DEF Live
  <2>3. pages' = [pages EXCEPT ![c] = f, ![e] = g]
    BY <2>1
  <2>4. c # d /\ e # d
    BY <1>1, <2>2 DEF Clean
  <2> QED BY <1>1, <2>2, <2>3, <2>4
<1>9. ASSUME Next, ~UNCHANGED pages
      PROVE  \/ upload_images \/ commit \/ split_document
             \/ \E j \in Jobs : upload_pdf(j) \/ begin_download(j) \/ wipe(j) \/ commit_page(j) \/ end_download(j)
  <2>1. ASSUME NEW j \in Jobs, rerasterize_job(j) \/ compact_pdf_job(j) PROVE UNCHANGED pages
    BY <2>1 DEF rerasterize_job, compact_pdf_job, job_for
  <2>2. ASSUME NEW j \in Jobs, start_download(j) \/ dies(j) \/ crash(j) \/ load_pdf(j) \/ clear_images(j)
                               \/ put_image(j) \/ finish(j)
        PROVE  UNCHANGED pages
    BY <2>2 DEF start_download, dies, crash, load_pdf, clear_images, put_image, finish
  <2>3. ASSUME NEW j \in Jobs, load_pages(j) \/ convert(j) \/ insert_document(j) \/ leave_download(j)
        PROVE  UNCHANGED pages
    BY <2>3 DEF load_pages, convert, insert_document, leave_download
  <2>4. ASSUME discard_images \/ delete_document \/ set_visibility \/ rollback \/ set_raster_settings
        PROVE  UNCHANGED pages
    BY <2>4 DEF discard_images, delete_document, set_visibility, touches, rollback, set_raster_settings
  <2> QED BY <1>9, <2>1, <2>2, <2>3, <2>4 DEF Next, Step
<1>10. [Next]_vars => Next \/ UNCHANGED pages
  OBVIOUS
<1> QED BY <1>2, <1>3, <1>4, <1>5, <1>6, <1>7, <1>8, <1>9, <1>10

\* Pages are only wiped to be rendered again: where the original is gone, they stay
\* (rerasterize_document fetches and renders before it deletes, document_tasks.py 112-160).
THEOREM WipedPagesComeBack == Spec => WipesOnlyToRender
<1>1. PlaceInv /\ ShownInv /\ [Next]_vars => (PlaceInv /\ ShownInv)'
  BY InvNext, ShownNext
<1>2. PlaceInv /\ ShownInv /\ [Next]_vars =>
        [\A d \in Live : /\ InTurn(docs[d].prefix) /\ docs[d].prefix \notin mixed' \cup shared'
                         /\ Original(docs[d].bucket, docs[d].prefix) \notin blobs
                         /\ docs'[d] # None
                         => DOMAIN pages[d] \subseteq DOMAIN pages'[d]]_vars
  <2> SUFFICES ASSUME PlaceInv, ShownInv, [Next]_vars, NEW d \in Docs, docs[d] # None,
                      docs[d].prefix \notin mixed, docs[d].prefix \notin mixed',
                      docs[d].prefix \notin shared',
                      Original(docs[d].bucket, docs[d].prefix) \notin blobs, docs'[d] # None
               PROVE  DOMAIN pages[d] \subseteq DOMAIN pages'[d]
    BY DEF InTurn, Live
  <2>1. docs[d].bucket = docs[d].visibility
    BY DEF PlaceInv, DocInv, IsRow
  <2>2. shared \subseteq shared'
    BY SharedGrows
  <2>3. PICK p : p = docs[d].prefix
    OBVIOUS
  <2>4. Clean(p) /\ Clean(p)'
    BY <2>2, <2>3 DEF Clean
  <2> QED BY <2>1, <2>3, <2>4, WipeNeedsOriginal DEF Original
<1> QED BY InvInit, ShownInit, <1>1, <1>2, PTL DEF Spec, WipesOnlyToRender

-----------------------------------------------------------------------------
(* Page numbers: what the jobs are about                                   *)

\* The pages of a compaction are copied, numbers included.
Copied(d) == docs[d].source = "familysearch_pdf"
Given(r)  == r.kind \in {"rasterize", "compact"}

\* The document such a job is about is none that a compaction made or is making.
OriginInv ==
    /\ \A d \in Docs : docs[d] # None /\ docs[d].type = "image_set" => ~Copied(d)
    /\ \A j \in Jobs : runs[j] # None /\ Given(runs[j]) =>
          /\ runs[j].doc \in used
          /\ docs[runs[j].doc] # None => ~Copied(runs[j].doc)
    /\ \A j, k \in Jobs :
          runs[j] # None /\ runs[j].at = "converted" /\ runs[k] # None /\ Given(runs[k]) =>
              runs[k].doc # runs[j].home

LEMMA OriginInit == Init => OriginInv
BY DEF Init, OriginInv

Carries(k, x) == runs[k] # None /\ Given(runs[k]) /\ x.doc = runs[k].doc
Begins(x) == \/ x.doc \in Docs /\ docs[x.doc] # None /\ docs[x.doc].type = "image_set"
             \/ x.doc \notin used /\ x.doc \in used' /\ docs'[x.doc].source # "familysearch_pdf"

\* Documents keep what they are, or are new; jobs keep their document, or begin with one.
LEMMA OriginKeeps ==
    ASSUME PlaceInv, OriginInv, used \subseteq used',
           \A d \in Docs : docs'[d] # None =>
              \/ docs[d] # None /\ docs'[d].type = docs[d].type /\ docs'[d].source = docs[d].source
              \/ d \notin used /\ (docs'[d].type = "image_set" => docs'[d].source # "familysearch_pdf")
              \/ /\ \E j \in Jobs : runs[j] # None /\ runs[j].at = "converted" /\ runs[j].home = d
                 /\ docs'[d].type = "pdf",
           \A k \in Jobs : runs'[k] # None /\ Given(runs'[k]) => Carries(k, runs'[k]) \/ Begins(runs'[k]),
           \A j \in Jobs : runs'[j] # None /\ runs'[j].at = "converted" =>
              \/ runs[j] # None /\ runs[j].at = "converted" /\ runs'[j].home = runs[j].home
              \/ /\ runs'[j].home \notin used
                 /\ \A k \in Jobs : runs'[k] # None /\ Given(runs'[k]) => Carries(k, runs'[k])
    PROVE  OriginInv'
<1>1. /\ \A d \in Docs : docs[d] # None => d \in used
      /\ used \subseteq Docs
      /\ \A j \in Jobs : runs[j] # None /\ runs[j].at = "converted" =>
            docs[runs[j].home] = None /\ runs[j].home \in used
  BY RunIs DEF PlaceInv, DocInv, TableInv, RunOK
<1>2. \A d \in Docs : docs'[d] # None /\ docs'[d].type = "image_set" =>
          docs'[d].source # "familysearch_pdf"
  BY DEF OriginInv, Copied
<1>3. ASSUME NEW k \in Jobs, runs'[k] # None, Given(runs'[k]), NEW c, c = runs'[k].doc
      PROVE  c \in used' /\ (docs'[c] # None => docs'[c].source # "familysearch_pdf")
  <2>1. CASE Carries(k, runs'[k])
    <3>1. c = runs[k].doc /\ c \in used /\ (docs[c] # None => docs[c].source # "familysearch_pdf")
      BY <1>3, <2>1 DEF OriginInv, Carries, Copied
    <3>2. \A j \in Jobs : runs[j] # None /\ runs[j].at = "converted" => runs[j].home # c
      BY <1>3, <2>1, <3>1 DEF OriginInv, Carries
    <3> QED BY <1>1, <3>1, <3>2
  <2>2. CASE Begins(runs'[k])
    <3>1. CASE c \in Docs /\ docs[c] # None /\ docs[c].type = "image_set"
      <4>1. c \in used /\ docs[c].source # "familysearch_pdf"
        BY <1>1, <3>1 DEF OriginInv, Copied
      <4> QED BY <1>1, <3>1, <4>1
    <3> QED BY <1>3, <2>2, <3>1 DEF Begins
  <2> QED BY <1>3, <2>1, <2>2
<1>4. ASSUME NEW j \in Jobs, NEW k \in Jobs, runs'[j] # None, runs'[j].at = "converted",
             runs'[k] # None, Given(runs'[k])
      PROVE  runs'[k].doc # runs'[j].home
  <2>1. CASE /\ runs'[j].home \notin used /\ Carries(k, runs'[k])
    BY <1>4, <2>1 DEF OriginInv, Carries
  <2>2. CASE runs[j] # None /\ runs[j].at = "converted" /\ runs'[j].home = runs[j].home
    <3>1. CASE Carries(k, runs'[k])
      BY <1>4, <2>2, <3>1 DEF OriginInv, Carries
    <3>2. CASE Begins(runs'[k])
      BY <1>1, <1>4, <2>2, <3>2 DEF Begins
    <3> QED BY <1>4, <3>1, <3>2
  <2> QED BY <1>4, <2>1, <2>2
<1> QED BY <1>2, <1>3, <1>4 DEF OriginInv, Copied, Given

\* A step of one run that leaves the documents what they are.
LEMMA OriginRuns ==
    ASSUME PlaceInv, OriginInv, used \subseteq used',
           \A d \in Docs : docs'[d] # None =>
              docs[d] # None /\ docs'[d].type = docs[d].type /\ docs'[d].source = docs[d].source,
           NEW j \in Jobs, NEW x, runs' = [runs EXCEPT ![j] = x],
           Given(x) => \/ Carries(j, x)
                       \/ x.doc \in Docs /\ docs[x.doc] # None /\ docs[x.doc].type = "image_set",
           x.at = "converted" => x.home \notin used /\ (Given(x) => Carries(j, x))
    PROVE  OriginInv'
<1>1. runs'[j] = x /\ \A k \in Jobs : k # j => runs'[k] = runs[k]
  BY DEF PlaceInv, TableInv
<1>2. \A k \in Jobs : runs'[k] # None /\ Given(runs'[k]) => Carries(k, runs'[k]) \/ Begins(runs'[k])
  BY <1>1 DEF Carries, Begins
<1>3. \A i \in Jobs : runs'[i] # None /\ runs'[i].at = "converted" =>
          \/ runs[i] # None /\ runs[i].at = "converted" /\ runs'[i].home = runs[i].home
          \/ /\ runs'[i].home \notin used
             /\ \A k \in Jobs : runs'[k] # None /\ Given(runs'[k]) => Carries(k, runs'[k])
  BY <1>1 DEF Carries
<1> QED BY <1>2, <1>3, OriginKeeps

\* What the steps of a run leave of its job.
LEMMA JobsGiven ==
    /\ \A kind, d : /\ Queued(kind, d).kind = kind /\ Queued(kind, d).doc = d
                    /\ Queued(kind, d).at = "queued"
    /\ ~Given(Done) /\ Done.at = "done"
BY DEF Given, Done, Queued

LEMMA RunOrigin ==
    ASSUME PlaceInv, OriginInv, NEW j \in Jobs,
           \/ rerasterize_job(j) \/ compact_pdf_job(j) \/ start_download(j) \/ dies(j) \/ crash(j)
           \/ load_pdf(j) \/ wipe(j) \/ clear_images(j) \/ put_image(j) \/ commit_page(j)
           \/ finish(j) \/ load_pages(j) \/ convert(j) \/ end_download(j) \/ leave_download(j)
    PROVE  OriginInv'
<1>1. CASE rerasterize_job(j) \/ compact_pdf_job(j)
  <2>1. PICK kind \in {"rerasterize", "compact"}, d \in Docs :
            /\ docs[d] # None /\ (kind = "compact" => docs[d].type = "image_set")
            /\ runs' = [runs EXCEPT ![j] = Queued(kind, d)] /\ UNCHANGED <<docs, used>>
    BY <1>1 DEF rerasterize_job, compact_pdf_job, job_for, goes, Live
  <2>2. PICK x : x = Queued(kind, d)
    OBVIOUS
  <2>3. x.at # "converted" /\ x.doc = d /\ x.kind = kind
    BY <2>2, JobsGiven
  <2> QED BY <2>1, <2>2, <2>3, OriginRuns DEF Given
<1>2. CASE start_download(j) \/ leave_download(j) \/ dies(j)
  <2>1. PICK x : /\ x = Done \/ x = Queued("download", None)
                 /\ runs' = [runs EXCEPT ![j] = x] /\ UNCHANGED <<docs, used>>
    BY <1>2 DEF start_download, leave_download, dies, goes
  <2>2. ~Given(x) /\ x.at # "converted"
    BY <2>1, JobsGiven DEF Given
  <2> QED BY <2>1, <2>2, OriginRuns
<1>3. CASE crash(j)
  <2>1. PICK x : /\ x = Queued(runs[j].kind, runs[j].doc)
                 /\ runs' = [runs EXCEPT ![j] = x] /\ UNCHANGED <<docs, used>> /\ runs[j] # None
    BY <1>3 DEF crash, goes, Under_way, Pending
  <2>2. x.at # "converted" /\ x.kind = runs[j].kind /\ x.doc = runs[j].doc
    BY <2>1, JobsGiven
  <2> QED BY <2>1, <2>2, OriginRuns DEF Given, Carries
\* All others end the run or keep its kind and its document.
<1>4. ASSUME NEW x, runs' = [runs EXCEPT ![j] = x], runs[j] # None, used \subseteq used',
             x = Done \/ (x.kind = runs[j].kind /\ x.doc = runs[j].doc),
             x.at = "converted" => x.home \notin used,
             \A d \in Docs : docs'[d] # None =>
                docs[d] # None /\ docs'[d].type = docs[d].type /\ docs'[d].source = docs[d].source
      PROVE  OriginInv'
  <2>1. Given(x) => Carries(j, x)
    BY <1>4, JobsGiven DEF Given, Carries
  <2> QED BY <1>4, <2>1, OriginRuns, JobsGiven
<1>5. CASE load_pdf(j)
  <2> SUFFICES ASSUME NEW r, r = runs[j], NEW row, row = docs[r.doc] PROVE OriginInv'
    OBVIOUS
  <2>1. r # None /\ IsRun(r) /\ UNCHANGED <<docs, used>>
    BY <1>5, RunIs DEF load_pdf, At
  <2>2. PICK x : /\ runs' = [runs EXCEPT ![j] = x]
                 /\ \/ x = Done
                    \/ x = [r EXCEPT !.at = IF r.kind = "rasterize" THEN "ready" ELSE "loaded",
                                !.home = r.doc, !.prefix = row.prefix, !.bucket = row.bucket,
                                !.visibility = row.visibility, !.todo = Rendered,
                                !.total = Cardinality(Rendered)]
    BY <1>5 DEF load_pdf, goes
  <2>3. x # Done => x.kind = r.kind /\ x.doc = r.doc /\ x.at # "converted"
    BY <2>1, <2>2 DEF IsRun
  <2> QED BY <1>4, <2>1, <2>2, <2>3, JobsGiven
<1>6. CASE load_pages(j)
  <2> DEFINE d == runs[j].doc
             row == docs[d]
             r == runs[j]
             t == DOMAIN pages[d]
             w == {pages[d][n].key : n \in DOMAIN pages[d]}
             x == [r EXCEPT !.at = "loaded", !.bucket = row.bucket, !.visibility = row.visibility,
                            !.todo = t, !.wanted = w, !.total = Cardinality(t)]
  <2>1. r # None /\ IsRun(r) /\ UNCHANGED <<docs, used>>
    BY <1>6, RunIs DEF load_pages, At
  <2>2. CASE row = None
    BY <1>4, <1>6, <2>1, <2>2, JobsGiven DEF load_pages, goes
  <2>3. CASE row # None
    <3>1. runs' = [runs EXCEPT ![j] = x]
      BY <1>6, <2>3 DEF load_pages, goes
    <3>2. x.kind = r.kind /\ x.doc = r.doc /\ x.at # "converted"
      <4> HIDE DEF r, row, t, w, d
      <4> QED BY <2>1 DEF IsRun
    <3> HIDE DEF x
    <3> QED BY <1>4, <2>1, <3>1, <3>2
  <2> QED BY <2>2, <2>3
<1>7. CASE wipe(j) \/ clear_images(j) \/ put_image(j) \/ commit_page(j)
  <2> SUFFICES ASSUME NEW r, r = runs[j] PROVE OriginInv'
    OBVIOUS
  <2>1. r # None /\ IsRun(r) /\ UNCHANGED <<docs, used>>
    BY <1>7, RunIs DEF wipe, clear_images, put_image, commit_page, At
  <2>2. PICK x : /\ runs' = [runs EXCEPT ![j] = x]
                 /\ \/ x = Done
                    \/ \E a \in {"wiped", "ready", "stored"} : x = [r EXCEPT !.at = a]
                    \/ x = [r EXCEPT !.at = "ready", !.todo = @ \ {Min(r.todo)}]
    <3>1. CASE wipe(j)
      BY <3>1 DEF wipe, goes
    <3>2. CASE clear_images(j)
      BY <3>2 DEF clear_images, goes
    <3>3. CASE put_image(j)
      BY <3>3 DEF put_image, goes
    <3>4. CASE commit_page(j)
      BY <3>4 DEF commit_page, goes
    <3> QED BY <1>7, <3>1, <3>2, <3>3, <3>4
  <2>3. x # Done => x.kind = r.kind /\ x.doc = r.doc /\ x.at # "converted"
    BY <2>1, <2>2 DEF IsRun
  <2> QED BY <1>4, <2>1, <2>2, <2>3, JobsGiven
<1>9. CASE convert(j)
  <2> SUFFICES ASSUME NEW r, r = runs[j] PROVE OriginInv'
    OBVIOUS
  <2>1. r # None /\ IsRun(r) /\ UNCHANGED docs /\ used \subseteq used'
    BY <1>9, RunIs DEF convert, At
  <2>2. CASE runs' = [runs EXCEPT ![j] = Done]
    BY <1>4, <2>1, <2>2, JobsGiven
  <2>3. CASE runs' # [runs EXCEPT ![j] = Done]
    <3>1. PICK d \in Fresh : runs' = [runs EXCEPT ![j] = [r EXCEPT !.at = "converted", !.home = d,
                                                        !.prefix = d, !.wanted = {}]]
      BY <1>9, <2>3 DEF convert, goes
    <3>2. PICK x : x = [r EXCEPT !.at = "converted", !.home = d, !.prefix = d, !.wanted = {}]
      OBVIOUS
    <3>3. x.kind = r.kind /\ x.doc = r.doc /\ x.home = d /\ d \notin used
      BY <2>1, <3>2 DEF IsRun
    <3> QED BY <1>4, <2>1, <3>1, <3>2, <3>3
  <2> QED BY <2>2, <2>3
<1>8. CASE finish(j) \/ end_download(j)
  <2>1. runs' = [runs EXCEPT ![j] = Done] /\ runs[j] # None /\ UNCHANGED used
    BY <1>8 DEF finish, end_download, goes, At
  <2>2. \/ UNCHANGED docs
        \/ \E h : docs' = [docs EXCEPT ![h] = None]
        \/ \E h, n : docs[h] # None /\ docs' = [docs EXCEPT ![h].count = n]
    BY <1>8 DEF finish, end_download, counts
  <2>3. \A d \in Docs : docs'[d] # None =>
            docs[d] # None /\ docs'[d].type = docs[d].type /\ docs'[d].source = docs[d].source
    <3>1. ASSUME NEW h, NEW n, docs[h] # None, docs' = [docs EXCEPT ![h].count = n], NEW d \in Docs
          PROVE  docs'[d] # None => docs[d] # None /\ docs'[d].type = docs[d].type
                                    /\ docs'[d].source = docs[d].source
      <4>1. CASE d = h
        <5>1. docs'[d] = [docs[d] EXCEPT !.count = n] /\ IsRow(docs[d])
          BY <3>1, <4>1 DEF PlaceInv, TableInv, DocInv
        <5> QED BY <3>1, <4>1, <5>1 DEF IsRow
      <4>2. CASE d # h
        BY <3>1, <4>2 DEF PlaceInv, TableInv
      <4> QED BY <4>1, <4>2
    <3> QED BY <2>2, <3>1 DEF PlaceInv, TableInv
  <2> QED BY <1>4, <2>1, <2>3, JobsGiven
<1> QED BY <1>1, <1>2, <1>3, <1>5, <1>6, <1>7, <1>8, <1>9

LEMMA DocumentSays ==
    ASSUME NEW p, NEW v, NEW t, NEW f, NEW c
    PROVE  LET row == Document(p, v, t, f, c) IN
           row.type = t /\ row.source = f /\ row.count = c /\ row.prefix = p
BY DEF Document

LEMMA NewOrigin ==
    ASSUME PlaceInv, OriginInv,
           upload_images \/ \E j \in Jobs : upload_pdf(j) \/ begin_download(j) \/ insert_document(j)
    PROVE  OriginInv'
<1>1. ASSUME NEW d \in Fresh, NEW row, NEW images, take(d, row, images),
             row.source # "familysearch_pdf",
             NEW j, NEW x, \A k \in Jobs : k # j => runs'[k] = runs[k],
             j \in Jobs => runs'[j] = x /\ x.at # "converted" /\ (Given(x) => Carries(j, x) \/ x.doc = d)
      PROVE  OriginInv'
  <2>1. \A e \in Docs : docs'[e] = IF e = d THEN row ELSE docs[e]
    BY <1>1 DEF PlaceInv, TableInv, take
  <2>2. used' = used \cup {d}
    BY <1>1 DEF take
  <2>3. \A k \in Jobs : runs'[k] # None /\ Given(runs'[k]) => Carries(k, runs'[k]) \/ Begins(runs'[k])
    BY <1>1, <2>1, <2>2 DEF Carries, Begins
  <2> QED BY <1>1, <2>1, <2>2, <2>3, OriginKeeps
<1>2. CASE upload_images
  <2>1. PICK d \in Fresh, n \in 1..MaxImages, v \in {"private", "public"} :
          take(d, Document(d, v, "image_set", "upload", n), 1..n)
    BY <1>2 DEF upload_images
  <2>2. PICK row : row = Document(d, v, "image_set", "upload", n) /\ row.source = "upload"
    BY DocumentSays
  <2>3. take(d, row, 1..n) /\ runs' = runs
    BY <1>2, <2>1, <2>2 DEF upload_images
  <2>4. PICK j : j \notin Jobs
    BY NoSetContainsEverything
  <2> QED BY <1>1, <2>2, <2>3, <2>4
<1>3. ASSUME NEW j \in Jobs, upload_pdf(j) PROVE OriginInv'
  <2>1. PICK d \in Fresh, v \in {"private", "public"} :
          /\ take(d, Document(d, v, "pdf", "upload", Sheets), {})
          /\ runs' = [runs EXCEPT ![j] = Queued("rasterize", d)]
    BY <1>3 DEF upload_pdf, goes
  <2>2. PICK row, x : /\ row = Document(d, v, "pdf", "upload", Sheets) /\ row.source = "upload"
                      /\ x = Queued("rasterize", d) /\ x.doc = d /\ x.at = "queued"
    BY DocumentSays, JobsGiven
  <2>3. take(d, row, {}) /\ runs'[j] = x /\ \A k \in Jobs : k # j => runs'[k] = runs[k]
    BY <2>1, <2>2 DEF PlaceInv, TableInv
  <2> QED BY <1>1, <2>2, <2>3
<1>4. ASSUME NEW j \in Jobs, begin_download(j) PROVE OriginInv'
  <2> SUFFICES ASSUME NEW r, r = runs[j] PROVE OriginInv'
    OBVIOUS
  <2>1. PICK d \in Fresh, n \in 0..MaxImages :
          /\ take(d, Document(d, "private", "image_set", "familysearch", 0), {})
          /\ runs' = [runs EXCEPT ![j] = [r EXCEPT !.at = "ready", !.home = d, !.prefix = d,
                    !.bucket = "private", !.visibility = "private",
                    !.todo = 1..n, !.total = n]]
    BY <1>4 DEF begin_download, goes
  <2>2. r # None /\ IsRun(r) /\ r.kind = "download"
    BY <1>4, RunIs DEF begin_download, At
  <2>3. PICK row, x :
          /\ row = Document(d, "private", "image_set", "familysearch", 0) /\ row.source = "familysearch"
          /\ x = [r EXCEPT !.at = "ready", !.home = d, !.prefix = d, !.bucket = "private",
                           !.visibility = "private", !.todo = 1..n, !.total = n]
    BY DocumentSays
  <2>4. x.kind = r.kind /\ x.at # "converted"
    BY <2>2, <2>3 DEF IsRun
  <2>5. take(d, row, {}) /\ runs'[j] = x /\ \A k \in Jobs : k # j => runs'[k] = runs[k]
    BY <2>1, <2>3 DEF PlaceInv, TableInv
  <2>6. ~Given(x)
    BY <2>2, <2>4 DEF Given
  <2> QED BY <1>1, <2>3, <2>4, <2>5, <2>6
<1>5. ASSUME NEW j \in Jobs, insert_document(j) PROVE OriginInv'
  <2> SUFFICES ASSUME NEW r, r = runs[j] PROVE OriginInv'
    OBVIOUS
  <2>1. r # None /\ r.at = "converted" /\ IsRun(r) /\ UNCHANGED used
    BY <1>5, RunIs DEF insert_document, At
  <2>2. PICK x : /\ runs' = [runs EXCEPT ![j] = x]
                 /\ \/ x = Done /\ docs' = docs
                    \/ /\ docs' = [docs EXCEPT ![r.home] =
                            Document(r.home, r.visibility, "pdf", "familysearch_pdf", r.total)]
                       /\ x = [r EXCEPT !.at = "ready"]
    BY <1>5 DEF insert_document, goes
  <2>3. runs'[j] = x /\ \A k \in Jobs : k # j => runs'[k] = runs[k]
    BY <2>2 DEF PlaceInv, TableInv
  <2>4. x.at # "converted" /\ (Given(x) => Given(r) /\ x.doc = r.doc)
    BY <2>1, <2>2, JobsGiven DEF IsRun, Given
  <2>5. \A k \in Jobs : runs'[k] # None /\ Given(runs'[k]) => Carries(k, runs'[k])
    BY <2>1, <2>3, <2>4 DEF Carries
  <2>6. \A e \in Docs : \/ docs'[e] = docs[e]
                        \/ e = r.home /\ docs'[e].type = "pdf"
    BY <2>2, DocumentSays DEF PlaceInv, TableInv
  <2> QED BY <2>1, <2>3, <2>4, <2>5, <2>6, OriginKeeps
<1> QED BY <1>2, <1>3, <1>4, <1>5

LEMMA RowsOrigin ==
    ASSUME PlaceInv, OriginInv,
           \/ discard_images \/ delete_document \/ set_visibility \/ commit \/ rollback
           \/ split_document \/ set_raster_settings \/ UNCHANGED vars
    PROVE  OriginInv'
<1>1. ASSUME UNCHANGED runs, used \subseteq used',
             \A d \in Docs : docs'[d] # None =>
              \/ docs[d] # None /\ docs'[d].type = docs[d].type /\ docs'[d].source = docs[d].source
              \/ d \notin used /\ (docs'[d].type = "image_set" => docs'[d].source # "familysearch_pdf")
      PROVE  OriginInv'
  BY <1>1, OriginKeeps DEF Carries
<1>2. CASE discard_images \/ delete_document \/ set_visibility \/ rollback \/ set_raster_settings \/ UNCHANGED vars
  <2>1. UNCHANGED <<docs, runs, used>>
    BY <1>2 DEF discard_images, delete_document, set_visibility, touches, rollback, set_raster_settings
  <2> QED BY <1>1, <2>1
<1>3. CASE commit
  <2> SUFFICES ASSUME NEW d, d = req.doc, NEW row, row = docs[d], NEW v, v = req.visibility PROVE OriginInv'
    OBVIOUS
  <2>1. row # None /\ d \in Docs /\ IsRow(row) /\ DOMAIN docs = Docs /\ UNCHANGED <<runs, used>>
        /\ req.op \in {"discard", "publish", "delete"}
    BY <1>3 DEF commit, PlaceInv, ReqInv, ReqOK, TableInv, DocInv
  <2>2. \/ docs' = docs \/ docs' = [docs EXCEPT ![d] = None]
        \/ docs' = [docs EXCEPT ![d].visibility = v, ![d].bucket = v]
    BY <1>3, <2>1 DEF commit, commit_discard, commit_visibility, commit_delete
  <2>3. PICK x : x = [row EXCEPT !.visibility = v, !.bucket = v]
    OBVIOUS
  <2>4. x.type = row.type /\ x.source = row.source
    BY <2>1, <2>3 DEF IsRow
  <2>5. \A e \in Docs : docs'[e] = docs[e] \/ docs'[e] = None \/ (e = d /\ docs'[e] = x)
    BY <2>1, <2>2, <2>3
  <2> QED BY <1>1, <2>1, <2>4, <2>5
<1>4. CASE split_document
  <2>1. PICK d, e, heads, tails, f, g :
            /\ d \in Live /\ e \in Fresh
            /\ docs' = [docs EXCEPT ![d].count = heads, ![e] = [docs[d] EXCEPT !.count = tails]]
            /\ pages' = [pages EXCEPT ![d] = f, ![e] = g]
            /\ enters(docs[d].prefix)
            /\ shared' = shared \cup {docs[d].prefix}
            /\ UNCHANGED <<blobs, runs, req>>
    BY <1>4, SplitIs, Zenon
  <2>2. docs' = [docs EXCEPT ![d].count = heads, ![e] = [docs[d] EXCEPT !.count = tails]]
    BY <2>1
  <2>3. PICK x, y : x = [docs[d] EXCEPT !.count = heads] /\ y = [docs[d] EXCEPT !.count = tails]
    OBVIOUS
  <2>4. IsRow(docs[d]) /\ d \in Docs /\ docs[d] # None /\ d \in used /\ e \notin used
        /\ UNCHANGED runs
    BY <2>1 DEF Live, PlaceInv, DocInv
  <2>5. /\ x.type = docs[d].type /\ x.source = docs[d].source
        /\ y.type = docs[d].type /\ y.source = docs[d].source
    BY <2>3, <2>4 DEF IsRow
  <2>6. \A c \in Docs : docs'[c] = IF c = e THEN y ELSE IF c = d THEN x ELSE docs[c]
    BY <2>2, <2>3, <2>4 DEF PlaceInv, TableInv
  <2>7. used \subseteq used'
    BY <1>4 DEF split_document
  <2>8. docs[d].type = "image_set" => docs[d].source # "familysearch_pdf"
    BY <2>4 DEF OriginInv, Copied
  <2> QED BY <1>1, <2>4, <2>5, <2>6, <2>7, <2>8
<1> QED BY <1>2, <1>3, <1>4

LEMMA OriginNext == PlaceInv /\ OriginInv /\ [Next]_vars => OriginInv'
<1> SUFFICES ASSUME PlaceInv, OriginInv, [Next]_vars PROVE OriginInv'
  OBVIOUS
<1>1. ASSUME NEW j \in Jobs,
             \/ upload_pdf(j) \/ rerasterize_job(j) \/ compact_pdf_job(j)
             \/ start_download(j) \/ Step(j) \/ dies(j) \/ crash(j)
      PROVE  OriginInv'
  BY <1>1, RunOrigin, NewOrigin DEF Step
<1>2. CASE upload_images
  BY <1>2, NewOrigin
<1> QED BY <1>1, <1>2, RowsOrigin DEF Next

-----------------------------------------------------------------------------
(* Page numbers: what a run has yet to do                                  *)

\* 1 to m are stored, the rest is to come.  A rendering that is delivered again may find
\* pages: it fails on the first of them.
Ahead(r, m) ==
    /\ r.total \in Nat /\ m \in Nat /\ m <= r.total /\ r.todo = (m + 1)..r.total
    /\ \/ DOMAIN pages[r.home] = 1..m
       \/ r.kind = "rasterize" /\ m = 0 /\ r.total # 0 /\ 1 \in DOMAIN pages[r.home]
Filling(r) == r.at \in {"wiped", "ready", "stored"}
FillOK(r) ==
    /\ r.kind \in Rasters /\ r.at \in {"loaded", "wiped"} =>
          r.total \in Nat \ {0} /\ r.todo = 1..r.total
    /\ r.kind = "compact" /\ r.at \in {"loaded", "converted"} /\ Sound(r.doc) =>
          r.total \in Nat /\ r.todo = 1..r.total
    /\ r.kind = "compact" /\ Filling(r) /\ docs[r.home] # None => Copied(r.home)
    /\ r.at = "stored" => r.todo # {}
    /\ r.prefix # None /\ r.prefix \notin mixed => (req # None => req.prefix # r.prefix)
    /\ /\ Filling(r) /\ r.prefix \notin mixed /\ docs[r.home] # None
       /\ r.kind = "compact" => Sound(r.doc)
       => /\ \E m \in Nat : Ahead(r, m)
          /\ r.kind = "compact" => docs[r.home].count = r.total

\* The pages of a document go from 1 on without a gap, unless two overlapped on it; only
\* compactions, which copy the numbers, make others.
Gapless(d) == \E k \in Nat : DOMAIN pages[d] = 1..k
CountInv ==
    /\ \A d \in Docs : IsFiniteSet(DOMAIN pages[d])
    /\ \A d \in Docs : docs[d] # None /\ docs[d].prefix \notin mixed /\ ~Copied(d) => Gapless(d)
    /\ \A j \in Jobs : \A r \in {runs[j]} : r # None => FillOK(r)

LEMMA CountInit == Init => CountInv
BY FS_EmptySet DEF Init, CountInv, NoPages

\* The numbers that are to come, and the first of them.
LEMMA FirstOfRest ==
    ASSUME NEW m \in Nat, NEW t \in Nat, (m + 1)..t # {}
    PROVE  /\ Min((m + 1)..t) = m + 1 /\ m + 1 <= t
           /\ ((m + 1)..t) \ {m + 1} = (m + 2)..t
<1> DEFINE S == (m + 1)..t
<1>1. m + 1 <= t /\ m + 1 \in S /\ \A y \in S : m + 1 <= y
  OBVIOUS
<1>2. \A x \in S : (\A y \in S : x <= y) => x = m + 1
  BY <1>1
<1>3. Min(S) = m + 1
  <2> HIDE DEF S
  <2> QED BY <1>1, <1>2 DEF Min
<1> QED BY <1>1, <1>3

\* A run that is not the one at work, and whose documents nobody has touched.
LEMMA FillOthers ==
    ASSUME PlaceInv, OriginInv, CountInv, NEW k \in Jobs, NEW r, r = runs[k], r # None,
           mixed \subseteq mixed',
           \A e \in Docs : (r.prefix # None /\ e = r.home) \/ (Given(r) /\ e = r.doc) =>
              \/ docs'[e] = None
              \/ /\ docs[e] # None /\ docs'[e].prefix = docs[e].prefix
                 /\ docs'[e].source = docs[e].source,
           r.prefix # None /\ r.prefix \notin mixed' =>
              /\ req' # None => req'.prefix # r.prefix
              /\ docs[r.home] # None /\ docs'[r.home] # None =>
                    /\ docs'[r.home].count = docs[r.home].count
                    /\ DOMAIN pages'[r.home] = DOMAIN pages[r.home]
    PROVE  FillOK(r)'
<1>1. RunOK(r) /\ IsRun(r) /\ FillOK(r)
  BY RunIs DEF CountInv
<1>2. /\ r.prefix # None => r.home \in Docs
      /\ Filling(r) => r.prefix # None
      /\ r.kind = "compact" => r.doc \in Docs
  BY <1>1 DEF RunOK, IsRun, PlaceInv, TableInv, Filling
<1>3. r.kind = "compact" /\ Sound(r.doc)' => Sound(r.doc)
  BY <1>2 DEF Sound, Given
<1>4. r.kind = "compact" /\ Filling(r) /\ docs'[r.home] # None => Copied(r.home)'
  BY <1>1, <1>2 DEF FillOK, Copied
<1>5. ASSUME Filling(r), r.prefix \notin mixed', docs'[r.home] # None,
             r.kind = "compact" => Sound(r.doc)'
      PROVE  /\ \E m \in Nat : Ahead(r, m)'
             /\ r.kind = "compact" => docs'[r.home].count = r.total
  <2>1. /\ r.prefix # None /\ r.home \in Docs /\ docs[r.home] # None /\ r.prefix \notin mixed
        /\ DOMAIN pages'[r.home] = DOMAIN pages[r.home]
        /\ docs'[r.home].count = docs[r.home].count
    BY <1>2, <1>5
  <2>2. PICK m \in Nat : Ahead(r, m)
    BY <1>1, <1>3, <1>5, <2>1 DEF FillOK
  <2>3. Ahead(r, m)'
    BY <2>1, <2>2 DEF Ahead
  <2>4. r.kind = "compact" => docs[r.home].count = r.total
    BY <1>1, <1>3, <1>5, <2>1 DEF FillOK
  <2> QED BY <2>1, <2>3, <2>4
<1>6. r.kind = "compact" /\ r.at \in {"loaded", "converted"} /\ Sound(r.doc)' =>
          r.total \in Nat /\ r.todo = 1..r.total
  BY <1>1, <1>3 DEF FillOK
<1>7. r.prefix # None /\ r.prefix \notin mixed' => (req' # None => req'.prefix # r.prefix)
  OBVIOUS
<1>8. /\ r.kind \in Rasters /\ r.at \in {"loaded", "wiped"} =>
            r.total \in Nat \ {0} /\ r.todo = 1..r.total
      /\ r.at = "stored" => r.todo # {}
  BY <1>1 DEF FillOK
<1> QED BY <1>4, <1>5, <1>6, <1>7, <1>8 DEF FillOK, Filling, Rasters

\* A run that has not begun, or is over, has nothing to do.
LEMMA FillRests ==
    /\ \A kind, d : FillOK(Queued(kind, d))'
    /\ FillOK(Done)'
<1>1. \A kind, d : Queued(kind, d).at = "queued" /\ Queued(kind, d).prefix = None
  BY DEF Queued
<1>2. Done.at = "done" /\ Done.prefix = None
  BY DEF Done, Queued
<1> QED BY <1>1, <1>2 DEF FillOK, Filling

\* A step of one run that leaves the rows as they are.
LEMMA FillRuns ==
    ASSUME PlaceInv, OriginInv, CountInv, UNCHANGED <<docs, pages, req>>, mixed \subseteq mixed',
           NEW j \in Jobs, NEW x, runs' = [runs EXCEPT ![j] = x], FillOK(x)'
    PROVE  CountInv'
<1>1. runs'[j] = x /\ \A k \in Jobs : k # j => runs'[k] = runs[k]
  BY DEF PlaceInv, TableInv
<1>2. ASSUME NEW k \in Jobs, NEW r, r = runs'[k], r # None PROVE FillOK(r)'
  <2>1. CASE k = j
    BY <1>1, <1>2, <2>1
  <2>2. CASE k # j
    <3>1. r = runs[k] /\ FillOK(r) /\ RunOK(r)
      BY <1>1, <1>2, <2>2, RunIs DEF CountInv
    <3>2. r.prefix # None /\ r.prefix \notin mixed' => (req' # None => req'.prefix # r.prefix)
      BY <3>1 DEF FillOK
    <3> QED BY <1>2, <3>1, <3>2, FillOthers DEF RunOK, IsRun
  <2> QED BY <2>1, <2>2
<1>3. \A d \in Docs : IsFiniteSet(DOMAIN pages'[d])
  BY DEF CountInv
<1>4. \A d \in Docs : docs'[d] # None /\ docs'[d].prefix \notin mixed' /\ ~Copied(d)' => Gapless(d)'
  BY DEF CountInv, Copied, Gapless
<1> QED BY <1>2, <1>3, <1>4 DEF CountInv

\* Jobs begin or end, or are given the time that remains.
LEMMA JobsFill ==
    ASSUME PlaceInv, OriginInv, CountInv, NEW j \in Jobs,
           \/ rerasterize_job(j) \/ compact_pdf_job(j) \/ start_download(j)
           \/ leave_download(j) \/ dies(j) \/ crash(j)
    PROVE  CountInv'
<1>1. CASE rerasterize_job(j) \/ compact_pdf_job(j)
  <2>1. PICK kind \in {"rerasterize", "compact"}, d \in Docs :
            runs' = [runs EXCEPT ![j] = Queued(kind, d)] /\ UNCHANGED <<docs, pages, req, mixed>>
    BY <1>1 DEF rerasterize_job, compact_pdf_job, job_for, goes, Live
  <2> QED BY <2>1, FillRests, FillRuns
<1>2. CASE ~(rerasterize_job(j) \/ compact_pdf_job(j))
  <2>1. PICK x : /\ x = Done \/ \E kind, d : x = Queued(kind, d)
                 /\ runs' = [runs EXCEPT ![j] = x] /\ UNCHANGED <<docs, pages, req, mixed>>
    <3>1. CASE start_download(j)
      BY <3>1 DEF start_download, goes
    <3>2. CASE leave_download(j) \/ dies(j)
      BY <3>2 DEF leave_download, dies, goes
    <3>3. CASE crash(j)
      BY <3>3 DEF crash, goes
    <3> QED BY <1>2, <3>1, <3>2, <3>3
  <2>2. FillOK(x)'
    BY <2>1, FillRests
  <2> QED BY <2>1, <2>2, FillRuns
<1> QED BY <1>1, <1>2

\* A rendering begins: where there are pages already, their first is in its way.
LEMMA LoadPdfFills ==
    ASSUME PlaceInv, OriginInv, CountInv, NEW j \in Jobs, load_pdf(j) PROVE CountInv'
<1> SUFFICES ASSUME NEW r, r = runs[j], NEW row, row = docs[r.doc] PROVE CountInv'
  OBVIOUS
<1> DEFINE d == r.doc
           p == row.prefix
<1>1. /\ r # None /\ r.at = "queued" /\ r.kind \in {"rasterize", "rerasterize"}
      /\ UNCHANGED <<docs, pages, req>>
  BY DEF load_pdf, At, Rasters
<1>2. RunOK(r) /\ IsRun(r) /\ d \in Docs
  BY <1>1, RunIs DEF IsRun
<1>3. CASE runs' = [runs EXCEPT ![j] = Done] /\ UNCHANGED mixed
  BY <1>1, <1>3, FillRests, FillRuns
<1>4. CASE ~(runs' = [runs EXCEPT ![j] = Done] /\ UNCHANGED mixed)
  <2>1. PICK x :
          /\ x = [r EXCEPT !.at = IF r.kind = "rasterize" THEN "ready" ELSE "loaded",
                        !.home = d, !.prefix = row.prefix, !.bucket = row.bucket,
                        !.visibility = row.visibility, !.todo = Rendered,
                        !.total = Cardinality(Rendered)]
          /\ row # None
          /\ runs' = [runs EXCEPT ![j] = x]
          /\ enters(p)
    BY <1>4 DEF load_pdf, can_render, goes
  <2>2. /\ x.home = d /\ x.prefix = p /\ x.kind = r.kind /\ x.doc = r.doc
        /\ x.at = IF r.kind = "rasterize" THEN "ready" ELSE "loaded"
        /\ x.todo = Rendered /\ x.total = Cardinality(Rendered)
    BY <1>2, <2>1 DEF IsRun
  <2>3. x.total \in Nat \ {0} /\ x.todo = 1..x.total
    <3>1. PICK n \in Nat \ {0} : Rendered = 1..n
      BY DocumentsAssumption DEF DocumentsAssumption, Rendered
    <3>2. Cardinality(1..n) = n
      BY FS_Interval
    <3> QED BY <2>2, <3>1, <3>2
  <2>4. mixed \subseteq mixed' /\ (p \notin mixed' => ~Busy(p))
    BY <2>1 DEF enters
  <2>5. p \notin mixed' => (req' # None => req'.prefix # p)
    BY <1>1, <2>4 DEF Busy
  <2>6. ASSUME x.at = "ready", p \notin mixed' PROVE Ahead(x, 0)'
    <3>1. Given(r) /\ p \notin mixed
      BY <2>2, <2>4, <2>6 DEF Given
    <3>2. ~Copied(d)
      BY <1>1, <2>1, <3>1 DEF OriginInv
    <3>3. PICK k \in Nat : DOMAIN pages[d] = 1..k
      BY <1>2, <2>1, <3>1, <3>2 DEF CountInv, Gapless
    <3>4. DOMAIN pages'[d] = 1..0 \/ 1 \in DOMAIN pages'[d]
      BY <1>1, <3>3
    <3>5. x.kind = "rasterize"
      BY <1>1, <2>2, <2>6
    <3> QED BY <2>2, <2>3, <3>4, <3>5 DEF Ahead
  <2>7. FillOK(x)'
    BY <1>1, <2>2, <2>3, <2>5, <2>6 DEF FillOK, Filling
  <2> QED BY <1>1, <2>1, <2>4, <2>7, FillRuns
<1> QED BY <1>3, <1>4

\* A compaction reads which pages there are.
LEMMA LoadPagesFills ==
    ASSUME PlaceInv, OriginInv, CountInv, NEW j \in Jobs, load_pages(j) PROVE CountInv'
<1> SUFFICES ASSUME NEW r, r = runs[j], NEW d, d = r.doc, NEW t, t = DOMAIN pages[d] PROVE CountInv'
  OBVIOUS
<1> DEFINE row == docs[d]
           w == {pages[d][n].key : n \in t}
           x == [r EXCEPT !.at = "loaded", !.bucket = row.bucket, !.visibility = row.visibility,
                          !.todo = t, !.wanted = w, !.total = Cardinality(t)]
<1>1. /\ r # None /\ r.at = "queued" /\ r.kind = "compact"
      /\ UNCHANGED <<docs, pages, req, mixed>>
  BY DEF load_pages, At
<1>2. RunOK(r) /\ IsRun(r) /\ d \in Docs /\ r.prefix = None
  BY <1>1, RunIs DEF RunOK, IsRun
<1>3. CASE row = None
  BY <1>1, <1>3, FillRests, FillRuns DEF load_pages, goes
<1>4. CASE row # None
  <2>1. runs' = [runs EXCEPT ![j] = x]
    BY <1>4 DEF load_pages, goes
  <2>2. PICK y : y = x
    OBVIOUS
  <2>3. /\ y.kind = "compact" /\ y.doc = d /\ y.at = "loaded" /\ y.prefix = None
        /\ y.todo = t /\ y.total = Cardinality(t)
    <3> HIDE DEF row, w
    <3> QED BY <1>1, <1>2, <2>2 DEF IsRun
  <2> HIDE DEF x
  <2>4. ASSUME Sound(d) PROVE y.total \in Nat /\ y.todo = 1..y.total
    <3>1. ~Copied(d)
      BY <1>1, <1>4 DEF OriginInv, Given
    <3>2. PICK k \in Nat : t = 1..k
      BY <1>2, <1>4, <2>4, <3>1 DEF CountInv, Gapless, Sound
    <3>3. Cardinality(1..k) = k
      BY FS_Interval
    <3> QED BY <2>3, <3>2, <3>3
  <2>5. Sound(d)' => Sound(d)
    BY <1>1 DEF Sound
  <2>6. FillOK(y)'
    BY <2>3, <2>4, <2>5 DEF FillOK, Filling, Rasters
  <2> QED BY <1>1, <2>1, <2>2, <2>6, FillRuns
<1> QED BY <1>3, <1>4

LEMMA StoresFill ==
    ASSUME PlaceInv, OriginInv, CountInv, NEW j \in Jobs,
           convert(j) \/ clear_images(j) \/ put_image(j)
    PROVE  CountInv'
<1> SUFFICES ASSUME NEW r, r = runs[j] PROVE CountInv'
  OBVIOUS
<1>1. r # None /\ UNCHANGED <<docs, pages, req, mixed>>
  BY DEF convert, clear_images, put_image, At
<1>2. RunOK(r) /\ IsRun(r) /\ FillOK(r)
  BY <1>1, RunIs DEF CountInv
<1>3. CASE convert(j)
  <2>1. r.at = "loaded" /\ r.kind = "compact"
    BY <1>3 DEF convert, At
  <2>2. CASE runs' = [runs EXCEPT ![j] = Done]
    BY <1>1, <2>2, FillRests, FillRuns
  <2>3. CASE runs' # [runs EXCEPT ![j] = Done]
    <3>1. PICK d \in Fresh : runs' = [runs EXCEPT ![j] = [r EXCEPT !.at = "converted", !.home = d,
                                                        !.prefix = d, !.wanted = {}]]
      BY <1>3, <2>3 DEF convert, goes
    <3>2. PICK x : x = [r EXCEPT !.at = "converted", !.home = d, !.prefix = d, !.wanted = {}]
      OBVIOUS
    <3>3. /\ x.kind = "compact" /\ x.doc = r.doc /\ x.prefix = d /\ x.at = "converted"
          /\ x.todo = r.todo /\ x.total = r.total
      BY <1>2, <2>1, <3>2 DEF IsRun
    <3>4. req' # None => req'.prefix # d
      BY <1>1, <3>1 DEF PlaceInv, ReqInv, ReqOK
    <3>5. Sound(r.doc)' => Sound(r.doc)
      BY <1>1 DEF Sound
    <3>6. FillOK(x)'
      BY <1>2, <2>1, <3>3, <3>4, <3>5 DEF FillOK, Filling, Rasters
    <3> QED BY <1>1, <3>1, <3>2, <3>6, FillRuns
  <2> QED BY <2>2, <2>3
<1>4. CASE clear_images(j) \/ put_image(j)
  <2>1. PICK a, x : /\ runs' = [runs EXCEPT ![j] = x] /\ x = [r EXCEPT !.at = a]
                 /\ \/ a = "ready" /\ r.at = "wiped"
                    \/ a = "stored" /\ r.at = "ready" /\ r.todo # {}
    BY <1>4 DEF clear_images, put_image, At, goes
  <2>2. /\ x.kind = r.kind /\ x.doc = r.doc /\ x.home = r.home /\ x.prefix = r.prefix
        /\ x.todo = r.todo /\ x.total = r.total /\ x.at = a
    BY <1>2, <2>1 DEF IsRun
  <2>3. Filling(r) /\ (Sound(r.doc)' => Sound(r.doc))
    BY <1>1, <2>1 DEF Sound, Filling
  <2>4. \A m \in Nat : Ahead(r, m) => Ahead(x, m)'
    BY <1>1, <2>2 DEF Ahead
  <2>5. Copied(r.home) => Copied(x.home)'
    BY <1>1, <2>2 DEF Copied
  <2>6. FillOK(x)'
    BY <1>1, <1>2, <2>1, <2>2, <2>3, <2>4, <2>5 DEF FillOK, Filling, Rasters
  <2> QED BY <1>1, <2>1, <2>6, FillRuns
<1> QED BY <1>3, <1>4

\* A step of one run in its own document.
LEMMA HomeFills ==
    ASSUME PlaceInv, OriginInv, CountInv, UNCHANGED <<req, mixed>>,
           NEW j \in Jobs, runs[j] # None, runs[j].prefix # None,
           NEW x, runs' = [runs EXCEPT ![j] = x], FillOK(x)',
           \A e \in Docs : e # runs[j].home => docs'[e] = docs[e] /\ pages'[e] = pages[e],
           \A h \in Docs : h = runs[j].home =>
              /\ \/ docs'[h] = None
                 \/ /\ docs[h] # None /\ docs'[h].prefix = docs[h].prefix
                    /\ docs'[h].source = docs[h].source
              /\ IsFiniteSet(DOMAIN pages'[h])
              /\ docs'[h] # None /\ docs'[h].prefix \notin mixed /\ docs'[h].source # "familysearch_pdf"
                    => \E n \in Nat : DOMAIN pages'[h] = 1..n
    PROVE  CountInv'
<1> SUFFICES ASSUME NEW r, r = runs[j], NEW h, h = r.home PROVE CountInv'
  OBVIOUS
<1>1. runs'[j] = x /\ \A k \in Jobs : k # j => runs'[k] = runs[k]
  BY DEF PlaceInv, TableInv
<1>2. RunOK(r) /\ h \in Docs
  BY RunIs DEF RunOK, PlaceInv, TableInv
<1>3. ASSUME NEW k \in Jobs, NEW y, y = runs'[k], y # None PROVE FillOK(y)'
  <2>1. CASE k = j
    BY <1>1, <1>3, <2>1
  <2>2. CASE k # j
    <3>1. y = runs[k] /\ FillOK(y) /\ RunOK(y)
      BY <1>1, <1>3, <2>2, RunIs DEF CountInv
    <3>2. y.prefix # None /\ y.prefix \notin mixed => (req' # None => req'.prefix # y.prefix)
      BY <3>1 DEF FillOK
    <3>3. y.prefix # None /\ y.prefix \notin mixed /\ docs[h] # None => y.home # h
      <4> SUFFICES ASSUME y.prefix # None, docs[h] # None, y.home = h PROVE y.prefix \in mixed
        OBVIOUS
      <4>1. y.prefix = r.prefix
        BY <1>2, <3>1 DEF RunOK
      <4> QED BY <1>3, <2>2, <3>1, <4>1 DEF PlaceInv, AloneInv
    <3>4. y.prefix # None => y.home \in Docs
      BY <3>1 DEF RunOK, PlaceInv, TableInv
    <3>5. \A e \in Docs :
              \/ docs'[e] = None
              \/ /\ docs[e] # None /\ docs'[e].prefix = docs[e].prefix
                 /\ docs'[e].source = docs[e].source
      <4>1. \A e \in Docs : e # h => docs'[e] = None \/ (docs'[e] = docs[e] /\ docs[e] # None)
        OBVIOUS
      <4> QED BY <4>1, <1>2
    <3>6. y.prefix # None /\ y.prefix \notin mixed' =>
              /\ req' # None => req'.prefix # y.prefix
              /\ docs[y.home] # None /\ docs'[y.home] # None =>
                    /\ docs'[y.home].count = docs[y.home].count
                    /\ DOMAIN pages'[y.home] = DOMAIN pages[y.home]
      BY <3>2, <3>3, <3>4
    <3> QED BY <1>3, <3>1, <3>5, <3>6, FillOthers
  <2> QED BY <2>1, <2>2
<1>4. \A d \in Docs : IsFiniteSet(DOMAIN pages'[d])
  BY DEF CountInv
<1>5. \A d \in Docs : docs'[d] # None /\ docs'[d].prefix \notin mixed' /\ ~Copied(d)' => Gapless(d)'
  BY DEF CountInv, Copied, Gapless
<1> QED BY <1>3, <1>4, <1>5 DEF CountInv

LEMMA WipeFills == ASSUME PlaceInv, OriginInv, CountInv, NEW j \in Jobs, wipe(j) PROVE CountInv'
<1> SUFFICES ASSUME NEW r, r = runs[j], NEW h, h = r.home PROVE CountInv'
  OBVIOUS
<1>1. /\ r # None /\ r.at = "loaded" /\ r.kind = "rerasterize" /\ UNCHANGED <<docs, req, mixed>>
      /\ pages' = [pages EXCEPT ![h] = NoPages]
      /\ runs' = [runs EXCEPT ![j] = [r EXCEPT !.at = "wiped"]]
  BY DEF wipe, At, goes
<1>2. RunOK(r) /\ IsRun(r) /\ FillOK(r)
  BY <1>1, RunIs DEF CountInv
<1>3. r.prefix # None /\ h \in Docs
  BY <1>1, <1>2 DEF RunOK, PlaceInv, TableInv
<1>4. /\ DOMAIN pages'[h] = {} /\ \A e \in Docs : e # h => pages'[e] = pages[e]
  BY <1>1, <1>3 DEF PlaceInv, TableInv, NoPages
<1>5. PICK x : x = [r EXCEPT !.at = "wiped"]
  OBVIOUS
<1>6. /\ x.kind = "rerasterize" /\ x.home = h /\ x.prefix = r.prefix /\ x.at = "wiped"
      /\ x.todo = r.todo /\ x.total = r.total
  BY <1>1, <1>2, <1>5 DEF IsRun
<1>7. x.total \in Nat \ {0} /\ x.todo = 1..x.total
  BY <1>1, <1>2, <1>6 DEF FillOK, Rasters
<1>8. Ahead(x, 0)'
  BY <1>4, <1>6, <1>7 DEF Ahead
<1>9. FillOK(x)'
  BY <1>1, <1>2, <1>6, <1>7, <1>8 DEF FillOK, Filling, Rasters
<1>10. (\E k \in Nat : DOMAIN pages'[h] = 1..k) /\ IsFiniteSet(DOMAIN pages'[h])
  <2>1. DOMAIN pages'[h] = 1..0
    BY <1>4
  <2> QED BY <1>4, <2>1, FS_EmptySet
<1>11. /\ runs' = [runs EXCEPT ![j] = x] /\ UNCHANGED <<req, mixed>>
       /\ r # None /\ r.prefix # None
       /\ \A e \in Docs : e # r.home => docs'[e] = docs[e] /\ pages'[e] = pages[e]
  BY <1>1, <1>3, <1>4, <1>5
<1>12. \/ docs'[h] = None
       \/ docs[h] # None /\ docs'[h].prefix = docs[h].prefix /\ docs'[h].source = docs[h].source
  BY <1>1
<1> QED BY <1>9, <1>10, <1>11, <1>12, HomeFills

\* The next page is the first that is to come, and follows on the ones that are there.
LEMMA CommitPageFills ==
    ASSUME PlaceInv, OriginInv, CountInv, NEW j \in Jobs, commit_page(j) PROVE CountInv'
<1> SUFFICES ASSUME NEW r, r = runs[j], NEW h, h = r.home, NEW n, n = Min(r.todo) PROVE CountInv'
  OBVIOUS
<1>1. /\ r # None /\ r.at = "stored" /\ UNCHANGED <<docs, req, mixed>>
  BY DEF commit_page, At
<1>2. RunOK(r) /\ IsRun(r) /\ FillOK(r)
  BY <1>1, RunIs DEF CountInv
<1>3. r.prefix # None /\ h \in Docs
  BY <1>1, <1>2 DEF RunOK, PlaceInv, TableInv
<1>4. CASE docs[h] = None \/ n \in DOMAIN pages[h]
  BY <1>1, <1>4, FillRests, FillRuns DEF commit_page, goes
<1>5. CASE ~(docs[h] = None \/ n \in DOMAIN pages[h])
  <2>1. PICK f, x :
          /\ f = With(pages[h], n, page_row(r, n))
          /\ pages' = [pages EXCEPT ![h] = f]
          /\ x = [r EXCEPT !.at = "ready", !.todo = r.todo \ {n}]
          /\ runs' = [runs EXCEPT ![j] = x]
    BY <1>5 DEF commit_page, goes
  <2>2. DOMAIN f = DOMAIN pages[h] \cup {n}
    BY <2>1 DEF With
  <2>3. /\ DOMAIN pages'[h] = DOMAIN pages[h] \cup {n}
        /\ \A e \in Docs : e # h => pages'[e] = pages[e]
    BY <1>3, <2>1, <2>2 DEF PlaceInv, TableInv
  <2>4. /\ x.kind = r.kind /\ x.home = h /\ x.doc = r.doc /\ x.prefix = r.prefix /\ x.at = "ready"
        /\ x.todo = r.todo \ {n} /\ x.total = r.total
    BY <1>2, <2>1 DEF IsRun
  <2>5. docs[h] # None /\ docs[h].prefix = r.prefix
    BY <1>2, <1>3, <1>5 DEF RunOK
  <2>6. ASSUME r.prefix \notin mixed, r.kind = "compact" => Sound(r.doc)
        PROVE  /\ \E m \in Nat : Ahead(x, m)' /\ DOMAIN pages'[h] = 1..m
               /\ r.kind = "compact" => docs[h].count = r.total
    <3>1. PICK m \in Nat : Ahead(r, m)
      BY <1>1, <1>2, <2>5, <2>6 DEF FillOK, Filling
    <3>2. r.todo # {} /\ (r.kind = "compact" => docs[h].count = r.total)
      BY <1>1, <1>2, <2>5, <2>6 DEF FillOK, Filling
    <3>3. /\ r.total \in Nat /\ n = m + 1 /\ m + 1 <= r.total /\ r.todo \ {n} = (m + 2)..r.total
      BY <3>1, <3>2, FirstOfRest DEF Ahead
    <3>4. DOMAIN pages[h] = 1..m
      BY <1>5, <3>1, <3>3 DEF Ahead
    <3>5. DOMAIN pages'[h] = 1..(m + 1)
      <4>1. 1..(m + 1) = (1..m) \cup {m + 1}
        OBVIOUS
      <4> QED BY <2>3, <3>3, <3>4, <4>1
    <3>6. Ahead(x, m + 1)'
      <4>1. (m + 1) + 1 = m + 2 /\ m + 1 \in Nat
        OBVIOUS
      <4> QED BY <2>4, <3>3, <3>5, <4>1 DEF Ahead
    <3> QED BY <3>2, <3>5, <3>6
  <2>7. r.kind = "compact" => (Sound(r.doc)' => Sound(r.doc)) /\ Copied(h) /\ Copied(h)'
    BY <1>1, <1>2, <1>5 DEF FillOK, Filling, Sound, Copied
  <2>8. FillOK(x)'
    BY <1>1, <1>2, <2>4, <2>6, <2>7 DEF FillOK, Filling, Rasters
  <2>9. IsFiniteSet(DOMAIN pages'[h])
    <3>1. IsFiniteSet(DOMAIN pages[h])
      BY <1>3 DEF CountInv
    <3>2. IsFiniteSet(DOMAIN pages[h] \cup {n})
      BY <3>1, FS_AddElement
    <3> QED BY <2>3, <3>2
  <2>10. docs[h].prefix \notin mixed /\ docs[h].source # "familysearch_pdf" =>
            \E k \in Nat : DOMAIN pages'[h] = 1..k
    BY <2>5, <2>6, <2>7 DEF Gapless, Copied
  <2>11. /\ runs' = [runs EXCEPT ![j] = x] /\ UNCHANGED <<req, mixed>> /\ docs' = docs
         /\ \A e \in Docs : e # h => docs'[e] = docs[e] /\ pages'[e] = pages[e]
    BY <1>1, <2>1, <2>3
  <2> QED BY <1>1, <1>3, <2>5, <2>8, <2>9, <2>10, <2>11, HomeFills
<1> QED BY <1>4, <1>5

\* The last step of a run: its document has the pages that are counted.
LEMMA FinishCounts ==
    ASSUME PlaceInv, OriginInv, CountInv, NEW j \in Jobs, finish(j) \/ end_download(j)
    PROVE  /\ CountInv'
           /\ \A d \in Docs : Finishes(j) /\ d = runs[j].home => Numbered(d)'
<1> SUFFICES ASSUME NEW r, r = runs[j], NEW h, h = r.home
             PROVE  /\ CountInv'
                    /\ Finishes(j) => Numbered(h)'
  OBVIOUS
<1>1. /\ r # None /\ r.at = "ready" /\ UNCHANGED <<req, mixed>>
      /\ runs' = [runs EXCEPT ![j] = Done]
  BY DEF finish, end_download, At, goes
<1>2. RunOK(r) /\ IsRun(r) /\ FillOK(r)
  BY <1>1, RunIs DEF CountInv
<1>3. r.prefix # None /\ h \in Docs
  BY <1>1, <1>2 DEF RunOK, PlaceInv, TableInv
<1>4. PICK x : x = Done /\ FillOK(x)'
  BY FillRests
\* Its count may change, and it may go.
<1>5. ASSUME \A e \in Docs : e # h => docs'[e] = docs[e] /\ pages'[e] = pages[e],
             \/ docs'[h] = None /\ DOMAIN pages'[h] = {}
             \/ /\ docs'[h] = docs[h] \/ (docs[h] # None /\ \E n : docs'[h] = [docs[h] EXCEPT !.count = n])
                /\ pages'[h] = pages[h]
      PROVE  CountInv'
  <2>1. \/ docs'[h] = None
        \/ docs[h] # None /\ docs'[h].prefix = docs[h].prefix /\ docs'[h].source = docs[h].source
    <3>1. docs[h] # None => IsRow(docs[h])
      BY <1>3 DEF PlaceInv, DocInv
    <3> QED BY <1>5, <3>1 DEF IsRow
  <2>2. IsFiniteSet(DOMAIN pages'[h])
    BY <1>3, <1>5, FS_EmptySet DEF CountInv
  <2>3. docs'[h] # None /\ docs'[h].prefix \notin mixed /\ docs'[h].source # "familysearch_pdf" =>
            \E k \in Nat : DOMAIN pages'[h] = 1..k
    BY <1>3, <1>5, <2>1 DEF CountInv, Gapless, Copied
  <2>4. /\ runs' = [runs EXCEPT ![j] = x] /\ UNCHANGED <<req, mixed>>
        /\ r # None /\ r.prefix # None
        /\ \A e \in Docs : e # r.home => docs'[e] = docs[e] /\ pages'[e] = pages[e]
    BY <1>1, <1>3, <1>4, <1>5
  <2> QED BY <1>4, <2>1, <2>2, <2>3, <2>4, HomeFills
<1>6. ASSUME Finishes(j), docs[h] # None
      PROVE  /\ \E m \in Nat : Ahead(r, m)
             /\ r.kind = "compact" => docs[h].count = r.total
  BY <1>1, <1>2, <1>6 DEF Finishes, FillOK, Filling
<1>7. CASE finish(j)
  <2>1. /\ r.kind \in {"rasterize", "rerasterize", "compact"} /\ r.todo = {} /\ UNCHANGED pages
        /\ \/ docs' = docs /\ (r.kind = "compact" \/ docs[h] = None)
           \/ docs[h] # None /\ r.kind # "compact" /\ docs' = [docs EXCEPT ![h].count = r.total]
    BY <1>7 DEF finish, At, Rasters, counts
  <2>2. /\ \A e \in Docs : e # h => docs'[e] = docs[e]
        /\ \/ docs'[h] = docs[h] /\ (r.kind = "compact" \/ docs[h] = None)
           \/ docs[h] # None /\ docs'[h] = [docs[h] EXCEPT !.count = r.total]
    BY <1>3, <2>1 DEF PlaceInv, TableInv
  <2>3. CountInv'
    BY <1>5, <2>1, <2>2
  <2>4. ASSUME Finishes(j), docs'[h] # None PROVE DOMAIN pages'[h] = 1..docs'[h].count
    <3>1. docs[h] # None /\ IsRow(docs[h])
      BY <1>3, <2>2, <2>4 DEF PlaceInv, DocInv
    <3>2. PICK m \in Nat : Ahead(r, m)
      BY <1>6, <2>4, <3>1
    <3>3. m = r.total /\ DOMAIN pages[h] = 1..r.total
      <4>1. r.total \in Nat /\ m <= r.total /\ (m + 1)..r.total = {}
        BY <2>1, <3>2 DEF Ahead
      <4>2. m = r.total
        <5>1. m + 1 <= r.total => m + 1 \in (m + 1)..r.total
          BY <4>1
        <5> QED BY <4>1, <5>1
      <4> QED BY <3>2, <4>2 DEF Ahead
    <3>4. docs'[h].count = r.total
      BY <1>6, <2>2, <2>4, <3>1 DEF IsRow
    <3> QED BY <2>1, <3>3, <3>4
  <2> QED BY <2>3, <2>4 DEF Numbered
<1>8. CASE end_download(j)
  <2> SUFFICES ASSUME NEW index, index = r.total - Cardinality(r.todo)
               PROVE  CountInv' /\ (Finishes(j) => Numbered(h)')
    OBVIOUS
  <2>1. /\ r.kind = "download"
        /\ \/ docs' = [docs EXCEPT ![h] = None] /\ pages' = [pages EXCEPT ![h] = NoPages]
           \/ /\ pages' = pages
              /\ docs' = IF docs[h] = None THEN docs ELSE [docs EXCEPT ![h].count = index]
    BY <1>8 DEF end_download, At, counts
  <2>2. /\ \A e \in Docs : e # h => docs'[e] = docs[e] /\ pages'[e] = pages[e]
        /\ \/ docs'[h] = None /\ DOMAIN pages'[h] = {}
           \/ docs[h] = None /\ docs'[h] = docs[h] /\ pages'[h] = pages[h]
           \/ docs[h] # None /\ docs'[h] = [docs[h] EXCEPT !.count = index] /\ pages'[h] = pages[h]
    BY <1>3, <2>1 DEF PlaceInv, TableInv, NoPages
  <2>3. CountInv'
    BY <1>5, <2>2
  <2>4. ASSUME Finishes(j), docs'[h] # None PROVE DOMAIN pages'[h] = 1..docs'[h].count
    <3>1. docs[h] # None /\ IsRow(docs[h])
      BY <1>3, <2>2, <2>4 DEF PlaceInv, DocInv
    <3>2. PICK m \in Nat : Ahead(r, m)
      BY <1>6, <2>4, <3>1
    <3>3. /\ r.total \in Nat /\ m <= r.total /\ r.todo = (m + 1)..r.total
          /\ DOMAIN pages[h] = 1..m
      BY <2>1, <3>2 DEF Ahead
    <3>4. Cardinality((m + 1)..r.total) = r.total - m
      <4>1. Cardinality((m + 1)..r.total) = IF m + 1 > r.total THEN 0 ELSE r.total - (m + 1) + 1
        BY <3>3, FS_Interval
      <4> QED BY <3>3, <4>1
    <3>5. index = m
      BY <3>3, <3>4
    <3>6. docs'[h] = [docs[h] EXCEPT !.count = index] /\ pages'[h] = pages[h]
      BY <2>2, <2>4, <3>1
    <3> QED BY <3>1, <3>3, <3>5, <3>6 DEF IsRow
  <2> QED BY <2>3, <2>4 DEF Numbered
<1> QED BY <1>7, <1>8

LEMMA InsertFills == ASSUME PlaceInv, OriginInv, CountInv, NEW j \in Jobs, insert_document(j) PROVE CountInv'
<1> SUFFICES ASSUME NEW r, r = runs[j], NEW h, h = r.home PROVE CountInv'
  OBVIOUS
<1>1. /\ r # None /\ r.at = "converted" /\ r.kind = "compact"
      /\ UNCHANGED <<pages, used, req, mixed>>
  BY DEF insert_document, At
<1>2. RunOK(r) /\ IsRun(r) /\ FillOK(r)
  BY <1>1, RunIs DEF CountInv
<1>3. /\ r.prefix = h /\ h \in Docs /\ r.prefix # None /\ docs[h] = None /\ DOMAIN pages[h] = {}
  BY <1>1, <1>2 DEF RunOK, PlaceInv, TableInv
<1>4. CASE docs[r.doc] = None
  BY <1>1, <1>4, FillRests, FillRuns DEF insert_document, goes
<1>5. CASE docs[r.doc] # None
  <2>1. PICK row, x :
          /\ row = Document(h, r.visibility, "pdf", "familysearch_pdf", r.total)
          /\ x = [r EXCEPT !.at = "ready"]
          /\ docs' = [docs EXCEPT ![h] = row]
          /\ runs' = [runs EXCEPT ![j] = x]
    BY <1>5 DEF insert_document, goes
  <2>2. row.source = "familysearch_pdf" /\ row.count = r.total
    BY <2>1, DocumentSays
  <2>3. /\ runs'[j] = x /\ \A k \in Jobs : k # j => runs'[k] = runs[k]
        /\ docs'[h] = row /\ \A e \in Docs : e # h => docs'[e] = docs[e]
    BY <1>3, <2>1 DEF PlaceInv, TableInv
  <2>4. /\ x.kind = "compact" /\ x.home = h /\ x.doc = r.doc /\ x.prefix = r.prefix /\ x.at = "ready"
        /\ x.todo = r.todo /\ x.total = r.total
    BY <1>1, <1>2, <2>1 DEF IsRun
  <2>5. r.doc \in Docs /\ r.doc # h
    BY <1>1, <1>2 DEF OriginInv, Given, IsRun
  <2>6. Sound(r.doc)' => Sound(r.doc)
    BY <1>1, <2>3, <2>5 DEF Sound
  <2>7. Sound(r.doc) => Ahead(x, 0)'
    <3>1. Sound(r.doc) => r.total \in Nat /\ r.todo = 1..r.total
      BY <1>1, <1>2 DEF FillOK
    <3>2. DOMAIN pages'[x.home] = 1..0
      BY <1>1, <1>3, <2>4
    <3> QED BY <2>4, <3>1, <3>2 DEF Ahead
  <2>8. Copied(h)'
    BY <2>2, <2>3 DEF Copied
  <2>9. FillOK(x)'
    BY <1>1, <1>2, <2>2, <2>3, <2>4, <2>6, <2>7, <2>8 DEF FillOK, Filling, Rasters
  <2>10. ASSUME NEW k \in Jobs, NEW y, y = runs'[k], y # None PROVE FillOK(y)'
    <3>1. CASE k = j
      BY <2>3, <2>9, <2>10, <3>1
    <3>2. CASE k # j
      <4>1. y = runs[k] /\ FillOK(y) /\ RunOK(y)
        BY <2>3, <2>10, <3>2, RunIs DEF CountInv
      <4>2. /\ y.prefix # None => y.home # h
            /\ Given(y) => y.doc # h
        BY <1>1, <2>10, <3>2, <4>1 DEF PlaceInv, AloneInv, OriginInv
      <4>3. \A e \in Docs : (y.prefix # None /\ e = y.home) \/ (Given(y) /\ e = y.doc) =>
                docs'[e] = docs[e] /\ pages'[e] = pages[e]
        BY <1>1, <2>3, <4>2
      <4>4. y.prefix # None => y.home \in Docs
        BY <4>1 DEF RunOK, PlaceInv, TableInv
      <4>5. y.prefix # None /\ y.prefix \notin mixed => (req' # None => req'.prefix # y.prefix)
        BY <1>1, <4>1 DEF FillOK
      <4> QED BY <1>1, <2>10, <4>1, <4>3, <4>4, <4>5, FillOthers
    <3> QED BY <3>1, <3>2
  <2>11. \A d \in Docs : IsFiniteSet(DOMAIN pages'[d])
    BY <1>1 DEF CountInv
  <2>12. \A d \in Docs : docs'[d] # None /\ docs'[d].prefix \notin mixed' /\ ~Copied(d)' => Gapless(d)'
    BY <1>1, <2>3, <2>8 DEF CountInv, Copied, Gapless
  <2> QED BY <2>10, <2>11, <2>12 DEF CountInv
<1> QED BY <1>4, <1>5

\* A new document begins with pages 1 to n.
LEMMA TakeFills ==
    ASSUME PlaceInv, OriginInv, CountInv, UNCHANGED <<req, mixed>>,
           NEW d \in Fresh, NEW row, NEW n \in Nat, NEW images, images = 1..n, take(d, row, images),
           NEW j, NEW x, \A k \in Jobs : k # j => runs'[k] = runs[k],
           j \in Jobs => runs'[j] = x /\ FillOK(x)'
    PROVE  CountInv'
<1>1. /\ d \in Docs /\ d \notin used /\ docs'[d] = row /\ DOMAIN pages'[d] = 1..n
      /\ \A e \in Docs : e # d => docs'[e] = docs[e] /\ pages'[e] = pages[e]
  BY DEF take, PlaceInv, TableInv
<1>2. ASSUME NEW k \in Jobs, NEW y, y = runs'[k], y # None PROVE FillOK(y)'
  <2>1. CASE k = j
    BY <1>2, <2>1
  <2>2. CASE k # j
    <3>1. y = runs[k] /\ FillOK(y) /\ RunOK(y)
      BY <1>2, <2>2, RunIs DEF CountInv
    <3>2. /\ y.prefix # None => y.home \in used /\ y.home \in Docs
          /\ Given(y) => y.doc \in used
      BY <1>2, <3>1 DEF RunOK, PlaceInv, TableInv, OriginInv
    <3>3. \A e \in Docs : (y.prefix # None /\ e = y.home) \/ (Given(y) /\ e = y.doc) =>
              docs'[e] = docs[e] /\ pages'[e] = pages[e]
      BY <1>1, <3>2
    <3>4. y.prefix # None /\ y.prefix \notin mixed => (req' # None => req'.prefix # y.prefix)
      BY <3>1 DEF FillOK
    <3> QED BY <1>2, <3>1, <3>2, <3>3, <3>4, FillOthers
  <2> QED BY <2>1, <2>2
<1>3. \A e \in Docs : IsFiniteSet(DOMAIN pages'[e])
  BY <1>1, FS_Interval DEF CountInv
<1>4. \A e \in Docs : docs'[e] # None /\ docs'[e].prefix \notin mixed' /\ ~Copied(e)' => Gapless(e)'
  BY <1>1 DEF CountInv, Copied, Gapless
<1> QED BY <1>2, <1>3, <1>4 DEF CountInv

LEMMA UploadsFill ==
    ASSUME PlaceInv, OriginInv, CountInv,
           upload_images \/ \E j \in Jobs : upload_pdf(j) \/ begin_download(j)
    PROVE  CountInv'
<1>1. CASE upload_images
  <2>1. PICK d \in Fresh, n \in 1..MaxImages, v \in {"private", "public"} :
          take(d, Document(d, v, "image_set", "upload", n), 1..n)
    BY <1>1 DEF upload_images
  <2>2. UNCHANGED <<req, mixed>> /\ runs' = runs /\ n \in Nat
    BY <1>1, DocumentsAssumption DEF upload_images, DocumentsAssumption
  <2>3. PICK j : j \notin Jobs
    BY NoSetContainsEverything
  <2> QED BY <2>1, <2>2, <2>3, TakeFills
<1>2. ASSUME NEW j \in Jobs, upload_pdf(j) PROVE CountInv'
  <2>1. PICK d \in Fresh, v \in {"private", "public"} :
          /\ take(d, Document(d, v, "pdf", "upload", Sheets), {})
          /\ runs' = [runs EXCEPT ![j] = Queued("rasterize", d)]
    BY <1>2 DEF upload_pdf, goes
  <2>2. PICK row, x : /\ row = Document(d, v, "pdf", "upload", Sheets)
                      /\ x = Queued("rasterize", d) /\ FillOK(x)'
    BY FillRests
  <2>3. /\ take(d, row, {}) /\ runs'[j] = x /\ \A k \in Jobs : k # j => runs'[k] = runs[k]
        /\ {} = 1..0 /\ UNCHANGED <<req, mixed>>
    BY <1>2, <2>1, <2>2 DEF PlaceInv, TableInv, upload_pdf
  <2> QED BY <2>2, <2>3, TakeFills
<1>3. ASSUME NEW j \in Jobs, begin_download(j) PROVE CountInv'
  <2> SUFFICES ASSUME NEW r, r = runs[j] PROVE CountInv'
    OBVIOUS
  <2>1. PICK d \in Fresh, n \in 0..MaxImages :
          /\ take(d, Document(d, "private", "image_set", "familysearch", 0), {})
          /\ runs' = [runs EXCEPT ![j] = [r EXCEPT !.at = "ready", !.home = d, !.prefix = d,
                    !.bucket = "private", !.visibility = "private",
                    !.todo = 1..n, !.total = n]]
    BY <1>3 DEF begin_download, goes
  <2>2. /\ r # None /\ IsRun(r) /\ r.kind = "download" /\ UNCHANGED <<req, mixed>>
        /\ n \in Nat /\ d \in Docs /\ d \notin used
    <3>1. r # None /\ IsRun(r) /\ r.kind = "download" /\ UNCHANGED <<req, mixed>>
      BY <1>3, RunIs DEF begin_download, At
    <3>2. n \in Nat /\ d \in Docs /\ d \notin used
      BY DocumentsAssumption DEF DocumentsAssumption
    <3> QED BY <3>1, <3>2
  <2>3. PICK row, x :
          /\ row = Document(d, "private", "image_set", "familysearch", 0)
          /\ x = [r EXCEPT !.at = "ready", !.home = d, !.prefix = d, !.bucket = "private",
                           !.visibility = "private", !.todo = 1..n, !.total = n]
    OBVIOUS
  <2>4. /\ x.kind = "download" /\ x.at = "ready" /\ x.home = d /\ x.prefix = d
        /\ x.todo = 1..n /\ x.total = n
    BY <2>2, <2>3 DEF IsRun
  <2>5. take(d, row, {}) /\ runs'[j] = x /\ \A k \in Jobs : k # j => runs'[k] = runs[k]
    BY <2>1, <2>3 DEF PlaceInv, TableInv
  <2>6. {} = 1..0
    OBVIOUS
  <2>7. DOMAIN pages'[d] = 1..0
    BY <2>2, <2>5, <2>6 DEF take, PlaceInv, TableInv
  <2>8. Ahead(x, 0)'
    BY <2>2, <2>4, <2>7 DEF Ahead
  <2>9. req' # None => req'.prefix # d
    BY <2>2 DEF PlaceInv, ReqInv, ReqOK
  <2>10. FillOK(x)'
    BY <2>4, <2>8, <2>9 DEF FillOK, Filling, Rasters
  <2> QED BY <2>2, <2>5, <2>6, <2>10, TakeFills
<1> QED BY <1>1, <1>2, <1>3

\* A request enters under a prefix: a run that works there is on record.
LEMMA TouchFills ==
    ASSUME PlaceInv, OriginInv, CountInv, discard_images \/ delete_document \/ set_visibility
    PROVE  CountInv'
<1>1. PICK d, op, v : d \in Docs /\ docs[d] # None /\ touches(d, op, v)
  BY DEF discard_images, delete_document, set_visibility, Live
<1>2. PICK p : p = docs[d].prefix
  OBVIOUS
<1>3. /\ UNCHANGED <<docs, pages, runs>> /\ req'.prefix = p
      /\ mixed \subseteq mixed' /\ (p \notin mixed' => ~Busy(p))
  BY <1>1, <1>2 DEF touches, enters
<1>4. ASSUME NEW k \in Jobs, NEW y, y = runs'[k], y # None PROVE FillOK(y)'
  <2>1. y = runs[k] /\ RunOK(y)
    BY <1>3, <1>4, RunIs
  <2>2. y.prefix # None /\ y.prefix = p => Busy(p)
    <3> SUFFICES ASSUME y.prefix # None, y.prefix = p PROVE Busy(p)
      OBVIOUS
    <3>1. y.at \notin {"queued", "done"}
      BY <2>1 DEF RunOK
    <3> QED BY <1>4, <2>1, <3>1 DEF Busy, Under_way, Pending
  <2>3. y.prefix # None /\ y.prefix \notin mixed' => (req' # None => req'.prefix # y.prefix)
    BY <1>3, <2>2
  <2> QED BY <1>3, <1>4, <2>1, <2>3, FillOthers
<1>5. \A e \in Docs : IsFiniteSet(DOMAIN pages'[e])
  BY <1>3 DEF CountInv
<1>6. \A e \in Docs : docs'[e] # None /\ docs'[e].prefix \notin mixed' /\ ~Copied(e)' => Gapless(e)'
  BY <1>3 DEF CountInv, Copied, Gapless
<1> QED BY <1>4, <1>5, <1>6 DEF CountInv

\* A request that ends has no run of its prefix beside it.
LEMMA CommitFills ==
    ASSUME PlaceInv, OriginInv, CountInv, commit \/ rollback
    PROVE  CountInv'
<1> SUFFICES ASSUME NEW q, q = req, NEW d, d = q.doc, NEW row, row = docs[d] PROVE CountInv'
  OBVIOUS
<1>1. q # None /\ req' = None /\ UNCHANGED runs /\ mixed \subseteq mixed'
  BY DEF commit, rollback
<1>2. ReqOK(q) /\ d \in Docs
  BY <1>1 DEF PlaceInv, ReqInv, ReqOK, TableInv
<1>3. \A e \in Docs :
          \/ docs'[e] = docs[e] /\ pages'[e] = pages[e]
          \/ e = d /\ docs'[e] = None /\ DOMAIN pages'[e] = {}
          \/ /\ e = d /\ docs[e] # None /\ DOMAIN pages'[e] = DOMAIN pages[e]
             /\ docs'[e].prefix = docs[e].prefix /\ docs'[e].source = docs[e].source
             /\ docs'[e].count = docs[e].count
  <2>1. CASE rollback
    BY <2>1 DEF rollback
  <2>2. CASE commit
    <3>1. row # None /\ IsRow(row) /\ DOMAIN docs = Docs /\ DOMAIN pages = Docs
          /\ q.op \in {"discard", "publish", "delete"}
      BY <1>2, <2>2 DEF commit, PlaceInv, TableInv, DocInv, ReqOK
    <3>2. CASE q.op = "delete"
      <4>1. docs' = [docs EXCEPT ![d] = None] /\ pages' = [pages EXCEPT ![d] = NoPages]
        BY <2>2, <3>2 DEF commit, commit_delete
      <4> QED BY <3>1, <4>1 DEF NoPages
    <3>3. CASE q.op = "discard"
      <4>1. docs' = docs /\ pages' = [pages EXCEPT ![d] =
                [n \in DOMAIN pages[d] |-> [pages[d][n] EXCEPT !.purged = TRUE]]]
        BY <2>2, <3>3 DEF commit, commit_discard
      <4>2. DOMAIN pages'[d] = DOMAIN pages[d] /\ \A e \in Docs : e # d => pages'[e] = pages[e]
        BY <1>2, <3>1, <4>1
      <4> QED BY <3>1, <4>1, <4>2
    <3>4. CASE q.op = "publish"
      <4>0. PICK v : v = q.visibility
        OBVIOUS
      <4>1. /\ docs' = [docs EXCEPT ![d].visibility = v, ![d].bucket = v]
            /\ pages' = [pages EXCEPT ![d] =
                  [n \in DOMAIN pages[d] |-> [pages[d][n] EXCEPT !.visibility = v]]]
        BY <2>2, <3>4, <4>0 DEF commit, commit_visibility
      <4>2. DOMAIN pages'[d] = DOMAIN pages[d] /\ \A e \in Docs : e # d => pages'[e] = pages[e]
        BY <1>2, <3>1, <4>1
      <4>3. PICK x : x = [row EXCEPT !.visibility = v, !.bucket = v]
        OBVIOUS
      <4>4. docs'[d] = x /\ \A e \in Docs : e # d => docs'[e] = docs[e]
        BY <1>2, <3>1, <4>1, <4>3
      <4>5. x.prefix = row.prefix /\ x.source = row.source /\ x.count = row.count
        BY <3>1, <4>3 DEF IsRow
      <4> QED BY <3>1, <4>2, <4>4, <4>5
    <3> QED BY <3>1, <3>2, <3>3, <3>4
  <2> QED BY <2>1, <2>2
<1>4. ASSUME NEW k \in Jobs, NEW y, y = runs'[k], y # None PROVE FillOK(y)'
  <2>1. y = runs[k] /\ RunOK(y) /\ FillOK(y)
    BY <1>1, <1>4, RunIs DEF CountInv
  <2>2. y.prefix # None => y.home \in Docs
    BY <2>1 DEF RunOK, PlaceInv, TableInv
  <2>3. \A e \in Docs : docs'[e] = None \/ (docs'[e] = docs[e] /\ docs[e] # None)
            \/ (docs[e] # None /\ docs'[e].prefix = docs[e].prefix /\ docs'[e].source = docs[e].source)
    BY <1>3
  <2>4. y.prefix # None /\ y.prefix \notin mixed' =>
              /\ req' # None => req'.prefix # y.prefix
              /\ docs[y.home] # None /\ docs'[y.home] # None =>
                    /\ docs'[y.home].count = docs[y.home].count
                    /\ DOMAIN pages'[y.home] = DOMAIN pages[y.home]
    BY <1>1, <1>3, <2>2
  <2> QED BY <1>1, <1>4, <2>1, <2>3, <2>4, FillOthers
<1>5. \A e \in Docs : IsFiniteSet(DOMAIN pages'[e])
  BY <1>3, FS_EmptySet DEF CountInv
<1>6. \A e \in Docs : docs'[e] # None /\ docs'[e].prefix \notin mixed' /\ ~Copied(e)' => Gapless(e)'
  BY <1>1, <1>3 DEF CountInv, Copied, Gapless
<1> QED BY <1>4, <1>5, <1>6 DEF CountInv

\* The parts of a split, and what numbers and counts they get.
LEMMA SplitParts ==
    ASSUME split_document
    PROVE  \E d, e, head, tail, f, g :
              /\ d \in Live /\ e \in Fresh
              /\ head \subseteq DOMAIN pages[d] /\ tail \subseteq DOMAIN pages[d]
              /\ docs' = [docs EXCEPT ![d].count = Cardinality(head),
                                      ![e] = [docs[d] EXCEPT !.count = Cardinality(tail)]]
              /\ pages' = [pages EXCEPT ![d] = f, ![e] = g]
              /\ DOMAIN f = 1..Cardinality(head) /\ DOMAIN g = 1..Cardinality(tail)
              /\ enters(docs[d].prefix)
              /\ UNCHANGED <<runs, req>>
<1>1. PICK d \in Live, e \in Fresh, cut \in 2..(2 * Sheets + MaxImages) :
      LET head == {n \in DOMAIN pages[d] : n < cut}
          tail == DOMAIN pages[d] \ head
      IN
      /\ docs' = [docs EXCEPT ![d].count = Cardinality(head),
                              ![e] = [docs[d] EXCEPT !.count = Cardinality(tail)]]
      /\ pages' = [pages EXCEPT
              ![d] = [n \in DOMAIN renumber(@, head) |->
                          [renumber(@, head)[n] EXCEPT !.visibility = docs[d].visibility]],
              ![e] = [n \in DOMAIN renumber(pages[d], tail) |->
                          [renumber(pages[d], tail)[n] EXCEPT !.visibility = docs[d].visibility]]]
      /\ used' = used \cup {e}
      /\ enters(docs[d].prefix)
      /\ shared' = shared \cup {docs[d].prefix}
      /\ UNCHANGED <<blobs, runs, req>>
  BY Zenon DEF split_document
<1>2. PICK head : head = {n \in DOMAIN pages[d] : n < cut}
  OBVIOUS
<1>3. PICK tail : tail = DOMAIN pages[d] \ head
  OBVIOUS
<1>4. PICK f : f = [n \in DOMAIN renumber(pages[d], head) |->
                        [renumber(pages[d], head)[n] EXCEPT !.visibility = docs[d].visibility]]
  OBVIOUS
<1>5. PICK g : g = [n \in DOMAIN renumber(pages[d], tail) |->
                        [renumber(pages[d], tail)[n] EXCEPT !.visibility = docs[d].visibility]]
  OBVIOUS
<1>6. docs' = [docs EXCEPT ![d].count = Cardinality(head),
                           ![e] = [docs[d] EXCEPT !.count = Cardinality(tail)]]
  BY <1>1, <1>2, <1>3
<1>7. pages' = [pages EXCEPT ![d] = f, ![e] = g]
  BY <1>1, <1>2, <1>3, <1>4, <1>5
<1>8. DOMAIN f = 1..Cardinality(head) /\ DOMAIN g = 1..Cardinality(tail)
  BY <1>4, <1>5 DEF renumber
<1>9. head \subseteq DOMAIN pages[d] /\ tail \subseteq DOMAIN pages[d]
  BY <1>2, <1>3
<1>10. enters(docs[d].prefix) /\ UNCHANGED <<runs, req>>
  BY <1>1
<1> QED BY <1>6, <1>7, <1>8, <1>9, <1>10, Zenon

LEMMA SplitNumbers ==
    ASSUME PlaceInv, OriginInv, CountInv, split_document
    PROVE  /\ CountInv'
           /\ \A c \in Docs : pages'[c] # pages[c] => Numbered(c)'
<1>1. PICK d, e, head, tail, f, g :
          /\ d \in Live /\ e \in Fresh
          /\ head \subseteq DOMAIN pages[d] /\ tail \subseteq DOMAIN pages[d]
          /\ docs' = [docs EXCEPT ![d].count = Cardinality(head),
                                  ![e] = [docs[d] EXCEPT !.count = Cardinality(tail)]]
          /\ pages' = [pages EXCEPT ![d] = f, ![e] = g]
          /\ DOMAIN f = 1..Cardinality(head) /\ DOMAIN g = 1..Cardinality(tail)
          /\ enters(docs[d].prefix)
          /\ UNCHANGED <<runs, req>>
  BY SplitParts, Zenon
<1>2. /\ d \in Docs /\ docs[d] # None /\ e \in Docs /\ e \notin used /\ d # e /\ IsRow(docs[d])
      /\ DOMAIN docs = Docs /\ DOMAIN pages = Docs
  BY <1>1 DEF Live, PlaceInv, TableInv, DocInv
<1>3. PICK p, heads, tails, x, y :
          /\ p = docs[d].prefix /\ heads = Cardinality(head) /\ tails = Cardinality(tail)
          /\ x = [docs[d] EXCEPT !.count = heads] /\ y = [docs[d] EXCEPT !.count = tails]
  OBVIOUS
<1>4. /\ x.count = heads /\ x.prefix = p /\ x.source = docs[d].source
      /\ y.count = tails /\ y.prefix = p /\ y.source = docs[d].source
  BY <1>2, <1>3 DEF IsRow
<1>5. docs' = [docs EXCEPT ![d].count = heads, ![e] = [docs[d] EXCEPT !.count = tails]]
  BY <1>1, <1>3
<1>6. \A c \in Docs : docs'[c] = IF c = e THEN y ELSE IF c = d THEN x ELSE docs[c]
  BY <1>2, <1>3, <1>5
<1>7. pages' = [pages EXCEPT ![d] = f, ![e] = g]
  BY <1>1
<1>8. /\ DOMAIN pages'[d] = 1..heads /\ DOMAIN pages'[e] = 1..tails
      /\ \A c \in Docs : c # d /\ c # e => pages'[c] = pages[c]
  BY <1>1, <1>2, <1>3, <1>7
<1>9. heads \in Nat /\ tails \in Nat
  <2>1. IsFiniteSet(DOMAIN pages[d])
    BY <1>2 DEF CountInv
  <2>2. IsFiniteSet(head) /\ IsFiniteSet(tail)
    BY <1>1, <2>1, FS_Subset
  <2> QED BY <1>3, <2>2, FS_CardinalityType
<1>10. mixed \subseteq mixed' /\ (p \notin mixed' => ~Busy(p)) /\ UNCHANGED <<runs, req>>
  BY <1>1, <1>3 DEF enters
<1>11. ASSUME NEW k \in Jobs, NEW r, r = runs'[k], r # None PROVE FillOK(r)'
  <2>1. r = runs[k] /\ RunOK(r) /\ FillOK(r)
    BY <1>10, <1>11, RunIs DEF CountInv
  <2>2. /\ r.prefix # None => r.home \in Docs /\ r.home # e
        /\ Given(r) => r.doc # e
    BY <1>2, <1>11, <2>1 DEF RunOK, PlaceInv, TableInv, OriginInv
  <2>3. \A c \in Docs : (r.prefix # None /\ c = r.home) \/ (Given(r) /\ c = r.doc) =>
            \/ docs'[c] = None
            \/ docs[c] # None /\ docs'[c].prefix = docs[c].prefix /\ docs'[c].source = docs[c].source
    BY <1>2, <1>3, <1>4, <1>6, <2>2
  <2>4. r.prefix # None /\ r.prefix = p => Busy(p)
    <3> SUFFICES ASSUME r.prefix # None, r.prefix = p PROVE Busy(p)
      OBVIOUS
    <3>1. r.at \notin {"queued", "done"}
      BY <2>1 DEF RunOK
    <3> QED BY <1>11, <2>1, <3>1 DEF Busy, Under_way, Pending
  <2>5. r.prefix # None /\ r.prefix \notin mixed' => r.home # d
    BY <1>2, <1>3, <1>10, <2>1, <2>4 DEF RunOK
  <2>6. r.prefix # None /\ r.prefix \notin mixed' =>
            /\ req' # None => req'.prefix # r.prefix
            /\ docs[r.home] # None /\ docs'[r.home] # None =>
                  /\ docs'[r.home].count = docs[r.home].count
                  /\ DOMAIN pages'[r.home] = DOMAIN pages[r.home]
    <3>1. r.prefix # None /\ r.prefix \notin mixed => (req # None => req.prefix # r.prefix)
      BY <2>1 DEF FillOK
    <3> QED BY <1>6, <1>8, <1>10, <2>2, <2>5, <3>1
  <2> QED BY <1>10, <1>11, <2>1, <2>3, <2>6, FillOthers
<1>12. \A c \in Docs : IsFiniteSet(DOMAIN pages'[c])
  <2>1. IsFiniteSet(1..heads) /\ IsFiniteSet(1..tails)
    BY <1>9, FS_Interval
  <2> QED BY <1>8, <2>1 DEF CountInv
<1>13. \A c \in Docs : docs'[c] # None /\ docs'[c].prefix \notin mixed' /\ ~Copied(c)' => Gapless(c)'
  <2>1. ASSUME NEW c \in Docs, c # d, c # e, docs'[c] # None, docs'[c].prefix \notin mixed',
               docs'[c].source # "familysearch_pdf"
        PROVE  Gapless(c)'
    <3>1. Gapless(c)
      BY <1>6, <1>10, <2>1 DEF CountInv, Copied
    <3> QED BY <1>8, <2>1, <3>1 DEF Gapless
  <2>2. Gapless(d)' /\ Gapless(e)'
    BY <1>8, <1>9 DEF Gapless
  <2> QED BY <2>1, <2>2 DEF Copied
<1>14. \A c \in Docs : pages'[c] # pages[c] => Numbered(c)'
  BY <1>2, <1>4, <1>6, <1>8 DEF Numbered
<1>15. CountInv'
  BY <1>11, <1>12, <1>13 DEF CountInv
<1> QED BY <1>14, <1>15

LEMMA CountNext == PlaceInv /\ OriginInv /\ CountInv /\ [Next]_vars => CountInv'
<1> SUFFICES ASSUME PlaceInv, OriginInv, CountInv, [Next]_vars PROVE CountInv'
  OBVIOUS
<1>1. ASSUME NEW j \in Jobs,
             \/ upload_pdf(j) \/ rerasterize_job(j) \/ compact_pdf_job(j)
             \/ start_download(j) \/ Step(j) \/ dies(j) \/ crash(j)
      PROVE  CountInv'
  BY <1>1, UploadsFill, JobsFill, LoadPdfFills, LoadPagesFills, StoresFill, WipeFills,
     CommitPageFills, FinishCounts, InsertFills DEF Step
<1>2. CASE upload_images
  BY <1>2, UploadsFill
<1>3. CASE discard_images \/ delete_document \/ set_visibility
  BY <1>3, TouchFills
<1>4. CASE commit \/ rollback
  BY <1>4, CommitFills
<1>5. CASE split_document
  BY <1>5, SplitNumbers
<1>6. CASE set_raster_settings \/ UNCHANGED vars
  <2>1. UNCHANGED <<docs, pages, runs, req, mixed>>
    BY <1>6 DEF set_raster_settings
  <2> QED BY <2>1 DEF CountInv, Gapless, Copied, FillOK, Filling, Ahead, Sound
<1> QED BY <1>1, <1>2, <1>3, <1>4, <1>5, <1>6 DEF Next

\* Whatever the attempts, crashes and redeliveries before it, the run that finishes a document
\* leaves pages 1 to page_count, and so does every split; unless two overlapped under the prefix,
\* or, for a compaction, under that of the document it copies.
THEOREM PagesAreNumbered == Spec => PagesNumbered
<1> DEFINE Inv == PlaceInv /\ OriginInv /\ CountInv
<1>1. Init => Inv
  BY InvInit, OriginInit, CountInit
<1>2. Inv /\ [Next]_vars => Inv'
  BY InvNext, OriginNext, CountNext
<1>3. Inv /\ [Next]_vars =>
        [/\ \A j \in Jobs, d \in Docs : Finishes(j) /\ d = runs[j].home => Numbered(d)'
         /\ split_document => \A d \in Docs : pages'[d] # pages[d] => Numbered(d)']_vars
  BY FinishCounts, SplitNumbers DEF Finishes
<1> QED BY <1>1, <1>2, <1>3, PTL DEF Spec, PagesNumbered
=============================================================================
