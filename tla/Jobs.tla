-------------------------------- MODULE Jobs --------------------------------
(***************************************************************************)
(* The life of a background job: the request that creates it, the ARQ      *)
(* queue entry, the task that runs it in the worker, the cancel endpoint,  *)
(* the reaper and the boot sweep, and the SSE streams that relay its end.  *)
(*                                                                         *)
(* Every process commits on its own connection (READ COMMITTED): a step    *)
(* below is one committed transaction, or the read one of them starts      *)
(* with.  Progress events are not modelled: they only reset a stream's     *)
(* silence counter.  A stream's inbox keeps the first terminal event, the  *)
(* only one it ever relays.                                                *)
(***************************************************************************)
EXTENDS Naturals, FiniteSets

CONSTANTS Job,        \* job ids; each belongs to one creation request
          Entity,     \* Entity[j]: the (type, document/person) the job is about
          Kind,       \* Kind[j]: which task family runs it
          Stream,     \* SSE connections
          MaxChunks,  \* bound: chunks of pages in one run of a task
          MaxTries,   \* WorkerSettings.max_tries
          MaxJobs,    \* WorkerSettings.max_jobs
          MaxCrashes  \* bound: how often the worker process dies

(* The task families, told apart by how they look at a cancel and by how   *)
(* they end:                                                               *)
(*   transcribe  polls; on cancel it returns after a "log" event           *)
(*   extract     polls; on cancel it publishes "cancelled" and returns     *)
(*   download    polls; on cancel it leaves the loop and closes normally   *)
(*   link        never polls; a failure while working is caught            *)
(*   plain       never polls; a failure while working escapes the task     *)
(*   eager       a plain task whose endpoint enqueues it before the row is   *)
(*               committed (embed_document, reembed_corpus)                  *)
Kinds == {"transcribe", "extract", "download", "link", "plain", "eager"}

ASSUME JobsAssumption ==
    /\ Kind \in [Job -> Kinds]
    /\ \A i, j \in Job : Entity[i] = Entity[j] => Kind[i] = Kind[j]
    /\ MaxChunks \in Nat /\ MaxTries \in Nat
    /\ MaxJobs \in Nat \ {0} /\ MaxCrashes \in Nat

VARIABLES
    row,      \* jobs.status, "absent" until the INSERT is committed
    stale,    \* the row's age passed RUNNING_STALE_MIN / QUEUED_STALE_MIN
    request,  \* creation request: new -> free -> saved -> done, and for
              \* eager ones new -> free -> sent -> done
    entry,    \* ARQ entry: none, ready, taken (in progress)
    tries,    \* ARQ's job_try
    task,     \* where the task is in its body, "idle" when it does not run
    left,     \* chunks the task still has to process
    verdict,  \* terminal event the task is about to publish
    cancel,   \* cancel request: idle -> read -> flushed (row locked)
    up,       \* the worker process is alive
    crashes,  \* times it died
    sphase,   \* SSE stream: off, opening, live, closed
    sjob,     \* the job it watches
    inbox,    \* terminal event it holds and has not relayed
    got,      \* terminal event it closed with
    asked,    \* history: a cancel its task looks for was committed, and no run
              \* claimed the row since
    late,     \* history: chunks persisted since that cancel (2: two or more)
    work      \* history: how far a run of it got -- "whole", or a download
              \* left its loop with only a part done

jobVars    == <<row, stale>>
queueVars  == <<entry, tries>>
taskVars   == <<task, left, verdict>>
workerVars == <<up, crashes>>
streamVars == <<sphase, sjob, got>>
history    == <<asked, late, work>>
vars == <<jobVars, request, queueVars, taskVars, cancel, workerVars,
          streamVars, inbox, history>>

-----------------------------------------------------------------------------
Active   == {"queued", "running"}
Terminal == {"completed", "error", "cancelled"}
Statuses == Active \union Terminal
EventKinds == {"all_done", "book_fail", "cancelled"}

\* Mutant: whatever was not cancelled went well.
terminal_event_optimistic(s) == IF s = "cancelled" THEN "cancelled" ELSE "all_done"

\* The event a status stands for; every unmapped terminal status is a failure.
terminal_event(s) ==
    CASE s = "completed" -> "all_done"
      [] s = "cancelled" -> "cancelled"
      [] OTHER           -> "book_fail"

Polls(k) == k \in {"transcribe", "extract", "download"}

\* The other endpoints do not ask for an active job, or only some of them do:
\* a request of theirs may be refused, or not.
Dedups(k) == k \in {"transcribe", "extract", "link"}

\* What the last write of a run may put in the row.
FinalStatuses(k) ==
    IF k \in {"extract", "download"} THEN {"completed", "error"} ELSE {"completed"}

Busy == {j \in Job : task[j] # "idle"}

\* A flushed, uncommitted UPDATE holds the row lock; other writers wait.
Locked(j) == cancel[j] = "flushed"

\* Best effort: Redis may lose the event; only subscribed streams hear it.
publish(j, kind) ==
    \/ UNCHANGED inbox
    \/ inbox' = [s \in Stream |->
                    IF sjob[s] = j /\ sphase[s] = "live" /\ inbox[s] = "none"
                    THEN kind ELSE inbox[s]]

Init ==
    /\ row = [j \in Job |-> "absent"]
    /\ stale = [j \in Job |-> FALSE]
    /\ request = [j \in Job |-> "new"]
    /\ entry = [j \in Job |-> "none"]
    /\ tries = [j \in Job |-> 0]
    /\ task = [j \in Job |-> "idle"]
    /\ left = [j \in Job |-> 0]
    /\ verdict = [j \in Job |-> "none"]
    /\ cancel = [j \in Job |-> "idle"]
    /\ up = TRUE /\ crashes = 0
    /\ sphase = [s \in Stream |-> "off"]
    /\ sjob \in [Stream -> Job]
    /\ inbox = [s \in Stream |-> "none"]
    /\ got = [s \in Stream |-> "none"]
    /\ asked = [j \in Job |-> FALSE]
    /\ late = [j \in Job |-> 0]
    /\ work = [j \in Job |-> "none"]

-----------------------------------------------------------------------------
(* The API: creating a job                                                 *)

\* Dedup, then the guards that may refuse the request (404, 400, budget).
active_job_for(j) ==
    /\ request[j] = "new"
    /\ \E verdictOfGuards \in {"free", "done"} :
          request' = [request EXCEPT ![j] =
             IF Dedups(Kind[j]) /\ \E k \in Job : Entity[k] = Entity[j] /\ row[k] \in Active
             THEN "done" ELSE verdictOfGuards]
    /\ UNCHANGED <<jobVars, queueVars, taskVars, cancel, workerVars, streamVars, inbox, history>>

\* session.add(job); session.commit() -- "durable before enqueue".  An eager
\* request commits when its handler is over, if nothing fails before.
insert_job(j) ==
    /\ request[j] = IF Kind[j] = "eager" THEN "sent" ELSE "free"
    /\ request' = [request EXCEPT ![j] = IF Kind[j] = "eager" THEN "done" ELSE "saved"]
    /\ \/ row' = [row EXCEPT ![j] = "queued"]
       \/ Kind[j] = "eager" /\ UNCHANGED row
    /\ UNCHANGED <<stale, queueVars, taskVars, cancel, workerVars, streamVars, inbox, history>>

\* Mutant: enqueue first, commit the row afterwards.
enqueue_before_commit(j) ==
    /\ request[j] = "free" /\ entry[j] = "none"
    /\ entry' = [entry EXCEPT ![j] = "ready"]
    /\ UNCHANGED <<jobVars, request, tries, taskVars, cancel, workerVars, streamVars, inbox, history>>

\* The entry reaches Redis, or Redis (or the API process) fails first.
enqueue_job(j) ==
    /\ request[j] = IF Kind[j] = "eager" THEN "free" ELSE "saved"
    /\ \E e \in {"ready", "none"} :
          /\ entry' = [entry EXCEPT ![j] = e]
          /\ request' = [request EXCEPT ![j] =
                IF Kind[j] = "eager" /\ e = "ready" THEN "sent" ELSE "done"]
    /\ UNCHANGED <<jobVars, tries, taskVars, cancel, workerVars, streamVars, inbox, history>>

-----------------------------------------------------------------------------
(* The API: cancelling a job                                               *)

cancel_read(j) ==
    /\ cancel[j] = "idle"
    /\ row[j] \in Active
    /\ cancel' = [cancel EXCEPT ![j] = "read"]
    /\ UNCHANGED <<jobVars, request, queueVars, taskVars, workerVars, streamVars, inbox, history>>

\* flush() and publish(): the row is locked, its new value not yet visible.
cancel_flush(j) ==
    /\ cancel[j] = "read"
    /\ cancel' = [cancel EXCEPT ![j] = "flushed"]
    /\ publish(j, "cancelled")
    /\ UNCHANGED <<jobVars, request, queueVars, taskVars, workerVars, streamVars, history>>

\* The dependency commits after the handler, or the request fails and rolls back.
cancel_end(j) ==
    /\ Locked(j)
    /\ cancel' = [cancel EXCEPT ![j] = "idle"]
    /\ \/ /\ row' = [row EXCEPT ![j] = "cancelled"]
          /\ stale' = [stale EXCEPT ![j] = FALSE]
          /\ asked' = [asked EXCEPT ![j] = Polls(Kind[j])]
          /\ late' = [late EXCEPT ![j] = 0]
       \/ UNCHANGED <<jobVars, asked, late>>
    /\ UNCHANGED <<request, queueVars, taskVars, workerVars, streamVars, inbox, work>>

-----------------------------------------------------------------------------
(* The worker: one run of a task                                           *)

\* ARQ takes an entry while it has a free slot; past max_tries it drops it.
pick(j) ==
    /\ up /\ entry[j] = "ready" /\ Cardinality(Busy) < MaxJobs
    /\ IF tries[j] < MaxTries
       THEN /\ tries' = [tries EXCEPT ![j] = @ + 1]
            /\ entry' = [entry EXCEPT ![j] = "taken"]
            /\ task' = [task EXCEPT ![j] = "claim"]
       ELSE /\ entry' = [entry EXCEPT ![j] = "none"]
            /\ UNCHANGED <<tries, task>>
    /\ UNCHANGED <<jobVars, request, left, verdict, cancel, workerVars, streamVars, inbox, history>>

\* UPDATE jobs SET status WHERE id: no row, no effect.
set_status(j, st) == row' = IF row[j] = "absent" THEN row ELSE [row EXCEPT ![j] = st]

\* Every task starts with an unconditional status = 'running', whoever
\* cancelled the job before.
claim(j) ==
    /\ task[j] = "claim" /\ ~Locked(j)
    /\ set_status(j, "running")
    /\ stale' = [stale EXCEPT ![j] = FALSE]
    /\ task' = [task EXCEPT ![j] = "setup"]
    /\ asked' = [asked EXCEPT ![j] = FALSE]
    /\ late' = [late EXCEPT ![j] = 0]
    /\ UNCHANGED <<request, queueVars, left, verdict, cancel, workerVars, streamVars, inbox, work>>

\* The task writes an 'error' row and will publish book_fail -- except that
\* "document gone" publishes nothing.
fail(j) ==
    /\ ~Locked(j)
    /\ set_status(j, "error")
    /\ stale' = [stale EXCEPT ![j] = FALSE]
    /\ task' = [task EXCEPT ![j] = "announce"]
    /\ \E v \in IF Kind[j] \in {"plain", "eager"} /\ task[j] = "setup" THEN {"book_fail", "none"} ELSE {"book_fail"} :
          verdict' = [verdict EXCEPT ![j] = v]
    /\ UNCHANGED left

\* Resolve the provider, read the document, select the pages still to do.
setup(j) ==
    /\ task[j] = "setup"
    /\ \/ /\ \E n \in 0..MaxChunks : left' = [left EXCEPT ![j] = n]
          /\ task' = [task EXCEPT ![j] = "poll"]
          /\ UNCHANGED <<jobVars, verdict>>
       \/ fail(j)
    /\ UNCHANGED <<request, queueVars, cancel, workerVars, streamVars, inbox, history>>

\* Mutant: the cancel is looked at before the first chunk only.
cancel_seen_at_start(j) ==
    left[j] = MaxChunks /\ Polls(Kind[j]) /\ row[j] = "cancelled"

\* The task reads its status afresh before every chunk.
cancel_seen(j) == left[j] > 0 /\ Polls(Kind[j]) /\ row[j] = "cancelled"

\* Mutant: the loop over the chunks has no end.
poll_past_end(j) ==
    /\ task[j] = "poll"
    /\ task' = [task EXCEPT ![j] = "chunk"]
    /\ UNCHANGED <<jobVars, request, queueVars, left, verdict, cancel, workerVars, streamVars, inbox, history>>

\* What a run leaves behind in `work`: the whole survives what comes after it.
Did(j, much) == work' = [work EXCEPT ![j] = IF @ = "whole" THEN @ ELSE much]

\* The checkpoint: what a task does when it finds its row cancelled.
poll(j) ==
    /\ task[j] = "poll"
    /\ LET seen == cancel_seen(j) IN
       /\ task' = [task EXCEPT ![j] =
             CASE left[j] = 0                      -> "close"
               [] seen /\ Kind[j] = "transcribe"   -> "ack"
               [] seen /\ Kind[j] = "extract"      -> "announce"
               [] seen /\ Kind[j] = "download"     -> "close"
               [] OTHER                            -> "chunk"]
       /\ verdict' = [verdict EXCEPT ![j] =
             IF seen /\ Kind[j] = "extract" THEN "cancelled" ELSE @]
       /\ IF left[j] = 0 THEN Did(j, "whole")
          ELSE IF seen /\ Kind[j] = "download" THEN Did(j, "part") ELSE UNCHANGED work
    /\ UNCHANGED <<jobVars, request, queueVars, left, cancel, workerVars, streamVars, inbox,
                   asked, late>>

\* The chunk is done: its rows and the progress are one transaction.
persist(j) ==
    /\ ~Locked(j)
    /\ stale' = [stale EXCEPT ![j] = FALSE]
    /\ left' = [left EXCEPT ![j] = @ - 1]
    /\ task' = [task EXCEPT ![j] = "poll"]
    /\ late' = [late EXCEPT ![j] = IF asked[j] /\ @ < 2 THEN @ + 1 ELSE @]
    /\ UNCHANGED <<row, verdict, work>>

\* An image that is skipped or fails writes nothing; after too many failures
\* in a row the download leaves its loop.
no_image(j) ==
    /\ Kind[j] = "download"
    /\ \/ /\ left' = [left EXCEPT ![j] = @ - 1]
          /\ task' = [task EXCEPT ![j] = "poll"]
          /\ UNCHANGED work
       \/ /\ task' = [task EXCEPT ![j] = "close"]
          /\ Did(j, "part")
          /\ UNCHANGED left
    /\ UNCHANGED <<jobVars, verdict, late>>

chunk(j) ==
    /\ task[j] = "chunk"
    /\ \/ persist(j)
       \/ no_image(j)
       \/ Kind[j] \in {"link", "download"} /\ fail(j) /\ UNCHANGED <<late, work>>
    /\ UNCHANGED <<request, queueVars, cancel, workerVars, streamVars, inbox, asked>>

\* The last write: the final status, unconditionally.
close(j) ==
    /\ task[j] = "close" /\ ~Locked(j)
    /\ \E st \in FinalStatuses(Kind[j]) :
          /\ set_status(j, st)
          /\ verdict' = [verdict EXCEPT ![j] = terminal_event(st)]
    /\ stale' = [stale EXCEPT ![j] = FALSE]
    /\ task' = [task EXCEPT ![j] = "announce"]
    /\ UNCHANGED <<request, queueVars, left, cancel, workerVars, streamVars, inbox, history>>

announce(j) ==
    /\ task[j] = "announce"
    /\ IF verdict[j] = "none" THEN UNCHANGED inbox ELSE publish(j, verdict[j])
    /\ verdict' = [verdict EXCEPT ![j] = "none"]
    /\ task' = [task EXCEPT ![j] = "ack"]
    /\ UNCHANGED <<jobVars, request, queueVars, left, cancel, workerVars, streamVars, history>>

\* The coroutine returned; ARQ removes the entry.
ack(j) ==
    /\ task[j] = "ack"
    /\ task' = [task EXCEPT ![j] = "idle"]
    /\ entry' = [entry EXCEPT ![j] = "none"]
    /\ UNCHANGED <<jobVars, request, tries, left, verdict, cancel, workerVars, streamVars, inbox, history>>

\* An exception escapes the task, or job_timeout cancels it: ARQ drops the
\* entry, the row keeps the status it has.
die(j) ==
    /\ task[j] \notin {"idle", "ack"}
    /\ task' = [task EXCEPT ![j] = "idle"]
    /\ verdict' = [verdict EXCEPT ![j] = "none"]
    /\ entry' = [entry EXCEPT ![j] = "none"]
    /\ UNCHANGED <<jobVars, request, tries, left, cancel, workerVars, streamVars, inbox, history>>

TaskStep(j) ==
    \/ pick(j) \/ claim(j) \/ setup(j) \/ poll(j) \/ chunk(j)
    \/ close(j) \/ announce(j) \/ ack(j) \/ die(j)

-----------------------------------------------------------------------------
(* The worker process and its cron                                         *)

\* Every task dies with the process; ARQ delivers unacknowledged entries again.
crash ==
    /\ up /\ crashes < MaxCrashes
    /\ up' = FALSE /\ crashes' = crashes + 1
    /\ task' = [j \in Job |-> "idle"]
    /\ verdict' = [j \in Job |-> "none"]
    /\ entry' = [j \in Job |-> IF entry[j] = "taken" THEN "ready" ELSE entry[j]]
    /\ UNCHANGED <<jobVars, request, tries, left, cancel, streamVars, inbox, history>>

\* Mutant: the boot sweep hands the rows back to the queue it does not use.
startup_requeues ==
    /\ ~up
    /\ up' = TRUE
    /\ row' = [j \in Job |-> IF row[j] = "running" THEN "queued" ELSE row[j]]
    /\ UNCHANGED <<stale, request, queueVars, taskVars, cancel, crashes, streamVars, inbox, history>>

\* The boot sweep fails every 'running' row; a failing sweep is swallowed.
startup ==
    LET orphans == {j \in Job : row[j] = "running"} IN
    /\ ~up
    /\ up' = TRUE
    /\ \/ /\ \A j \in orphans : ~Locked(j)
          /\ row' = [j \in Job |-> IF j \in orphans THEN "error" ELSE row[j]]
       \/ UNCHANGED row
    /\ UNCHANGED <<stale, request, queueVars, taskVars, cancel, crashes, streamVars, inbox, history>>

\* Mutant: jobs that never started are never reaped.
Reapable_running(j) == row[j] = "running" /\ stale[j]

Reapable(j) == row[j] \in Active /\ stale[j]

\* One statement fails every stale row, then each failure is published.  The
\* cron runs in the worker, in one of its max_jobs slots.  A row some cancel
\* has locked is left to a later firing: the statement would wait for it and
\* look at its new status.
reap_stale_jobs ==
    LET reaped == {j \in Job : Reapable(j) /\ ~Locked(j)} IN
    /\ up /\ Cardinality(Busy) < MaxJobs
    /\ reaped # {}
    /\ row' = [j \in Job |-> IF j \in reaped THEN "error" ELSE row[j]]
    /\ \E heard \in SUBSET reaped :
          inbox' = [s \in Stream |->
             IF sjob[s] \in heard /\ sphase[s] = "live" /\ inbox[s] = "none"
             THEN "book_fail" ELSE inbox[s]]
    /\ UNCHANGED <<stale, request, queueVars, taskVars, cancel, workerVars, streamVars, history>>

\* Time passes without a write to the row.
grow_stale(j) ==
    /\ row[j] \in Active /\ ~stale[j]
    /\ stale' = [stale EXCEPT ![j] = TRUE]
    /\ UNCHANGED <<row, request, queueVars, taskVars, cancel, workerVars, streamVars, inbox, history>>

-----------------------------------------------------------------------------
(* SSE streams                                                             *)

\* The router reads the status in a short session of its own...
job_events(s) ==
    /\ sphase[s] = "off" /\ row[sjob[s]] # "absent"
    /\ sphase' = [sphase EXCEPT ![s] = "opening"]
    /\ inbox' = [inbox EXCEPT ![s] =
          IF row[sjob[s]] \in Terminal THEN terminal_event(row[sjob[s]]) ELSE "none"]
    /\ UNCHANGED <<jobVars, request, queueVars, taskVars, cancel, workerVars, sjob, got, history>>

Close(s, kind) ==
    /\ sphase' = [sphase EXCEPT ![s] = "closed"]
    /\ got' = [got EXCEPT ![s] = kind]
    /\ inbox' = [inbox EXCEPT ![s] = "none"]
    /\ UNCHANGED <<jobVars, request, queueVars, taskVars, cancel, workerVars, sjob, history>>

\* ...and only later the relay subscribes: what is published between is lost.
subscribe(s) ==
    /\ sphase[s] = "opening"
    /\ IF inbox[s] # "none" THEN Close(s, inbox[s])
       ELSE /\ sphase' = [sphase EXCEPT ![s] = "live"]
            /\ UNCHANGED <<jobVars, request, queueVars, taskVars, cancel, workerVars, sjob, got, inbox, history>>

relay(s) ==
    /\ sphase[s] = "live" /\ inbox[s] # "none"
    /\ Close(s, inbox[s])

\* Mutant: only success counts as an end.
check_completed(s) ==
    /\ sphase[s] = "live" /\ inbox[s] = "none"
    /\ row[sjob[s]] = "completed"
    /\ Close(s, "all_done")

\* After two silent intervals the relay looks at the row itself.
check_terminal(s) ==
    /\ sphase[s] = "live" /\ inbox[s] = "none"
    /\ row[sjob[s]] \in Terminal
    /\ Close(s, terminal_event(row[sjob[s]]))

\* The hard cap on accumulated silence, whatever the job is doing.
stream_timeout(s) ==
    /\ sphase[s] = "live" /\ inbox[s] = "none"
    /\ Close(s, "book_fail")

-----------------------------------------------------------------------------
Next ==
    \/ crash \/ startup \/ reap_stale_jobs
    \/ \E j \in Job :
          \/ active_job_for(j) \/ insert_job(j) \/ enqueue_job(j)
          \/ cancel_read(j) \/ cancel_flush(j) \/ cancel_end(j)
          \/ pick(j) \/ claim(j) \/ setup(j) \/ poll(j) \/ chunk(j)
          \/ close(j) \/ announce(j) \/ ack(j) \/ die(j)
          \/ grow_stale(j)
    \/ \E s \in Stream :
          job_events(s) \/ subscribe(s) \/ relay(s) \/ check_terminal(s) \/ stream_timeout(s)

Spec == Init /\ [][Next]_vars

\* The worker is restarted by its supervisor and keeps running what it took
\* (job_timeout ends what hangs), the cron fires every three minutes and its
\* UPDATE queues for a locked row (hence strong fairness), clocks advance, an
\* open request ends and a live stream keeps polling.  Nobody has to create,
\* cancel or watch anything, and the cap on silence is not used.
Fairness ==
    /\ WF_vars(startup) /\ SF_vars(reap_stale_jobs)
    /\ \A j \in Job :
          /\ WF_vars(TaskStep(j)) /\ WF_vars(grow_stale(j))
          /\ WF_vars(enqueue_job(j))
          /\ WF_vars(cancel_flush(j)) /\ WF_vars(cancel_end(j))
    /\ \A s \in Stream : WF_vars(subscribe(s)) /\ WF_vars(relay(s) \/ check_terminal(s))

FairSpec == Spec /\ Fairness

-----------------------------------------------------------------------------
(* Properties                                                              *)

TypeOK ==
    /\ row \in [Job -> Statuses \union {"absent"}]
    /\ stale \in [Job -> BOOLEAN]
    /\ request \in [Job -> {"new", "free", "saved", "sent", "done"}]
    /\ entry \in [Job -> {"none", "ready", "taken"}]
    /\ tries \in [Job -> 0..MaxTries]
    /\ task \in [Job -> {"idle", "claim", "setup", "poll", "chunk", "close", "announce", "ack"}]
    /\ left \in [Job -> 0..MaxChunks]
    /\ verdict \in [Job -> EventKinds \union {"none"}]
    /\ cancel \in [Job -> {"idle", "read", "flushed"}]
    /\ up \in BOOLEAN /\ crashes \in 0..MaxCrashes
    /\ sphase \in [Stream -> {"off", "opening", "live", "closed"}]
    /\ sjob \in [Stream -> Job]
    /\ inbox \in [Stream -> EventKinds \union {"none"}]
    /\ got \in [Stream -> EventKinds \union {"none"}]
    /\ asked \in [Job -> BOOLEAN]
    /\ late \in [Job -> 0..2]
    /\ work \in [Job -> {"none", "part", "whole"}]

\* "durable before enqueue so the worker can't race ahead of the row": whatever
\* the worker can get hold of -- an entry, a running task -- has its row, when
\* its endpoint commits first.
DurableBeforeEnqueue ==
    \A j \in Job : Kind[j] # "eager" /\ (entry[j] # "none" \/ task[j] # "idle")
                     => row[j] # "absent"

\* "A still-active worker stops at its next checkpoint": a committed cancel is
\* followed by at most the chunk the task was in, whatever else is written to
\* the row.  Left out: what runs once a claim rewrote the cancelled row, which
\* every delivery of a job cancelled in the queue, or before its claim, does.
CancelStopsSoon == \A j \in Job : asked[j] => late[j] <= 1

\* A stream that closes with all_done watched a job a run of which went through
\* all its chunks, over lost events, late subscriptions, failures, cancels and
\* revived rows.  Left out: a download that stopped at a cancel or after too
\* many errors, which says all_done of the part it has.
NoFalseAllDone ==
    \A s \in Stream : got[s] = "all_done" =>
        \/ work[sjob[s]] = "whole"
        \/ Kind[sjob[s]] = "download" /\ work[sjob[s]] = "part"

\* "so no section's UI ever hangs on a dead job": whatever crashes, is lost or
\* is left behind, every job is settled in the end, and stays so.
JobsSettle == \A j \in Job : <>[](row[j] \notin Active)

\* "closes the stream and the UI clears instead of hanging": a live stream
\* closes even if the terminal event was lost, or published before it
\* subscribed -- and without help from the 30-minute cap.
StreamsClose == \A s \in Stream : sphase[s] = "live" ~> sphase[s] = "closed"

\* The budget of starts that is left on the board.
BudgetLeft == [j \in Job |-> (MaxTries - tries[j]) + (IF task[j] = "claim" THEN 1 ELSE 0)]
Board == INSTANCE JobBoard WITH budget <- BudgetLeft

\* Whoever writes to the rows, together they keep the promise of the job list.
ImplementsBoard == Board!BoardSpec
=============================================================================
