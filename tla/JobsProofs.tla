----------------------------- MODULE JobsProofs -----------------------------
(***************************************************************************)
(* Proofs about Jobs, for every set of jobs and streams and every bound.   *)
(***************************************************************************)
EXTENDS Jobs, TLAPS

Inboxes == [Stream -> EventKinds \union {"none"}]
Rows    == [Job -> Statuses \union {"absent"}]

\* The loop counter is only decremented where the loop condition held.
ChunkHasWork == \A j \in Job : task[j] = "chunk" => left[j] > 0

TypeInv == TypeOK /\ ChunkHasWork

-----------------------------------------------------------------------------
\* An event published to the streams leaves every inbox with an event or none.
LEMMA PublishType ==
  ASSUME NEW j \in Job, NEW kind \in EventKinds, inbox \in Inboxes, publish(j, kind)
  PROVE  inbox' \in Inboxes
BY DEF publish, Inboxes

\* The event of a status is one the streams know.
LEMMA TerminalEventType == ASSUME NEW s PROVE terminal_event(s) \in EventKinds
BY DEF terminal_event, EventKinds

\* The UPDATE of a status changes the row of that job, if there is one.
LEMMA SetStatus ==
  ASSUME row \in Rows, NEW j \in Job, NEW st \in Statuses, set_status(j, st)
  PROVE  /\ row' \in Rows
         /\ row'[j] = IF row[j] = "absent" THEN "absent" ELSE st
         /\ \A k \in Job \ {j} : row'[k] = row[k]
         /\ \A k \in Job : row'[k] = "absent" <=> row[k] = "absent"
BY DEF set_status, Rows, Statuses, Active, Terminal

\* A task that fails writes 'error' and moves on to its last event.
LEMMA FailType ==
  ASSUME TypeOK, NEW j \in Job, fail(j)
  PROVE  /\ row' \in Rows
         /\ row'[j] = IF row[j] = "absent" THEN "absent" ELSE "error"
         /\ \A k \in Job \ {j} : row'[k] = row[k]
         /\ stale' = [stale EXCEPT ![j] = FALSE]
         /\ task' = [task EXCEPT ![j] = "announce"]
         /\ \E v \in {"book_fail", "none"} : verdict' = [verdict EXCEPT ![j] = v]
         /\ left' = left
<1>1. row \in Rows /\ "error" \in Statuses
  BY DEF TypeOK, Rows, Statuses, Terminal
<1>2. set_status(j, "error")
  BY DEF fail
<1>3. \E v \in {"book_fail", "none"} : verdict' = [verdict EXCEPT ![j] = v]
  BY DEF fail
<1> QED BY <1>1, <1>2, <1>3, SetStatus DEF fail

\* What a chunk does to the history of its job.
LEMMA ChunkHistory ==
  ASSUME TypeOK, NEW j \in Job, chunk(j)
  PROVE  /\ late' \in [Job -> 0..2]
         /\ work' \in [Job -> {"none", "part", "whole"}]
         /\ \A k \in Job \ {j} : late'[k] = late[k] /\ work'[k] = work[k]
         /\ work'[j] = work[j] \/ (Kind[j] = "download" /\ work'[j] = "part")
         /\ work[j] = "whole" => work'[j] = "whole"
         /\ asked[j] => late'[j] \in {late[j], late[j] + 1}
<1> USE DEF TypeOK
<1>1. CASE persist(j)
  BY <1>1 DEF persist
<1>2. CASE no_image(j)
  BY <1>2 DEF no_image, Did
<1>3. CASE UNCHANGED <<late, work>>
  BY <1>3
<1> QED BY <1>1, <1>2, <1>3 DEF chunk

\* Every variable keeps its type, and the loop counter stays in its range.
LEMMA TypeInvInductive == TypeInv /\ [Next]_vars => TypeInv'
<1> SUFFICES ASSUME TypeInv, [Next]_vars
             PROVE  TypeInv'
  OBVIOUS
<1> USE JobsAssumption DEF TypeInv, TypeOK, ChunkHasWork
<1> USE DEF jobVars, queueVars, taskVars, workerVars, streamVars, history
<1>a. /\ "queued" \in Statuses /\ "running" \in Statuses /\ "error" \in Statuses
      /\ "cancelled" \in Statuses /\ "completed" \in Statuses
      /\ "book_fail" \in EventKinds /\ "cancelled" \in EventKinds
  BY DEF Statuses, Active, Terminal, EventKinds
<1>1. ASSUME NEW j \in Job, active_job_for(j) PROVE TypeInv'
  BY <1>1 DEF active_job_for
<1>2. ASSUME NEW j \in Job, insert_job(j) PROVE TypeInv'
  <2>1. row' \in [Job -> Statuses \union {"absent"}]
    BY <1>2, <1>a DEF insert_job
  <2> QED BY <1>2, <2>1 DEF insert_job
<1>3. ASSUME NEW j \in Job, enqueue_job(j) PROVE TypeInv'
  BY <1>3 DEF enqueue_job
<1>4. ASSUME NEW j \in Job, cancel_read(j) PROVE TypeInv'
  BY <1>4 DEF cancel_read
<1>5. ASSUME NEW j \in Job, cancel_flush(j) PROVE TypeInv'
  <2>1. inbox' \in Inboxes
    BY <1>5, <1>a, PublishType DEF cancel_flush, Inboxes
  <2> QED BY <1>5, <2>1 DEF cancel_flush, Inboxes
<1>6. ASSUME NEW j \in Job, cancel_end(j) PROVE TypeInv'
  <2>1. CASE /\ row' = [row EXCEPT ![j] = "cancelled"]
             /\ stale' = [stale EXCEPT ![j] = FALSE]
             /\ asked' = [asked EXCEPT ![j] = Polls(Kind[j])]
             /\ late' = [late EXCEPT ![j] = 0]
    <3>1. asked' \in [Job -> BOOLEAN] /\ late' \in [Job -> 0..2]
      BY <2>1 DEF Polls
    <3> QED BY <1>6, <1>a, <2>1, <3>1 DEF cancel_end
  <2>2. CASE UNCHANGED <<row, stale, asked, late>>
    BY <1>6, <2>2 DEF cancel_end
  <2> QED BY <1>6, <2>1, <2>2 DEF cancel_end
<1>7. ASSUME NEW j \in Job, pick(j) PROVE TypeInv'
  <2>1. CASE tries[j] < MaxTries
    <3>1. tries' \in [Job -> 0..MaxTries]
      BY <1>7, <2>1 DEF pick
    <3>2. /\ entry' = [entry EXCEPT ![j] = "taken"]
          /\ task' = [task EXCEPT ![j] = "claim"]
      BY <1>7, <2>1 DEF pick
    <3> QED BY <1>7, <3>1, <3>2 DEF pick
  <2>2. CASE ~(tries[j] < MaxTries)
    <3>1. /\ entry' = [entry EXCEPT ![j] = "none"]
          /\ UNCHANGED <<tries, task>>
      BY <1>7, <2>2 DEF pick
    <3> QED BY <1>7, <3>1 DEF pick
  <2> QED BY <2>1, <2>2
<1>8. ASSUME NEW j \in Job, claim(j) PROVE TypeInv'
  <2>1. row \in Rows
    BY DEF Rows
  <2>2. row' \in Rows
    BY <1>8, <1>a, <2>1, SetStatus DEF claim
  <2>3. /\ stale' \in [Job -> BOOLEAN]
        /\ task' \in [Job -> {"idle", "claim", "setup", "poll", "chunk", "close", "announce", "ack"}]
        /\ asked' \in [Job -> BOOLEAN] /\ late' \in [Job -> 0..2]
    BY <1>8 DEF claim
  <2>4. UNCHANGED <<request, queueVars, left, verdict, cancel, workerVars, streamVars, inbox, work>>
    BY <1>8 DEF claim
  <2>5. ChunkHasWork'
    BY <1>8, <2>4 DEF claim
  <2> QED BY <2>2, <2>3, <2>4, <2>5 DEF Rows
<1>9. ASSUME NEW j \in Job, setup(j) PROVE TypeInv'
  <2>1. CASE fail(j)
    <3>1. PICK v \in {"book_fail", "none"} : verdict' = [verdict EXCEPT ![j] = v]
      BY <2>1, FailType
    <3>2. /\ row' \in Rows /\ stale' = [stale EXCEPT ![j] = FALSE]
          /\ task' = [task EXCEPT ![j] = "announce"] /\ left' = left
      BY <2>1, FailType
    <3>3. /\ verdict' \in [Job -> EventKinds \union {"none"}]
          /\ stale' \in [Job -> BOOLEAN]
          /\ task' \in [Job -> {"idle", "claim", "setup", "poll", "chunk", "close", "announce", "ack"}]
      BY <1>a, <3>1, <3>2
    <3>4. UNCHANGED <<request, queueVars, cancel, workerVars, streamVars, inbox, history>>
      BY <1>9 DEF setup
    <3>5. ChunkHasWork'
      BY <3>2
    <3> QED BY <3>2, <3>3, <3>4, <3>5 DEF Rows
  <2>2. CASE ~fail(j)
    <3>1. PICK n \in 0..MaxChunks : left' = [left EXCEPT ![j] = n]
      BY <1>9, <2>2 DEF setup
    <3> QED BY <1>9, <2>2, <3>1 DEF setup
  <2> QED BY <2>1, <2>2
<1>10. ASSUME NEW j \in Job, poll(j) PROVE TypeInv'
  <2>1. /\ verdict' \in [Job -> EventKinds \union {"none"}]
        /\ UNCHANGED <<left, row, stale>>
    BY <1>10, <1>a DEF poll
  <2>2. /\ task' \in [Job -> {"idle", "claim", "setup", "poll", "chunk", "close", "announce", "ack"}]
        /\ \A k \in Job : task'[k] = "chunk" => left[k] > 0
    BY <1>10 DEF poll
  <2>3. work' \in [Job -> {"none", "part", "whole"}]
    BY <1>10 DEF poll, Did
  <2> QED BY <1>10, <2>1, <2>2, <2>3 DEF poll
<1>11. ASSUME NEW j \in Job, chunk(j) PROVE TypeInv'
  <2>1. CASE fail(j)
    <3>1. PICK v \in {"book_fail", "none"} : verdict' = [verdict EXCEPT ![j] = v]
      BY <2>1, FailType
    <3>2. /\ row' \in Rows /\ stale' = [stale EXCEPT ![j] = FALSE]
          /\ task' = [task EXCEPT ![j] = "announce"] /\ left' = left
      BY <2>1, FailType
    <3>3. late' \in [Job -> 0..2] /\ work' \in [Job -> {"none", "part", "whole"}]
      BY <1>11, ChunkHistory
    <3>4. UNCHANGED <<request, queueVars, cancel, workerVars, streamVars, inbox, asked>>
      BY <1>11 DEF chunk
    <3>5. /\ row' \in Rows /\ stale' \in [Job -> BOOLEAN]
          /\ verdict' \in [Job -> EventKinds \union {"none"}]
      BY <1>a, <3>1, <3>2 DEF Rows
    <3>6. ChunkHasWork'
      BY <3>2
    <3> QED BY <3>2, <3>3, <3>4, <3>5, <3>6 DEF Rows
  <2>2. CASE persist(j) \/ no_image(j)
    <3>1. late' \in [Job -> 0..2] /\ work' \in [Job -> {"none", "part", "whole"}]
      BY <1>11, ChunkHistory
    <3>2. /\ task' = [task EXCEPT ![j] = "poll"] \/ task' = [task EXCEPT ![j] = "close"]
          /\ left' = [left EXCEPT ![j] = @ - 1] \/ left' = left
          /\ stale' = [stale EXCEPT ![j] = FALSE] \/ stale' = stale
          /\ UNCHANGED <<row, verdict>>
      BY <2>2 DEF persist, no_image
    <3>3. left' \in [Job -> 0..MaxChunks]
      <4>1. task[j] = "chunk" /\ left[j] > 0
        BY <1>11 DEF chunk
      <4> QED BY <3>2, <4>1
    <3>4. ChunkHasWork'
      BY <3>2
    <3>5. /\ task' \in [Job -> {"idle", "claim", "setup", "poll", "chunk", "close", "announce", "ack"}]
          /\ stale' \in [Job -> BOOLEAN]
      <4>1. /\ "poll" \in {"idle", "claim", "setup", "poll", "chunk", "close", "announce", "ack"}
            /\ "close" \in {"idle", "claim", "setup", "poll", "chunk", "close", "announce", "ack"}
        OBVIOUS
      <4>2. stale' \in [Job -> BOOLEAN]
        <5>1. CASE stale' = [stale EXCEPT ![j] = FALSE]
          BY <5>1
        <5>2. CASE stale' = stale
          BY <5>2
        <5> QED BY <3>2, <5>1, <5>2
      <4>3. CASE task' = [task EXCEPT ![j] = "poll"]
        BY <4>1, <4>2, <4>3
      <4>4. CASE task' = [task EXCEPT ![j] = "close"]
        BY <4>1, <4>2, <4>4
      <4> QED BY <3>2, <4>3, <4>4
    <3>6. UNCHANGED <<request, queueVars, cancel, workerVars, streamVars, inbox, asked>>
      BY <1>11 DEF chunk
    <3> QED BY <3>1, <3>2, <3>3, <3>4, <3>5, <3>6
  <2> QED BY <1>11, <2>1, <2>2 DEF chunk
<1>12. ASSUME NEW j \in Job, close(j) PROVE TypeInv'
  <2>1. PICK st \in FinalStatuses(Kind[j]) :
           /\ set_status(j, st)
           /\ verdict' = [verdict EXCEPT ![j] = terminal_event(st)]
    BY <1>12 DEF close
  <2>2. st \in Statuses /\ terminal_event(st) \in EventKinds
    BY <1>a, TerminalEventType DEF FinalStatuses
  <2>3. row' \in Rows
    BY <2>1, <2>2, SetStatus DEF Rows
  <2>4. verdict' \in [Job -> EventKinds \union {"none"}]
    BY <2>1, <2>2
  <2> QED BY <1>12, <2>3, <2>4 DEF close, Rows
<1>13. ASSUME NEW j \in Job, announce(j) PROVE TypeInv'
  <2>1. inbox' \in Inboxes
    BY <1>13, PublishType DEF announce, Inboxes
  <2> QED BY <1>13, <2>1 DEF announce, Inboxes
<1>14. ASSUME NEW j \in Job, ack(j) PROVE TypeInv'
  BY <1>14 DEF ack
<1>15. ASSUME NEW j \in Job, die(j) PROVE TypeInv'
  BY <1>15 DEF die
<1>16. ASSUME NEW j \in Job, grow_stale(j) PROVE TypeInv'
  BY <1>16 DEF grow_stale
<1>17. CASE crash
  <2>1. crashes < MaxCrashes /\ crashes' = crashes + 1 /\ up' = FALSE
    BY <1>17 DEF crash
  <2>2. task' \in [Job -> {"idle"}] /\ verdict' \in [Job -> {"none"}]
    BY <1>17 DEF crash
  <2>3. entry' \in [Job -> {"none", "ready", "taken"}]
    BY <1>17 DEF crash
  <2>4. crashes' \in 0..MaxCrashes /\ up' \in BOOLEAN
    <3>1. crashes \in Nat /\ MaxCrashes \in Nat
      OBVIOUS
    <3>2. crashes + 1 \in 0..MaxCrashes
      BY <3>1, <2>1
    <3> QED BY <2>1, <3>2
  <2>5. ChunkHasWork'
    BY <2>2
  <2> QED BY <1>17, <2>2, <2>3, <2>4, <2>5 DEF crash
<1>18. CASE startup
  <2>1. row' \in Rows
    BY <1>18, <1>a DEF startup, Rows
  <2> QED BY <1>18, <2>1 DEF startup, Rows
<1>19. CASE reap_stale_jobs
  <2>1. row' \in Rows /\ inbox' \in Inboxes
    BY <1>19, <1>a DEF reap_stale_jobs, Rows, Inboxes
  <2> QED BY <1>19, <2>1 DEF reap_stale_jobs, Rows, Inboxes
<1>20. ASSUME NEW s \in Stream, job_events(s) PROVE TypeInv'
  <2>1. inbox' \in Inboxes
    BY <1>20, TerminalEventType DEF job_events, Inboxes
  <2> QED BY <1>20, <2>1 DEF job_events, Inboxes
<1>21. ASSUME NEW s \in Stream, NEW kind \in EventKinds, Close(s, kind) PROVE TypeInv'
  BY <1>21 DEF Close
<1>22. ASSUME NEW s \in Stream, subscribe(s) PROVE TypeInv'
  <2>1. CASE inbox[s] # "none"
    BY <1>21, <1>22, <2>1 DEF subscribe
  <2>2. CASE inbox[s] = "none"
    <3>1. sphase' = [sphase EXCEPT ![s] = "live"]
      BY <1>22, <2>2 DEF subscribe
    <3>2. UNCHANGED <<jobVars, request, queueVars, taskVars, cancel, workerVars, sjob, got, inbox, history>>
      BY <1>22, <2>2 DEF subscribe
    <3> QED BY <3>1, <3>2
  <2> QED BY <2>1, <2>2
<1>23. ASSUME NEW s \in Stream, relay(s) \/ check_terminal(s) \/ stream_timeout(s) PROVE TypeInv'
  <2>1. CASE relay(s)
    BY <1>21, <2>1 DEF relay
  <2>2. CASE check_terminal(s)
    BY <1>21, <2>2, TerminalEventType DEF check_terminal
  <2>3. CASE stream_timeout(s)
    BY <1>21, <1>a, <2>3 DEF stream_timeout
  <2> QED BY <1>23, <2>1, <2>2, <2>3
<1>24. CASE UNCHANGED vars
  BY <1>24 DEF vars
<1> QED
  BY <1>1, <1>2, <1>3, <1>4, <1>5, <1>6, <1>7, <1>8, <1>9, <1>10, <1>11, <1>12, <1>13, <1>14,
     <1>15, <1>16, <1>17, <1>18, <1>19, <1>20, <1>22, <1>23, <1>24 DEF Next

\* Type correctness: ARQ's delivery count never passes max_tries and the loop
\* over chunks never runs past its end, whatever interrupts it.
THEOREM TypeCorrect == Spec => []TypeOK
<1>1. Init => TypeInv
  BY JobsAssumption DEF Init, TypeInv, TypeOK, ChunkHasWork
<1>2. TypeInv => TypeOK
  BY DEF TypeInv
<1> QED
  BY <1>1, <1>2, TypeInvInductive, PTL DEF Spec

-----------------------------------------------------------------------------
\* What the worker may hold of a job, and what the API is about to hand it.
DurableInv ==
    \A j \in Job :
       Kind[j] # "eager" /\ (request[j] = "saved" \/ entry[j] # "none" \/ task[j] # "idle")
         => row[j] # "absent"

LEMMA DurableInductive == TypeInv /\ DurableInv /\ [Next]_vars => DurableInv'
<1> SUFFICES ASSUME TypeInv, DurableInv, [Next]_vars
             PROVE  DurableInv'
  OBVIOUS
<1> USE DEF TypeInv, TypeOK, DurableInv, jobVars, queueVars, taskVars, workerVars, streamVars, history
<1>1. CASE UNCHANGED <<row, request, entry, task>>
  BY <1>1
<1>2. ASSUME NEW j \in Job,
             active_job_for(j) \/ insert_job(j) \/ enqueue_job(j) \/ cancel_end(j)
      PROVE  DurableInv'
  <2>1. CASE active_job_for(j)
    <3>1. request'[j] # "saved" /\ \A k \in Job \ {j} : request'[k] = request[k]
      BY <2>1 DEF active_job_for
    <3> QED BY <2>1, <3>1 DEF active_job_for
  <2>2. CASE insert_job(j)
    <3>1. Kind[j] # "eager" => row' = [row EXCEPT ![j] = "queued"]
      BY <2>2 DEF insert_job
    <3>2. /\ \A k \in Job \ {j} : request'[k] = request[k] /\ row'[k] = row[k]
          /\ UNCHANGED <<entry, task>>
      BY <2>2 DEF insert_job
    <3> QED BY <3>1, <3>2
  <2>3. CASE enqueue_job(j)
    <3>1. UNCHANGED <<row, task>> /\ (Kind[j] # "eager" => request[j] = "saved")
      BY <2>3 DEF enqueue_job
    <3>2. \A k \in Job \ {j} : entry'[k] = entry[k] /\ request'[k] = request[k]
      BY <2>3 DEF enqueue_job
    <3> QED BY <3>1, <3>2
  <2>4. CASE cancel_end(j)
    <3>1. \A k \in Job : row[k] # "absent" => row'[k] # "absent"
      BY <2>4 DEF cancel_end
    <3> QED BY <2>4, <3>1 DEF cancel_end
  <2> QED BY <1>2, <2>1, <2>2, <2>3, <2>4
<1>3. ASSUME NEW j \in Job, TaskStep(j)
      PROVE  DurableInv'
  <2>1. CASE pick(j)
    BY <2>1 DEF pick
  <2>2. CASE claim(j)
    <3>1. \A k \in Job : row[k] # "absent" => row'[k] # "absent"
      BY <2>2 DEF claim, set_status
    <3>2. task[j] # "idle" /\ \A k \in Job \ {j} : task'[k] = task[k]
      BY <2>2 DEF claim
    <3> QED BY <2>2, <3>1, <3>2 DEF claim
  <2>3. CASE setup(j)
    <3>1. \A k \in Job : row[k] # "absent" => row'[k] # "absent"
      BY <2>3, FailType DEF setup
    <3>2. task[j] # "idle" /\ \A k \in Job \ {j} : task'[k] = task[k]
      BY <2>3, FailType DEF setup
    <3> QED BY <2>3, <3>1, <3>2 DEF setup
  <2>4. CASE poll(j)
    <3>1. task[j] # "idle" /\ \A k \in Job \ {j} : task'[k] = task[k]
      BY <2>4 DEF poll
    <3> QED BY <2>4, <3>1 DEF poll
  <2>5. CASE chunk(j)
    <3>1. \A k \in Job : row[k] # "absent" => row'[k] # "absent"
      BY <2>5, FailType DEF chunk, persist, no_image
    <3>2. task[j] # "idle" /\ \A k \in Job \ {j} : task'[k] = task[k]
      BY <2>5, FailType DEF chunk, persist, no_image
    <3> QED BY <2>5, <3>1, <3>2 DEF chunk
  <2>6. CASE close(j)
    <3>1. \A k \in Job : row[k] # "absent" => row'[k] # "absent"
      BY <2>6 DEF close, FinalStatuses, set_status
    <3>2. task[j] # "idle" /\ \A k \in Job \ {j} : task'[k] = task[k]
      BY <2>6 DEF close
    <3> QED BY <2>6, <3>1, <3>2 DEF close
  <2>7. CASE announce(j) \/ ack(j) \/ die(j)
    BY <2>7 DEF announce, ack, die
  <2> QED BY <1>3, <2>1, <2>2, <2>3, <2>4, <2>5, <2>6, <2>7 DEF TaskStep
<1>4. CASE crash \/ startup \/ reap_stale_jobs
  <2>1. CASE crash
    BY <2>1 DEF crash
  <2>2. CASE startup \/ reap_stale_jobs
    <3>1. \A k \in Job : row[k] # "absent" => row'[k] # "absent"
      BY <2>2 DEF startup, reap_stale_jobs
    <3> QED BY <2>2, <3>1 DEF startup, reap_stale_jobs
  <2> QED BY <1>4, <2>1, <2>2
<1> QED
  BY <1>1, <1>2, <1>3, <1>4
     DEF Next, vars, TaskStep, cancel_read, cancel_flush, grow_stale, job_events, subscribe,
         relay, check_terminal, stream_timeout, Close

\* "durable before enqueue": where the endpoint commits first, an entry, or a
\* task at work, always has its row -- so the tasks' UPDATE by id never silently
\* matches nothing.
THEOREM Durable == Spec => []DurableBeforeEnqueue
<1>1. Init => TypeInv /\ DurableInv
  BY JobsAssumption DEF Init, TypeInv, TypeOK, ChunkHasWork, DurableInv
<1>2. DurableInv => DurableBeforeEnqueue
  BY DEF DurableInv, DurableBeforeEnqueue
<1> QED
  BY <1>1, <1>2, TypeInvInductive, DurableInductive, PTL DEF Spec

-----------------------------------------------------------------------------
\* What an all_done may be said of: a run went through all the chunks, or it
\* is a download that stopped on its way.
Told(j) == work[j] = "whole" \/ (Kind[j] = "download" /\ work[j] = "part")

\* Wherever "completed" shows -- the row, a verdict not yet announced, an event
\* on its way to a stream -- and where a run is about to write it, the loop over
\* the chunks was left that way.
DoneInv ==
    /\ \A j \in Job : row[j] = "completed" \/ verdict[j] = "all_done" \/ task[j] = "close" => Told(j)
    /\ \A s \in Stream : inbox[s] = "all_done" \/ got[s] = "all_done" => Told(sjob[s])

\* Nothing takes back what a run got through.
LEMMA ToldStays ==
  ASSUME TypeInv, NEW j \in Job, poll(j) \/ chunk(j)
  PROVE  \A k \in Job : Told(k) => Told(k)'
<1> USE DEF TypeInv, TypeOK
<1>1. CASE poll(j)
  BY <1>1 DEF poll, Did, Told
<1>2. CASE chunk(j)
  <2>1. /\ \A k \in Job \ {j} : work'[k] = work[k]
        /\ work'[j] = work[j] \/ (Kind[j] = "download" /\ work'[j] = "part")
        /\ work[j] = "whole" => work'[j] = "whole"
    BY <1>2, ChunkHistory
  <2> QED BY <2>1 DEF Told
<1> QED BY <1>1, <1>2

\* publish hands out nothing that was not already claimed of the job.
LEMMA PublishDone ==
  ASSUME TypeOK, DoneInv, NEW j \in Job, NEW kind, publish(j, kind),
         kind = "all_done" => Told(j)
  PROVE  \A s \in Stream : inbox'[s] = "all_done" => Told(sjob[s])
BY DEF publish, DoneInv, TypeOK

LEMMA DoneInductive == TypeInv /\ DoneInv /\ [Next]_vars => DoneInv'
<1> SUFFICES ASSUME TypeInv, DoneInv, [Next]_vars
             PROVE  DoneInv'
  OBVIOUS
<1> USE DEF TypeInv, TypeOK, jobVars, queueVars, taskVars, workerVars, streamVars, history
<1>0. ASSUME work' = work PROVE \A k \in Job : Told(k)' <=> Told(k)
  BY <1>0 DEF Told
<1>1. CASE UNCHANGED <<row, verdict, task, inbox, got, sjob, work>>
  BY <1>0, <1>1 DEF DoneInv
<1>2. ASSUME NEW j \in Job, insert_job(j) \/ cancel_end(j) \/ claim(j)
      PROVE  DoneInv'
  <2>1. \A k \in Job : row'[k] = row[k] \/ row'[k] \in {"queued", "cancelled", "running"}
    BY <1>2 DEF insert_job, cancel_end, claim, set_status
  <2>2. \A k \in Job : task'[k] = "close" => task[k] = "close"
    BY <1>2 DEF insert_job, cancel_end, claim
  <2>3. UNCHANGED <<verdict, inbox, got, sjob, work>>
    BY <1>2 DEF insert_job, cancel_end, claim
  <2> QED BY <1>0, <2>1, <2>2, <2>3 DEF DoneInv
<1>3. ASSUME NEW j \in Job, cancel_flush(j)
      PROVE  DoneInv'
  <2>1. \A s \in Stream : inbox'[s] = "all_done" => Told(sjob[s])
    BY <1>3, PublishDone DEF cancel_flush
  <2>2. UNCHANGED <<row, task, verdict, got, sjob, work>>
    BY <1>3 DEF cancel_flush
  <2> QED BY <1>0, <2>1, <2>2 DEF DoneInv
<1>4. ASSUME NEW j \in Job, setup(j)
      PROVE  DoneInv'
  <2>1. /\ \A k \in Job : row'[k] = row[k] \/ row'[k] = "error"
        /\ \A k \in Job : verdict'[k] = verdict[k] \/ verdict'[k] \in {"book_fail", "none"}
        /\ \A k \in Job : task'[k] = "close" => task[k] = "close"
    <3>1. CASE fail(j)
      BY <3>1, FailType
    <3>2. CASE UNCHANGED <<row, verdict>> /\ task' = [task EXCEPT ![j] = "poll"]
      BY <3>2
    <3> QED BY <1>4, <3>1, <3>2 DEF setup
  <2>2. UNCHANGED <<inbox, got, sjob, work>>
    BY <1>4 DEF setup
  <2> QED BY <1>0, <2>1, <2>2 DEF DoneInv
<1>5. ASSUME NEW j \in Job, chunk(j)
      PROVE  DoneInv'
  <2>1. /\ \A k \in Job : row'[k] = row[k] \/ row'[k] = "error"
        /\ \A k \in Job : verdict'[k] = verdict[k] \/ verdict'[k] \in {"book_fail", "none"}
        /\ \A k \in Job : task'[k] = "close" => task[k] = "close" \/ Told(k)'
    <3>1. CASE fail(j)
      BY <3>1, FailType
    <3>2. CASE persist(j)
      BY <3>2 DEF persist
    <3>3. CASE no_image(j)
      <4>1. task'[j] = "close" => Told(j)'
        BY <3>3 DEF no_image, Did, Told
      <4>2. UNCHANGED <<row, verdict>> /\ \A k \in Job \ {j} : task'[k] = task[k]
        BY <3>3 DEF no_image
      <4> QED BY <4>1, <4>2
    <3> QED BY <1>5, <3>1, <3>2, <3>3 DEF chunk
  <2>2. UNCHANGED <<inbox, got, sjob>>
    BY <1>5 DEF chunk
  <2>3. \A k \in Job : Told(k) => Told(k)'
    BY <1>5, ToldStays
  <2> QED BY <2>1, <2>2, <2>3 DEF DoneInv
<1>6. ASSUME NEW j \in Job, poll(j)
      PROVE  DoneInv'
  <2>1. \A k \in Job : verdict'[k] = verdict[k] \/ verdict'[k] = "cancelled"
    BY <1>6 DEF poll
  <2>2. \A k \in Job : task'[k] = "close" => task[k] = "close" \/ Told(k)'
    <3>1. task'[j] = "close" => left[j] = 0 \/ (cancel_seen(j) /\ Kind[j] = "download")
      BY <1>6 DEF poll
    <3>2. task'[j] = "close" => Told(j)'
      BY <1>6, <3>1 DEF poll, Did, Told
    <3>3. \A k \in Job \ {j} : task'[k] = task[k]
      BY <1>6 DEF poll
    <3> QED BY <3>2, <3>3
  <2>3. UNCHANGED <<row, inbox, got, sjob>>
    BY <1>6 DEF poll
  <2>4. \A k \in Job : Told(k) => Told(k)'
    BY <1>6, ToldStays
  <2> QED BY <2>1, <2>2, <2>3, <2>4 DEF DoneInv
<1>7. ASSUME NEW j \in Job, close(j)
      PROVE  DoneInv'
  <2>1. PICK st \in FinalStatuses(Kind[j]) :
           /\ set_status(j, st)
           /\ verdict' = [verdict EXCEPT ![j] = terminal_event(st)]
    BY <1>7 DEF close
  <2>2. Told(j) /\ UNCHANGED <<inbox, got, sjob, work>>
    BY <1>7 DEF close, DoneInv
  <2>3. \A k \in Job : k # j => row'[k] = row[k] /\ verdict'[k] = verdict[k]
    BY <2>1 DEF set_status
  <2>4. \A k \in Job : task'[k] = "close" => task[k] = "close"
    BY <1>7 DEF close
  <2> QED BY <1>0, <2>2, <2>3, <2>4 DEF DoneInv
<1>8. ASSUME NEW j \in Job, announce(j)
      PROVE  DoneInv'
  <2>1. \A s \in Stream : inbox'[s] = "all_done" => Told(sjob[s])
    <3>1. CASE verdict[j] = "none"
      BY <1>8, <3>1 DEF announce, DoneInv
    <3>2. CASE verdict[j] # "none"
      BY <1>8, <3>2, PublishDone DEF announce, DoneInv
    <3> QED BY <3>1, <3>2
  <2>2. UNCHANGED <<row, got, sjob, work>>
    BY <1>8 DEF announce
  <2>3. \A k \in Job : /\ verdict'[k] = "all_done" => verdict[k] = "all_done"
                       /\ task'[k] = "close" => task[k] = "close"
    BY <1>8 DEF announce
  <2> QED BY <1>0, <2>1, <2>2, <2>3 DEF DoneInv
<1>9. ASSUME NEW j \in Job, pick(j) \/ ack(j) \/ die(j)
      PROVE  DoneInv'
  <2>1. UNCHANGED <<row, inbox, got, sjob, work>>
    BY <1>9 DEF pick, ack, die
  <2>2. \A k \in Job : /\ verdict'[k] = "all_done" => verdict[k] = "all_done"
                       /\ task'[k] = "close" => task[k] = "close"
    BY <1>9 DEF pick, ack, die
  <2> QED BY <1>0, <2>1, <2>2 DEF DoneInv
<1>10. CASE crash \/ startup \/ reap_stale_jobs
  <2>0. UNCHANGED <<got, sjob, work>>
    BY <1>10 DEF crash, startup, reap_stale_jobs
  <2>1. CASE crash
    BY <1>0, <2>0, <2>1 DEF crash, DoneInv
  <2>2. CASE startup
    BY <1>0, <2>0, <2>2 DEF startup, DoneInv
  <2>3. CASE reap_stale_jobs
    BY <1>0, <2>0, <2>3 DEF reap_stale_jobs, DoneInv
  <2> QED BY <1>10, <2>1, <2>2, <2>3
<1>11. ASSUME NEW s \in Stream, job_events(s)
       PROVE  DoneInv'
  <2>1. inbox'[s] = "all_done" => Told(sjob[s])
    BY <1>11 DEF job_events, terminal_event, DoneInv
  <2>2. UNCHANGED <<row, task, verdict, got, sjob, work>> /\ \A t \in Stream \ {s} : inbox'[t] = inbox[t]
    BY <1>11 DEF job_events
  <2> QED BY <1>0, <2>1, <2>2 DEF DoneInv
<1>12. ASSUME NEW s \in Stream, NEW kind, Close(s, kind), kind = "all_done" => Told(sjob[s])
       PROVE  DoneInv'
  <2>1. UNCHANGED <<row, task, verdict, sjob, work>>
    BY <1>12 DEF Close
  <2>2. /\ got'[s] = kind /\ inbox'[s] = "none"
        /\ \A t \in Stream \ {s} : inbox'[t] = inbox[t] /\ got'[t] = got[t]
    BY <1>12 DEF Close
  <2> QED BY <1>0, <1>12, <2>1, <2>2 DEF DoneInv
<1>13. ASSUME NEW s \in Stream, subscribe(s) \/ relay(s) \/ check_terminal(s) \/ stream_timeout(s)
       PROVE  DoneInv'
  <2>1. CASE relay(s)
    BY <1>12, <2>1 DEF relay, DoneInv
  <2>2. CASE check_terminal(s)
    <3>1. terminal_event(row[sjob[s]]) = "all_done" => Told(sjob[s])
      BY DEF terminal_event, DoneInv
    <3> QED BY <1>12, <2>2, <3>1 DEF check_terminal
  <2>3. CASE stream_timeout(s)
    BY <1>12, <2>3 DEF stream_timeout
  <2>4. CASE subscribe(s)
    <3>1. CASE inbox[s] # "none"
      BY <1>12, <2>4, <3>1 DEF subscribe, DoneInv
    <3>2. CASE inbox[s] = "none"
      BY <1>1, <2>4, <3>2 DEF subscribe
    <3> QED BY <3>1, <3>2
  <2> QED BY <1>13, <2>1, <2>2, <2>3, <2>4
<1> QED
  BY <1>1, <1>2, <1>3, <1>4, <1>5, <1>6, <1>7, <1>8, <1>9, <1>10, <1>11, <1>13
     DEF Next, vars, active_job_for, enqueue_job, cancel_read, grow_stale

\* A browser told all_done is never lied to: over lost events, late
\* subscriptions, second deliveries, cancels and reaps, a run of the job had
\* gone through all its chunks when the stream closed, or it was a download
\* that stopped on its way.
THEOREM AllDoneIsTrue == Spec => []NoFalseAllDone
<1>1. Init => TypeInv /\ DoneInv
  BY JobsAssumption DEF Init, TypeInv, TypeOK, ChunkHasWork, DoneInv
<1>2. DoneInv => NoFalseAllDone
  BY DEF DoneInv, NoFalseAllDone, Told
<1> QED
  BY <1>1, <1>2, TypeInvInductive, DoneInductive, PTL DEF Spec

-----------------------------------------------------------------------------
(* Jobs implements JobBoard: every step is a step of the board or leaves   *)
(* it as it is.                                                            *)

\* A row is created once, and only rows that exist are cancelled.
BoardInv ==
    \A j \in Job :
        /\ request[j] \in {"new", "free", "sent"} => row[j] = "absent"
        /\ cancel[j] # "idle" => row[j] # "absent"

\* Whatever changes rows that exist to terminal statuses, settles them.
LEMMA SettleStep ==
  ASSUME row' \in Rows, row \in Rows, BudgetLeft' = BudgetLeft,
         \A j \in Job : row'[j] # row[j] => row[j] # "absent" /\ row'[j] \in Terminal
  PROVE  [Board!BoardNext]_(Board!boardVars)
<1> DEFINE S == {j \in Job : row'[j] # row[j]}
           f == [j \in S |-> row'[j]]
<1>1. CASE S = {}
  <2>1. row' = row
    BY <1>1 DEF Rows
  <2> QED BY <2>1 DEF Board!boardVars
<1>2. CASE S # {}
  <2>1. f \in [S -> Board!Terminal]
    BY DEF Terminal, Board!Terminal
  <2>2. row' = [j \in Job |-> IF j \in S THEN f[j] ELSE row[j]]
    BY DEF Rows
  <2>3. Board!Settle
    BY <1>2, <2>1, <2>2 DEF Board!Settle
  <2> QED BY <2>3 DEF Board!BoardNext
<1> QED BY <1>1, <1>2

\* A step that leaves rows and budget alone is invisible on the board.
LEMMA BoardStutter ==
  ASSUME row' = row, tries' = tries, \A j \in Job : task'[j] = "claim" <=> task[j] = "claim"
  PROVE  [Board!BoardNext]_(Board!boardVars)
<1>1. BudgetLeft' = BudgetLeft
  BY DEF BudgetLeft
<1> QED BY <1>1 DEF Board!boardVars

\* A start that dies before it claims its row is forfeited.
LEMMA ForfeitStep ==
  ASSUME TypeOK, row' = row, tries' = tries,
         \A j \in Job : task'[j] = "claim" => task[j] = "claim"
  PROVE  [Board!BoardNext]_(Board!boardVars)
<1> DEFINE S == {j \in Job : task[j] = "claim" /\ task'[j] # "claim"}
<1>1. CASE S = {}
  BY <1>1, BoardStutter
<1>2. CASE S # {}
  <2>1. \A j \in Job : tries[j] \in 0..MaxTries
    BY DEF TypeOK
  <2>2. \A j \in S : BudgetLeft[j] > 0
    BY <2>1, JobsAssumption DEF BudgetLeft
  <2>3. \A j \in S : (MaxTries - tries[j]) + 1 - 1 = MaxTries - tries[j] + 0
    BY <2>1, JobsAssumption
  <2>4. BudgetLeft' = [j \in Job |-> IF j \in S THEN BudgetLeft[j] - 1 ELSE BudgetLeft[j]]
    BY <2>1, <2>3, JobsAssumption DEF BudgetLeft
  <2>5. Board!Forfeit
    BY <1>2, <2>2, <2>4 DEF Board!Forfeit
  <2> QED BY <2>5 DEF Board!BoardNext
<1> QED BY <1>1, <1>2

\* Which rows a step may change: claim makes one 'running', every other writer
\* but insert_job settles rows that exist.
Settling == \A k \in Job : row'[k] # row[k] => row[k] # "absent" /\ row'[k] \in Terminal

\* What a run of a task does to the rows.
LEMMA TaskRows ==
  ASSUME TypeInv, NEW j \in Job, TaskStep(j), ~claim(j)
  PROVE  Settling /\ UNCHANGED <<request, cancel>>
<1> USE DEF TypeInv, TypeOK, Settling, Terminal
<1>1. CASE pick(j) \/ poll(j) \/ announce(j) \/ ack(j) \/ die(j)
  <2>1. UNCHANGED <<row, request, cancel>>
    BY <1>1 DEF pick, poll, announce, ack, die, jobVars
  <2> QED BY <2>1
<1>2. CASE setup(j) \/ chunk(j)
  <2>1. UNCHANGED <<request, cancel>>
    BY <1>2 DEF setup, chunk
  <2>2. CASE fail(j)
    BY <2>1, <2>2, FailType
  <2>3. CASE ~fail(j)
    BY <1>2, <2>1, <2>3 DEF setup, chunk, persist, no_image, jobVars
  <2> QED BY <2>2, <2>3
<1>3. CASE close(j)
  <2>1. PICK st \in FinalStatuses(Kind[j]) : set_status(j, st)
    BY <1>3 DEF close
  <2>2. st \in Terminal
    BY DEF FinalStatuses
  <2>3. UNCHANGED <<request, cancel>>
    BY <1>3 DEF close
  <2> QED BY <2>1, <2>2, <2>3 DEF set_status
<1> QED BY <1>1, <1>2, <1>3 DEF TaskStep

\* The boot sweep and the reaper.
LEMMA SweepRows ==
  ASSUME TypeInv, startup \/ reap_stale_jobs
  PROVE  Settling /\ UNCHANGED <<request, cancel, tries, task>>
<1>1. UNCHANGED <<request, cancel, tries, task>>
  BY DEF startup, reap_stale_jobs, queueVars, taskVars
<1>2. CASE startup
  <2>1. \/ row' = row
        \/ row' = [k \in Job |-> IF k \in {i \in Job : row[i] = "running"} THEN "error" ELSE row[k]]
    BY <1>2 DEF startup
  <2>2. \A k \in Job : row'[k] = row[k] \/ (row'[k] = "error" /\ row[k] = "running")
    BY <2>1
  <2> QED BY <1>1, <2>2 DEF Settling, Terminal
<1>3. CASE reap_stale_jobs
  <2>1. row' = [k \in Job |-> IF k \in {i \in Job : Reapable(i) /\ ~Locked(i)} THEN "error" ELSE row[k]]
    BY <1>3 DEF reap_stale_jobs
  <2>2. \A k \in Job : row'[k] = row[k] \/ (row'[k] = "error" /\ row[k] \in Active)
    BY <2>1 DEF Reapable
  <2> QED BY <1>1, <2>2 DEF Settling, Terminal, Active
<1> QED BY <1>1, <1>2, <1>3

\* A task runs only for the entry it was taken from, and nothing is in the queue
\* before its request is done.
QueueInv ==
    \A j \in Job :
        /\ task[j] # "idle" => entry[j] = "taken"
        /\ request[j] \in {"new", "free", "saved"} => entry[j] = "none"

LEMMA QueueInvInductive == TypeInv /\ QueueInv /\ [Next]_vars => QueueInv'
<1> SUFFICES ASSUME TypeInv, QueueInv, [Next]_vars
             PROVE  QueueInv'
  OBVIOUS
<1> USE DEF TypeInv, TypeOK, QueueInv, jobVars, queueVars, taskVars, workerVars, streamVars, history
<1>1. CASE UNCHANGED <<request, entry, task>>
  BY <1>1
<1>2. ASSUME NEW j \in Job, active_job_for(j) \/ insert_job(j) \/ enqueue_job(j)
      PROVE  QueueInv'
  <2>1. CASE active_job_for(j)
    BY <2>1 DEF active_job_for
  <2>2. CASE insert_job(j)
    BY <2>2 DEF insert_job
  <2>3. CASE enqueue_job(j)
    BY <2>3 DEF enqueue_job
  <2> QED BY <1>2, <2>1, <2>2, <2>3
<1>3. ASSUME NEW j \in Job, task[j] # "idle", UNCHANGED <<request, entry>>,
             NEW t, task' = [task EXCEPT ![j] = t]
      PROVE  QueueInv'
  BY <1>3
<1>4. ASSUME NEW j \in Job, task' = [task EXCEPT ![j] = "idle"],
             entry' = [entry EXCEPT ![j] = "none"], request' = request
      PROVE  QueueInv'
  BY <1>4
<1>5. ASSUME NEW j \in Job, pick(j)
      PROVE  QueueInv'
  BY <1>5 DEF pick
<1>6. ASSUME NEW j \in Job, setup(j) \/ chunk(j)
      PROVE  QueueInv'
  <2>1. CASE fail(j)
    BY <1>3, <1>6, <2>1 DEF setup, chunk, persist, no_image, fail
  <2>2. CASE ~fail(j)
    BY <1>3, <1>6, <2>2 DEF setup, chunk, persist, no_image
  <2> QED BY <2>1, <2>2
<1>7. ASSUME NEW j \in Job, claim(j) \/ poll(j) \/ close(j) \/ announce(j)
      PROVE  QueueInv'
  <2>1. CASE claim(j)
    BY <1>3, <2>1 DEF claim
  <2>2. CASE poll(j)
    BY <1>3, <2>2 DEF poll
  <2>3. CASE close(j)
    BY <1>3, <2>3 DEF close
  <2>4. CASE announce(j)
    BY <1>3, <2>4 DEF announce
  <2> QED BY <1>7, <2>1, <2>2, <2>3, <2>4
<1>8. ASSUME NEW j \in Job, ack(j) \/ die(j)
      PROVE  QueueInv'
  BY <1>4, <1>8 DEF ack, die
<1>9. CASE crash
  BY <1>9 DEF crash
<1>10. CASE startup \/ reap_stale_jobs
  BY <1>1, <1>10 DEF startup, reap_stale_jobs
<1>11. ASSUME NEW j \in Job, cancel_read(j) \/ cancel_flush(j) \/ cancel_end(j) \/ grow_stale(j)
       PROVE  QueueInv'
  BY <1>1, <1>11 DEF cancel_read, cancel_flush, cancel_end, grow_stale
<1>12. ASSUME NEW s \in Stream,
              job_events(s) \/ subscribe(s) \/ relay(s) \/ check_terminal(s) \/ stream_timeout(s)
       PROVE  QueueInv'
  BY <1>1, <1>12 DEF job_events, subscribe, relay, check_terminal, stream_timeout, Close
<1>13. CASE UNCHANGED vars
  BY <1>1, <1>13 DEF vars
<1> QED
  BY <1>2, <1>5, <1>6, <1>7, <1>8, <1>9, <1>10, <1>11, <1>12, <1>13 DEF Next

LEMMA BoardInvInductive == TypeInv /\ BoardInv /\ [Next]_vars => BoardInv'
<1> SUFFICES ASSUME TypeInv, BoardInv, [Next]_vars
             PROVE  BoardInv'
  OBVIOUS
<1>1. CASE UNCHANGED <<row, request, cancel>>
  BY <1>1 DEF BoardInv
<1>2. CASE Settling /\ UNCHANGED <<request, cancel>>
  <2>1. \A k \in Job : row'[k] = "absent" <=> row[k] = "absent"
    BY <1>2 DEF Settling, Terminal
  <2> QED BY <1>2, <2>1 DEF BoardInv
<1> USE DEF TypeInv, TypeOK, BoardInv, jobVars, queueVars, taskVars, workerVars, streamVars, history
<1>3. ASSUME NEW j \in Job,
             active_job_for(j) \/ insert_job(j) \/ enqueue_job(j)
      PROVE  BoardInv'
  <2>1. CASE active_job_for(j)
    <3>1. PICK v \in {"free", "done"} : request' = [request EXCEPT ![j] = v]
      BY <2>1 DEF active_job_for
    <3>2. request[j] = "new" /\ UNCHANGED <<row, cancel>>
      BY <2>1 DEF active_job_for
    <3> QED BY <3>1, <3>2
  <2>2. CASE insert_job(j)
    <3>1. request'[j] \in {"saved", "done"} /\ row'[j] \in {row[j], "queued"} /\ cancel' = cancel
      BY <2>2 DEF insert_job
    <3>2. \A k \in Job \ {j} : request'[k] = request[k] /\ row'[k] = row[k]
      BY <2>2 DEF insert_job
    <3> QED BY <3>1, <3>2
  <2>3. CASE enqueue_job(j)
    <3>1. UNCHANGED <<row, cancel>> /\ request[j] \in {"free", "saved"}
          /\ request'[j] = IF Kind[j] = "eager" /\ entry'[j] = "ready" THEN "sent" ELSE "done"
      BY <2>3 DEF enqueue_job
    <3>2. Kind[j] = "eager" => request[j] = "free"
      BY <2>3 DEF enqueue_job
    <3>3. \A k \in Job \ {j} : request'[k] = request[k]
      BY <2>3 DEF enqueue_job
    <3> QED BY <3>1, <3>2, <3>3
  <2> QED BY <1>3, <2>1, <2>2, <2>3
<1>4. ASSUME NEW j \in Job, cancel_read(j) \/ cancel_flush(j) \/ cancel_end(j)
      PROVE  BoardInv'
  BY <1>4 DEF cancel_read, cancel_flush, cancel_end, Active, Locked
<1>5. ASSUME NEW j \in Job, claim(j)
      PROVE  BoardInv'
  BY <1>5 DEF claim, set_status
<1>6. ASSUME NEW j \in Job, TaskStep(j)
      PROVE  BoardInv'
  BY <1>2, <1>5, <1>6, TaskRows
<1>7. CASE startup \/ reap_stale_jobs
  BY <1>2, <1>7, SweepRows
<1>8. CASE crash
  BY <1>1, <1>8 DEF crash
<1>9. ASSUME NEW j \in Job, grow_stale(j)
      PROVE  BoardInv'
  BY <1>1, <1>9 DEF grow_stale
<1>10. ASSUME NEW s \in Stream,
              job_events(s) \/ subscribe(s) \/ relay(s) \/ check_terminal(s) \/ stream_timeout(s)
       PROVE  BoardInv'
  BY <1>1, <1>10 DEF job_events, subscribe, relay, check_terminal, stream_timeout, Close
<1>11. CASE UNCHANGED vars
  BY <1>1, <1>11 DEF vars
<1> QED BY <1>3, <1>4, <1>6, <1>7, <1>8, <1>9, <1>10, <1>11 DEF Next, TaskStep

LEMMA BoardStep ==
  TypeInv /\ TypeInv' /\ BoardInv /\ QueueInv /\ [Next]_vars => [Board!BoardNext]_(Board!boardVars)
<1> SUFFICES ASSUME TypeInv, TypeInv', BoardInv, QueueInv, [Next]_vars
             PROVE  [Board!BoardNext]_(Board!boardVars)
  OBVIOUS
<1> DEFINE Goal == [Board!BoardNext]_(Board!boardVars)
<1>a. row \in Rows /\ row' \in Rows
  BY DEF TypeInv, TypeOK, Rows
<1>1. CASE UNCHANGED <<row, tries, task>>
  BY <1>1, BoardStutter
<1>2. CASE Settling /\ UNCHANGED tries /\ \A k \in Job : task'[k] = "claim" <=> task[k] = "claim"
  <2>1. BudgetLeft' = BudgetLeft
    BY <1>2 DEF BudgetLeft
  <2> QED BY <1>a, <1>2, <2>1, SettleStep DEF Settling
<1> USE DEF jobVars, queueVars, taskVars, workerVars, streamVars, history
<1>3. ASSUME NEW j \in Job, insert_job(j)
      PROVE  Goal
  <2>1. BudgetLeft' = BudgetLeft
    BY <1>3 DEF insert_job, BudgetLeft
  <2>2. CASE row' = row
    BY <2>1, <2>2 DEF Board!boardVars
  <2>3. CASE row' # row
    <3>1. row[j] = "absent" /\ row' = [row EXCEPT ![j] = "queued"]
      BY <1>3, <2>3 DEF insert_job, BoardInv
    <3>2. Board!Post(j)
      BY <2>1, <3>1 DEF Board!Post
    <3> QED BY <3>2 DEF Board!BoardNext
  <2> QED BY <2>2, <2>3
<1>4. ASSUME NEW j \in Job, cancel_end(j)
      PROVE  Goal
  <2>1. Settling
    BY <1>4 DEF cancel_end, Locked, Settling, BoardInv, TypeInv, TypeOK, Terminal
  <2> QED BY <1>2, <1>4, <2>1 DEF cancel_end
<1>5. ASSUME NEW j \in Job, pick(j)
      PROVE  Goal
  <2> USE JobsAssumption DEF TypeInv, TypeOK
  <2>1. CASE tries[j] < MaxTries
    <3>1. /\ tries' = [tries EXCEPT ![j] = @ + 1] /\ task' = [task EXCEPT ![j] = "claim"]
          /\ row' = row /\ entry[j] = "ready"
      BY <1>5, <2>1 DEF pick
    <3>2. task[j] = "idle"
      BY <3>1 DEF QueueInv
    <3>3. (MaxTries - (tries[j] + 1)) + 1 = (MaxTries - tries[j]) + 0
      OBVIOUS
    <3>4. BudgetLeft' = BudgetLeft
      BY <3>1, <3>2, <3>3 DEF BudgetLeft
    <3> QED BY <3>1, <3>4 DEF Board!boardVars
  <2>2. CASE ~(tries[j] < MaxTries)
    BY <1>1, <1>5, <2>2 DEF pick
  <2> QED BY <2>1, <2>2
<1>6. ASSUME NEW j \in Job, claim(j)
      PROVE  Goal
  <2> USE JobsAssumption DEF TypeInv, TypeOK
  <2>1. /\ task[j] = "claim" /\ set_status(j, "running")
        /\ task' = [task EXCEPT ![j] = "setup"] /\ tries' = tries
    BY <1>6 DEF claim
  <2>2. CASE row[j] = "absent"
    <3>1. row' = row
      BY <2>1, <2>2 DEF set_status
    <3> QED BY <2>1, <3>1, ForfeitStep
  <2>3. BudgetLeft[j] > 0 /\ (MaxTries - tries[j]) + 0 = BudgetLeft[j] - 1
    BY <2>1 DEF BudgetLeft
  <2>4. BudgetLeft' = [BudgetLeft EXCEPT ![j] = @ - 1]
    BY <2>1, <2>3 DEF BudgetLeft
  <2>5. CASE row[j] # "absent"
    <3>1. Board!Start(j)
      BY <2>1, <2>3, <2>4, <2>5 DEF Board!Start, set_status
    <3> QED BY <3>1 DEF Board!BoardNext
  <2> QED BY <2>2, <2>5
<1>7. ASSUME NEW j \in Job, TaskStep(j)
      PROVE  Goal
  <2>1. CASE die(j)
    <3>1. row' = row /\ tries' = tries /\ \A k \in Job : task'[k] = "claim" => task[k] = "claim"
      BY <2>1 DEF die, TypeInv, TypeOK
    <3> QED BY <3>1, ForfeitStep DEF TypeInv
  <2>2. CASE setup(j) \/ chunk(j) \/ poll(j) \/ close(j) \/ announce(j) \/ ack(j)
    <3>1. tries' = tries
      BY <2>2 DEF setup, chunk, poll, close, announce, ack
    <3>2. ~claim(j) /\ TaskStep(j)
      BY <1>7, <2>2 DEF claim, setup, chunk, poll, close, announce, ack
    <3>3. Settling
      BY <3>2, TaskRows
    <3>4. task[j] # "claim" /\ task'[j] # "claim" /\ \A k \in Job \ {j} : task'[k] = task[k]
      <4> USE DEF TypeInv, TypeOK
      <4>1. CASE fail(j) /\ (setup(j) \/ chunk(j))
        BY <4>1, FailType DEF setup, chunk
      <4>2. CASE ~fail(j) /\ (setup(j) \/ chunk(j))
        BY <4>2 DEF setup, chunk, persist, no_image
      <4>3. CASE poll(j)
        <5>1. task[j] = "poll" /\ \A k \in Job \ {j} : task'[k] = task[k]
          BY <4>3 DEF poll
        <5>2. task'[j] \in {"close", "ack", "announce", "chunk"}
          BY <4>3 DEF poll
        <5> QED BY <5>1, <5>2
      <4>4. CASE close(j) \/ announce(j) \/ ack(j)
        BY <4>4 DEF close, announce, ack
      <4> QED BY <2>2, <4>1, <4>2, <4>3, <4>4
    <3>5. \A k \in Job : task'[k] = "claim" <=> task[k] = "claim"
      BY <3>4
    <3> QED BY <1>2, <3>1, <3>3, <3>5
  <2> QED BY <1>5, <1>6, <1>7, <2>1, <2>2 DEF TaskStep
<1>8. CASE crash
  <2>1. row' = row /\ tries' = tries /\ \A k \in Job : task'[k] = "idle"
    BY <1>8 DEF crash
  <2> QED BY <2>1, ForfeitStep DEF TypeInv
<1>9. CASE startup \/ reap_stale_jobs
  BY <1>2, <1>9, SweepRows
<1>10. CASE UNCHANGED vars
  BY <1>1, <1>10 DEF vars
<1>11. ASSUME NEW s \in Stream,
              job_events(s) \/ subscribe(s) \/ relay(s) \/ check_terminal(s) \/ stream_timeout(s)
       PROVE  Goal
  BY <1>1, <1>11 DEF job_events, subscribe, relay, check_terminal, stream_timeout, Close
<1>12. ASSUME NEW j \in Job,
              active_job_for(j) \/ enqueue_job(j) \/ cancel_read(j) \/ cancel_flush(j) \/ grow_stale(j)
       PROVE  Goal
  BY <1>1, <1>12 DEF active_job_for, enqueue_job, cancel_read, cancel_flush, grow_stale
<1> QED
  BY <1>3, <1>4, <1>7, <1>8, <1>9, <1>10, <1>11, <1>12 DEF Next, TaskStep

\* Whoever writes to the rows -- requests, tasks, cancels, the reaper, the boot
\* sweep -- together they keep the promise of the job list: rows are posted
\* once, started at most max_tries times, and otherwise only settled.
THEOREM JobsImplementBoard == Spec => ImplementsBoard
<1>1. Init => TypeInv /\ BoardInv /\ QueueInv
  BY JobsAssumption DEF Init, TypeInv, TypeOK, ChunkHasWork, BoardInv, QueueInv
<1>2. Init => Board!BoardInit
  <2>1. (MaxTries - 0) + 0 = MaxTries
    BY JobsAssumption
  <2> QED BY <2>1 DEF Init, Board!BoardInit, BudgetLeft
<1> QED
  BY <1>1, <1>2, TypeInvInductive, BoardInvInductive, QueueInvInductive,
     BoardStep, PTL DEF Spec, ImplementsBoard, Board!BoardSpec
-----------------------------------------------------------------------------
\* CancelStopsSoon is not inductive.  While nobody claims a cancelled job, its
\* row is still cancelled wherever its run may go on to another chunk; and the
\* run that persisted a chunk since does not hold one.
CancelInv ==
    \A j \in Job : asked[j] =>
        /\ Polls(Kind[j])
        /\ task[j] \in {"setup", "poll", "chunk"} => row[j] = "cancelled"
        /\ late[j] \in {0, 1}
        /\ late[j] = 1 => task[j] \notin {"setup", "chunk"}

\* The part of CancelInv that is about one job.
Stopping(j) ==
    asked[j] =>
        /\ Polls(Kind[j])
        /\ task[j] \in {"setup", "poll", "chunk"} => row[j] = "cancelled"
        /\ late[j] \in {0, 1}
        /\ late[j] = 1 => task[j] \notin {"setup", "chunk"}

LEMMA CancelInductive == TypeInv /\ DurableInv /\ BoardInv /\ CancelInv /\ [Next]_vars => CancelInv'
<1> SUFFICES ASSUME TypeInv, DurableInv, BoardInv, CancelInv, [Next]_vars,
                    NEW i \in Job
             PROVE  Stopping(i)'
  BY DEF CancelInv, Stopping
<1> Stopping(i)
  BY DEF CancelInv, Stopping
<1> USE DEF TypeInv, TypeOK, Stopping, jobVars, queueVars, taskVars, workerVars, streamVars, history
<1>1. CASE UNCHANGED <<row, asked, late, task>>
  BY <1>1
<1>2. ASSUME NEW j \in Job, insert_job(j)
      PROVE  Stopping(i)'
  <2>1. UNCHANGED <<asked, late, task>>
    BY <1>2 DEF insert_job
  <2>2. row[i] = "cancelled" => row'[i] = "cancelled"
    <3>1. row[j] = "absent"
      BY <1>2 DEF insert_job, BoardInv
    <3> QED BY <1>2, <3>1 DEF insert_job
  <2> QED BY <2>1, <2>2
<1>3. ASSUME NEW j \in Job, cancel_end(j)
      PROVE  Stopping(i)'
  <2>1. task' = task
    BY <1>3 DEF cancel_end
  <2>2. CASE UNCHANGED <<jobVars, asked, late>>
    BY <2>1, <2>2
  <2>3. CASE /\ row' = [row EXCEPT ![j] = "cancelled"]
             /\ asked' = [asked EXCEPT ![j] = Polls(Kind[j])]
             /\ late' = [late EXCEPT ![j] = 0]
    BY <2>1, <2>3
  <2> QED BY <1>3, <2>2, <2>3 DEF cancel_end
<1>4. ASSUME NEW j \in Job, TaskStep(j)
      PROVE  Stopping(i)'
  <2>1. CASE i # j
    <3>1. task'[i] = task[i] /\ row'[i] = row[i] /\ asked'[i] = asked[i]
      BY <1>4, <2>1, FailType
         DEF TaskStep, pick, claim, set_status, setup, poll, chunk, persist, no_image,
             close, announce, ack, die
    <3>2. late'[i] = late[i]
      BY <1>4, <2>1, ChunkHistory
         DEF TaskStep, pick, claim, setup, poll, close, announce, ack, die
    <3> QED BY <3>1, <3>2
  <2>2. CASE i = j /\ poll(i)
    <3>1. UNCHANGED <<row, asked, late>> /\ task[i] = "poll"
      BY <2>2 DEF poll
    <3>2. asked[i] => task'[i] # "chunk" /\ task'[i] # "setup"
      <4>1. CASE left[i] = 0
        BY <2>2, <4>1 DEF poll
      <4>2. CASE left[i] > 0 /\ row[i] = "cancelled"
        BY <2>2, <4>2 DEF poll, cancel_seen, Polls
      <4> QED BY <3>1, <4>1, <4>2
    <3> QED BY <3>1, <3>2
  <2>3. CASE i = j /\ chunk(i)
    <3>1. task[i] = "chunk" /\ asked' = asked
      BY <2>3 DEF chunk
    <3>2. asked[i] => late'[i] \in {0, 1}
      BY <2>3, <3>1, ChunkHistory
    <3>3. /\ task'[i] \in {"poll", "close", "announce"}
          /\ task'[i] = "poll" => row' = row
      <4>1. CASE fail(i)
        BY <4>1, FailType
      <4>2. CASE persist(i) \/ no_image(i)
        BY <4>2 DEF persist, no_image
      <4> QED BY <2>3, <4>1, <4>2 DEF chunk
    <3> QED BY <3>1, <3>2, <3>3
  <2>4. CASE i = j /\ claim(i)
    BY <2>4 DEF claim
  <2>5. CASE i = j /\ setup(i)
    <3>1. task[i] = "setup" /\ UNCHANGED <<asked, late>>
      BY <2>5 DEF setup
    <3>2. CASE fail(i)
      <4>1. task'[i] = "announce"
        BY <3>2, FailType
      <4> QED BY <3>1, <4>1
    <3>3. CASE task' = [task EXCEPT ![i] = "poll"] /\ row' = row
      BY <3>1, <3>3
    <3> QED BY <2>5, <3>2, <3>3 DEF setup
  <2>6. CASE i = j /\ (pick(i) \/ close(i) \/ announce(i) \/ ack(i) \/ die(i))
    <3>1. UNCHANGED <<asked, late>>
      BY <2>6 DEF pick, close, announce, ack, die
    <3>2. task'[i] \notin {"setup", "poll", "chunk"} \/ (task' = task /\ row' = row)
      BY <2>6 DEF pick, close, announce, ack, die
    <3> QED BY <3>1, <3>2
  <2> QED BY <1>4, <2>1, <2>2, <2>3, <2>4, <2>5, <2>6 DEF TaskStep
<1>5. CASE crash \/ startup \/ reap_stale_jobs
  <2>1. UNCHANGED <<asked, late>>
    BY <1>5 DEF crash, startup, reap_stale_jobs
  <2>2. task'[i] = task[i] \/ task'[i] = "idle"
    BY <1>5 DEF crash, startup, reap_stale_jobs
  <2>3. row[i] = "cancelled" => row'[i] = "cancelled"
    BY <1>5 DEF crash, startup, reap_stale_jobs, Reapable, Active
  <2> QED BY <2>1, <2>2, <2>3
<1> QED
  BY <1>1, <1>2, <1>3, <1>4, <1>5
     DEF Next, vars, TaskStep, active_job_for, enqueue_job, cancel_read, cancel_flush, grow_stale,
         job_events, subscribe, relay, check_terminal, stream_timeout, Close

\* "A still-active worker stops at its next checkpoint", for any number of jobs,
\* chunks, deliveries and crashes: a committed cancel is followed by at most the
\* chunk the task was in, until some later claim rewrites the row.
THEOREM CancelStops == Spec => []CancelStopsSoon
<1>1. Init => TypeInv /\ DurableInv /\ BoardInv /\ CancelInv
  BY JobsAssumption DEF Init, TypeInv, TypeOK, ChunkHasWork, DurableInv, BoardInv, CancelInv
<1>2. CancelInv => CancelStopsSoon
  BY DEF CancelInv, CancelStopsSoon
<1> QED
  BY <1>1, <1>2, TypeInvInductive, DurableInductive, BoardInvInductive, CancelInductive, PTL DEF Spec

=============================================================================
